--------------------------- MODULE PlacementLemmas ---------------------------
(***************************************************************************)
(* Lemmas about Placement, for every fleet, job and view: each scheduler   *)
(* returns a gang, and it returns none only if there is none.              *)
(***************************************************************************)
EXTENDS Placement, FiniteLemmas, SequenceTheorems

-----------------------------------------------------------------------------
(* Lexicographic order.                                                    *)

\* Less on tuples of integers is irreflexive, total and transitive.
LEMMA LessOrder ==
  ASSUME NEW s \in Seq(Int), NEW t \in Seq(Int), NEW u \in Seq(Int)
  PROVE  /\ ~Less(s, s)
         /\ s # t => Less(s, t) \/ Less(t, s)
         /\ Less(s, t) /\ Less(t, u) => Less(s, u)
<1>0. \A w \in Seq(Int) : /\ Len(w) \in Nat /\ DOMAIN w = 1 .. Len(w)
                          /\ \A i \in 1 .. Len(w) : w[i] \in Int
  OBVIOUS
<1>1. ~Less(s, s)
  BY <1>0 DEF Less
<1>2. ASSUME s # t PROVE Less(s, t) \/ Less(t, s)
  <2> DEFINE B == {i \in Nat : i \in DOMAIN s /\ i \in DOMAIN t /\ s[i] # t[i]}
  <2>1. CASE B = {}
    <3>1. ASSUME NEW i \in DOMAIN s \cap DOMAIN t PROVE s[i] = t[i]
      <4>1. i \in Nat
        BY <1>0
      <4> QED  BY <2>1, <4>1
    <3>2. Len(s) # Len(t)
      BY <1>2, <3>1
    <3>3. Len(s) < Len(t) \/ Len(t) < Len(s)
      BY <3>2
    <3> QED  BY <3>1, <3>3 DEF Less
  <2>2. CASE B # {}
    <3>1. PICK i \in B : \A k \in B : i <= k
      <4>1. B \in SUBSET Nat
        OBVIOUS
      <4> HIDE DEF B
      <4> QED  BY <2>2, <4>1, LeastNumber
    <3>2. \A k \in 1 .. i - 1 : s[k] = t[k]
      BY <3>1
    <3>3. s[i] < t[i] \/ t[i] < s[i]
      BY <3>1
    <3> QED  BY <3>1, <3>2, <3>3 DEF Less
  <2> QED  BY <2>1, <2>2
<1>3. ASSUME Less(s, t), Less(t, u) PROVE Less(s, u)
  <2> DEFINE Differ(a, b, i) == /\ i \in DOMAIN a \cap DOMAIN b /\ a[i] < b[i]
                                /\ \A k \in 1 .. i - 1 : a[k] = b[k]
             Prefix(a, b) == Len(a) < Len(b) /\ \A k \in DOMAIN a : a[k] = b[k]
  <2>0. PICK l, m, n \in Nat : Len(s) = l /\ Len(t) = m /\ Len(u) = n
    BY <1>0
  <2>1. /\ DOMAIN s = 1 .. l /\ DOMAIN t = 1 .. m /\ DOMAIN u = 1 .. n
        /\ \A i \in 1 .. l : s[i] \in Int
        /\ \A i \in 1 .. m : t[i] \in Int
        /\ \A i \in 1 .. n : u[i] \in Int
    BY <1>0, <2>0
  <2>2. CASE Prefix(s, t) /\ Prefix(t, u)
    BY <2>0, <2>1, <2>2 DEF Less
  <2>3. ASSUME NEW k, Prefix(s, t), Differ(t, u, k) PROVE Less(s, u)
    <3>0. k \in 1 .. m /\ k \in 1 .. n /\ t[k] < u[k] /\ \A i \in 1 .. k - 1 : t[i] = u[i]
      BY <2>1, <2>3
    <3>1. l < m /\ \A i \in 1 .. l : s[i] = t[i]
      BY <2>0, <2>1, <2>3
    <3>2. CASE k \in 1 .. l
      <4>1. s[k] < u[k] /\ \A i \in 1 .. k - 1 : s[i] = u[i]
        BY ONLY l \in Nat, m \in Nat, n \in Nat, <3>0, <3>1, <3>2
      <4> QED  BY <2>1, <3>0, <3>2, <4>1 DEF Less
    <3>3. CASE k \notin 1 .. l
      <4>1. l < n /\ \A i \in 1 .. l : s[i] = u[i]
        BY ONLY l \in Nat, m \in Nat, n \in Nat, <3>0, <3>1, <3>3
      <4> QED  BY <2>0, <2>1, <4>1 DEF Less
    <3> QED  BY <3>2, <3>3
  <2>4. ASSUME NEW i, Differ(s, t, i), Prefix(t, u) PROVE Less(s, u)
    <3>0. i \in 1 .. l /\ i \in 1 .. m /\ s[i] < t[i] /\ \A k \in 1 .. i - 1 : s[k] = t[k]
      BY <2>1, <2>4
    <3>1. m < n /\ \A k \in 1 .. m : t[k] = u[k]
      BY <2>0, <2>1, <2>4
    <3>2. i \in 1 .. n /\ s[i] < u[i] /\ \A k \in 1 .. i - 1 : s[k] = u[k]
      BY ONLY l \in Nat, m \in Nat, n \in Nat, <3>0, <3>1
    <3> QED  BY <2>1, <3>0, <3>2 DEF Less
  <2>5. ASSUME NEW i, NEW k, Differ(s, t, i), Differ(t, u, k) PROVE Less(s, u)
    <3>0. /\ i \in 1 .. l /\ i \in 1 .. m /\ s[i] < t[i] /\ \A h \in 1 .. i - 1 : s[h] = t[h]
          /\ k \in 1 .. m /\ k \in 1 .. n /\ t[k] < u[k] /\ \A h \in 1 .. k - 1 : t[h] = u[h]
      BY <2>1, <2>5
    <3>1. s[i] \in Int /\ t[i] \in Int /\ t[k] \in Int /\ u[k] \in Int
      BY <2>1, <3>0
    <3>2. CASE i <= k
      <4>1. i \in 1 .. n /\ \A h \in 1 .. i - 1 : s[h] = u[h]
        BY ONLY l \in Nat, m \in Nat, n \in Nat, <3>0, <3>2
      <4>2. s[i] < u[i]
        <5>1. CASE i = k
          BY ONLY <3>0, <3>1, <5>1
        <5>2. CASE i # k
          <6>1. i \in 1 .. k - 1
            BY ONLY m \in Nat, <3>0, <3>2, <5>2
          <6> QED  BY ONLY <3>0, <6>1
        <5> QED  BY <5>1, <5>2
      <4> QED  BY <2>1, <3>0, <4>1, <4>2 DEF Less
    <3>3. CASE k < i
      <4>1. k \in 1 .. l /\ s[k] < u[k] /\ \A h \in 1 .. k - 1 : s[h] = u[h]
        BY ONLY l \in Nat, m \in Nat, n \in Nat, <3>0, <3>1, <3>3
      <4> QED  BY <2>1, <3>0, <4>1 DEF Less
    <3> QED  BY <3>0, <3>2, <3>3
  <2>6. (Prefix(s, t) \/ \E i : Differ(s, t, i)) /\ (Prefix(t, u) \/ \E k : Differ(t, u, k))
    BY <1>3 DEF Less
  <2> HIDE DEF Differ, Prefix
  <2> QED  BY <2>2, <2>3, <2>4, <2>5, <2>6
<1> QED  BY <1>1, <1>2, <1>3

\* Attaching one tuple of integers to another.
LEMMA Attached ==
  ASSUME NEW a \in Seq(Int), NEW b \in Seq(Int)
  PROVE  /\ a \o b \in Seq(Int) /\ Len(a \o b) = Len(a) + Len(b)
         /\ \A i \in 1 .. Len(b) : (a \o b)[Len(a) + i] = b[i]
<1>1. PICK k, m \in Nat : Len(a) = k /\ Len(b) = m
  OBVIOUS
<1>2. /\ a \o b \in Seq(Int) /\ Len(a \o b) = k + m
      /\ \A i \in 1 .. k + m : (a \o b)[i] = IF i <= k THEN a[i] ELSE b[i - k]
  BY <1>1, ConcatProperties
<1>3. ASSUME NEW i \in 1 .. m PROVE (a \o b)[k + i] = b[i]
  <2>1. k + i \in 1 .. k + m /\ ~(k + i <= k) /\ (k + i) - k = i
    OBVIOUS
  <2> QED  BY <1>2, <2>1
<1> QED  BY <1>1, <1>2, <1>3

\* A tuple with another one attached to it still tells the attached ones apart.
LEMMA AttachedApart ==
  ASSUME NEW a \in Seq(Int), NEW b \in Seq(Int), NEW c \in Seq(Int), NEW d \in Seq(Int),
         Len(a) = Len(c), a \o b = c \o d
  PROVE  b = d
<1>1. Len(a) \in Nat /\ Len(b) \in Nat /\ Len(d) \in Nat
  OBVIOUS
<1>2. Len(a \o b) = Len(a) + Len(b) /\ \A i \in 1 .. Len(b) : (a \o b)[Len(a) + i] = b[i]
  BY Attached
<1>3. Len(c \o d) = Len(c) + Len(d) /\ \A i \in 1 .. Len(d) : (c \o d)[Len(c) + i] = d[i]
  BY Attached
<1> DEFINE z == a \o b
<1>4. /\ Len(z) = Len(a) + Len(b) /\ \A i \in 1 .. Len(b) : z[Len(a) + i] = b[i]
      /\ Len(z) = Len(a) + Len(d) /\ \A i \in 1 .. Len(d) : z[Len(a) + i] = d[i]
  BY <1>2, <1>3
<1> HIDE DEF z
<1>5. Len(b) = Len(d)
  BY <1>1, <1>4
<1>6. \A i \in 1 .. Len(b) : b[i] = d[i]
  BY <1>4, <1>5
<1> QED  BY <1>5, <1>6, SeqEqual

\* key gives each element of S a tuple of its own.
Keys(S, key) ==
  /\ \A x \in S : key[x] \in Seq(Int)
  /\ \A x, y \in S : x # y => key[x] # key[y]

KeyOrder(S, key) == {p \in S \X S : Less(key[p[1]], key[p[2]])}

\* Such keys order S, and First takes the elements of low rank.
LEMMA KeysOrder ==
  ASSUME NEW S, NEW key, Keys(S, key)
  PROVE  /\ StrictOrder(KeyOrder(S, key), S)
         /\ \A x \in S : Rank(x, KeyOrder(S, key), S) = Cardinality({h \in S : Less(key[h], key[x])})
<1> DEFINE R == KeyOrder(S, key)
<1>1. \A x, y \in S : <<x, y>> \in R <=> Less(key[x], key[y])
  BY DEF KeyOrder
<1>2. StrictOrder(R, S)
  <2> HIDE DEF R
  <2>1. \A x \in S : <<x, x>> \notin R
    BY <1>1, LessOrder DEF Keys
  <2>2. \A x, y \in S : x # y => <<x, y>> \in R \/ <<y, x>> \in R
    BY <1>1, LessOrder DEF Keys
  <2>3. ASSUME NEW x \in S, NEW y \in S, NEW z \in S, <<x, y>> \in R, <<y, z>> \in R
        PROVE  <<x, z>> \in R
    <3>1. Less(key[x], key[y]) /\ Less(key[y], key[z])
      BY <1>1, <2>3
    <3>2. key[x] \in Seq(Int) /\ key[y] \in Seq(Int) /\ key[z] \in Seq(Int)
      BY DEF Keys
    <3>3. Less(key[x], key[z])
      BY <3>1, <3>2, LessOrder
    <3> QED  BY <1>1, <3>3
  <2> QED  BY <2>1, <2>2, <2>3 DEF StrictOrder
<1>3. ASSUME NEW x \in S
      PROVE  Rank(x, R, S) = Cardinality({h \in S : Less(key[h], key[x])})
  <2>1. {y \in S : <<y, x>> \in R} = {h \in S : Less(key[h], key[x])}
    BY <1>1
  <2> QED  BY <2>1 DEF Rank
<1> QED  BY <1>2, <1>3

\* First takes as many elements as it is asked for, if there are as many.
LEMMA FirstCount ==
  ASSUME NEW S, NEW key, IsFiniteSet(S), Keys(S, key), NEW n \in Nat, n <= Cardinality(S)
  PROVE  Cardinality(First(S, n, key)) = n
<1> DEFINE R == KeyOrder(S, key)
           F == First(S, n, key)
           N == 0 .. n - 1
           rank == [x \in F |-> Rank(x, R, S)]
<1>1. Cardinality(S) \in Nat
  BY FS_CardinalityType
<1>2. F = {x \in S : Rank(x, R, S) < n}
  BY KeysOrder DEF First
<1>3. /\ \A x \in S : Rank(x, R, S) \in 0 .. Cardinality(S) - 1
      /\ \A x, y \in S : <<x, y>> \in R <=> Rank(x, R, S) < Rank(y, R, S)
      /\ \A k \in 0 .. Cardinality(S) - 1 : \E x \in S : Rank(x, R, S) = k
  BY KeysOrder, RankBijection
<1>4. \A x, y \in S : x # y => <<x, y>> \in R \/ <<y, x>> \in R
  BY KeysOrder DEF StrictOrder
<1> HIDE DEF R, F
<1>5. rank \in [F -> N]
  BY <1>2, <1>3
<1>6. \A x, y \in F : rank[x] = rank[y] => x = y
  <2> SUFFICES ASSUME NEW x \in F, NEW y \in F, rank[x] = rank[y], x # y PROVE FALSE
    OBVIOUS
  <2>1. x \in S /\ y \in S /\ Rank(x, R, S) = Rank(y, R, S)
    BY <1>2
  <2>2. Rank(x, R, S) < Rank(y, R, S) \/ Rank(y, R, S) < Rank(x, R, S)
    BY <1>3, <1>4, <2>1
  <2> QED  BY <1>3, <2>1, <2>2
<1>7. \A k \in N : \E x \in F : rank[x] = k
  BY <1>1, <1>2, <1>3
<1>8. rank \in Bijection(F, N)
  <2> HIDE DEF N, rank
  <2>1. rank \in Injection(F, N)
    BY <1>5, <1>6, Fun_IsInj
  <2>2. rank \in Surjection(F, N)
    BY <1>5, <1>7, Fun_IsSurj
  <2> QED  BY <2>1, <2>2 DEF Bijection
<1>9. IsFiniteSet(N) /\ Cardinality(N) = n
  BY FS_Interval
<1> HIDE DEF N, rank
<1>10. IsFiniteSet(F)
  BY <1>2, FS_Subset
<1>11. Cardinality(N) = Cardinality(F)
  BY <1>8, <1>10, FS_Bijection DEF ExistsBijection
<1> QED  BY <1>9, <1>11 DEF F

\* Least takes the elements that nothing is before.
LEMMA LeastIs ==
  ASSUME NEW S, IsFiniteSet(S), NEW key
  PROVE  Least(S, key) = {x \in S : \A y \in S : ~Less(key[y], key[x])}
<1> SUFFICES ASSUME NEW x \in S
             PROVE  Cardinality({h \in S : Less(key[h], key[x])}) < 1
                      <=> \A y \in S : ~Less(key[y], key[x])
  BY DEF Least, First
<1> DEFINE H == {h \in S : Less(key[h], key[x])}
<1>1. IsFiniteSet(H)
  BY FS_Subset
<1>2. Cardinality(H) \in Nat /\ (Cardinality(H) = 0 <=> H = {})
  <2> HIDE DEF H
  <2> QED  BY <1>1, FS_CardinalityType, FS_EmptySet
<1> QED  BY <1>2

\* With keys of their own there is one such element.
LEMMA LeastOne ==
  ASSUME NEW S, IsFiniteSet(S), NEW key, Keys(S, key), S # {}
  PROVE  \E x \in S : Least(S, key) = {x}
<1>1. Cardinality(S) \in Nat /\ Cardinality(S) # 0
  BY FS_CardinalityType, FS_EmptySet
<1>2. Cardinality(Least(S, key)) = 1
  BY <1>1, FirstCount DEF Least
<1>3. Least(S, key) \in SUBSET S /\ IsFiniteSet(Least(S, key))
  BY LeastIs, FS_Subset
<1> QED  BY <1>2, <1>3, FS_Singleton

\* InOrder lists all elements, a first one first.
LEMMA InOrderLists ==
  ASSUME NEW S, IsFiniteSet(S), NEW key, Keys(S, key)
  PROVE  /\ InOrder(S, key) \in [1 .. Cardinality(S) -> S]
         /\ \A x \in S : \E i \in 1 .. Cardinality(S) : InOrder(S, key)[i] = x
         /\ S # {} => 1 \in 1 .. Cardinality(S) /\ InOrder(S, key)[1] \in Least(S, key)
<1> DEFINE n == Cardinality(S)
           before(x) == Cardinality({h \in S : Less(key[h], key[x])})
           L == InOrder(S, key)
<1>1. n \in Nat /\ (S # {} => n # 0)
  BY FS_CardinalityType, FS_EmptySet
<1>2. /\ \A x \in S : before(x) \in 0 .. n - 1
      /\ \A x, y \in S : before(x) = before(y) => x = y
      /\ \A k \in 0 .. n - 1 : \E x \in S : before(x) = k
  <2> DEFINE R == KeyOrder(S, key)
  <2>1. /\ \A x \in S : Rank(x, R, S) \in 0 .. Cardinality(S) - 1
        /\ \A x, y \in S : <<x, y>> \in R <=> Rank(x, R, S) < Rank(y, R, S)
        /\ \A k \in 0 .. Cardinality(S) - 1 : \E x \in S : Rank(x, R, S) = k
    BY KeysOrder, RankBijection
  <2>2. \A x, y \in S : x # y => <<x, y>> \in R \/ <<y, x>> \in R
    BY KeysOrder DEF StrictOrder
  <2>3. \A x \in S : Rank(x, R, S) = before(x)
    BY KeysOrder
  <2> HIDE DEF R, before
  <2>4. \A x, y \in S : x # y => before(x) < before(y) \/ before(y) < before(x)
    BY <2>1, <2>2, <2>3
  <2>5. \A x, y \in S : before(x) = before(y) => x = y
    BY <2>1, <2>3, <2>4
  <2> QED  BY <2>1, <2>3, <2>5
<1>3. L = [i \in 1 .. n |-> CHOOSE x \in S : before(x) = i - 1]
  BY DEF InOrder
<1> HIDE DEF n, L, before
<1>4. ASSUME NEW i \in 1 .. n PROVE L[i] \in S /\ before(L[i]) = i - 1
  <2>1. i - 1 \in 0 .. n - 1
    BY <1>1
  <2>2. L[i] = CHOOSE x \in S : before(x) = i - 1
    BY <1>3
  <2> QED  BY <1>2, <2>1, <2>2
<1>5. S # {} => 1 \in 1 .. n /\ L[1] \in Least(S, key)
  <2> SUFFICES ASSUME S # {} PROVE 1 \in 1 .. n /\ L[1] \in Least(S, key)
    OBVIOUS
  <2>1. 1 \in 1 .. n
    BY <1>1
  <2>2. L[1] \in S /\ before(L[1]) < 1
    BY <1>4, <2>1
  <2> QED  BY <2>1, <2>2 DEF Least, First, before
<1>6. ASSUME NEW x \in S PROVE \E i \in 1 .. n : L[i] = x
  <2>1. before(x) + 1 \in 1 .. n /\ (before(x) + 1) - 1 = before(x)
    BY <1>1, <1>2
  <2> QED  BY <1>2, <1>4, <2>1
<1>7. L \in [1 .. n -> S]
  BY <1>3, <1>4
<1> QED  BY <1>5, <1>6, <1>7 DEF L, n

\* The least of some numbers.
LEMMA MinIn ==
  ASSUME NEW S \in SUBSET Nat, S # {}
  PROVE  Min(S) \in S /\ \A x \in S : Min(S) <= x
<1>1. \E m \in S : \A x \in S : m <= x
  BY LeastNumber
<1> QED  BY <1>1 DEF Min

\* The greatest of some integers with a bound.
LEMMA MaxIn ==
  ASSUME NEW S \in SUBSET Int, S # {}, NEW bound \in Int, \A x \in S : x <= bound
  PROVE  Max(S) \in S /\ \A x \in S : x <= Max(S)
<1> DEFINE B == {bound - x : x \in S}
<1>1. B \in SUBSET Nat /\ B # {}
  <2>1. \A x \in S : bound - x \in Nat
    OBVIOUS
  <2> QED  BY <2>1
<1>2. PICK m \in B : \A x \in B : m <= x
  <2> HIDE DEF B
  <2> QED  BY <1>1, LeastNumber
<1>3. PICK y \in S : m = bound - y
  BY <1>2
<1>4. ASSUME NEW x \in S PROVE y >= x
  <2>1. bound - y <= bound - x
    BY <1>2, <1>3
  <2> QED  BY <2>1
<1>5. \E z \in S : \A x \in S : z >= x
  BY <1>4
<1> QED  BY <1>5 DEF Max

\* The greater of zero and another integer.
LEMMA MaxWithZero == \A x \in Int : Max({0, x}) = IF x > 0 THEN x ELSE 0
<1> SUFFICES ASSUME NEW x \in Int PROVE Max({0, x}) = IF x > 0 THEN x ELSE 0
  OBVIOUS
<1> DEFINE S == {0, x}
           b == IF x > 0 THEN x ELSE 0
<1>1. S \in SUBSET Int /\ S # {} /\ b \in Int /\ b \in S /\ \A y \in S : y <= b
  OBVIOUS
<1> HIDE DEF S, b
<1>2. Max(S) \in S /\ \A y \in S : y <= Max(S)
  BY <1>1, MaxIn
<1>3. Max(S) \in Int /\ b <= Max(S) /\ Max(S) <= b
  BY <1>1, <1>2
<1>4. Max(S) = b
  BY <1>1, <1>3
<1> QED  BY <1>4 DEF S, b

\* The smaller of two numbers.
LEMMA MinOfTwo == \A x, y \in Nat : Min({x, y}) = IF x <= y THEN x ELSE y
<1> SUFFICES ASSUME NEW x \in Nat, NEW y \in Nat PROVE Min({x, y}) = IF x <= y THEN x ELSE y
  OBVIOUS
<1>1. Min({x, y}) \in {x, y} /\ \A z \in {x, y} : Min({x, y}) <= z
  <2>1. {x, y} \in SUBSET Nat /\ {x, y} # {}
    OBVIOUS
  <2> QED  BY <2>1, MinIn
<1> QED  BY <1>1

-----------------------------------------------------------------------------
(* GPUs and views.                                                         *)

\* The ids and attributes of a GPU are numbers.
LEMMA GpuFacts ==
  ASSUME NEW g \in GPUs
  PROVE  /\ g \in Nat /\ NodeOf[g] \in Nodes /\ NodeOf[g] \in Nat /\ VendorOf[g] \in Nat
         /\ \A j \in Jobs : Slack(j, g) \in Int
<1>1. g \in Nat /\ NodeOf[g] \in Nodes /\ VendorOf[g] \in Nat /\ GpuMemory[g] \in Nat
  BY PlacementAssumption
<1>2. NodeOf[g] \in Nat /\ \A j \in Jobs : JobMemory[j] \in Nat
  BY <1>1, PlacementAssumption
<1> QED  BY <1>1, <1>2 DEF Slack

\* Sets of GPUs are finite.
LEMMA GpuSetsFinite == \A P \in SUBSET GPUs : IsFiniteSet(P) /\ Cardinality(P) \in Nat
BY PlacementAssumption, FS_Subset, FS_CardinalityType

\* So are the sets of their nodes, and what is made of nodes.
LEMMA NodesFinite ==
  ASSUME NEW P \in SUBSET GPUs
  PROVE  /\ NodesOf(P) \in SUBSET Nodes /\ IsFiniteSet(NodesOf(P)) /\ Cardinality(NodesOf(P)) \in Nat
         /\ IsFiniteSet({RackDomain(m) : m \in NodesOf(P)})
         /\ Cardinality({RackDomain(m) : m \in NodesOf(P)}) \in Nat
<1>1. NodesOf(P) \in SUBSET Nodes
  BY GpuFacts DEF NodesOf
<1>2. IsFiniteSet(NodesOf(P))
  BY <1>1, PlacementAssumption, FS_Subset
<1>3. IsFiniteSet({RackDomain(m) : m \in NodesOf(P)})
  <2> DEFINE S == NodesOf(P)
             f == [m \in S |-> RackDomain(m)]
  <2>1. f \in Surjection(S, Range(f))
    <3>1. f \in [S -> Range(f)] /\ \A y \in Range(f) : \E x \in S : f[x] = y
      BY DEF Range
    <3> HIDE DEF f, S
    <3> QED  BY <3>1, Fun_IsSurj
  <2>2. Range(f) = {RackDomain(m) : m \in NodesOf(P)}
    BY DEF Range
  <2> HIDE DEF f, S
  <2>3. IsFiniteSet(Range(f))
    BY <1>2, <2>1, FS_Surjection DEF S
  <2> QED  BY <2>2, <2>3
<1> QED  BY <1>1, <1>2, <1>3, FS_CardinalityType

\* The hosts of a job are GPUs it is compatible with.
LEMMA HostsAre ==
  ASSUME NEW j \in Jobs, NEW view
  PROVE  Hosts(j, view) \in SUBSET GPUs /\ Hosts(j, view) \subseteq view.gpus \ view.occupied
BY DEF Hosts, Compatible

\* Distances are small.
LEMMA DistanceType == \A m, n : Distance(m, n) \in 0 .. 3
BY DEF Distance

-----------------------------------------------------------------------------
(* TopologyAwareScheduler.                                                 *)

\* The keys by which a candidate takes GPUs are keys.
LEMMA TightKeys ==
  ASSUME NEW j \in Jobs, NEW eligible \in SUBSET GPUs, NEW S \in SUBSET eligible
  PROVE  LET tight == [g \in eligible |-> <<Slack(j, g), NodeOf[g], g>>]
             near(s) == [g \in eligible |-> <<Distance(s, NodeOf[g]), NodeOf[g]>> \o tight[g]]
         IN  Keys(S, tight) /\ \A s : Keys(S, near(s))
<1> DEFINE tight == [g \in eligible |-> <<Slack(j, g), NodeOf[g], g>>]
           near(s) == [g \in eligible |-> <<Distance(s, NodeOf[g]), NodeOf[g]>> \o tight[g]]
<1>1. \A g \in S : g \in GPUs /\ g \in Int /\ NodeOf[g] \in Int /\ Slack(j, g) \in Int
  BY GpuFacts
<1>2. Keys(S, tight)
  BY <1>1 DEF Keys
<1>3. ASSUME NEW s PROVE Keys(S, near(s))
  <2> DEFINE a(g) == <<Distance(s, NodeOf[g]), NodeOf[g]>>
             b(g) == <<Slack(j, g), NodeOf[g], g>>
  <2>1. \A g \in S : a(g) \in Seq(Int) /\ Len(a(g)) = 2
    BY <1>1, DistanceType
  <2>2. \A g \in S : b(g) \in Seq(Int) /\ \A h \in S : b(g) = b(h) => g = h
    BY <1>1
  <2>3. \A g \in S : near(s)[g] = a(g) \o b(g)
    OBVIOUS
  <2> HIDE DEF a, b, near
  <2>4. \A g \in S : near(s)[g] \in Seq(Int)
    BY <2>1, <2>2, <2>3, Attached
  <2>5. \A g, h \in S : near(s)[g] = near(s)[h] => b(g) = b(h)
    <3> SUFFICES ASSUME NEW g \in S, NEW h \in S, near(s)[g] = near(s)[h] PROVE b(g) = b(h)
      OBVIOUS
    <3>1. a(g) \o b(g) = a(h) \o b(h)
      BY <2>3
    <3> QED  BY <2>1, <2>2, <3>1, AttachedApart
  <2> QED  BY <2>2, <2>4, <2>5 DEF Keys
<1> QED  BY <1>2, <1>3

\* A candidate takes n eligible GPUs.
LEMMA CandidateTakes ==
  ASSUME NEW j \in Jobs, NEW n \in Nat, NEW eligible \in SUBSET GPUs,
         NEW P \in Candidates(j, n, eligible)
  PROVE  P \in SUBSET eligible /\ Cardinality(P) = n
<1> DEFINE tight == [g \in eligible |-> <<Slack(j, g), NodeOf[g], g>>]
           near(s) == [g \in eligible |-> <<Distance(s, NodeOf[g]), NodeOf[g]>> \o tight[g]]
           Domain(D(_)) == {{g \in eligible : D(NodeOf[g]) = d} :
                              d \in {D(m) : m \in NodesOf(eligible)}}
           domains == {eligible} \cup Domain(LAMBDA m : m) \cup Domain(RackDomain)
                        \cup Domain(ZoneDomain)
<1>1. \A S \in domains : S \in SUBSET eligible
  OBVIOUS
<1>2. \/ \E S \in domains : Cardinality(S) >= n /\ P = First(S, n, tight)
      \/ \E s : Cardinality(eligible) >= n /\ P = First(eligible, n, near(s))
  BY DEF Candidates
<1>3. \A S \in SUBSET eligible : Keys(S, tight) /\ \A s : Keys(S, near(s))
  BY TightKeys
<1> HIDE DEF domains, tight, near
<1>4. \E S \in SUBSET eligible : \E key : Keys(S, key) /\ Cardinality(S) >= n /\ P = First(S, n, key)
  BY <1>1, <1>2, <1>3
<1>5. PICK S \in SUBSET eligible : \E key : Keys(S, key) /\ Cardinality(S) >= n /\ P = First(S, n, key)
  BY <1>4
<1>6. P \in SUBSET S
  BY <1>5 DEF First
<1>7. IsFiniteSet(S) /\ Cardinality(S) \in Nat
  BY GpuSetsFinite
<1> QED  BY <1>5, <1>6, <1>7, FirstCount

\* If some gang of eligible GPUs meets the topology requirement, a candidate does: the
\* tightest GPUs of its node or its rack, or of all if there is no requirement.
LEMMA CandidateMeets ==
  ASSUME NEW j \in Jobs, NEW n \in Nat \ {0}, NEW eligible \in SUBSET GPUs,
         NEW G \in SUBSET eligible, Cardinality(G) = n, RequirementMet(j, G)
  PROVE  \E P \in Candidates(j, n, eligible) : RequirementMet(j, P)
<1> DEFINE tight == [g \in eligible |-> <<Slack(j, g), NodeOf[g], g>>]
           near(s) == [g \in eligible |-> <<Distance(s, NodeOf[g]), NodeOf[g]>> \o tight[g]]
           Domain(D(_)) == {{g \in eligible : D(NodeOf[g]) = d} :
                              d \in {D(m) : m \in NodesOf(eligible)}}
           domains == {eligible} \cup Domain(LAMBDA m : m) \cup Domain(RackDomain)
                        \cup Domain(ZoneDomain)
<1>1. \A S \in domains : Cardinality(S) >= n => First(S, n, tight) \in Candidates(j, n, eligible)
  BY DEF Candidates
<1>2. /\ eligible \in domains
      /\ \A m \in NodesOf(eligible) : /\ {g \in eligible : NodeOf[g] = m} \in domains
                                      /\ {g \in eligible : RackDomain(NodeOf[g]) = RackDomain(m)} \in domains
  OBVIOUS
<1> HIDE DEF domains, tight
<1>3. \A S : First(S, n, tight) \subseteq S
  BY DEF First
<1>4. \A S \in SUBSET GPUs : G \subseteq S => Cardinality(S) >= n
  <2> SUFFICES ASSUME NEW S \in SUBSET GPUs, G \subseteq S PROVE Cardinality(S) >= n
    OBVIOUS
  <2>1. IsFiniteSet(S) /\ IsFiniteSet(G)
    BY GpuSetsFinite
  <2> QED  BY <2>1, FS_Subset
<1>5. PICK h \in G : TRUE
  BY FS_EmptySet
<1>6. NodeOf[h] \in NodesOf(eligible)
  BY DEF NodesOf
<1>7. CASE TopologyMode[j] \notin {"require_same_node", "require_same_rack"}
  <2>1. First(eligible, n, tight) \in Candidates(j, n, eligible)
    BY <1>1, <1>2, <1>4
  <2> QED  BY <1>7, <2>1 DEF RequirementMet
<1>8. CASE TopologyMode[j] = "require_same_node"
  <2> DEFINE m == NodeOf[h]
             S == {g \in eligible : NodeOf[g] = m}
             P == First(S, n, tight)
  <2>1. \A g \in G : NodeOf[g] = m
    <3>1. Cardinality(NodesOf(G)) <= 1
      BY <1>8 DEF RequirementMet
    <3>2. G \in SUBSET GPUs /\ NodesOf(G) # {}
      BY DEF NodesOf
    <3>3. IsFiniteSet(NodesOf(G)) /\ Cardinality(NodesOf(G)) \in Nat /\ Cardinality(NodesOf(G)) # 0
      BY <3>2, NodesFinite, FS_EmptySet
    <3>4. PICK x \in NodesOf(G) : NodesOf(G) = {x}
      BY <3>1, <3>3, FS_Singleton
    <3> QED  BY <3>4 DEF NodesOf
  <2>2. S \in domains /\ G \subseteq S /\ S \in SUBSET GPUs
    BY <1>2, <1>6, <2>1
  <2>3. P \in Candidates(j, n, eligible)
    BY <1>1, <1>4, <2>2
  <2>4. P \in SUBSET GPUs /\ NodesOf(P) \in SUBSET {m}
    BY <1>3 DEF NodesOf
  <2>5. Cardinality(NodesOf(P)) <= 1
    <3>1. IsFiniteSet({m}) /\ Cardinality({m}) = 1
      BY FS_Singleton
    <3> QED  BY <2>4, <3>1, FS_Subset
  <2>6. RequirementMet(j, P)
    BY <1>8, <2>5 DEF RequirementMet
  <2> QED  BY <2>3, <2>6
<1>9. CASE TopologyMode[j] = "require_same_rack"
  <2> DEFINE m == NodeOf[h]
             S == {g \in eligible : RackDomain(NodeOf[g]) = RackDomain(m)}
             P == First(S, n, tight)
             Racks(Q) == {RackDomain(l) : l \in NodesOf(Q)}
  <2>1. \A g \in G : RackDomain(NodeOf[g]) = RackDomain(m)
    <3>1. Cardinality(Racks(G)) <= 1
      BY <1>9 DEF RequirementMet
    <3>2. G \in SUBSET GPUs /\ Racks(G) # {}
      BY DEF NodesOf
    <3>3. IsFiniteSet(Racks(G)) /\ Cardinality(Racks(G)) \in Nat
      BY <3>2, NodesFinite
    <3> HIDE DEF Racks
    <3>4. Cardinality(Racks(G)) # 0
      BY <3>2, <3>3, FS_EmptySet
    <3>5. PICK x \in Racks(G) : Racks(G) = {x}
      BY <3>1, <3>3, <3>4, FS_Singleton
    <3> QED  BY <3>5 DEF NodesOf, Racks
  <2>2. S \in domains /\ G \subseteq S /\ S \in SUBSET GPUs
    BY <1>2, <1>6, <2>1
  <2>3. P \in Candidates(j, n, eligible)
    BY <1>1, <1>4, <2>2
  <2>4. P \in SUBSET GPUs /\ Racks(P) \in SUBSET {RackDomain(m)}
    BY <1>3 DEF NodesOf
  <2>5. Cardinality(Racks(P)) <= 1
    <3>1. IsFiniteSet({RackDomain(m)}) /\ Cardinality({RackDomain(m)}) = 1
      BY FS_Singleton
    <3> HIDE DEF Racks
    <3> QED  BY <2>4, <3>1, FS_Subset
  <2>6. RequirementMet(j, P)
    BY <1>9, <2>5 DEF RequirementMet
  <2> QED  BY <2>3, <2>6
<1> QED  BY <1>7, <1>8, <1>9

\* The product of some integers is an integer.
LEMMA ProductType ==
  ASSUME NEW S \in SUBSET Int, IsFiniteSet(S)
  PROVE  ProductOf(S) \in Int
<1> DEFINE f == [k \in S |-> k]
<1>1. ProductOf(S) = Iterated(f, S, FALSE)
  BY DEF ProductOf, FoldFunctionOnSet, MapThenFoldSet, Iterated, Iterates, Pick, Nothing, With
<1>2. \A k \in S : f[k] \in Int
  OBVIOUS
<1> HIDE DEF f
<1> QED  BY <1>1, <1>2, IteratedInteger

\* The scales are integers.
LEMMA ScalesType == FragmentationScale \in Int /\ DistanceScale \in Int
<1>1. FragmentationScale \in Int
  <2> DEFINE S == 1 .. Cardinality(GPUs)
  <2>1. S \in SUBSET Int /\ IsFiniteSet(S)
    BY GpuSetsFinite, FS_Interval
  <2> HIDE DEF S
  <2>2. ProductOf(S) \in Int
    BY <2>1, ProductType
  <2> QED  BY <2>2 DEF S, FragmentationScale
<1>2. DistanceScale \in Int
  <2> DEFINE K == 2 .. Cardinality(Nodes)
             f == [k \in K |-> (k * (k - 1)) \div 2]
  <2>1. IsFiniteSet(K) /\ K \in SUBSET Int
    BY PlacementAssumption, FS_CardinalityType, FS_Interval
  <2>2. \A k \in Int : k * (k - 1) \in Int
    OBVIOUS
  <2>3. \A m \in Int : m \div 2 \in Int
    OBVIOUS
  <2>4. \A k \in K : f[k] \in Int
    BY <2>1, <2>2, <2>3
  <2>5. Range(f) \in SUBSET Int /\ f \in [K -> Range(f)] /\ \A y \in Range(f) : \E x \in K : f[x] = y
    BY <2>4 DEF Range
  <2>6. DistanceScale = ProductOf(Range(f))
    <3>1. Range(f) = {(k * (k - 1)) \div 2 : k \in K}
      BY DEF Range
    <3> QED  BY <3>1 DEF DistanceScale
  <2> HIDE DEF K, f
  <2>7. IsFiniteSet(Range(f))
    BY <2>1, <2>5, Fun_IsSurj, FS_Surjection
  <2> QED  BY <2>5, <2>6, <2>7, ProductType
<1> QED  BY <1>1, <1>2

\* What a placement wastes is a number.
LEMMA WasteType ==
  ASSUME NEW j \in Jobs, NEW P \in SUBSET GPUs
  PROVE  Waste(j, P) \in Int
<1> DEFINE f == [g \in P |-> Slack(j, g)]
<1>1. IsFiniteSet(P) /\ \A g \in P : f[g] \in Int
  BY GpuFacts, GpuSetsFinite
<1>2. Waste(j, P) = SumFunctionOnSet(f, P)
  BY DEF Waste
<1> HIDE DEF f
<1> QED  BY <1>1, <1>2, SumInteger

\* The parts of a score are integers.
LEMMA ScoreParts ==
  ASSUME NEW j \in Jobs, NEW view, NEW P \in SUBSET GPUs, P \subseteq view.gpus
  PROVE  LET ns == NodesOf(P)
         IN  /\ Max({0} \cup {Distance(p[1], p[2]) : p \in PairsOf(ns)}) \in Int
             /\ AverageDistance(ns) \in Int
             /\ FragmentationDelta(view, P) \in Int
             /\ Waste(j, P) \in Int
<1> DEFINE ns == NodesOf(P)
           pairs == PairsOf(ns)
<1>1. IsFiniteSet(ns) /\ IsFiniteSet(P)
  BY NodesFinite, GpuSetsFinite
<1>2. IsFiniteSet(pairs)
  <2>1. IsFiniteSet(ns \X ns)
    BY <1>1, FS_Product
  <2>2. pairs \in SUBSET (ns \X ns)
    BY DEF PairsOf
  <2> HIDE DEF ns, pairs
  <2> QED  BY <2>1, <2>2, FS_Subset
<1>3. Max({0} \cup {Distance(p[1], p[2]) : p \in pairs}) \in Int
  <2> DEFINE S == {0} \cup {Distance(p[1], p[2]) : p \in pairs}
  <2>1. S \in SUBSET Int /\ S # {} /\ \A x \in S : x <= 3
    BY DistanceType
  <2> HIDE DEF S
  <2>2. Max(S) \in Int
    BY <2>1, MaxIn
  <2> QED  BY <2>2 DEF S
<1>4. AverageDistance(ns) \in Int
  <2> DEFINE f == [p \in pairs |-> Distance(p[1], p[2])]
             sum == SumFunctionOnSet(f, pairs)
             k == Cardinality(pairs)
  <2>1. \A p \in pairs : f[p] \in Int
    BY DistanceType
  <2>2. AverageDistance(ns) = IF pairs = {} THEN 0 ELSE sum * (DistanceScale \div k)
    BY DEF AverageDistance
  <2> HIDE DEF f, pairs, ns
  <2>3. sum \in Int /\ k \in Nat /\ (pairs # {} => k # 0)
    BY <1>2, <2>1, SumInteger, FS_CardinalityType, FS_EmptySet
  <2> HIDE DEF sum, k
  <2>4. \A x \in Int : \A y \in Nat \ {0} : x \div y \in Int
    OBVIOUS
  <2>5. \A x, y \in Int : x * y \in Int
    OBVIOUS
  <2> QED  BY <2>2, <2>3, <2>4, <2>5, ScalesType
<1>5. FragmentationDelta(view, P) \in Int
  <2> DEFINE f == [m \in ns |-> NodeDelta(view, P, m)]
  <2>1. ASSUME NEW m \in ns PROVE NodeDelta(view, P, m) \in Int
    <3> DEFINE size == Cardinality(view.gpus \cap OnNode(m))
               used == Cardinality(view.occupied \cap OnNode(m))
               more == Cardinality(P \cap OnNode(m))
               Partial(n) == 4 * (size - n) * n * (FragmentationScale \div size)
    <3>1. NodeDelta(view, P, m) = Partial(used + more) - Partial(used)
      BY DEF NodeDelta
    <3>2. \A S : S \cap OnNode(m) \in SUBSET GPUs
      BY DEF OnNode
    <3>3. size \in Nat /\ used \in Nat /\ more \in Nat
      BY <3>2, GpuSetsFinite
    <3>4. size # 0
      <4>1. PICK g \in P : NodeOf[g] = m
        BY DEF NodesOf
      <4>2. g \in view.gpus \cap OnNode(m)
        BY <4>1 DEF OnNode
      <4>3. IsFiniteSet(view.gpus \cap OnNode(m))
        BY <3>2, GpuSetsFinite
      <4> QED  BY <4>2, <4>3, FS_EmptySet
    <3> HIDE DEF size, used, more
    <3>5. FragmentationScale \div size \in Int
      BY <3>3, <3>4, ScalesType
    <3>6. \A x, y \in Int : x * y \in Int
      OBVIOUS
    <3>7. \A n \in Int : Partial(n) \in Int
      <4> SUFFICES ASSUME NEW n \in Int PROVE Partial(n) \in Int
        OBVIOUS
      <4>1. 4 * (size - n) \in Int
        BY <3>3
      <4>2. 4 * (size - n) * n \in Int
        BY <3>6, <4>1
      <4> QED  BY <3>5, <3>6, <4>2
    <3> HIDE DEF Partial
    <3>8. used + more \in Int /\ used \in Int
      BY <3>3
    <3>9. Partial(used + more) \in Int /\ Partial(used) \in Int
      BY <3>7, <3>8
    <3> QED  BY <3>1, <3>9
  <2>2. \A m \in ns : f[m] \in Int
    BY <2>1
  <2>3. FragmentationDelta(view, P) = SumFunctionOnSet(f, ns)
    BY DEF FragmentationDelta
  <2> HIDE DEF f, ns
  <2> QED  BY <1>1, <2>2, <2>3, SumInteger
<1>6. Waste(j, P) \in Int
  BY WasteType
<1> QED  BY <1>3, <1>4, <1>5, <1>6

\* Scores tell placements of one size apart.
LEMMA ScoreKeys ==
  ASSUME NEW j \in Jobs, NEW n \in Nat, NEW view, NEW F \in SUBSET (SUBSET GPUs),
         \A P \in F : P \subseteq view.gpus /\ Cardinality(P) = n
  PROVE  Keys(F, [P \in F |-> Score(j, view, P)])
<1> DEFINE Spans(P) == IF TopologyMode[j] \in {"prefer_same_rack", "require_same_rack"}
                       THEN {RackDomain(m) : m \in NodesOf(P)} ELSE NodesOf(P)
           a(P) == <<Cardinality(Spans(P)),
                     Max({0} \cup {Distance(p[1], p[2]) : p \in PairsOf(NodesOf(P))}),
                     AverageDistance(NodesOf(P)),
                     FragmentationDelta(view, P),
                     Waste(j, P)>>
           b(P) == InOrder(P, [g \in P |-> <<g>>])
<1>1. \A P \in F : Score(j, view, P) = a(P) \o b(P)
  BY DEF Score
<1>2. ASSUME NEW P \in F PROVE a(P) \in Seq(Int) /\ Len(a(P)) = 5
  <2>1. Cardinality(Spans(P)) \in Int
    <3>1. Cardinality(NodesOf(P)) \in Nat /\ Cardinality({RackDomain(m) : m \in NodesOf(P)}) \in Nat
      BY NodesFinite
    <3> QED  BY <3>1
  <2>2. /\ Max({0} \cup {Distance(p[1], p[2]) : p \in PairsOf(NodesOf(P))}) \in Int
        /\ AverageDistance(NodesOf(P)) \in Int
        /\ FragmentationDelta(view, P) \in Int
        /\ Waste(j, P) \in Int
    BY ScoreParts
  <2> HIDE DEF Spans
  <2> QED  BY <2>1, <2>2
<1>3. ASSUME NEW P \in F
      PROVE  b(P) \in Seq(Int) /\ \A x : x \in P <=> \E i \in 1 .. Len(b(P)) : b(P)[i] = x
  <2> DEFINE key == [g \in P |-> <<g>>]
  <2>1. Keys(P, key) /\ IsFiniteSet(P) /\ Cardinality(P) = n /\ P \in SUBSET Int
    BY GpuFacts, GpuSetsFinite DEF Keys
  <2> HIDE DEF key
  <2>2. /\ InOrder(P, key) \in [1 .. n -> P]
        /\ \A x \in P : \E i \in 1 .. n : InOrder(P, key)[i] = x
    BY <2>1, InOrderLists
  <2>3. Len(InOrder(P, key)) = n /\ InOrder(P, key) \in Seq(Int)
    <3> DEFINE L == InOrder(P, key)
    <3>1. L \in [1 .. n -> Int]
      BY <2>1, <2>2
    <3> HIDE DEF L
    <3>2. Len(L) = n /\ L \in Seq(Int)
      BY <3>1
    <3> QED  BY <3>2 DEF L
  <2> QED  BY <2>2, <2>3 DEF key
<1> HIDE DEF a, b
<1>4. \A P \in F : Score(j, view, P) \in Seq(Int)
  <2> SUFFICES ASSUME NEW P \in F PROVE Score(j, view, P) \in Seq(Int)
    OBVIOUS
  <2>1. a(P) \o b(P) \in Seq(Int)
    BY <1>2, <1>3, Attached
  <2> QED  BY <1>1, <2>1
<1>5. ASSUME NEW P \in F, NEW Q \in F, Score(j, view, P) = Score(j, view, Q) PROVE P = Q
  <2>1. a(P) \o b(P) = a(Q) \o b(Q)
    BY <1>1, <1>5
  <2>2. b(P) = b(Q)
    BY <1>2, <1>3, <2>1, AttachedApart
  <2> QED  BY <1>3, <2>2
<1> QED  BY <1>4, <1>5 DEF Keys

\* The best candidate on some hosts is a set of n that meets the requirement; there is
\* none only if no n of them do.
LEMMA LocalisedExact ==
  ASSUME NEW j \in Jobs, NEW n \in Nat \ {0}, NEW view, NEW eligible \in SUBSET Hosts(j, view),
         NEW P, P = Localised(j, n, eligible, view)
  PROVE  /\ P # {} => P \in SUBSET eligible /\ Cardinality(P) = n /\ RequirementMet(j, P)
         /\ P = {} => \A G \in SUBSET eligible : Cardinality(G) = n => ~RequirementMet(j, G)
<1> DEFINE F == {Q \in Candidates(j, n, eligible) : RequirementMet(j, Q)}
           score == [Q \in F |-> Score(j, view, Q)]
<1>1. eligible \in SUBSET GPUs /\ eligible \subseteq view.gpus
  BY HostsAre
<1>2. \A Q \in F : Q \in SUBSET eligible /\ Cardinality(Q) = n /\ RequirementMet(j, Q)
  BY <1>1, CandidateTakes
<1>3. P = UNION Least(F, score)
  BY DEF Localised
<1>4. IsFiniteSet(F)
  <2>1. IsFiniteSet(SUBSET eligible)
    BY <1>1, GpuSetsFinite, FS_SUBSET
  <2>2. F \in SUBSET (SUBSET eligible)
    BY <1>2
  <2> HIDE DEF F
  <2> QED  BY <2>1, <2>2, FS_Subset
<1>5. Keys(F, score)
  <2>1. F \in SUBSET (SUBSET GPUs) /\ \A Q \in F : Q \subseteq view.gpus /\ Cardinality(Q) = n
    BY <1>1, <1>2
  <2> HIDE DEF F
  <2> QED  BY <2>1, ScoreKeys
<1>6. F = {} => \A G \in SUBSET eligible : Cardinality(G) = n => ~RequirementMet(j, G)
  BY <1>1, CandidateMeets
<1> HIDE DEF F, score
<1>7. CASE F = {}
  <2>1. Least(F, score) = {}
    BY <1>7 DEF Least, First
  <2> QED  BY <1>3, <1>6, <1>7, <2>1
<1>8. CASE F # {}
  <2>1. PICK Q \in F : Least(F, score) = {Q}
    BY <1>4, <1>5, <1>8, LeastOne
  <2>2. P = Q
    BY <1>3, <2>1
  <2>3. Q # {}
    BY <1>2, FS_EmptySet
  <2> QED  BY <1>2, <2>2, <2>3
<1> QED  BY <1>7, <1>8

\* A set of GPUs of one vendor, and the other way round.
LEMMA OneVendor ==
  ASSUME NEW P \in SUBSET GPUs
  PROVE  /\ \A w : P # {} /\ P \subseteq OfVendor(P, w) => Cardinality(Vendors(P)) = 1
         /\ Cardinality(Vendors(P)) = 1 => \E w \in Vendors(P) : P \subseteq OfVendor(P, w)
         /\ Cardinality(P) = 1 => Cardinality(Vendors(P)) = 1
<1>1. ASSUME NEW w, P # {}, P \subseteq OfVendor(P, w) PROVE Cardinality(Vendors(P)) = 1
  <2>1. Vendors(P) = {w}
    BY <1>1 DEF Vendors, OfVendor
  <2> QED  BY <2>1, FS_Singleton
<1>2. IsFiniteSet(Vendors(P))
  <2> DEFINE f == [g \in P |-> VendorOf[g]]
  <2>1. Range(f) = Vendors(P) /\ f \in [P -> Range(f)] /\ \A y \in Range(f) : \E x \in P : f[x] = y
    BY DEF Range, Vendors
  <2> HIDE DEF f
  <2> QED  BY <2>1, GpuSetsFinite, Fun_IsSurj, FS_Surjection
<1>3. ASSUME Cardinality(Vendors(P)) = 1 PROVE \E w \in Vendors(P) : P \subseteq OfVendor(P, w)
  <2>1. PICK w : Vendors(P) = {w}
    BY <1>2, <1>3, FS_Singleton
  <2> QED  BY <2>1 DEF Vendors, OfVendor
<1>4. ASSUME Cardinality(P) = 1 PROVE Cardinality(Vendors(P)) = 1
  <2>1. PICK g : P = {g}
    BY <1>4, GpuSetsFinite, FS_Singleton
  <2> QED  BY <1>1, <2>1 DEF OfVendor
<1> QED  BY <1>1, <1>3, <1>4

\* P is what a scheduler should return for n GPUs on the view: a placement, or none if
\* there is none.
Exact(j, n, view, P) ==
  /\ P # {} => IsPlacement(j, n, view, P)
  /\ P = {} => \A G : ~IsPlacement(j, n, view, G)

\* The topology-aware scheduler is exact.
LEMMA TopologyPlaceExact ==
  ASSUME NEW j \in Jobs, NEW n \in Nat \ {0}, NEW view
  PROVE  Exact(j, n, view, TopologyPlace(j, n, view))
<1> DEFINE hosts == Hosts(j, view)
           On(w) == Localised(j, n, OfVendor(hosts, w), view)
           found == {w \in Vendors(hosts) : On(w) # {}}
           P == TopologyPlace(j, n, view)
<1>1. hosts \in SUBSET GPUs
  BY HostsAre
<1>2. CASE n <= 1
  <2>1. P = Localised(j, n, hosts, view) /\ n = 1
    BY <1>2 DEF TopologyPlace
  <2>2. /\ P # {} => P \in SUBSET hosts /\ Cardinality(P) = n /\ RequirementMet(j, P)
        /\ P = {} => \A G \in SUBSET hosts : Cardinality(G) = n => ~RequirementMet(j, G)
    BY <2>1, LocalisedExact
  <2> HIDE DEF P
  <2>3. ASSUME NEW G, IsPlacement(j, n, view, G) PROVE P # {}
    BY <2>2, <2>3 DEF IsPlacement
  <2>4. ASSUME P # {} PROVE IsPlacement(j, n, view, P)
    <3>1. P \in SUBSET GPUs /\ Cardinality(P) = 1
      BY <1>1, <2>1, <2>2, <2>4
    <3>2. Cardinality(Vendors(P)) = 1
      BY <3>1, OneVendor
    <3> QED  BY <2>2, <2>4, <3>2 DEF IsPlacement
  <2> QED  BY <2>3, <2>4 DEF Exact, P
<1>3. CASE n > 1
  <2>1. P = IF found = {} THEN {} ELSE On(Min(found))
    BY <1>3 DEF TopologyPlace
  <2>2. ASSUME NEW w
        PROVE  /\ On(w) # {} => /\ On(w) \in SUBSET OfVendor(hosts, w) /\ Cardinality(On(w)) = n
                                /\ RequirementMet(j, On(w))
               /\ On(w) = {} => \A G \in SUBSET OfVendor(hosts, w) : Cardinality(G) = n => ~RequirementMet(j, G)
    <3>1. OfVendor(hosts, w) \in SUBSET hosts
      BY DEF OfVendor
    <3> QED  BY <3>1, LocalisedExact
  <2>3. found \in SUBSET Nat /\ \A w \in found : On(w) # {}
    <3>1. Vendors(hosts) \in SUBSET Nat
      BY <1>1, GpuFacts DEF Vendors
    <3> QED  BY <3>1
  <2>4. \A w \in Vendors(hosts) : On(w) # {} => w \in found
    OBVIOUS
  <2> HIDE DEF found, On, P
  <2>5. CASE found = {}
    <3> SUFFICES ASSUME NEW G, IsPlacement(j, n, view, G) PROVE FALSE
      BY <2>1, <2>5 DEF Exact, P
    <3>1. G \in SUBSET hosts /\ Cardinality(G) = n /\ RequirementMet(j, G)
      BY DEF IsPlacement
    <3>2. PICK w \in Vendors(G) : G \subseteq OfVendor(G, w)
      BY <1>1, <3>1, OneVendor DEF IsPlacement
    <3>3. w \in Vendors(hosts) /\ G \in SUBSET OfVendor(hosts, w)
      BY <3>1, <3>2 DEF Vendors, OfVendor
    <3> QED  BY <2>2, <2>4, <2>5, <3>1, <3>3
  <2>6. CASE found # {}
    <3> DEFINE w == Min(found)
    <3>1. w \in found
      BY <2>3, <2>6, MinIn
    <3> HIDE DEF w
    <3>2. P = On(w) /\ On(w) # {}
      BY <2>1, <2>3, <2>6, <3>1 DEF w
    <3>3. P \in SUBSET OfVendor(hosts, w) /\ Cardinality(P) = n /\ RequirementMet(j, P)
      BY <2>2, <3>2
    <3>4. P \in SUBSET hosts /\ P \subseteq OfVendor(P, w)
      BY <3>3 DEF OfVendor
    <3>5. Cardinality(Vendors(P)) = 1
      BY <1>1, <3>2, <3>4, OneVendor
    <3> QED  BY <3>2, <3>3, <3>4, <3>5 DEF Exact, IsPlacement, P
  <2> QED  BY <2>5, <2>6 DEF P
<1> QED  BY <1>2, <1>3

-----------------------------------------------------------------------------
(* The other schedulers.                                                   *)

\* The eligible GPUs are n hosts of one vendor, if there are that many.
LEMMA EligibleExact ==
  ASSUME NEW j \in Jobs, NEW n \in Nat \ {0}, NEW view
  PROVE  LET E == Eligible(j, n, view)
         IN  /\ E \in SUBSET Hosts(j, view)
             /\ \A P \in SUBSET E : Cardinality(P) = n => Cardinality(Vendors(P)) = 1
             /\ Cardinality(E) < n => \A G : ~IsPlacement(j, n, view, G)
<1> DEFINE hosts == Hosts(j, view)
           enough == {w \in Vendors(hosts) : Cardinality(OfVendor(hosts, w)) >= n}
           E == Eligible(j, n, view)
<1>1. hosts \in SUBSET GPUs
  BY HostsAre
<1>2. \A S, T \in SUBSET GPUs : S \subseteq T => Cardinality(S) <= Cardinality(T)
  BY GpuSetsFinite, FS_Subset
<1>3. \A S \in SUBSET GPUs : Cardinality(S) \in Nat
  BY GpuSetsFinite
<1>4. CASE n <= 1
  <2>1. E = hosts /\ n = 1
    BY <1>4 DEF Eligible
  <2>2. \A P \in SUBSET hosts : Cardinality(P) = 1 => Cardinality(Vendors(P)) = 1
    BY <1>1, OneVendor
  <2>3. \A G : IsPlacement(j, n, view, G) => Cardinality(hosts) >= n
    BY <1>1, <1>2 DEF IsPlacement
  <2>4. Cardinality(hosts) \in Nat
    BY <1>1, <1>3
  <2> HIDE DEF hosts, E
  <2> QED  BY <2>1, <2>2, <2>3, <2>4 DEF E, hosts
<1>5. CASE n > 1
  <2>1. E = IF enough = {} THEN {} ELSE OfVendor(hosts, Min(enough))
    BY <1>5 DEF Eligible
  <2>2. enough \in SUBSET Nat /\ \A w \in enough : Cardinality(OfVendor(hosts, w)) >= n
    <3>1. Vendors(hosts) \in SUBSET Nat
      BY <1>1, GpuFacts DEF Vendors
    <3> QED  BY <3>1
  <2>3. \A w \in Vendors(hosts) : Cardinality(OfVendor(hosts, w)) >= n => w \in enough
    OBVIOUS
  <2>4. \A w : OfVendor(hosts, w) \in SUBSET hosts
    BY DEF OfVendor
  <2> HIDE DEF enough, E
  <2>5. CASE enough = {}
    <3>1. E = {} /\ E \in SUBSET GPUs
      BY <2>1, <2>5
    <3>2. ASSUME NEW G, IsPlacement(j, n, view, G) PROVE FALSE
      <4>1. G \in SUBSET hosts /\ Cardinality(G) = n
        BY <3>2 DEF IsPlacement
      <4>2. PICK w \in Vendors(G) : G \subseteq OfVendor(G, w)
        BY <1>1, <3>2, <4>1, OneVendor DEF IsPlacement
      <4>3. w \in Vendors(hosts) /\ G \subseteq OfVendor(hosts, w)
        BY <4>1, <4>2 DEF Vendors, OfVendor
      <4>4. Cardinality(OfVendor(hosts, w)) >= n
        BY <1>1, <1>2, <1>3, <2>4, <4>1, <4>3
      <4> QED  BY <2>3, <2>5, <4>3, <4>4
    <3>3. \A P \in SUBSET E : Cardinality(P) # n
      BY <3>1, FS_EmptySet
    <3> QED  BY <3>1, <3>2, <3>3 DEF E
  <2>6. CASE enough # {}
    <3> DEFINE w == Min(enough)
    <3>1. w \in enough
      BY <2>2, <2>6, MinIn
    <3> HIDE DEF w
    <3>2. E = OfVendor(hosts, w) /\ Cardinality(E) >= n
      BY <2>1, <2>2, <2>6, <3>1 DEF w
    <3>3. E \in SUBSET hosts /\ Cardinality(E) \in Nat
      BY <1>1, <1>3, <2>4, <3>2
    <3>4. ASSUME NEW P \in SUBSET E, Cardinality(P) = n PROVE Cardinality(Vendors(P)) = 1
      <4>1. P \subseteq OfVendor(P, w) /\ P \in SUBSET GPUs
        BY <1>1, <3>2, <3>3 DEF OfVendor
      <4>2. P # {}
        BY <3>4, FS_EmptySet
      <4> QED  BY <4>1, <4>2, OneVendor
    <3>5. ~(Cardinality(E) < n)
      BY <3>2, <3>3
    <3> QED  BY <3>3, <3>4, <3>5 DEF E, hosts
  <2> QED  BY <2>5, <2>6
<1> QED  BY <1>4, <1>5

\* So a scheduler that takes the first of them, in any order, is exact.
LEMMA OrderedExact ==
  ASSUME NEW j \in Jobs, ~Requires(j), NEW n \in Nat \ {0}, NEW view, NEW key,
         Keys(Eligible(j, n, view), key)
  PROVE  Exact(j, n, view, Ordered(j, n, view, key))
<1> DEFINE E == Eligible(j, n, view)
           P == Ordered(j, n, view, key)
<1>1. /\ E \in SUBSET Hosts(j, view)
      /\ \A Q \in SUBSET E : Cardinality(Q) = n => Cardinality(Vendors(Q)) = 1
      /\ Cardinality(E) < n => \A G : ~IsPlacement(j, n, view, G)
  BY EligibleExact
<1>2. P = IF Cardinality(E) < n THEN {} ELSE First(E, n, key)
  BY DEF Ordered
<1>3. IsFiniteSet(E) /\ Cardinality(E) \in Nat
  BY <1>1, HostsAre, GpuSetsFinite
<1> HIDE DEF E, P
<1>4. CASE Cardinality(E) < n
  BY <1>1, <1>2, <1>4 DEF Exact, P
<1>5. CASE ~(Cardinality(E) < n)
  <2>1. P \in SUBSET E /\ Cardinality(P) = n
    <3>1. n <= Cardinality(E) /\ Keys(E, key)
      BY <1>3, <1>5 DEF E
    <3>2. Cardinality(First(E, n, key)) = n
      BY <1>3, <3>1, FirstCount
    <3> QED  BY <1>2, <1>5, <3>2 DEF First
  <2>2. RequirementMet(j, P)
    BY DEF RequirementMet, Requires
  <2>3. P # {}
    BY <2>1, FS_EmptySet
  <2> QED  BY <1>1, <2>1, <2>2, <2>3 DEF Exact, IsPlacement, P
<1> QED  BY <1>4, <1>5

\* FIFO is exact.
LEMMA FIFOPlaceExact ==
  ASSUME NEW j \in Jobs, NEW n \in Nat \ {0}, NEW view
  PROVE  Exact(j, n, view, FIFOPlace(j, n, view))
<1> DEFINE E == Eligible(j, n, view)
           key == [g \in GPUs |-> <<NodeOf[g], g>>]
<1>1. E \in SUBSET GPUs
  BY EligibleExact, HostsAre
<1>2. Keys(E, key)
  <2>1. \A g \in E : key[g] = <<NodeOf[g], g>>
    BY <1>1
  <2>2. \A g \in E : g \in Int /\ NodeOf[g] \in Int
    BY <1>1, GpuFacts
  <2> HIDE DEF key, E
  <2>3. \A a, b \in Int : <<a, b>> \in Seq(Int)
    OBVIOUS
  <2>4. \A g \in E : key[g] \in Seq(Int)
    BY <2>1, <2>2, <2>3
  <2>5. \A g, h \in E : key[g] = key[h] => g = h
    BY <2>1
  <2> QED  BY <2>4, <2>5 DEF Keys
<1>3. CASE Requires(j)
  BY <1>3, TopologyPlaceExact DEF FIFOPlace
<1>4. CASE ~Requires(j)
  BY <1>2, <1>4, OrderedExact DEF FIFOPlace
<1> QED  BY <1>3, <1>4

\* The round that takes a GPU tells the GPUs of a node apart, so spread is exact.
LEMMA SpreadPlaceExact ==
  ASSUME NEW j \in Jobs, NEW n \in Nat \ {0}, NEW view
  PROVE  Exact(j, n, view, SpreadPlace(j, n, view))
<1> DEFINE E == Eligible(j, n, view)
           Here(g) == E \cap OnNode(NodeOf[g])
           Round(g) == Cardinality({h \in Here(g) : Less(<<Slack(j, h), h>>, <<Slack(j, g), g>>)})
           key == [g \in E |-> <<Round(g), OccupiedOn(view, NodeOf[g]), NodeOf[g]>>]
<1>1. E \in SUBSET GPUs
  BY EligibleExact, HostsAre
<1>2. ASSUME NEW g \in E
      PROVE  Round(g) \in Nat /\ OccupiedOn(view, NodeOf[g]) \in Nat /\ NodeOf[g] \in Int
  <2>1. view.occupied \cap OnNode(NodeOf[g]) \in SUBSET GPUs
    BY DEF OnNode
  <2>2. {h \in Here(g) : Less(<<Slack(j, h), h>>, <<Slack(j, g), g>>)} \in SUBSET GPUs
    BY <1>1
  <2>3. Round(g) \in Nat /\ OccupiedOn(view, NodeOf[g]) \in Nat
    BY <2>1, <2>2, GpuSetsFinite DEF OccupiedOn
  <2>4. NodeOf[g] \in Int
    BY <1>1, GpuFacts
  <2> QED  BY <2>3, <2>4
<1>3. ASSUME NEW g \in E, NEW h \in E, NodeOf[g] = NodeOf[h], Round(g) = Round(h)
      PROVE  g = h
  <2> DEFINE S == Here(g)
             fit == [x \in S |-> <<Slack(j, x), x>>]
             R == KeyOrder(S, fit)
  <2>1. S \in SUBSET GPUs /\ IsFiniteSet(S) /\ g \in S /\ h \in S /\ Here(h) = S
    BY <1>1, <1>3, GpuSetsFinite DEF OnNode
  <2>2. Keys(S, fit)
    <3>1. \A x \in S : x \in Int /\ Slack(j, x) \in Int /\ fit[x] = <<Slack(j, x), x>>
      BY <2>1, GpuFacts
    <3> HIDE DEF S, fit
    <3>2. \A a, b \in Int : <<a, b>> \in Seq(Int)
      OBVIOUS
    <3>3. \A x \in S : fit[x] \in Seq(Int)
      BY <3>1, <3>2
    <3>4. \A x, y \in S : fit[x] = fit[y] => x = y
      BY <3>1
    <3> QED  BY <3>3, <3>4 DEF Keys
  <2>3. \A x \in S : Rank(x, R, S) = Cardinality({y \in S : Less(<<Slack(j, y), y>>, <<Slack(j, x), x>>)})
    <3> SUFFICES ASSUME NEW x \in S
                 PROVE  Rank(x, R, S) = Cardinality({y \in S : Less(<<Slack(j, y), y>>, <<Slack(j, x), x>>)})
      OBVIOUS
    <3>1. {y \in S : Less(fit[y], fit[x])} = {y \in S : Less(<<Slack(j, y), y>>, <<Slack(j, x), x>>)}
      OBVIOUS
    <3>2. Rank(x, R, S) = Cardinality({y \in S : Less(fit[y], fit[x])})
      <4> HIDE DEF S, fit
      <4> QED  BY <2>2, KeysOrder
    <3> QED  BY <3>1, <3>2
  <2>4. Rank(g, R, S) = Round(g) /\ Rank(h, R, S) = Round(h)
    BY <2>1, <2>3
  <2> HIDE DEF S, fit, R, Round
  <2>5. StrictOrder(R, S)
    BY <2>2, KeysOrder DEF R
  <2>6. /\ Rank(g, R, S) \in 0 .. Cardinality(S) - 1
        /\ \A x, y \in S : <<x, y>> \in R => Rank(x, R, S) < Rank(y, R, S)
    BY <2>1, <2>5, RankBijection
  <2>7. g # h => <<g, h>> \in R \/ <<h, g>> \in R
    BY <2>1, <2>5 DEF StrictOrder
  <2> QED  BY <1>2, <1>3, <2>1, <2>4, <2>6, <2>7
<1>4. Keys(E, key)
  <2>1. \A g \in E : key[g] = <<Round(g), OccupiedOn(view, NodeOf[g]), NodeOf[g]>>
    OBVIOUS
  <2> HIDE DEF key, E, Round
  <2>2. \A g \in E : key[g] \in Seq(Int)
    <3>1. \A a, b, c \in Int : <<a, b, c>> \in Seq(Int)
      OBVIOUS
    <3> SUFFICES ASSUME NEW g \in E PROVE key[g] \in Seq(Int)
      OBVIOUS
    <3>2. Round(g) \in Int /\ OccupiedOn(view, NodeOf[g]) \in Int /\ NodeOf[g] \in Int
      BY <1>2
    <3>3. <<Round(g), OccupiedOn(view, NodeOf[g]), NodeOf[g]>> \in Seq(Int)
      BY <3>1, <3>2
    <3> QED  BY <2>1, <3>3
  <2>3. \A g, h \in E : key[g] = key[h] => g = h
    <3> SUFFICES ASSUME NEW g \in E, NEW h \in E, key[g] = key[h] PROVE g = h
      OBVIOUS
    <3>1. Round(g) = Round(h) /\ NodeOf[g] = NodeOf[h]
      BY <2>1
    <3> QED  BY <1>3, <3>1
  <2> QED  BY <2>2, <2>3 DEF Keys
<1>5. SpreadPlace(j, n, view) = IF Requires(j) THEN TopologyPlace(j, n, view)
                                ELSE Ordered(j, n, view, key)
  BY DEF SpreadPlace
<1> HIDE DEF key, E
<1>6. CASE Requires(j)
  BY <1>5, <1>6, TopologyPlaceExact
<1>7. CASE ~Requires(j)
  BY <1>4, <1>5, <1>7, OrderedExact DEF E
<1> QED  BY <1>6, <1>7

\* Bin-packing is exact.
LEMMA BinPackPlaceExact ==
  ASSUME NEW j \in Jobs, NEW n \in Nat \ {0}, NEW view
  PROVE  Exact(j, n, view, BinPackPlace(j, n, view))
<1> DEFINE E == Eligible(j, n, view)
           used(m) == OccupiedOn(view, m)
           here(m) == E \cap OnNode(m)
           NodeKey(m) == <<IF used(m) = 0 THEN 1 ELSE 0, -used(m), Cardinality(here(m)),
                           Waste(j, here(m)), m>>
           fit(g) == <<Slack(j, g), g>>
           key == [g \in E |-> NodeKey(NodeOf[g]) \o fit(g)]
<1>1. E \in SUBSET GPUs
  BY EligibleExact, HostsAre
<1>2. ASSUME NEW g \in E PROVE NodeKey(NodeOf[g]) \in Seq(Int) /\ Len(NodeKey(NodeOf[g])) = 5
  <2> DEFINE m == NodeOf[g]
  <2>1. view.occupied \cap OnNode(m) \in SUBSET GPUs /\ here(m) \in SUBSET GPUs
    BY <1>1 DEF OnNode
  <2>2. used(m) \in Nat /\ Cardinality(here(m)) \in Nat
    BY <2>1, GpuSetsFinite DEF OccupiedOn
  <2>3. Waste(j, here(m)) \in Int
    BY <2>1, WasteType
  <2>4. m \in Int
    BY <1>1, GpuFacts
  <2> HIDE DEF here, used, m
  <2>5. -used(m) \in Int
    BY <2>2
  <2> QED  BY <2>2, <2>3, <2>4, <2>5 DEF m
<1>3. \A g \in E : fit(g) \in Seq(Int) /\ fit(g)[2] = g
  <2>1. \A g \in E : g \in Int /\ Slack(j, g) \in Int
    BY <1>1, GpuFacts
  <2> QED  BY <2>1
<1>4. Keys(E, key)
  <2>1. \A g \in E : key[g] = NodeKey(NodeOf[g]) \o fit(g)
    OBVIOUS
  <2> HIDE DEF key, E, NodeKey, fit
  <2>2. \A g \in E : key[g] \in Seq(Int)
    <3> SUFFICES ASSUME NEW g \in E PROVE key[g] \in Seq(Int)
      OBVIOUS
    <3>1. NodeKey(NodeOf[g]) \in Seq(Int) /\ fit(g) \in Seq(Int)
      BY <1>2, <1>3
    <3>2. NodeKey(NodeOf[g]) \o fit(g) \in Seq(Int)
      BY <3>1, Attached
    <3> QED  BY <2>1, <3>2
  <2>3. \A g, h \in E : key[g] = key[h] => g = h
    <3> SUFFICES ASSUME NEW g \in E, NEW h \in E, key[g] = key[h] PROVE g = h
      OBVIOUS
    <3> DEFINE a == NodeKey(NodeOf[g])
               b == fit(g)
               c == NodeKey(NodeOf[h])
               d == fit(h)
    <3>1. /\ a \in Seq(Int) /\ b \in Seq(Int) /\ c \in Seq(Int) /\ d \in Seq(Int)
          /\ Len(a) = Len(c) /\ a \o b = c \o d
      BY <1>2, <1>3, <2>1
    <3> HIDE DEF a, b, c, d
    <3>2. b = d
      BY <3>1, AttachedApart
    <3>3. fit(g) = fit(h)
      BY <3>2 DEF b, d
    <3> QED  BY <1>3, <3>3
  <2> QED  BY <2>2, <2>3 DEF Keys
<1>5. BinPackPlace(j, n, view) = IF Requires(j) THEN TopologyPlace(j, n, view)
                                 ELSE Ordered(j, n, view, key)
  BY DEF BinPackPlace
<1> HIDE DEF key, E
<1>6. CASE Requires(j)
  BY <1>5, <1>6, TopologyPlaceExact
<1>7. CASE ~Requires(j)
  BY <1>4, <1>5, <1>7, OrderedExact DEF E
<1> QED  BY <1>6, <1>7

\* The GPUs a vendor preference may use.
KnownView(view) ==
  [gpus |-> {g \in view.gpus : VendorOf[g] # UnknownVendor}, occupied |-> view.occupied]

\* The vendor preference is exact on them.
LEMMA VendorPlaceExact ==
  ASSUME NEW j \in Jobs, NEW n \in Nat \ {0}, NEW view, NEW preferred
  PROVE  Exact(j, n, KnownView(view), VendorPlace(preferred, j, n, view))
<1> DEFINE available == Vendors(view.gpus \cap Compatible[j]) \ {UnknownVendor}
           On(w) == TopologyPlace(j, n, VendorView(view, w))
           found == {w \in available : On(w) # {}}
           P == VendorPlace(preferred, j, n, view)
           known == KnownView(view)
<1>1. P = IF found = {} THEN {} ELSE IF preferred \in found THEN On(preferred) ELSE On(Min(found))
  BY DEF VendorPlace
<1>2. \A w : w # UnknownVendor => Hosts(j, VendorView(view, w)) = OfVendor(Hosts(j, known), w)
  BY DEF Hosts, VendorView, KnownView, OfVendor
<1>3. \A w : Exact(j, n, VendorView(view, w), On(w))
  BY TopologyPlaceExact
<1>4. found \in SUBSET Nat /\ UnknownVendor \notin found /\ \A w \in found : On(w) # {}
  <2>1. Compatible[j] \in SUBSET GPUs
    BY DEF Compatible
  <2>2. available \in SUBSET Nat
    BY <2>1, GpuFacts DEF Vendors
  <2> QED  BY <2>2
<1>5. \A w \in available : On(w) # {} => w \in found
  OBVIOUS
<1>6. \A w : OfVendor(Hosts(j, known), w) \subseteq Hosts(j, known)
  BY DEF OfVendor
<1> HIDE DEF found, On, P, known
<1>7. CASE found = {}
  <2> SUFFICES ASSUME NEW G, IsPlacement(j, n, known, G) PROVE FALSE
    BY <1>1, <1>7 DEF Exact, P, known
  <2>1. G \in SUBSET Hosts(j, known) /\ G \in SUBSET GPUs
    BY HostsAre DEF IsPlacement
  <2>2. PICK w \in Vendors(G) : G \subseteq OfVendor(G, w)
    BY <2>1, OneVendor DEF IsPlacement
  <2>3. w \in available
    BY <2>1, <2>2 DEF Vendors, OfVendor, Hosts, KnownView, known
  <2>4. G \subseteq OfVendor(Hosts(j, known), w)
    BY <2>1, <2>2 DEF OfVendor
  <2>5. IsPlacement(j, n, VendorView(view, w), G)
    BY <1>2, <2>3, <2>4 DEF IsPlacement
  <2>6. On(w) # {}
    BY <1>3, <2>5 DEF Exact
  <2> QED  BY <1>5, <1>7, <2>3, <2>6
<1>8. CASE found # {}
  <2>1. PICK w \in found : P = On(w)
    <3>1. Min(found) \in found
      BY <1>4, <1>8, MinIn
    <3> QED  BY <1>1, <1>8, <3>1
  <2>2. IsPlacement(j, n, VendorView(view, w), P) /\ P # {}
    BY <1>3, <1>4, <2>1 DEF Exact
  <2>3. P \subseteq Hosts(j, known)
    BY <1>2, <1>4, <1>6, <2>2 DEF IsPlacement
  <2>4. IsPlacement(j, n, known, P)
    BY <2>2, <2>3 DEF IsPlacement
  <2> QED  BY <2>2, <2>4 DEF Exact, P, known
<1> QED  BY <1>7, <1>8
=============================================================================
