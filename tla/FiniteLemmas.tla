---------------------------- MODULE FiniteLemmas ----------------------------
(***************************************************************************)
(* Lemmas about minimal elements, finite sums and the elements of a finite *)
(* set in the order of a relation. They replace induction: a statement that*)
(* fails for some number or some subset fails for a least one.             *)
(***************************************************************************)
EXTENDS FiniteSetTheorems, FunctionTheorems, TLAPS

\* A nonempty set of subsets of a finite set has a minimal element.
LEMMA MinimalSubset ==
  ASSUME NEW S, IsFiniteSet(S), NEW B \in SUBSET (SUBSET S), B # {}
  PROVE  \E T \in B : \A U \in B : U \subseteq T => U = T
<1>1. IsWellFoundedOn(StrictSubsetOrdering(S), SUBSET S)
  BY FS_StrictSubsetOrderingWellFounded, FS_FiniteSubsetsOfFinite
<1>2. \E T \in B : \A U \in B : <<U, T>> \notin StrictSubsetOrdering(S)
  BY <1>1, WFMin
<1> QED  BY <1>2 DEF StrictSubsetOrdering

\* A nonempty set of numbers has a least element.
LEMMA LeastNumber ==
  ASSUME NEW B \in SUBSET Nat, B # {}
  PROVE  \E n \in B : \A m \in B : n <= m
<1>1. PICK b \in B : TRUE
  OBVIOUS
<1> DEFINE D == 0 .. b
           C == {T \in SUBSET D : \E n \in B : T = 0 .. n}
<1>2. C \in SUBSET (SUBSET D) /\ C # {}
  <2>1. D \in C
    OBVIOUS
  <2> QED  BY <2>1
<1>3. PICK T \in C : \A U \in C : U \subseteq T => U = T
  <2>1. IsFiniteSet(D)
    BY FS_Interval
  <2> HIDE DEF C, D
  <2> QED  BY <1>2, <2>1, MinimalSubset
<1> HIDE DEF C
<1>4. PICK n \in B : T = 0 .. n
  BY <1>3 DEF C
<1>5. n <= b
  BY <1>3, <1>4 DEF C
<1>6. ASSUME NEW m \in B, m < n PROVE FALSE
  <2>1. 0 .. m \in C /\ 0 .. m \subseteq T
    BY <1>4, <1>5, <1>6 DEF C
  <2>2. n \in 0 .. m
    BY <1>3, <1>4, <2>1
  <2> QED  BY <1>6, <2>2
<1> QED  BY <1>6

-----------------------------------------------------------------------------
(* Sums and products.                                                      *)

\* The element the recursion of the library takes next.
Pick(s) == CHOOSE x \in s : TRUE

\* The result for nothing, and with one more value, of a sum or else of a product.
Nothing(sum) == IF sum THEN 0 ELSE 1
With(sum, x, y) == IF sum THEN x + y ELSE x * y

\* g holds the sums of f over all subsets of S, or the products.
Iterates(g, f, S, sum) ==
  g = [s \in SUBSET S |->
         IF s = {} THEN Nothing(sum) ELSE With(sum, f[Pick(s)], g[s \ {Pick(s)}])]

\* CHOOSE picks an element.
LEMMA PickIn == \A s : s # {} => Pick(s) \in s
BY DEF Pick

\* One step of such a function.
LEMMA IteratesAt ==
  ASSUME NEW sum, NEW g, NEW f, NEW S, Iterates(g, f, S, sum), NEW s \in SUBSET S
  PROVE  g[s] = IF s = {} THEN Nothing(sum) ELSE With(sum, f[Pick(s)], g[s \ {Pick(s)}])
BY DEF Iterates

\* Two such functions agree where both are defined.
LEMMA IteratesUnique ==
  ASSUME NEW sum, NEW f, NEW S, NEW T \in SUBSET S, IsFiniteSet(S), NEW g, NEW h,
         Iterates(g, f, S, sum), Iterates(h, f, T, sum)
  PROVE  g[T] = h[T]
<1> DEFINE B == {s \in SUBSET T : g[s] # h[s]}
<1> SUFFICES ASSUME B # {} PROVE FALSE
  OBVIOUS
<1>1. PICK s \in B : \A u \in B : u \subseteq s => u = s
  <2>1. IsFiniteSet(T) /\ B \in SUBSET (SUBSET T)
    BY FS_Subset
  <2> HIDE DEF B
  <2> QED  BY <2>1, MinimalSubset
<1>2. CASE s = {}
  BY <1>1, <1>2, IteratesAt
<1>3. CASE s # {}
  <2> DEFINE u == s \ {Pick(s)}
  <2>1. u \in SUBSET T /\ u \subseteq s /\ u # s
    BY <1>3, PickIn
  <2>2. g[u] = h[u]
    BY <1>1, <2>1
  <2>3. g[s] = With(sum, f[Pick(s)], g[u])
    <3>1. s \in SUBSET S
      OBVIOUS
    <3> QED  BY <1>3, <3>1, IteratesAt
  <2>4. h[s] = With(sum, f[Pick(s)], h[u])
    BY <1>3, IteratesAt
  <2> QED  BY <2>2, <2>3, <2>4
<1> QED  BY <1>2, <1>3

\* There is such a function for every finite set.
LEMMA IteratesExists ==
  ASSUME NEW sum, NEW f, NEW S, IsFiniteSet(S)
  PROVE  \E g : Iterates(g, f, S, sum)
<1> DEFINE B == {s \in SUBSET S : ~ \E g : Iterates(g, f, s, sum)}
<1> SUFFICES ASSUME B # {} PROVE FALSE
  OBVIOUS
<1>1. PICK T \in B : \A u \in B : u \subseteq T => u = T
  <2>1. B \in SUBSET (SUBSET S)
    OBVIOUS
  <2> HIDE DEF B
  <2> QED  BY <2>1, MinimalSubset
<1> DEFINE Of(u) == CHOOSE g : Iterates(g, f, u, sum)
           Rest(s) == s \ {Pick(s)}
           h == [s \in SUBSET T |-> IF s = {} THEN Nothing(sum)
                                ELSE With(sum, f[Pick(s)], Of(Rest(s))[Rest(s)])]
<1>2. \A u \in SUBSET T : u # T => Iterates(Of(u), f, u, sum)
  <2> SUFFICES ASSUME NEW u \in SUBSET T, u # T PROVE \E g : Iterates(g, f, u, sum)
    OBVIOUS
  <2> QED  BY <1>1
<1>3. \A s \in SUBSET T : s # {} => Rest(s) \in SUBSET T /\ Rest(s) # T
  BY PickIn
<1>4. ASSUME NEW s \in SUBSET T, s # {}
      PROVE  h[Rest(s)] = Of(Rest(s))[Rest(s)]
  <2> DEFINE u == Rest(s)
             v == Rest(u)
  <2> HIDE DEF Of
  <2>1. u \in SUBSET T /\ u # T /\ IsFiniteSet(u)
    BY <1>3, <1>4, FS_Subset
  <2>2. Of(u)[u] = IF u = {} THEN Nothing(sum) ELSE With(sum, f[Pick(u)], Of(u)[v])
    <3> HIDE DEF u
    <3>1. Iterates(Of(u), f, u, sum) /\ u \in SUBSET u
      BY <1>2, <2>1
    <3> QED  BY <3>1, IteratesAt
  <2>3. CASE u = {}
    BY <2>2, <2>3
  <2>4. CASE u # {}
    <3>1. v \in SUBSET T /\ v # T /\ v \in SUBSET u
      BY <1>3, <2>1, <2>4
    <3>2. Of(u)[v] = Of(v)[v]
      BY <1>2, <2>1, <3>1, IteratesUnique
    <3> QED  BY <2>1, <2>2, <2>4, <3>2
  <2> QED  BY <2>3, <2>4
<1>5. Iterates(h, f, T, sum)
  <2> HIDE DEF Of
  <2>1. \A s \in SUBSET T : h[s] = IF s = {} THEN Nothing(sum) ELSE With(sum, f[Pick(s)], h[Rest(s)])
    BY <1>4
  <2> QED  BY <2>1 DEF Iterates
<1> QED  BY <1>1, <1>5

\* The sum or product over S, by such a function.
Iterated(f, S, sum) == (CHOOSE g : Iterates(g, f, S, sum))[S]

\* It is what the recursion says.
LEMMA IteratesUnfold ==
  ASSUME NEW sum, NEW f, NEW S, IsFiniteSet(S)
  PROVE  Iterated(f, S, sum) = IF S = {} THEN Nothing(sum)
                               ELSE With(sum, f[Pick(S)], Iterated(f, S \ {Pick(S)}, sum))
<1> DEFINE Iter(T) == CHOOSE g : Iterates(g, f, T, sum)
<1>0. \A T : Iterated(f, T, sum) = Iter(T)[T]
  BY DEF Iterated
<1>1. \A T \in SUBSET S : Iterates(Iter(T), f, T, sum)
  BY IteratesExists, FS_Subset
<1> HIDE DEF Iter
<1>2. CASE S = {}
  BY <1>0, <1>1, <1>2, IteratesAt
<1>3. CASE S # {}
  <2> DEFINE U == S \ {Pick(S)}
  <2>1. U \in SUBSET S
    OBVIOUS
  <2>2. Iter(S)[S] = With(sum, f[Pick(S)], Iter(S)[U])
    BY <1>1, <1>3, IteratesAt
  <2>3. Iter(S)[U] = Iter(U)[U]
    BY <1>1, <2>1, IteratesUnique
  <2> QED  BY <1>0, <1>3, <2>2, <2>3
<1> QED  BY <1>2, <1>3

\* The sum of a nonempty set starts with the element CHOOSE picks.
LEMMA SumUnfolds ==
  ASSUME NEW f, NEW S, IsFiniteSet(S)
  PROVE  SumFunctionOnSet(f, S) =
           IF S = {} THEN 0 ELSE f[Pick(S)] + SumFunctionOnSet(f, S \ {Pick(S)})
<1>1. \A T : SumFunctionOnSet(f, T) = Iterated(f, T, TRUE)
  BY DEF SumFunctionOnSet, FoldFunctionOnSet, MapThenFoldSet, Iterated, Iterates, Pick, Nothing, With
<1> QED  BY <1>1, IteratesUnfold DEF Nothing, With

\* Sums and products of integers are integers.
LEMMA IteratedInteger ==
  ASSUME NEW sum, NEW f, NEW S, IsFiniteSet(S), \A x \in S : f[x] \in Int
  PROVE  Iterated(f, S, sum) \in Int
<1> DEFINE B == {T \in SUBSET S : Iterated(f, T, sum) \notin Int}
<1> SUFFICES ASSUME B # {} PROVE FALSE
  OBVIOUS
<1>1. PICK T \in B : \A U \in B : U \subseteq T => U = T
  <2>1. B \in SUBSET (SUBSET S)
    OBVIOUS
  <2> HIDE DEF B
  <2> QED  BY <2>1, MinimalSubset
<1>2. IsFiniteSet(T)
  BY FS_Subset
<1>3. Iterated(f, T, sum) = IF T = {} THEN Nothing(sum)
                            ELSE With(sum, f[Pick(T)], Iterated(f, T \ {Pick(T)}, sum))
  BY <1>2, IteratesUnfold
<1>4. Nothing(sum) \in Int /\ \A x, y \in Int : With(sum, x, y) \in Int
  BY DEF Nothing, With
<1>5. T # {}
  BY <1>3, <1>4
<1>6. f[Pick(T)] \in Int /\ Iterated(f, T \ {Pick(T)}, sum) \in Int
  BY <1>1, <1>5, PickIn
<1> QED  BY <1>3, <1>4, <1>5, <1>6

\* In particular the sum of integers is one.
LEMMA SumInteger ==
  ASSUME NEW f, NEW S, IsFiniteSet(S), \A x \in S : f[x] \in Int
  PROVE  SumFunctionOnSet(f, S) \in Int
<1>1. SumFunctionOnSet(f, S) = Iterated(f, S, TRUE)
  BY DEF SumFunctionOnSet, FoldFunctionOnSet, MapThenFoldSet, Iterated, Iterates, Pick, Nothing, With
<1> QED  BY <1>1, IteratedInteger

\* The sum over nothing is zero.
LEMMA SumEmpty == \A f : SumFunctionOnSet(f, {}) = 0
BY FS_EmptySet, SumUnfolds

\* A sum of numbers is a number.
LEMMA SumType ==
  ASSUME NEW f, NEW S, IsFiniteSet(S), \A x \in S : f[x] \in Nat
  PROVE  SumFunctionOnSet(f, S) \in Nat
<1> DEFINE B == {s \in SUBSET S : SumFunctionOnSet(f, s) \notin Nat}
<1> SUFFICES ASSUME B # {} PROVE FALSE
  OBVIOUS
<1>1. PICK T \in B : \A u \in B : u \subseteq T => u = T
  <2>1. B \in SUBSET (SUBSET S)
    OBVIOUS
  <2> HIDE DEF B
  <2> QED  BY <2>1, MinimalSubset
<1>2. IsFiniteSet(T)
  BY FS_Subset
<1>3. T # {}
  <2>1. SumFunctionOnSet(f, T) \notin Nat
    BY <1>1
  <2> QED  BY <2>1, SumEmpty
<1>4. SumFunctionOnSet(f, T \ {Pick(T)}) \in Nat
  BY <1>1, <1>3, PickIn
<1> QED  BY <1>1, <1>2, <1>3, <1>4, PickIn, SumUnfolds

\* Any element may be taken out of a sum.
LEMMA SumTakeOut ==
  ASSUME NEW f, NEW S, IsFiniteSet(S), \A x \in S : f[x] \in Nat, NEW z \in S
  PROVE  SumFunctionOnSet(f, S) = f[z] + SumFunctionOnSet(f, S \ {z})
<1> DEFINE Sum(s) == SumFunctionOnSet(f, s)
           B == {s \in SUBSET S : \E x \in s : Sum(s) # f[x] + Sum(s \ {x})}
<1> SUFFICES ASSUME B # {} PROVE FALSE
  OBVIOUS
<1>1. PICK T \in B : \A u \in B : u \subseteq T => u = T
  <2>1. B \in SUBSET (SUBSET S)
    OBVIOUS
  <2> HIDE DEF B
  <2> QED  BY <2>1, MinimalSubset
<1>2. PICK x \in T : Sum(T) # f[x] + Sum(T \ {x})
  OBVIOUS
<1> DEFINE y == Pick(T)
           R == (T \ {x}) \ {y}
<1>3. y \in T /\ IsFiniteSet(T) /\ IsFiniteSet(R) /\ R = (T \ {y}) \ {x}
  BY PickIn, FS_Subset
<1>4. Sum(T) = f[y] + Sum(T \ {y})
  BY <1>3, SumUnfolds
<1>5. x # y
  BY <1>2, <1>4
<1>6. T \ {y} \notin B /\ T \ {x} \notin B
  BY <1>1, <1>3
<1>7. Sum(T \ {y}) = f[x] + Sum(R) /\ Sum(T \ {x}) = f[y] + Sum(R)
  BY <1>3, <1>5, <1>6
<1>8. f[x] \in Nat /\ f[y] \in Nat /\ Sum(R) \in Nat
  BY <1>3, SumType
<1> HIDE DEF Sum
<1> QED  BY <1>2, <1>4, <1>7, <1>8

\* Sums grow with their summands.
LEMMA SumMonotone ==
  ASSUME NEW f, NEW g, NEW S, IsFiniteSet(S),
         \A x \in S : f[x] \in Nat /\ g[x] \in Nat /\ f[x] <= g[x]
  PROVE  SumFunctionOnSet(f, S) <= SumFunctionOnSet(g, S)
<1> DEFINE B == {s \in SUBSET S : ~ SumFunctionOnSet(f, s) <= SumFunctionOnSet(g, s)}
<1> SUFFICES ASSUME B # {} PROVE FALSE
  OBVIOUS
<1>1. PICK T \in B : \A u \in B : u \subseteq T => u = T
  <2>1. B \in SUBSET (SUBSET S)
    OBVIOUS
  <2> HIDE DEF B
  <2> QED  BY <2>1, MinimalSubset
<1>2. IsFiniteSet(T) /\ ~ SumFunctionOnSet(f, T) <= SumFunctionOnSet(g, T)
  BY <1>1, FS_Subset
<1>3. T # {}
  BY <1>2, SumEmpty
<1> DEFINE y == Pick(T)
           R == T \ {y}
<1>4. y \in T /\ IsFiniteSet(R) /\ R \notin B
  BY <1>1, <1>2, <1>3, PickIn, FS_Subset
<1>5. SumFunctionOnSet(f, R) <= SumFunctionOnSet(g, R)
  BY <1>4
<1>6. SumFunctionOnSet(f, R) \in Nat /\ SumFunctionOnSet(g, R) \in Nat
  BY <1>4, SumType
<1>7. /\ SumFunctionOnSet(f, T) = f[y] + SumFunctionOnSet(f, R)
      /\ SumFunctionOnSet(g, T) = g[y] + SumFunctionOnSet(g, R)
  BY <1>2, <1>3, SumUnfolds
<1> QED  BY <1>2, <1>4, <1>5, <1>6, <1>7

\* The sum over two disjoint sets is the sum of their sums.
LEMMA SumDisjoint ==
  ASSUME NEW f, NEW S, NEW U, IsFiniteSet(S), IsFiniteSet(U), S \cap U = {},
         \A x \in S \cup U : f[x] \in Nat
  PROVE  SumFunctionOnSet(f, S \cup U) = SumFunctionOnSet(f, S) + SumFunctionOnSet(f, U)
<1> DEFINE Sum(s) == SumFunctionOnSet(f, s)
           B == {s \in SUBSET S : Sum(s \cup U) # Sum(s) + Sum(U)}
<1> SUFFICES ASSUME B # {} PROVE FALSE
  OBVIOUS
<1>1. PICK T \in B : \A u \in B : u \subseteq T => u = T
  <2>1. B \in SUBSET (SUBSET S)
    OBVIOUS
  <2> HIDE DEF B
  <2> QED  BY <2>1, MinimalSubset
<1>2. IsFiniteSet(T) /\ IsFiniteSet(T \cup U) /\ Sum(T \cup U) # Sum(T) + Sum(U)
  BY <1>1, FS_Subset, FS_Union
<1>0. Sum(U) \in Nat
  BY SumType
<1>3. T # {}
  <2> SUFFICES ASSUME T = {} PROVE FALSE
    OBVIOUS
  <2>1. Sum(T) = 0
    BY <1>2, SumUnfolds
  <2>2. T \cup U = U
    OBVIOUS
  <2> HIDE DEF Sum
  <2> QED  BY <1>0, <1>2, <2>1, <2>2
<1> DEFINE y == Pick(T)
           R == T \ {y}
<1>4. y \in T /\ IsFiniteSet(R) /\ R \notin B /\ (T \cup U) \ {y} = R \cup U
  BY <1>1, <1>2, <1>3, PickIn, FS_Subset
<1>5. Sum(R \cup U) = Sum(R) + Sum(U)
  BY <1>4
<1>6. Sum(R) \in Nat /\ f[y] \in Nat
  BY <1>4, SumType
<1>7. Sum(T) = f[y] + Sum(R)
  BY <1>2, <1>3, SumUnfolds
<1>8. Sum(T \cup U) = f[y] + Sum(R \cup U)
  BY <1>2, <1>4, SumTakeOut
<1> HIDE DEF Sum
<1> QED  BY <1>0, <1>2, <1>5, <1>6, <1>7, <1>8

\* Sums of equal summands are equal.
LEMMA SumEqual ==
  ASSUME NEW f, NEW g, NEW S, IsFiniteSet(S), \A x \in S : f[x] \in Nat /\ g[x] = f[x]
  PROVE  SumFunctionOnSet(g, S) = SumFunctionOnSet(f, S)
<1>1. /\ SumFunctionOnSet(f, S) <= SumFunctionOnSet(g, S)
      /\ SumFunctionOnSet(g, S) <= SumFunctionOnSet(f, S)
  BY SumMonotone
<1>2. SumFunctionOnSet(f, S) \in Nat /\ SumFunctionOnSet(g, S) \in Nat
  BY SumType
<1> QED  BY <1>1, <1>2

\* What one summand gains, the sum gains.
LEMMA SumGains ==
  ASSUME NEW f, NEW g, NEW S, IsFiniteSet(S), NEW z \in S, NEW n \in Nat,
         \A x \in S : f[x] \in Nat,
         \A x \in S : g[x] = IF x = z THEN f[x] + n ELSE f[x]
  PROVE  SumFunctionOnSet(g, S) = SumFunctionOnSet(f, S) + n
<1> DEFINE R == S \ {z}
<1>1. IsFiniteSet(R)
  BY FS_Subset
<1>2. /\ SumFunctionOnSet(f, S) = f[z] + SumFunctionOnSet(f, R)
      /\ SumFunctionOnSet(g, S) = g[z] + SumFunctionOnSet(g, R)
  BY SumTakeOut
<1>3. SumFunctionOnSet(g, R) = SumFunctionOnSet(f, R)
  BY <1>1, SumEqual
<1>4. SumFunctionOnSet(f, R) \in Nat /\ f[z] \in Nat
  BY <1>1, SumType
<1> QED  BY <1>2, <1>3, <1>4

\* A sum of zeros is zero.
LEMMA SumZero ==
  ASSUME NEW f, NEW S, IsFiniteSet(S), \A x \in S : f[x] = 0
  PROVE  SumFunctionOnSet(f, S) = 0
<1> DEFINE B == {T \in SUBSET S : SumFunctionOnSet(f, T) # 0}
<1> SUFFICES ASSUME B # {} PROVE FALSE
  OBVIOUS
<1>1. PICK T \in B : \A U \in B : U \subseteq T => U = T
  <2>1. B \in SUBSET (SUBSET S)
    OBVIOUS
  <2> HIDE DEF B
  <2> QED  BY <2>1, MinimalSubset
<1>2. IsFiniteSet(T) /\ T # {}
  BY SumEmpty, FS_Subset
<1>3. PICK x \in T : TRUE
  BY <1>2
<1>4. SumFunctionOnSet(f, T) = f[x] + SumFunctionOnSet(f, T \ {x})
  BY <1>2, SumTakeOut
<1>5. T \ {x} \notin B /\ T \ {x} \in SUBSET S
  BY <1>1, <1>3
<1> QED  BY <1>1, <1>3, <1>4, <1>5

-----------------------------------------------------------------------------
(* Ranks.                                                                  *)

\* R orders S totally and strictly; the rank of an element counts those before it.
StrictOrder(R, S) ==
  /\ \A x \in S : <<x, x>> \notin R
  /\ \A x, y \in S : x # y => <<x, y>> \in R \/ <<y, x>> \in R
  /\ \A x, y, z \in S : <<x, y>> \in R /\ <<y, z>> \in R => <<x, z>> \in R

Rank(x, R, S) == Cardinality({y \in S : <<y, x>> \in R})

\* The elements of a finite set are numbered from zero in the order of the relation.
LEMMA RankBijection ==
  ASSUME NEW S, NEW R, IsFiniteSet(S), StrictOrder(R, S)
  PROVE  /\ \A x \in S : Rank(x, R, S) \in 0 .. Cardinality(S) - 1
         /\ \A x, y \in S : <<x, y>> \in R <=> Rank(x, R, S) < Rank(y, R, S)
         /\ \A n \in 0 .. Cardinality(S) - 1 : \E x \in S : Rank(x, R, S) = n
<1> DEFINE Below(x) == {y \in S : <<y, x>> \in R}
<1>1. ASSUME NEW x \in S
      PROVE  Cardinality(Below(x)) \in 0 .. Cardinality(S) - 1
  <2>1. Below(x) \in SUBSET S /\ Below(x) # S
    BY DEF StrictOrder
  <2> HIDE DEF Below
  <2>2. IsFiniteSet(Below(x)) /\ Cardinality(Below(x)) <= Cardinality(S) /\ Cardinality(Below(x)) # Cardinality(S)
    BY <2>1, FS_Subset
  <2>3. Cardinality(Below(x)) \in Nat /\ Cardinality(S) \in Nat
    BY <2>2, FS_CardinalityType
  <2> QED  BY <2>2, <2>3
<1>2. ASSUME NEW x \in S, NEW y \in S, <<x, y>> \in R
      PROVE  Cardinality(Below(x)) < Cardinality(Below(y))
  <2>1. Below(x) \in SUBSET Below(y) /\ Below(x) # Below(y) /\ Below(y) \in SUBSET S
    BY <1>2 DEF StrictOrder
  <2> HIDE DEF Below
  <2>2. IsFiniteSet(Below(y))
    BY <2>1, FS_Subset
  <2>3. IsFiniteSet(Below(x)) /\ Cardinality(Below(x)) <= Cardinality(Below(y))
        /\ Cardinality(Below(x)) # Cardinality(Below(y))
    BY <2>1, <2>2, FS_Subset
  <2>4. Cardinality(Below(x)) \in Nat /\ Cardinality(Below(y)) \in Nat
    BY <2>2, <2>3, FS_CardinalityType
  <2> QED  BY <2>3, <2>4
<1> DEFINE N == 0 .. Cardinality(S) - 1
           rank == [x \in S |-> Cardinality(Below(x))]
<1>3. Cardinality(S) \in Nat
  BY FS_CardinalityType
<1>4. IsFiniteSet(N) /\ Cardinality(N) = Cardinality(S)
  BY <1>3, FS_Interval
<1> HIDE DEF Below
<1>5. rank \in [S -> N]
  BY <1>1
<1>6. \A x, y \in S : rank[x] = rank[y] => x = y
  <2> SUFFICES ASSUME NEW x \in S, NEW y \in S, rank[x] = rank[y], x # y PROVE FALSE
    OBVIOUS
  <2>1. <<x, y>> \in R \/ <<y, x>> \in R
    BY DEF StrictOrder
  <2>2. Cardinality(Below(x)) < Cardinality(Below(y)) \/ Cardinality(Below(y)) < Cardinality(Below(x))
    BY <1>2, <2>1
  <2>3. Cardinality(Below(x)) \in Int /\ Cardinality(Below(x)) = Cardinality(Below(y))
    BY <1>1
  <2> QED  BY <2>2, <2>3
<1>7. rank \in Injection(S, N)
  BY <1>5, <1>6, Fun_IsInj
<1>8. rank \in Surjection(S, N)
  <2> HIDE DEF N, rank
  <2> QED  BY <1>4, <1>7, FS_Injection
<1>9. \A n \in N : \E x \in S : rank[x] = n
  <2> HIDE DEF N, rank
  <2> QED  BY <1>8, Fun_SurjectionProperties
<1>10. \A x, y \in S : Cardinality(Below(x)) < Cardinality(Below(y)) => <<x, y>> \in R
  <2> SUFFICES ASSUME NEW x \in S, NEW y \in S, Cardinality(Below(x)) < Cardinality(Below(y)),
                      <<x, y>> \notin R
               PROVE  FALSE
    OBVIOUS
  <2>1. Cardinality(Below(x)) \in Int /\ Cardinality(Below(y)) \in Int
    BY <1>1
  <2>2. x # y
    BY <2>1
  <2>3. <<y, x>> \in R
    BY <2>2 DEF StrictOrder
  <2>4. Cardinality(Below(y)) < Cardinality(Below(x))
    BY <1>2, <2>3
  <2> QED  BY <2>1, <2>4
<1>11. \A x : Rank(x, R, S) = Cardinality(Below(x))
  BY DEF Rank, Below
<1> QED  BY <1>1, <1>2, <1>9, <1>10, <1>11
=============================================================================
