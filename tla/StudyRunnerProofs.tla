-------------------------- MODULE StudyRunnerProofs --------------------------
(***************************************************************************)
(* Proofs about StudyRunner: the invariants of the output directory and the *)
(* two action properties, for every plan list, every number of retries and *)
(* every number of worker processes.                                       *)
(***************************************************************************)
EXTENDS StudyRunner, FiniteLemmas, SequenceTheorems

-----------------------------------------------------------------------------
(* Sequences and their elements.                                           *)

\* The elements of two sequences one after the other.
LEMMA ToSetConcat ==
  ASSUME NEW A, NEW s \in Seq(A), NEW t \in Seq(A)
  PROVE  ToSet(s \o t) = ToSet(s) \cup ToSet(t)
<1>1. /\ Len(s) \in Nat /\ Len(t) \in Nat
      /\ DOMAIN s = 1 .. Len(s) /\ DOMAIN t = 1 .. Len(t)
      /\ DOMAIN (s \o t) = 1 .. Len(s) + Len(t)
      /\ \A i \in 1 .. Len(s) + Len(t) :
           (s \o t)[i] = IF i <= Len(s) THEN s[i] ELSE t[i - Len(s)]
  BY ConcatProperties, LenProperties
<1>2. ToSet(s \o t) \subseteq ToSet(s) \cup ToSet(t)
  <2> SUFFICES ASSUME NEW i \in 1 .. Len(s) + Len(t)
               PROVE  (s \o t)[i] \in ToSet(s) \cup ToSet(t)
    BY <1>1 DEF ToSet
  <2>1. CASE i <= Len(s)
    BY <1>1, <2>1 DEF ToSet
  <2>2. CASE i > Len(s)
    <3>1. i - Len(s) \in 1 .. Len(t)
      BY <1>1, <2>2
    <3> QED  BY <1>1, <2>2, <3>1 DEF ToSet
  <2> QED  BY <1>1, <2>1, <2>2
<1>3. ToSet(s) \subseteq ToSet(s \o t)
  <2> SUFFICES ASSUME NEW i \in 1 .. Len(s) PROVE s[i] \in ToSet(s \o t)
    BY <1>1 DEF ToSet
  <2>1. i \in 1 .. Len(s) + Len(t) /\ (s \o t)[i] = s[i]
    BY <1>1
  <2> QED  BY <1>1, <2>1 DEF ToSet
<1>4. ToSet(t) \subseteq ToSet(s \o t)
  <2> SUFFICES ASSUME NEW i \in 1 .. Len(t) PROVE t[i] \in ToSet(s \o t)
    BY <1>1 DEF ToSet
  <2>1. i + Len(s) \in 1 .. Len(s) + Len(t) /\ (s \o t)[i + Len(s)] = t[i]
    BY <1>1
  <2> QED  BY <1>1, <2>1 DEF ToSet
<1> QED  BY <1>2, <1>3, <1>4


\* Ranked lists every element once, in the order of the relation.
LEMMA RankedIs ==
  ASSUME NEW S, NEW R, IsFiniteSet(S), StrictOrder(R, S)
  PROVE  /\ Cardinality(S) \in Nat
         /\ Ranked(S, R) \in [1 .. Cardinality(S) -> S]
         /\ \A x \in S : \E n \in 1 .. Cardinality(S) : Ranked(S, R)[n] = x
         /\ \A i, k \in 1 .. Cardinality(S) : i < k => <<Ranked(S, R)[i], Ranked(S, R)[k]>> \in R
<1>0. Cardinality(S) \in Nat
  BY FS_CardinalityType
<1> DEFINE N == Cardinality(S)
           order == Ranked(S, R)
<1>1. order = [n \in 1 .. N |-> CHOOSE x \in S : Rank(x, R, S) = n - 1]
  BY DEF Ranked, Rank
<1> HIDE DEF N, order
<1>2. /\ \A x \in S : Rank(x, R, S) \in 0 .. N - 1
      /\ \A x, y \in S : <<x, y>> \in R <=> Rank(x, R, S) < Rank(y, R, S)
      /\ \A n \in 0 .. N - 1 : \E x \in S : Rank(x, R, S) = n
  BY RankBijection DEF N
<1>3. N \in Nat
  BY <1>0 DEF N
<1>4. ASSUME NEW n \in 1 .. N
      PROVE  order[n] \in S /\ Rank(order[n], R, S) = n - 1
  <2>1. n - 1 \in 0 .. N - 1
    BY <1>3
  <2>2. \E x \in S : Rank(x, R, S) = n - 1
    BY <1>2, <2>1
  <2> QED  BY <1>1, <2>2
<1>5. order \in [1 .. N -> S]
  BY <1>1, <1>4
<1>6. ASSUME NEW x \in S PROVE \E n \in 1 .. N : order[n] = x
  <2>1. Rank(x, R, S) + 1 \in 1 .. N
    BY <1>2, <1>3
  <2> DEFINE y == order[Rank(x, R, S) + 1]
  <2>2. y \in S /\ Rank(y, R, S) = Rank(x, R, S)
    BY <1>2, <1>4, <2>1
  <2>3. <<x, y>> \notin R /\ <<y, x>> \notin R
    BY <1>2, <2>2
  <2>4. x = y
    BY <2>2, <2>3 DEF StrictOrder
  <2> QED  BY <2>1, <2>4
<1>7. ASSUME NEW i \in 1 .. N, NEW k \in 1 .. N, i < k
      PROVE  <<order[i], order[k]>> \in R
  <2>1. i - 1 < k - 1
    BY <1>3, <1>7
  <2> QED  BY <1>2, <1>4, <2>1
<1> QED  BY <1>0, <1>5, <1>6, <1>7 DEF N, order

\* The elements of a sequence are finitely many.
LEMMA ToSetFinite ==
  ASSUME NEW A, NEW s \in Seq(A)
  PROVE  IsFiniteSet(ToSet(s)) /\ ToSet(s) \subseteq A
<1>1. DOMAIN s = 1 .. Len(s) /\ Len(s) \in Nat /\ IsFiniteSet(1 .. Len(s))
  BY LenProperties, FS_Interval
<1>2. s \in Surjection(1 .. Len(s), ToSet(s))
  BY <1>1, Fun_IsSurj DEF ToSet
<1>3. IsFiniteSet(ToSet(s))
  BY <1>1, <1>2, FS_Surjection
<1> QED  BY <1>1, <1>3 DEF ToSet

\* Plans are listed once, so their positions order them strictly.
LEMMA PlanOrderStrict ==
  ASSUME NEW c \in Configs, NEW S \in SUBSET ToSet(PlansOf[c])
  PROVE  IsFiniteSet(S) /\ StrictOrder(PlanOrder(c), S)
<1>1. PlansOf[c] \in Seq(Nat) /\ \A i, k \in DOMAIN PlansOf[c] : PlansOf[c][i] = PlansOf[c][k] => i = k
  BY StudyAssumption DEF IsInjective
<1>2. IsFiniteSet(S)
  BY <1>1, ToSetFinite, FS_Subset
<1> DEFINE D == DOMAIN PlansOf[c]
           at(i) == PlansOf[c][i]
<1>3. D \in SUBSET Nat
  BY <1>1, LenProperties
<1>4. \A x, y : <<x, y>> \in PlanOrder(c) <=> \E i, k \in D : i < k /\ at(i) = x /\ at(k) = y
  BY DEF PlanOrder, ToSet
<1>5. \A x \in S : \E i \in D : at(i) = x
  BY DEF ToSet
<1>6. \A i, k \in D : at(i) = at(k) => i = k
  BY <1>1
<1> HIDE DEF D, at
<1>7. \A x \in S : <<x, x>> \notin PlanOrder(c)
  BY <1>3, <1>4, <1>6
<1>8. \A x, y \in S : x # y => <<x, y>> \in PlanOrder(c) \/ <<y, x>> \in PlanOrder(c)
  <2> SUFFICES ASSUME NEW x \in S, NEW y \in S, x # y
               PROVE  <<x, y>> \in PlanOrder(c) \/ <<y, x>> \in PlanOrder(c)
    OBVIOUS
  <2>1. PICK i \in D : at(i) = x
    BY <1>5
  <2>2. PICK k \in D : at(k) = y
    BY <1>5
  <2>3. i < k \/ k < i
    BY <1>3, <2>1, <2>2
  <2> QED  BY <1>4, <2>1, <2>2, <2>3
<1>9. \A x, y, z \in S : <<x, y>> \in PlanOrder(c) /\ <<y, z>> \in PlanOrder(c)
                          => <<x, z>> \in PlanOrder(c)
  <2> SUFFICES ASSUME NEW x \in S, NEW y \in S, NEW z \in S,
                      <<x, y>> \in PlanOrder(c), <<y, z>> \in PlanOrder(c)
               PROVE  <<x, z>> \in PlanOrder(c)
    OBVIOUS
  <2>1. PICK i, k \in D : i < k /\ at(i) = x /\ at(k) = y
    BY <1>4
  <2>2. PICK l, m \in D : l < m /\ at(l) = y /\ at(m) = z
    BY <1>4
  <2>3. k = l
    BY <1>6, <2>1, <2>2
  <2>4. i < m
    BY <1>3, <2>1, <2>2, <2>3
  <2> QED  BY <1>4, <2>1, <2>2, <2>4
<1> QED  BY <1>2, <1>7, <1>8, <1>9 DEF StrictOrder

\* The records grow from each to the next.
Increasing(s) == \A i, k \in DOMAIN s : i < k => s[i] < s[k]

\* sorted() returns the same records in increasing order.
LEMMA SortedIs ==
  ASSUME NEW s \in Seq(Nat), IsInjective(s)
  PROVE  /\ Sorted(s) \in Seq(Nat) /\ DOMAIN Sorted(s) = DOMAIN s
         /\ Increasing(Sorted(s))
         /\ ToSet(Sorted(s)) = ToSet(s)
<1> DEFINE D == DOMAIN s
           R == SortOrder(s)
           order == Ranked(D, R)
<1>1. D = 1 .. Len(s) /\ Len(s) \in Nat /\ \A i \in D : s[i] \in Nat
  BY LenProperties
<1>2. \A i, k \in D : s[i] = s[k] => i = k
  BY DEF IsInjective
<1>3. IsFiniteSet(D) /\ Cardinality(D) = Len(s)
  <2> DEFINE L == Len(s)
  <2> HIDE DEF D, L
  <2>1. D = 1 .. L /\ L \in Nat
    BY <1>1 DEF L
  <2>2. IsFiniteSet(1 .. L) /\ Cardinality(1 .. L) = L
    BY <2>1, FS_Interval
  <2> QED  BY <2>1, <2>2 DEF L
<1>4. \A i, k : <<i, k>> \in R <=> i \in D /\ k \in D /\ (s[i] < s[k] \/ (s[i] = s[k] /\ i < k))
  BY DEF SortOrder
<1>5. Sorted(s) = [n \in D |-> s[order[n]]]
  BY DEF Sorted
<1> HIDE DEF D, R
<1>6. StrictOrder(R, D)
  <2>1. \A x \in D : <<x, x>> \notin R
    BY <1>1, <1>4
  <2>2. \A x, y \in D : x # y => <<x, y>> \in R \/ <<y, x>> \in R
    BY <1>1, <1>2, <1>4
  <2>3. \A x, y, z \in D : <<x, y>> \in R /\ <<y, z>> \in R => <<x, z>> \in R
    BY <1>1, <1>2, <1>4
  <2> QED  BY <2>1, <2>2, <2>3 DEF StrictOrder
<1> HIDE DEF order
<1>7. /\ order \in [D -> D]
      /\ \A x \in D : \E n \in D : order[n] = x
      /\ \A i, k \in D : i < k => <<order[i], order[k]>> \in R
  <2>1. D = 1 .. Cardinality(D)
    BY <1>1, <1>3
  <2>2. /\ order \in [1 .. Cardinality(D) -> D]
        /\ \A x \in D : \E n \in 1 .. Cardinality(D) : order[n] = x
        /\ \A i, k \in 1 .. Cardinality(D) : i < k => <<order[i], order[k]>> \in R
    BY <1>3, <1>6, RankedIs DEF order
  <2> QED  BY <2>1, <2>2
<1>8. Sorted(s) \in Seq(Nat) /\ DOMAIN Sorted(s) = D
  <2>1. Sorted(s) = [n \in 1 .. Len(s) |-> s[order[n]]] /\ \A n \in 1 .. Len(s) : s[order[n]] \in Nat
    BY <1>1, <1>5, <1>7
  <2> QED  BY <1>1, <2>1
<1>9. \A i, k \in D : i < k => s[order[i]] < s[order[k]]
  <2> SUFFICES ASSUME NEW i \in D, NEW k \in D, i < k PROVE s[order[i]] < s[order[k]]
    OBVIOUS
  <2>1. <<order[i], order[k]>> \in R /\ order[i] \in D /\ order[k] \in D
    BY <1>7
  <2>2. s[order[i]] < s[order[k]] \/ (s[order[i]] = s[order[k]] /\ order[i] < order[k])
    BY <1>4, <2>1
  <2>3. ~ order[i] < order[i]
    BY <1>1, <2>1
  <2>4. s[order[i]] # s[order[k]] \/ order[i] = order[k]
    BY <1>2, <2>1
  <2> QED  BY <2>2, <2>3, <2>4
<1>10. ToSet(Sorted(s)) = ToSet(s)
  BY <1>5, <1>7, <1>8 DEF ToSet, D
<1> QED  BY <1>5, <1>8, <1>9, <1>10 DEF Increasing, D
-----------------------------------------------------------------------------
(* The files and what is written to them.                                  *)


\* The files of a study are all different.
LEMMA FilesDistinct ==
  /\ \A p, q, k, l : Attempt(p, k) = Attempt(q, l) => p = q /\ k = l
  /\ \A p, q : Result(p) = Result(q) => p = q
  /\ \A p, q : Manifest(p) = Manifest(q) => p = q
  /\ \A p, q, k : Attempt(p, k) # Result(q) /\ Attempt(p, k) # Manifest(q) /\ Result(p) # Manifest(q)
BY DEF Attempt, Result, Manifest

\* The artifacts of a study differ from each other and from the files of its runs.
LEMMA StudyFilesDistinct ==
  ASSUME NEW i \in DOMAIN StudyFiles
  PROVE  /\ \A p, k : StudyFiles[i] # Attempt(p, k)
         /\ \A p : StudyFiles[i] # Result(p) /\ StudyFiles[i] # Manifest(p)
         /\ \A k \in DOMAIN StudyFiles : StudyFiles[k] = StudyFiles[i] => k = i
<1>1. \A p, k : Len(Attempt(p, k)) = 3 /\ Len(Result(p)) = 2 /\ Len(Manifest(p)) = 2
  BY DEF Attempt, Result, Manifest
<1>2. i \in 1 .. 3 /\ DOMAIN StudyFiles = 1 .. 3
  BY DEF StudyFiles
<1>3. \A k \in 1 .. 3 : Len(StudyFiles[k]) = 1
  BY DEF StudyFiles
<1>4. StudyFiles[1][1] = "manifest" /\ StudyFiles[2][1] = "runs" /\ StudyFiles[3][1] = "summary"
  BY DEF StudyFiles
<1> QED  BY <1>1, <1>2, <1>3, <1>4

\* What is written to a file is neither nothing nor torn.
LEMMA ContentsDistinct ==
  /\ Absent # Torn /\ Absent # <<"error">>
  /\ \A x, y : <<x, y>> # Absent /\ <<x, y>> # Torn
  /\ Torn[1] # "complete"
  /\ \A x, y : <<x, y>>[1] = x /\ <<x, y>>[2] = y
<1>1. Len(Absent) = 0 /\ Len(Torn) = 1 /\ Len(<<"error">>) = 1 /\ \A x, y : Len(<<x, y>>) = 2
  BY DEF Absent, Torn
<1> QED  BY <1>1 DEF Torn

\* The writes of an outcome: error files, the record, the manifest.
ErrorWrite(p, k) == Write(Attempt(p, k), <<"error">>)

RecordWrite(p) == Write(Result(p), <<"record", p>>)
ManifestWrite(p, o) ==
  Write(Manifest(p), IF Succeeded(o) THEN <<"complete", o.errors + 1>> ELSE <<"failed", o.errors>>)

ErrorWrites(p, o) == {ErrorWrite(p, k) : k \in 1 .. o.errors}
                     \cup IF o.warm THEN {} ELSE {ErrorWrite(p, 0)}

\* The list of writes of one outcome, its elements, and its manifest at the end.
LEMMA OutcomeWritesAre ==
  ASSUME NEW p, NEW o \in Outcomes, MaxRetries \in Nat
  PROVE  /\ OutcomeWrites(p, o) \in Seq(ToSet(OutcomeWrites(p, o)))
         /\ OutcomeWrites(p, o) # <<>>
         /\ ToSet(OutcomeWrites(p, o)) = ErrorWrites(p, o) \cup
              IF Succeeded(o)
              THEN {Write(Result(p), <<"record", p>>), Write(Manifest(p), <<"complete", o.errors + 1>>)}
              ELSE {Write(Manifest(p), <<"failed", o.errors>>)}
         /\ \A i \in 1 .. Len(OutcomeWrites(p, o)) - 1 :
              OutcomeWrites(p, o)[i].file # Manifest(p)
<1> DEFINE a == IF o.warm THEN <<>> ELSE <<ErrorWrite(p, 0)>>
           b == [k \in 1 .. o.errors |-> ErrorWrite(p, k)]
           c == IF Succeeded(o)
                THEN <<Write(Result(p), <<"record", p>>), Write(Manifest(p), <<"complete", o.errors + 1>>)>>
                ELSE <<Write(Manifest(p), <<"failed", o.errors>>)>>
           d == IF Succeeded(o)
                THEN {Write(Result(p), <<"record", p>>), Write(Manifest(p), <<"complete", o.errors + 1>>)}
                ELSE {Write(Manifest(p), <<"failed", o.errors>>)}
           W == ErrorWrites(p, o) \cup d
           ws == OutcomeWrites(p, o)
<1>0. o.errors \in Nat
  <2>1. CASE o \in [warm : {TRUE}, errors : 0 .. MaxRetries + 1]
    BY <2>1
  <2>2. CASE o \in [warm : {FALSE}, errors : {0}]
    BY <2>2
  <2> QED  BY <2>1, <2>2 DEF Outcomes
<1>1. a \in Seq(W) /\ ToSet(a) = IF o.warm THEN {} ELSE {ErrorWrite(p, 0)}
  BY DEF ErrorWrites, ToSet
<1>2. b \in Seq(W) /\ ToSet(b) = {ErrorWrite(p, k) : k \in 1 .. o.errors} /\ Len(b) = o.errors
  BY <1>0 DEF ErrorWrites, ToSet
<1>3. c \in Seq(W) /\ ToSet(c) = d
  <2>1. CASE Succeeded(o)
    <3> DEFINE r == Write(Result(p), <<"record", p>>)
               m == Write(Manifest(p), <<"complete", o.errors + 1>>)
    <3>1. c = <<r, m>> /\ d = {r, m} /\ r \in W /\ m \in W
      BY <2>1
    <3> HIDE DEF c, d, r, m, W
    <3> QED  BY <3>1 DEF ToSet
  <2>2. CASE ~Succeeded(o)
    <3> DEFINE m == Write(Manifest(p), <<"failed", o.errors>>)
    <3>1. c = <<m>> /\ d = {m} /\ m \in W
      BY <2>2
    <3> HIDE DEF c, d, m, W
    <3> QED  BY <3>1 DEF ToSet
  <2> QED  BY <2>1, <2>2
<1> DEFINE ab == a \o b
<1>4. ws = ab \o c
  BY <1>0 DEF OutcomeWrites, ErrorWrite
<1> HIDE DEF W, a, b
<1>5. ab \in Seq(W) /\ ToSet(ab) = ErrorWrites(p, o)
  <2>1. ab \in Seq(W)
    BY <1>1, <1>2, ConcatProperties
  <2>2. ToSet(ab) = ToSet(a) \cup ToSet(b)
    BY <1>1, <1>2, ToSetConcat
  <2> HIDE DEF ab
  <2> QED  BY <1>1, <1>2, <2>1, <2>2 DEF ErrorWrites
<1>6. Len(c) \in 1 .. 2 /\ (Len(c) = 2 => c[1] = Write(Result(p), <<"record", p>>))
  BY DEF c
<1> DEFINE n == Len(ab)
           m == Len(c)
<1> HIDE DEF ab, c, ws
<1>7. /\ ws \in Seq(W) /\ ToSet(ws) = W
      /\ n \in Nat /\ DOMAIN ab = 1 .. n /\ m \in 1 .. 2 /\ Len(ws) = n + m
      /\ \A i \in 1 .. n + m : ws[i] = IF i <= n THEN ab[i] ELSE c[i - n]
  <2>1. ab \o c \in Seq(W) /\ ToSet(ab \o c) = ToSet(ab) \cup ToSet(c)
    BY <1>3, <1>5, ToSetConcat, ConcatProperties
  <2>2. n \in Nat /\ DOMAIN ab = 1 .. n
    BY <1>5, LenProperties
  <2>3. Len(ab \o c) = n + m /\ \A i \in 1 .. n + m : (ab \o c)[i] = IF i <= n THEN ab[i] ELSE c[i - n]
    BY <1>3, <1>5, ConcatProperties
  <2> QED  BY <1>3, <1>4, <1>5, <1>6, <2>1, <2>2, <2>3 DEF W
<1> HIDE DEF n
<1>8. ASSUME NEW i \in 1 .. Len(ws) - 1 PROVE ws[i].file # Manifest(p)
  <2>1. CASE i <= n
    <3>1. ws[i] \in ErrorWrites(p, o)
      <4>1. i \in DOMAIN ab /\ i \in 1 .. n + m
        BY <1>7, <2>1
      <4>2. ws[i] = ab[i]
        BY <1>7, <2>1, <4>1
      <4>3. ab[i] \in ToSet(ab)
        BY <4>1 DEF ToSet
      <4> QED  BY <1>5, <4>2, <4>3
    <3>2. \E k : ws[i] = ErrorWrite(p, k)
      BY <3>1 DEF ErrorWrites
    <3> QED  BY <3>2 DEF ErrorWrite, Write, Attempt, Manifest
  <2>2. CASE i > n
    <3> HIDE DEF m
    <3>1. m = 2 /\ i - n = 1 /\ i \in 1 .. n + m /\ ~ i <= n
      BY <1>7, <2>2
    <3>2. c[1] = Write(Result(p), <<"record", p>>)
      BY <1>6, <3>1 DEF m
    <3>3. ws[i] = c[1]
      BY <1>7, <3>1
    <3> QED  BY <3>2, <3>3 DEF Write, Result, Manifest
  <2> QED  BY <1>7, <2>1, <2>2
<1>9. ws # <<>>
  BY <1>7
<1> QED  BY <1>7, <1>8, <1>9 DEF W, ws

\* What is written for one outcome, as a set.
LEMMA WritesOfOutcome ==
  ASSUME NEW p \in Plans, NEW o \in Outcomes
  PROVE  /\ ToSet(OutcomeWrites(p, o)) =
              ErrorWrites(p, o) \cup {ManifestWrite(p, o)}
              \cup IF Succeeded(o) THEN {RecordWrite(p)} ELSE {}
         /\ \A w \in ErrorWrites(p, o) : \E k \in 0 .. MaxRetries + 1 : w = ErrorWrite(p, k)
         /\ o \in [warm : BOOLEAN, errors : 0 .. MaxRetries + 1]
<1>1. MaxRetries \in Nat
  BY StudyAssumption
<1>2. o \in [warm : BOOLEAN, errors : 0 .. MaxRetries + 1]
  <2> DEFINE E == 0 .. MaxRetries + 1
  <2>1. \A A, F : A \subseteq BOOLEAN /\ F \subseteq E
                 => [warm : A, errors : F] \subseteq [warm : BOOLEAN, errors : E]
    <3> HIDE DEF E
    <3> QED  OBVIOUS
  <2>2. {TRUE} \subseteq BOOLEAN /\ {FALSE} \subseteq BOOLEAN /\ E \subseteq E
    OBVIOUS
  <2>3. {0} \subseteq E
    BY <1>1
  <2>4. o \in [warm : {TRUE}, errors : E] \/ o \in [warm : {FALSE}, errors : {0}]
    BY DEF Outcomes
  <2> HIDE DEF E
  <2>5. o \in [warm : BOOLEAN, errors : E]
    BY <2>1, <2>2, <2>3, <2>4
  <2> QED  BY <2>5 DEF E
<1>3. \A w \in ErrorWrites(p, o) : \E k \in 0 .. MaxRetries + 1 : w = ErrorWrite(p, k)
  <2>1. o.errors \in 0 .. MaxRetries + 1 /\ 0 \in 0 .. MaxRetries + 1
    BY <1>1, <1>2
  <2>2. \A k \in 1 .. o.errors : k \in 0 .. MaxRetries + 1
    BY <1>1, <2>1
  <2> QED  BY <2>1, <2>2 DEF ErrorWrites
<1>4. ToSet(OutcomeWrites(p, o)) = ErrorWrites(p, o) \cup {ManifestWrite(p, o)}
              \cup IF Succeeded(o) THEN {RecordWrite(p)} ELSE {}
  <2>1. CASE Succeeded(o)
    BY <1>1, <2>1, OutcomeWritesAre DEF ManifestWrite, RecordWrite
  <2>2. CASE ~Succeeded(o)
    BY <1>1, <2>2, OutcomeWritesAre DEF ManifestWrite, RecordWrite
  <2> QED  BY <2>1, <2>2
<1> QED  BY <1>2, <1>3, <1>4

\* Writes of the same file are the same write.
LEMMA SameFile ==
  ASSUME NEW p \in Plans, NEW o \in Outcomes, NEW q \in Plans, NEW u \in Outcomes,
         NEW w \in ToSet(OutcomeWrites(p, o)), NEW v \in ToSet(OutcomeWrites(q, u)),
         w.file = v.file
  PROVE  p = q /\ (o = u => w = v)
<1>1. \/ \E k : w = ErrorWrite(p, k)
      \/ w = RecordWrite(p)
      \/ w = ManifestWrite(p, o)
  BY WritesOfOutcome
<1>2. \/ \E k : v = ErrorWrite(q, k)
      \/ v = RecordWrite(q)
      \/ v = ManifestWrite(q, u)
  BY WritesOfOutcome
<1>3. /\ \A x, k : ErrorWrite(x, k).file = Attempt(x, k)
      /\ \A x : RecordWrite(x).file = Result(x)
      /\ ManifestWrite(p, o).file = Manifest(p) /\ ManifestWrite(q, u).file = Manifest(q)
  BY DEF ErrorWrite, RecordWrite, ManifestWrite, Write
<1> QED  BY <1>1, <1>2, <1>3, FilesDistinct

\* The first write of a script and those after it.
LEMMA HeadAndRest ==
  ASSUME NEW s, s \in Seq(ToSet(s)), s # <<>>
  PROVE  /\ Head(s) = s[1] /\ Head(s) \in ToSet(s)
         /\ Len(s) \in Nat \ {0} /\ Len(Tail(s)) = Len(s) - 1
         /\ \A i \in 1 .. Len(s) - 1 : Tail(s)[i] = s[i + 1]
         /\ Tail(s) \in Seq(ToSet(Tail(s)))
         /\ ToSet(s) = {Head(s)} \cup ToSet(Tail(s))
         /\ Len(s) = 1 => Tail(s) = <<>> /\ ToSet(s) = {Head(s)}
<1> DEFINE A == ToSet(s)
           t == Tail(s)
<1>1. s \in Seq(A) /\ Len(s) \in Nat \ {0} /\ DOMAIN s = 1 .. Len(s)
  BY EmptySeq, LenProperties
<1> HIDE DEF A
<1>2. Head(s) = s[1] /\ t \in Seq(A) /\ Len(t) = Len(s) - 1 /\ \A i \in 1 .. Len(t) : t[i] = s[i + 1]
  BY <1>1, HeadTailProperties
<1>3. DOMAIN t = 1 .. Len(s) - 1
  BY <1>2, LenProperties
<1> HIDE DEF t
<1>4. Head(s) \in ToSet(s)
  BY <1>1, <1>2 DEF ToSet
<1>5. ToSet(t) \subseteq ToSet(s)
  <2> SUFFICES ASSUME NEW i \in 1 .. Len(s) - 1 PROVE t[i] \in ToSet(s)
    BY <1>3 DEF ToSet
  <2>1. t[i] = s[i + 1] /\ i + 1 \in 1 .. Len(s)
    BY <1>1, <1>2
  <2> QED  BY <1>1, <2>1 DEF ToSet
<1>6. ToSet(s) \subseteq {Head(s)} \cup ToSet(t)
  <2> SUFFICES ASSUME NEW i \in 1 .. Len(s), i # 1 PROVE s[i] \in ToSet(t)
    BY <1>1, <1>2 DEF ToSet
  <2>1. i - 1 \in 1 .. Len(s) - 1 /\ t[i - 1] = s[i]
    BY <1>1, <1>2
  <2> QED  BY <1>3, <2>1 DEF ToSet
<1>7. t \in Seq(ToSet(t))
  <2>1. t = [i \in 1 .. Len(t) |-> t[i]] /\ \A i \in 1 .. Len(t) : t[i] \in ToSet(t) /\ Len(t) \in Nat
    BY <1>1, <1>2, <1>3, LenProperties DEF ToSet
  <2> QED  BY <2>1
<1>8. Len(s) = 1 => t = <<>> /\ ToSet(t) = {}
  BY <1>2, <1>3 DEF ToSet
<1> QED  BY <1>1, <1>2, <1>4, <1>5, <1>6, <1>7, <1>8 DEF t

-----------------------------------------------------------------------------
(* The invariant.                                                          *)

\* The plans of this invocation, those taken over from the disk, and those taken and successful.
ConfigPlans == ToSet(PlansOf[config])
Cached      == ConfigPlans \ todo
WritesOf(p) == ToSet(OutcomeWrites(p, outcome[p]))
Written(w)  == disk[w.file] = w.contents
Won         == {p \in persisted : Succeeded(outcome[p])}

\* The part of TypeOK about the disk, and the rest of it.
DiskType ==
  /\ DOMAIN disk = Files
  /\ \A p \in Plans :
       /\ disk[Result(p)] \in {Absent, Torn, <<"record", p>>}
       /\ disk[Manifest(p)] \in {Absent, Torn} \cup ({"complete"} \X (1 .. MaxRetries + 1))
                                              \cup ({"failed"} \X (0 .. MaxRetries + 1))
MemoryType ==
  /\ invocations \in 0 .. MaxInvocations
  /\ pc \in {"idle", "runs", "study"}
  /\ config \in Configs \cup {None} /\ resume \in BOOLEAN
  /\ workers \in 0 .. Cardinality(todo)
  /\ todo \subseteq Plans /\ completed \in Seq(Plans)
  /\ Executed \subseteq Plans /\ persisted \subseteq Executed
  /\ \A p \in Executed :
       outcome[p] \in [warm : BOOLEAN, errors : 0 .. MaxRetries + 1]
  /\ failure \in BOOLEAN
  /\ ended \in {"never", "returned", "failed", "broken", "crashed"}

\* The two parts make up the type invariant, before and after a step.
LEMMA TypeParts ==
  /\ TypeOK <=> DiskType /\ MemoryType
  /\ TypeOK' <=> DiskType' /\ MemoryType'
BY DEF TypeOK, DiskType, MemoryType

\* Between invocations nothing is in memory.
IdleInv ==
  pc = "idle" =>
    /\ todo = {} /\ outcome = <<>> /\ persisted = {} /\ completed = <<>>
    /\ ~failure /\ script = <<>> /\ workers = 0

\* The plans that are not run again are on disk all the while.
BusyInv ==
  pc # "idle" =>
    /\ config \in Configs
    /\ todo \subseteq ConfigPlans /\ Executed \subseteq todo
    /\ \A p \in Cached : OnDisk(p)

\* The first failure is known; the serial loop never has two outcomes that are not taken.
OutcomeInv ==
  /\ \A p \in Executed : outcome[p] \in Outcomes
  /\ failure <=> \E p \in persisted : ~Succeeded(outcome[p])
  /\ workers = 0 => /\ failure => Executed \subseteq persisted
                    /\ \A p, q \in Executed \ persisted : p = q

\* What is being written belongs to one outcome, whose manifest comes last, or to the
\* study.
ScriptInv ==
  /\ script \in Seq(ToSet(script))
  /\ pc = "runs" /\ script # <<>> =>
       \E p \in persisted :
         /\ ToSet(script) \subseteq WritesOf(p)
         /\ \A i \in 1 .. Len(script) - 1 : script[i].file # Manifest(p)
  /\ pc = "study" => ToSet(script) \subseteq ToSet(StudyWrites(config, completed))

\* What a taken outcome asks for is on disk or still to be written.
WritesInv ==
  \A p \in persisted : \A w \in WritesOf(p) : w \in ToSet(script) \/ Written(w)

\* The records are those of the runs that were taken over and of those that succeeded,
\* each of them once.
CompletedInv ==
  pc = "runs" => IsInjective(completed) /\ ToSet(completed) = Cached \cup Won

\* The study's artifacts are written when every run is on disk.
StudyInv ==
  pc = "study" =>
    /\ ~failure /\ todo \subseteq persisted
    /\ \A p \in ConfigPlans : OnDisk(p)
    /\ Increasing(completed) /\ ToSet(completed) = ConfigPlans
    /\ DOMAIN completed = DOMAIN PlansOf[config]
    /\ \A w \in ToSet(StudyWrites(config, completed)) : w \in ToSet(script) \/ Written(w)

Working == IdleInv /\ BusyInv /\ OutcomeInv /\ ScriptInv /\ WritesInv /\ CompletedInv /\ StudyInv

Inv == TypeOK /\ AttemptsOnRecord /\ BundleConsistent /\ Working

-----------------------------------------------------------------------------
(* Writing one file.                                                       *)

\* Every path the code writes to is a file of the output directory.
LEMMA PathsAreFiles ==
  /\ \A p \in Plans : Result(p) \in Files /\ Manifest(p) \in Files
  /\ \A p \in Plans, k \in 0 .. MaxRetries + 1 : Attempt(p, k) \in Files
  /\ \A i \in DOMAIN StudyFiles : StudyFiles[i] \in Files
BY DEF Files, ToSet

\* A file of a run or of the study, and contents that belong to it.
RunWrite(w, p) ==
  \/ \E k \in 0 .. MaxRetries + 1 : w = ErrorWrite(p, k)
  \/ w = RecordWrite(p)
  \/ \E o \in Outcomes : w = ManifestWrite(p, o)
StudyWrite(w) == \E i \in DOMAIN StudyFiles : w.file = StudyFiles[i]

\* The file and the contents of each kind of write.
LEMMA WriteFields ==
  /\ \A f, x : Write(f, x).file = f /\ Write(f, x).contents = x
  /\ \A p, k : ErrorWrite(p, k).file = Attempt(p, k) /\ ErrorWrite(p, k).contents = <<"error">>
  /\ \A p : RecordWrite(p).file = Result(p) /\ RecordWrite(p).contents = <<"record", p>>
  /\ \A p, o : ManifestWrite(p, o).file = Manifest(p)
BY DEF Write, ErrorWrite, RecordWrite, ManifestWrite

\* A manifest says complete or failed, with a count in its range.
LEMMA ManifestContents ==
  ASSUME NEW p \in Plans, NEW o \in Outcomes
  PROVE  ManifestWrite(p, o).contents \in
           {Absent, Torn} \cup ({"complete"} \X (1 .. MaxRetries + 1))
                          \cup ({"failed"} \X (0 .. MaxRetries + 1))
<1>1. o.errors \in 0 .. MaxRetries + 1 /\ MaxRetries \in Nat
  BY WritesOfOutcome, StudyAssumption
<1>2. CASE Succeeded(o)
  <2>1. o.errors + 1 \in 1 .. MaxRetries + 1
    BY <1>1, <1>2 DEF Succeeded
  <2>2. ManifestWrite(p, o).contents = <<"complete", o.errors + 1>>
    BY <1>2 DEF ManifestWrite, Write
  <2> QED  BY <2>1, <2>2
<1>3. CASE ~Succeeded(o)
  <2>1. ManifestWrite(p, o).contents = <<"failed", o.errors>>
    BY <1>3 DEF ManifestWrite, Write
  <2> QED  BY <1>1, <2>1
<1> QED  BY <1>2, <1>3

\* A write changes its file and no other, and keeps the types of the disk.
LEMMA OneFile ==
  ASSUME DiskType, NEW p \in Plans, NEW w, RunWrite(w, p) \/ StudyWrite(w),
         NEW x \in {w.contents, Remains(w)}, disk' = [disk EXCEPT ![w.file] = x]
  PROVE  /\ w.file \in Files /\ DiskType'
         /\ disk'[w.file] = x
         /\ \A f \in Files : f # w.file => disk'[f] = disk[f]
<1>1. w.file \in Files
  BY PathsAreFiles, WriteFields DEF RunWrite, StudyWrite
<1>2. disk'[w.file] = x /\ \A f \in Files : f # w.file => disk'[f] = disk[f]
  BY <1>1 DEF DiskType
<1>3. DOMAIN disk' = Files
  BY DEF DiskType
<1>4. ASSUME NEW q \in Plans
      PROVE  disk'[Result(q)] \in {Absent, Torn, <<"record", q>>}
  <2>1. CASE w.file # Result(q)
    BY <1>2, <2>1, PathsAreFiles DEF DiskType
  <2>2. CASE w.file = Result(q)
    <3>1. w = RecordWrite(q)
      BY <2>2, FilesDistinct, StudyFilesDistinct, WriteFields DEF RunWrite, StudyWrite
    <3>2. w.contents = <<"record", q>> /\ Remains(w) = Torn
      BY <3>1, WriteFields DEF Remains, Result
    <3> QED  BY <1>2, <2>2, <3>2
  <2> QED  BY <2>1, <2>2
<1>5. ASSUME NEW q \in Plans
      PROVE  disk'[Manifest(q)] \in {Absent, Torn} \cup ({"complete"} \X (1 .. MaxRetries + 1))
                                              \cup ({"failed"} \X (0 .. MaxRetries + 1))
  <2>1. CASE w.file # Manifest(q)
    BY <1>2, <2>1, PathsAreFiles DEF DiskType
  <2>2. CASE w.file = Manifest(q)
    <3>1. \E o \in Outcomes : w = ManifestWrite(q, o)
      BY <2>2, FilesDistinct, StudyFilesDistinct, WriteFields DEF RunWrite, StudyWrite
    <3>2. Remains(w) = Torn
      BY <3>1, WriteFields DEF Remains, Manifest
    <3> QED  BY <1>2, <2>2, <3>1, <3>2, ManifestContents
  <2> QED  BY <2>1, <2>2
<1> QED  BY <1>1, <1>2, <1>3, <1>4, <1>5 DEF DiskType

\* An error file that was written stays, and so do the claims of the other manifests.
LEMMA AttemptsKept ==
  ASSUME DiskType, AttemptsOnRecord, NEW p \in Plans, NEW w, RunWrite(w, p) \/ StudyWrite(w),
         NEW x \in {w.contents, Remains(w)}, disk' = [disk EXCEPT ![w.file] = x]
  PROVE  /\ \A q \in Plans, k \in 0 .. MaxRetries + 1 :
              disk[Attempt(q, k)] # Absent => disk'[Attempt(q, k)] # Absent
         /\ (\A q \in Plans : w.file # Manifest(q)) \/ x = Torn => AttemptsOnRecord'
<1>1. ASSUME NEW q \in Plans, NEW k \in 0 .. MaxRetries + 1, disk[Attempt(q, k)] # Absent
      PROVE  disk'[Attempt(q, k)] # Absent
  <2>1. CASE w.file # Attempt(q, k)
    BY <1>1, <2>1, OneFile, PathsAreFiles
  <2>2. CASE w.file = Attempt(q, k)
    <3>1. \E l \in 0 .. MaxRetries + 1 : w = ErrorWrite(p, l)
      BY <2>2, FilesDistinct, StudyFilesDistinct, WriteFields DEF RunWrite, StudyWrite
    <3>2. w.contents = <<"error">> /\ Remains(w) = <<"error">>
      BY <3>1, WriteFields DEF Remains, Attempt
    <3> QED  BY <2>2, <3>2, OneFile, ContentsDistinct
  <2> QED  BY <2>1, <2>2
<1>2. ASSUME (\A q \in Plans : w.file # Manifest(q)) \/ x = Torn
      PROVE  AttemptsOnRecord'
  <2> SUFFICES ASSUME NEW q \in Plans
               PROVE  /\ \A n \in 1 .. MaxRetries + 1 :
                           /\ disk'[Manifest(q)] = <<"complete", n>> =>
                                \A k \in 1 .. n - 1 : disk'[Attempt(q, k)] # Absent
                           /\ disk'[Manifest(q)] = <<"failed", n>> =>
                                \A k \in 1 .. n : disk'[Attempt(q, k)] # Absent
                      /\ disk'[Manifest(q)] = <<"failed", 0>> => disk'[Attempt(q, 0)] # Absent
    BY DEF AttemptsOnRecord
  <2>1. disk'[Manifest(q)] = Torn \/ disk'[Manifest(q)] = disk[Manifest(q)]
    BY <1>2, OneFile, PathsAreFiles
  <2>2. CASE disk'[Manifest(q)] = Torn
    BY <2>2, ContentsDistinct
  <2>3. CASE disk'[Manifest(q)] = disk[Manifest(q)]
    <3>1. MaxRetries \in Nat
      BY StudyAssumption
    <3>2. \A n \in 1 .. MaxRetries + 1 : \A k \in 1 .. n : k \in 0 .. MaxRetries + 1
      BY <3>1
    <3>3. \A n \in 1 .. MaxRetries + 1 : \A k \in 1 .. n - 1 : k \in 0 .. MaxRetries + 1
      BY <3>1
    <3>4. 0 \in 0 .. MaxRetries + 1
      BY <3>1
    <3> QED  BY <1>1, <2>3, <3>2, <3>3, <3>4 DEF AttemptsOnRecord
  <2> QED  BY <2>1, <2>2, <2>3
<1> QED  BY <1>1, <1>2

-----------------------------------------------------------------------------
(* Beginning and ending an invocation.                                     *)

\* A step that writes nothing leaves everything about the disk as it is.
LEMMA SameDisk ==
  ASSUME disk' = disk
  PROVE  /\ DiskType => DiskType'
         /\ AttemptsOnRecord => AttemptsOnRecord'
         /\ \A p : OnDisk(p)' <=> OnDisk(p)
         /\ \A w : Written(w)' <=> Written(w)
BY DEF DiskType, AttemptsOnRecord, OnDisk, Written

\* Only an invocation that has returned claims a consistent bundle.
LEMMA Elsewhere ==
  ASSUME pc' # "idle" \/ ended' # "returned"
  PROVE  BundleConsistent'
BY DEF BundleConsistent

\* Plans are those of all configurations.
LEMMA ConfigPlansIn == \A c \in Configs : ToSet(PlansOf[c]) \subseteq Plans
BY DEF Plans

\* For a disk of the right type, taking a run over and finding it whole is the same.
LEMMA LoadableIsOnDisk ==
  ASSUME DiskType, NEW p \in Plans
  PROVE  Loadable(p) <=> OnDisk(p)
<1> DEFINE m == disk[Manifest(p)]
<1>1. m \in {Absent, Torn} \cup ({"complete"} \X (1 .. MaxRetries + 1))
                           \cup ({"failed"} \X (0 .. MaxRetries + 1))
  BY DEF DiskType
<1>2. m # Absent /\ m[1] = "complete" <=> \E n \in 1 .. MaxRetries + 1 : m = <<"complete", n>>
  BY <1>1, ContentsDistinct
<1> QED  BY <1>2 DEF Loadable, OnDisk

\* Leaving run_study.
LEMMA EndStep ==
  ASSUME Inv, NEW how \in {"never", "returned", "failed", "broken", "crashed"}, End(how),
         DiskType', AttemptsOnRecord', BundleConsistent'
  PROVE  Inv'
<1>1. /\ pc' = "idle" /\ todo' = {} /\ outcome' = <<>> /\ persisted' = {}
      /\ completed' = <<>> /\ failure' = FALSE /\ script' = <<>> /\ workers' = 0 /\ ended' = how
      /\ resume' = TRUE /\ invocations' = invocations /\ config' = config
  BY DEF End
<1>2. DOMAIN outcome' = {}
  <2>1. DOMAIN outcome' = 1 .. 0
    BY <1>1
  <2> QED  BY <2>1
<1>3. MemoryType'
  <2>1. Cardinality(todo') = 0
    BY <1>1, FS_EmptySet
  <2>2. completed' \in Seq(Plans)
    BY <1>1
  <2>3. MemoryType
    BY TypeParts DEF Inv
  <2>4. workers' \in 0 .. Cardinality(todo')
    <3>1. 0 \in 0 .. 0
      OBVIOUS
    <3> QED  BY <1>1, <2>1, <3>1
  <2>5. invocations' \in 0 .. MaxInvocations /\ config' \in Configs \cup {None}
    BY <1>1, <2>3 DEF MemoryType
  <2>6. Executed' = {}
    BY <1>2 DEF Executed
  <2> QED  BY <1>1, <2>2, <2>4, <2>5, <2>6 DEF MemoryType
<1>4. IdleInv' /\ BusyInv' /\ WritesInv' /\ CompletedInv' /\ StudyInv'
  BY <1>1 DEF IdleInv, BusyInv, WritesInv, CompletedInv, StudyInv
<1>5. OutcomeInv'
  BY <1>1, <1>2 DEF OutcomeInv, Executed
<1>6. ScriptInv'
  <2>1. script' \in Seq(ToSet(script'))
    BY <1>1
  <2> QED  BY <1>1, <2>1 DEF ScriptInv
<1> QED  BY <1>3, <1>4, <1>5, <1>6, TypeParts DEF Inv, Working

\* Beginning an invocation: what it takes over is whole on disk.
LEMMA BeginStep ==
  ASSUME Inv, NEW c \in Configs, NEW w \in Workers, NEW r \in BOOLEAN, Begin(c, w, r)
  PROVE  Inv'
<1> DEFINE all    == ToSet(PlansOf[c])
           cached == {p \in all : r /\ Loadable(p)}
           rest   == all \ cached
           size   == Cardinality(rest)
<1>1. /\ pc = "idle" /\ invocations < MaxInvocations /\ pc' = "runs"
      /\ invocations' = invocations + 1 /\ config' = c /\ resume' = r /\ todo' = rest
      /\ workers' = (IF w = 1 \/ size <= 1 THEN 0 ELSE IF w < size THEN w ELSE size)
      /\ completed' = Ranked(cached, PlanOrder(c))
      /\ outcome' = <<>> /\ persisted' = {} /\ failure' = FALSE
      /\ disk' = disk /\ script' = script /\ ended' = ended
  BY DEF Begin
<1>2. DOMAIN outcome' = {}
  <2>1. DOMAIN outcome' = 1 .. 0
    BY <1>1
  <2> QED  BY <2>1
<1>3. DiskType' /\ AttemptsOnRecord' /\ BundleConsistent' /\ MemoryType /\ DiskType
  BY <1>1, SameDisk, Elsewhere, TypeParts DEF Inv
<1>4. all \subseteq Plans /\ size \in Nat
  <2>1. rest \in SUBSET all
    OBVIOUS
  <2> HIDE DEF rest
  <2> QED  BY <2>1, ConfigPlansIn, PlanOrderStrict, FS_CardinalityType
<1>5. IsFiniteSet(cached) /\ StrictOrder(PlanOrder(c), cached)
  <2>1. cached \in SUBSET all
    OBVIOUS
  <2> HIDE DEF cached
  <2> QED  BY <2>1, PlanOrderStrict
<1> DEFINE N == Cardinality(cached)
<1> HIDE DEF cached
<1>6. /\ N \in Nat /\ completed' \in [1 .. N -> cached]
      /\ \A x \in cached : \E n \in 1 .. N : completed'[n] = x
      /\ \A i, k \in 1 .. N : i < k => <<completed'[i], completed'[k]>> \in PlanOrder(c)
  BY <1>1, <1>5, RankedIs
<1>7. DOMAIN completed' = 1 .. N /\ ToSet(completed') = cached
  BY <1>6 DEF ToSet
<1>8. IsInjective(completed')
  <2> SUFFICES ASSUME NEW i \in 1 .. N, NEW k \in 1 .. N, i # k, completed'[i] = completed'[k]
               PROVE  FALSE
    BY <1>7 DEF IsInjective
  <2>1. i < k \/ k < i
    BY <1>6
  <2>2. <<completed'[i], completed'[i]>> \in PlanOrder(c) /\ completed'[i] \in cached
    BY <1>6, <2>1
  <2> QED  BY <1>5, <2>2 DEF StrictOrder
<1>9. MemoryType'
  <2>1. workers' \in 0 .. size
    BY <1>1, <1>4, StudyAssumption
  <2>2. completed' \in Seq(Plans)
    <3>1. cached \subseteq Plans
      BY <1>4 DEF cached
    <3> QED  BY <1>6, <3>1
  <2>3. invocations' \in 0 .. MaxInvocations
    BY <1>1, <1>3, StudyAssumption DEF MemoryType
  <2> QED  BY <1>1, <1>2, <1>3, <1>4, <2>1, <2>2, <2>3 DEF MemoryType, Executed
<1>10. script' = <<>>
  BY <1>1 DEF Inv, Working, IdleInv
<1>11. BusyInv'
  <2>1. \A p \in cached : OnDisk(p)'
    <3> SUFFICES ASSUME NEW p \in cached PROVE OnDisk(p)
      BY <1>1, SameDisk
    <3> QED  BY <1>3, <1>4, LoadableIsOnDisk DEF cached
  <2>2. Cached' = cached
    BY <1>1 DEF Cached, ConfigPlans, cached
  <2> QED  BY <1>1, <1>2, <2>1, <2>2 DEF BusyInv, Executed, ConfigPlans
<1>12. OutcomeInv'
  BY <1>1, <1>2 DEF OutcomeInv, Executed
<1>13. ScriptInv'
  <2>1. script' \in Seq(ToSet(script'))
    BY <1>10
  <2> QED  BY <1>1, <1>10, <2>1 DEF ScriptInv
<1>14. CompletedInv'
  <2>1. Cached' = cached /\ Won' = {}
    BY <1>1 DEF Cached, ConfigPlans, cached, Won
  <2> QED  BY <1>7, <1>8, <2>1 DEF CompletedInv
<1>15. IdleInv' /\ WritesInv' /\ StudyInv'
  BY <1>1 DEF IdleInv, WritesInv, StudyInv
<1> QED  BY <1>3, <1>9, <1>11, <1>12, <1>13, <1>14, <1>15, TypeParts DEF Inv, Working

-----------------------------------------------------------------------------
(* Executing, persisting and reporting.                                    *)

\* A plan is executed: its outcome joins those that are not taken yet.
LEMMA RecordStep ==
  ASSUME Inv, pc = "runs", NEW p \in Waiting, NEW o \in Outcomes, Record(p, o),
         UNCHANGED <<disk, pc, runVars, persisted, completed, failure, script, ended>>,
         workers = 0 => ~failure /\ Executed \subseteq persisted
  PROVE  Inv'
<1>1. /\ disk' = disk /\ pc' = "runs" /\ invocations' = invocations /\ config' = config
      /\ resume' = resume /\ workers' = workers /\ todo' = todo /\ persisted' = persisted
      /\ completed' = completed /\ failure' = failure /\ script' = script /\ ended' = ended
  BY DEF runVars
<1>2. /\ Executed' = Executed \cup {p}
      /\ outcome'[p] = o /\ \A q \in Executed : q # p => outcome'[q] = outcome[q]
  BY DEF Record, Executed
<1>3. /\ p \in todo /\ p \notin Executed
      /\ DiskType /\ MemoryType /\ AttemptsOnRecord /\ persisted \subseteq Executed
      /\ todo \subseteq Plans
  BY TypeParts DEF Inv, Waiting, MemoryType
<1>4. \A q \in persisted : outcome'[q] = outcome[q]
  BY <1>2, <1>3
<1>5. DiskType' /\ AttemptsOnRecord' /\ BundleConsistent'
  BY <1>1, <1>3, SameDisk, Elsewhere
<1>6. MemoryType'
  <2>1. \A q \in Executed' : outcome'[q] \in [warm : BOOLEAN, errors : 0 .. MaxRetries + 1]
    BY <1>2, <1>3, WritesOfOutcome DEF MemoryType
  <2> QED  BY <1>1, <1>2, <1>3, <2>1 DEF MemoryType
<1>7. BusyInv'
  BY <1>1, <1>2, <1>3, SameDisk DEF Inv, Working, BusyInv, Cached, ConfigPlans
<1>8. OutcomeInv'
  <2>1. \A q \in Executed' : outcome'[q] \in Outcomes
    BY <1>2 DEF Inv, Working, OutcomeInv
  <2>2. failure' <=> \E q \in persisted' : ~Succeeded(outcome'[q])
    BY <1>1, <1>4 DEF Inv, Working, OutcomeInv
  <2>3. workers' = 0 => ~failure' /\ \A q \in Executed' \ persisted' : q = p
    BY <1>1, <1>2
  <2> QED  BY <2>1, <2>2, <2>3 DEF OutcomeInv
<1>9. \A q \in persisted : WritesOf(q)' = WritesOf(q)
  BY <1>4 DEF WritesOf
<1>10. ScriptInv'
  BY <1>1, <1>9 DEF Inv, Working, ScriptInv
<1>11. WritesInv'
  BY <1>1, <1>9, SameDisk DEF Inv, Working, WritesInv
<1>12. CompletedInv'
  <2>1. Won' = Won /\ Cached' = Cached
    BY <1>1, <1>4 DEF Won, Cached, ConfigPlans
  <2> QED  BY <1>1, <2>1 DEF Inv, Working, CompletedInv
<1>13. IdleInv' /\ StudyInv'
  BY <1>1 DEF IdleInv, StudyInv
<1> QED  BY <1>5, <1>6, <1>7, <1>8, <1>10, <1>11, <1>12, <1>13, TypeParts DEF Inv, Working

\* Appending a new element to an injective sequence.
LEMMA AppendNew ==
  ASSUME NEW A, NEW s \in Seq(A), NEW x \in A, IsInjective(s), x \notin ToSet(s)
  PROVE  /\ Append(s, x) \in Seq(A) /\ IsInjective(Append(s, x))
         /\ ToSet(Append(s, x)) = ToSet(s) \cup {x}
<1> DEFINE t == Append(s, x)
           n == Len(s)
<1>1. /\ n \in Nat /\ DOMAIN s = 1 .. n /\ t \in Seq(A) /\ DOMAIN t = 1 .. n + 1
      /\ \A i \in 1 .. n : t[i] = s[i]
      /\ t[n + 1] = x
  BY AppendProperties, LenProperties
<1>2. \A i \in 1 .. n + 1 : i \in 1 .. n \/ i = n + 1
  BY <1>1
<1>3. n + 1 \in 1 .. n + 1 /\ \A i \in 1 .. n : i \in 1 .. n + 1
  BY <1>1
<1> HIDE DEF t, n
<1>4. \A i \in 1 .. n : s[i] # x
  BY <1>1 DEF ToSet
<1>5. IsInjective(t)
  BY <1>1, <1>2, <1>4 DEF IsInjective
<1>6. ToSet(t) = ToSet(s) \cup {x}
  <2>1. ToSet(t) \subseteq ToSet(s) \cup {x}
    BY <1>1, <1>2 DEF ToSet
  <2>2. ToSet(s) \cup {x} \subseteq ToSet(t)
    BY <1>1, <1>3 DEF ToSet
  <2> QED  BY <2>1, <2>2
<1> QED  BY <1>1, <1>5, <1>6 DEF t

\* The writing loop takes an outcome: its files are to be written, its record joins.
LEMMA PersistStep ==
  ASSUME Inv, NEW p \in Plans, Persist(p)
  PROVE  Inv'
<1> DEFINE o == outcome[p]
<1>1. /\ pc = "runs" /\ script = <<>> /\ ~(failure /\ workers = 0)
      /\ p \in Executed /\ p \notin persisted
      /\ script' = OutcomeWrites(p, o) /\ persisted' = persisted \cup {p}
      /\ completed' = (IF Succeeded(o) THEN Append(completed, p) ELSE completed)
      /\ failure' = (failure \/ ~Succeeded(o))
      /\ disk' = disk /\ pc' = "runs" /\ invocations' = invocations /\ config' = config
      /\ resume' = resume /\ workers' = workers /\ todo' = todo
      /\ outcome' = outcome /\ ended' = ended
  BY DEF Persist, runVars
<1>2. DiskType /\ MemoryType /\ AttemptsOnRecord /\ o \in Outcomes
  BY <1>1, TypeParts DEF Inv, Working, OutcomeInv
<1>3. DiskType' /\ AttemptsOnRecord' /\ BundleConsistent'
  BY <1>1, <1>2, SameDisk, Elsewhere
<1>4. BusyInv' /\ Cached' = Cached /\ Executed \subseteq todo
  BY <1>1, SameDisk DEF Inv, Working, BusyInv, Cached, ConfigPlans, Executed
<1>5. completed' \in Seq(Plans) /\ CompletedInv'
  <2>1. completed \in Seq(Plans) /\ IsInjective(completed) /\ ToSet(completed) = Cached \cup Won
    BY <1>1, <1>2 DEF Inv, Working, CompletedInv, MemoryType
  <2>2. Won' = IF Succeeded(o) THEN Won \cup {p} ELSE Won
    BY <1>1 DEF Won
  <2>3. p \notin Cached \cup Won
    BY <1>1, <1>4 DEF Cached, Won
  <2>4. CASE Succeeded(o)
    <3>1. /\ completed' \in Seq(Plans) /\ IsInjective(completed')
          /\ ToSet(completed') = ToSet(completed) \cup {p}
      BY <1>1, <2>1, <2>3, <2>4, AppendNew
    <3> QED  BY <1>4, <2>1, <2>2, <2>4, <3>1 DEF CompletedInv
  <2>5. CASE ~Succeeded(o)
    BY <1>1, <1>4, <2>1, <2>2, <2>5 DEF CompletedInv
  <2> QED  BY <2>4, <2>5
<1>6. MemoryType'
  BY <1>1, <1>2, <1>5 DEF MemoryType, Executed
<1>7. OutcomeInv'
  BY <1>1 DEF Inv, Working, OutcomeInv, Executed
<1>8. \A q : WritesOf(q)' = WritesOf(q)
  BY <1>1 DEF WritesOf
<1>9. ScriptInv'
  <2>1. WritesOf(p) = ToSet(script')
    BY <1>1 DEF WritesOf
  <2>2. script' \in Seq(ToSet(script')) /\ \A i \in 1 .. Len(script') - 1 : script'[i].file # Manifest(p)
    BY <1>1, <1>2, OutcomeWritesAre, StudyAssumption
  <2> QED  BY <1>1, <1>8, <2>1, <2>2 DEF ScriptInv
<1>10. WritesInv'
  <2>1. ToSet(<<>>) = {}
    BY DEF ToSet
  <2> QED  BY <1>1, <1>8, <2>1, SameDisk DEF Inv, Working, WritesInv, WritesOf
<1>11. IdleInv' /\ StudyInv'
  BY <1>1 DEF IdleInv, StudyInv
<1> QED  BY <1>3, <1>4, <1>5, <1>6, <1>7, <1>9, <1>10, <1>11, TypeParts DEF Inv, Working

\* What a run that has been taken and has succeeded looks like on disk.
LEMMA WonIsOnDisk ==
  ASSUME NEW p \in Plans, NEW o \in Outcomes, Succeeded(o),
         \A w \in ToSet(OutcomeWrites(p, o)) : Written(w)
  PROVE  OnDisk(p)
<1>1. Written(RecordWrite(p)) /\ Written(ManifestWrite(p, o))
  BY WritesOfOutcome
<1>2. o.errors + 1 \in 1 .. MaxRetries + 1
  BY WritesOfOutcome, StudyAssumption DEF Succeeded
<1> QED  BY <1>1, <1>2 DEF Written, RecordWrite, ManifestWrite, Write, OnDisk

\* A sequence is one of its own elements.
LEMMA OwnElements ==
  ASSUME NEW n \in Nat, NEW s, s = [i \in 1 .. n |-> s[i]]
  PROVE  s \in Seq(ToSet(s))
<1>1. \A i \in 1 .. n : s[i] \in ToSet(s)
  BY DEF ToSet
<1> QED  BY <1>1

\* All runs are on disk and the records, sorted, are those of all plans.
LEMMA BeginStudyStep ==
  ASSUME Inv, BeginStudy
  PROVE  Inv'
<1>1. /\ pc = "runs" /\ script = <<>> /\ ~failure /\ todo \subseteq persisted
      /\ completed' = Sorted(completed) /\ script' = StudyWrites(config, Sorted(completed))
      /\ pc' = "study" /\ disk' = disk /\ invocations' = invocations /\ config' = config
      /\ resume' = resume /\ workers' = workers /\ todo' = todo /\ outcome' = outcome
      /\ persisted' = persisted /\ failure' = failure /\ ended' = ended
  BY DEF BeginStudy, runVars
<1>2. DiskType /\ MemoryType /\ AttemptsOnRecord /\ ToSet(script) = {}
  BY <1>1, TypeParts DEF Inv, ToSet
<1>3. DiskType' /\ AttemptsOnRecord' /\ BundleConsistent'
  BY <1>1, <1>2, SameDisk, Elsewhere
<1>4. BusyInv' /\ OutcomeInv' /\ IdleInv' /\ CompletedInv'
  <2>1. BusyInv'
    BY <1>1, SameDisk DEF Inv, Working, BusyInv, Cached, ConfigPlans, Executed
  <2> QED  BY <1>1, <2>1 DEF Inv, Working, OutcomeInv, Executed, IdleInv, CompletedInv
<1>5. /\ completed \in Seq(Plans) /\ IsInjective(completed)
      /\ ToSet(completed) = Cached \cup Won
      /\ config \in Configs /\ todo \subseteq ConfigPlans /\ Executed \subseteq todo
      /\ persisted \subseteq Executed
  BY <1>1, <1>2 DEF Inv, Working, CompletedInv, BusyInv, MemoryType
<1>6. Won = todo
  BY <1>1, <1>5 DEF Inv, Working, OutcomeInv, Won
<1>7. ToSet(completed) = ConfigPlans
  BY <1>5, <1>6 DEF Cached
<1>8. completed \in Seq(Nat)
  <2>1. Plans \subseteq Nat
    BY StudyAssumption, ToSetFinite DEF Plans
  <2> QED  BY <1>5, <2>1, SeqMonotonic
<1>9. /\ completed' \in Seq(Nat) /\ DOMAIN completed' = DOMAIN completed
      /\ Increasing(completed') /\ ToSet(completed') = ConfigPlans
  BY <1>1, <1>5, <1>7, <1>8, SortedIs
<1>10. completed' \in Seq(Plans)
  <2>1. ConfigPlans \subseteq Plans
    BY <1>5, ConfigPlansIn DEF ConfigPlans
  <2>2. completed' \in Seq(ConfigPlans)
    <3>1. \A i \in DOMAIN completed' : completed'[i] \in ConfigPlans
      BY <1>9 DEF ToSet
    <3> HIDE DEF ConfigPlans
    <3> QED  BY <1>9, <3>1
  <2> HIDE DEF ConfigPlans
  <2> QED  BY <2>1, <2>2
<1>11. MemoryType'
  BY <1>1, <1>2, <1>10 DEF MemoryType, Executed
<1>12. DOMAIN completed' = DOMAIN PlansOf[config]
  <2> DEFINE n == Len(completed)
             m == Len(PlansOf[config])
  <2>1. PlansOf[config] \in Seq(Nat) /\ IsInjective(PlansOf[config])
    BY <1>5, StudyAssumption
  <2>2. DOMAIN completed = 1 .. n /\ n \in Nat /\ DOMAIN PlansOf[config] = 1 .. m /\ m \in Nat
    BY <1>8, <2>1, LenProperties
  <2>3. completed \in Bijection(1 .. n, ConfigPlans)
    BY <1>5, <1>7, <2>2, Fun_IsBij DEF IsInjective, ToSet
  <2>4. PlansOf[config] \in Bijection(1 .. m, ConfigPlans)
    <3> DEFINE s == PlansOf[config]
    <3>1. s \in [1 .. m -> ConfigPlans] /\ ToSet(s) = ConfigPlans
      BY <2>1, <2>2, LenProperties DEF ConfigPlans, ToSet
    <3>2. IsInjective(s) /\ DOMAIN s = 1 .. m
      BY <2>1, <2>2
    <3> HIDE DEF s, m, ConfigPlans
    <3>3. s \in Bijection(1 .. m, ConfigPlans)
      BY <3>1, <3>2, Fun_IsBij DEF IsInjective, ToSet
    <3> QED  BY <3>3 DEF s
  <2> HIDE DEF n, m, ConfigPlans
  <2>5. Cardinality(ConfigPlans) = Cardinality(1 .. n)
    <3>1. IsFiniteSet(1 .. n)
      BY <2>2, FS_Interval
    <3>2. ExistsBijection(1 .. n, ConfigPlans)
      BY <2>3 DEF ExistsBijection
    <3> QED  BY <3>1, <3>2, FS_Bijection
  <2>6. Cardinality(ConfigPlans) = Cardinality(1 .. m)
    <3>1. IsFiniteSet(1 .. m)
      BY <2>2, FS_Interval
    <3>2. ExistsBijection(1 .. m, ConfigPlans)
      BY <2>4 DEF ExistsBijection
    <3> QED  BY <3>1, <3>2, FS_Bijection
  <2>7. Cardinality(1 .. n) = n /\ Cardinality(1 .. m) = m
    BY <2>2, FS_Interval
  <2> QED  BY <1>9, <2>2, <2>5, <2>6, <2>7
<1>13. \A q : WritesOf(q)' = WritesOf(q)
  BY <1>1 DEF WritesOf
<1>14. \A q \in persisted : \A w \in WritesOf(q) : Written(w)
  BY <1>2 DEF Inv, Working, WritesInv
<1>15. WritesInv'
  BY <1>1, <1>13, <1>14, SameDisk DEF WritesInv
<1>16. \A q \in ConfigPlans : OnDisk(q)'
  <2> SUFFICES ASSUME NEW q \in ConfigPlans PROVE OnDisk(q)
    BY <1>1, SameDisk
  <2>1. CASE q \in Cached
    BY <1>1, <2>1 DEF Inv, Working, BusyInv
  <2>2. CASE q \in Won
    <3>1. q \in Plans /\ outcome[q] \in Outcomes /\ Succeeded(outcome[q])
      BY <1>2, <1>5, <2>2 DEF Inv, Working, OutcomeInv, Won, MemoryType
    <3> QED  BY <1>14, <2>2, <3>1, WonIsOnDisk DEF WritesOf, Won
  <2> QED  BY <1>5, <1>7, <2>1, <2>2
<1>17. ScriptInv'
  <2>1. script' = [i \in 1 .. 3 |-> script'[i]] /\ DOMAIN script' = 1 .. 3
    BY <1>1 DEF StudyWrites, StudyFiles
  <2>2. script' \in Seq(ToSet(script'))
    BY <2>1, OwnElements
  <2>3. script' = StudyWrites(config', completed')
    BY <1>1
  <2> QED  BY <1>1, <2>2, <2>3 DEF ScriptInv
<1>18. StudyInv'
  BY <1>1, <1>9, <1>12, <1>16 DEF StudyInv, ConfigPlans
<1> QED  BY <1>3, <1>4, <1>11, <1>15, <1>17, <1>18, TypeParts DEF Inv, Working

-----------------------------------------------------------------------------
(* Writing files, and every step.                                          *)

\* What is being written belongs to the outcome of one taken plan or to the study.
LEMMA HeadIs ==
  ASSUME Inv, script # <<>>
  PROVE  /\ pc \in {"runs", "study"} /\ Head(script) \in ToSet(script)
         /\ pc = "runs" =>
              \E p \in persisted :
                /\ p \in Plans /\ p \in todo /\ outcome[p] \in Outcomes
                /\ ToSet(script) \subseteq WritesOf(p)
                /\ \A i \in 1 .. Len(script) - 1 : script[i].file # Manifest(p)
                /\ RunWrite(Head(script), p)
         /\ pc = "study" =>
              \E i \in DOMAIN StudyFiles :
                Head(script) = Write(StudyFiles[i], StudyContents(config, completed)[i])
<1>1. Head(script) \in ToSet(script)
  BY HeadAndRest DEF Inv, Working, ScriptInv
<1>2. MemoryType /\ pc \in {"runs", "study"}
  BY TypeParts DEF Inv, Working, IdleInv, MemoryType
<1>3. ASSUME pc = "runs"
      PROVE  \E p \in persisted :
                /\ p \in Plans /\ p \in todo /\ outcome[p] \in Outcomes
                /\ ToSet(script) \subseteq WritesOf(p)
                /\ \A i \in 1 .. Len(script) - 1 : script[i].file # Manifest(p)
                /\ RunWrite(Head(script), p)
  <2>1. PICK p \in persisted :
          /\ ToSet(script) \subseteq WritesOf(p)
          /\ \A i \in 1 .. Len(script) - 1 : script[i].file # Manifest(p)
    BY <1>3 DEF Inv, Working, ScriptInv
  <2>2. p \in Plans /\ p \in todo /\ outcome[p] \in Outcomes
    BY <1>2, <1>3 DEF Inv, Working, OutcomeInv, BusyInv, MemoryType
  <2>3. RunWrite(Head(script), p)
    BY <1>1, <2>1, <2>2, WritesOfOutcome DEF WritesOf, RunWrite
  <2> QED  BY <2>1, <2>2, <2>3
<1>4. ASSUME pc = "study"
      PROVE  \E i \in DOMAIN StudyFiles :
                Head(script) = Write(StudyFiles[i], StudyContents(config, completed)[i])
  BY <1>1, <1>4 DEF Inv, Working, ScriptInv, StudyWrites, ToSet
<1> QED  BY <1>1, <1>2, <1>3, <1>4

\* A run is as it was on disk unless one of its own two files is written.
LEMMA OnDiskKept ==
  ASSUME DiskType, NEW p \in Plans, NEW w, RunWrite(w, p) \/ StudyWrite(w),
         NEW x \in {w.contents, Remains(w)}, disk' = [disk EXCEPT ![w.file] = x],
         NEW q \in Plans, w.file # Result(q), w.file # Manifest(q)
  PROVE  OnDisk(q)' <=> OnDisk(q)
<1>1. disk'[Result(q)] = disk[Result(q)] /\ disk'[Manifest(q)] = disk[Manifest(q)]
  BY OneFile, PathsAreFiles
<1> QED  BY <1>1 DEF OnDisk

\* The study's artifacts are no files of runs.
LEMMA StudyWriteIs ==
  ASSUME NEW i \in DOMAIN StudyFiles, NEW x, NEW w, w = Write(StudyFiles[i], x)
  PROVE  StudyWrite(w) /\ \A q : w.file # Result(q) /\ w.file # Manifest(q)
BY WriteFields, StudyFilesDistinct DEF StudyWrite

\* One file of an outcome is written. Its manifest comes when all its error files are there.
LEMMA WriteRunStep ==
  ASSUME Inv, WriteFile, pc = "runs"
  PROVE  Inv'
<1> DEFINE h == Head(script)
           t == Tail(script)
<1>1. /\ script # <<>> /\ disk' = [disk EXCEPT ![h.file] = h.contents] /\ script' = t
      /\ pc' = "runs" /\ invocations' = invocations /\ config' = config
      /\ resume' = resume /\ workers' = workers /\ todo' = todo /\ outcome' = outcome
      /\ persisted' = persisted /\ completed' = completed /\ failure' = failure /\ ended' = ended
  BY DEF WriteFile, runVars
<1>2. PICK p \in persisted :
        /\ p \in Plans /\ p \in todo /\ outcome[p] \in Outcomes
        /\ ToSet(script) \subseteq WritesOf(p)
        /\ \A i \in 1 .. Len(script) - 1 : script[i].file # Manifest(p)
        /\ RunWrite(h, p)
  BY <1>1, HeadIs
<1>3. /\ h = script[1] /\ h \in ToSet(script)
      /\ Len(script) \in Nat \ {0} /\ Len(t) = Len(script) - 1
      /\ \A i \in 1 .. Len(script) - 1 : t[i] = script[i + 1]
      /\ t \in Seq(ToSet(t)) /\ ToSet(script) = {h} \cup ToSet(t)
      /\ Len(script) = 1 => ToSet(script) = {h}
  BY <1>1, HeadAndRest DEF Inv, Working, ScriptInv
<1> DEFINE c == h.contents
<1> HIDE DEF h, t
<1>4. DiskType /\ MemoryType /\ AttemptsOnRecord
  BY TypeParts DEF Inv
<1>5. c \in {h.contents, Remains(h)}
  OBVIOUS
<1>6. /\ h.file \in Files /\ DiskType' /\ disk'[h.file] = h.contents
      /\ \A f \in Files : f # h.file => disk'[f] = disk[f]
  BY <1>1, <1>2, <1>4, <1>5, OneFile
<1>7. \A q : WritesOf(q)' = WritesOf(q)
  BY <1>1 DEF WritesOf
<1>8. \A q \in persisted : q \in Plans /\ outcome[q] \in Outcomes
  BY <1>4 DEF Inv, Working, OutcomeInv, MemoryType
<1>9. \A q \in persisted : \A w \in WritesOf(q) :
        w.file \in Files /\ (w.file = h.file => w = h)
  <2> SUFFICES ASSUME NEW q \in persisted, NEW w \in WritesOf(q)
               PROVE  w.file \in Files /\ (w.file = h.file => w = h)
    OBVIOUS
  <2>1. h \in ToSet(OutcomeWrites(p, outcome[p])) /\ w \in ToSet(OutcomeWrites(q, outcome[q]))
    BY <1>2, <1>3 DEF WritesOf
  <2>2. w.file = h.file => w = h
    BY <1>2, <1>8, <2>1, SameFile
  <2>3. w.file \in Files
    BY <1>8, <2>1, WritesOfOutcome, WriteFields, PathsAreFiles
  <2> QED  BY <2>2, <2>3
<1>10. \A q \in persisted : \A w \in WritesOf(q) : Written(w) \/ w = h => Written(w)'
  BY <1>6, <1>9 DEF Written
<1>11. AttemptsOnRecord'
  <2>1. CASE \A q \in Plans : h.file # Manifest(q)
    BY <1>1, <1>2, <1>4, <1>5, <2>1, AttemptsKept
  <2>2. CASE \E q \in Plans : h.file = Manifest(q)
    <3> DEFINE o == outcome[p]
    <3>1. h.file = Manifest(p) /\ h = ManifestWrite(p, o)
      <4>1. h.file = Manifest(p)
        BY <1>2, <2>2, FilesDistinct, WriteFields DEF RunWrite
      <4>2. h \in WritesOf(p)
        BY <1>2, <1>3
      <4>3. \/ \E k \in 0 .. MaxRetries + 1 : h = ErrorWrite(p, k)
            \/ h = RecordWrite(p)
            \/ h = ManifestWrite(p, outcome[p])
        BY <1>2, <4>2, WritesOfOutcome DEF WritesOf
      <4> QED  BY <4>1, <4>3, FilesDistinct, WriteFields
    <3>2. ToSet(script) = {h}
      <4>1. 1 \notin 1 .. Len(script) - 1
        BY <1>2, <1>3, <3>1
      <4>2. Len(script) = 1
        BY <1>3, <4>1
      <4> QED  BY <1>3, <4>2
    <3>3. \A w \in ErrorWrites(p, o) : Written(w)'
      <4> SUFFICES ASSUME NEW w \in ErrorWrites(p, o) PROVE Written(w)'
        OBVIOUS
      <4>1. w \in WritesOf(p)
        BY <1>2, WritesOfOutcome DEF WritesOf
      <4> QED  BY <1>10, <3>2, <4>1 DEF Inv, Working, WritesInv
    <3>4. \A k \in 1 .. o.errors : disk'[Attempt(p, k)] # Absent
      <4> SUFFICES ASSUME NEW k \in 1 .. o.errors PROVE disk'[Attempt(p, k)] # Absent
        OBVIOUS
      <4> DEFINE w == ErrorWrite(p, k)
      <4>1. w \in ErrorWrites(p, o)
        BY DEF ErrorWrites
      <4>2. w.file = Attempt(p, k) /\ w.contents = <<"error">>
        BY WriteFields
      <4> HIDE DEF w
      <4>3. disk'[w.file] = w.contents
        BY <3>3, <4>1 DEF Written
      <4> QED  BY <4>2, <4>3, ContentsDistinct
    <3>5. ~o.warm => disk'[Attempt(p, 0)] # Absent
      <4> SUFFICES ASSUME ~o.warm PROVE disk'[Attempt(p, 0)] # Absent
        OBVIOUS
      <4> DEFINE w == ErrorWrite(p, 0)
      <4>1. w \in ErrorWrites(p, o)
        BY DEF ErrorWrites
      <4>2. w.file = Attempt(p, 0) /\ w.contents = <<"error">>
        BY WriteFields
      <4> HIDE DEF w
      <4>3. disk'[w.file] = w.contents
        BY <3>3, <4>1 DEF Written
      <4> QED  BY <4>2, <4>3, ContentsDistinct
    <3>6. /\ Succeeded(o) => disk'[Manifest(p)] = <<"complete", o.errors + 1>>
          /\ ~Succeeded(o) => disk'[Manifest(p)] = <<"failed", o.errors>>
      BY <1>6, <3>1 DEF ManifestWrite, Write
    <3>7. o.errors \in Nat /\ MaxRetries \in Nat
      BY <1>2, WritesOfOutcome, StudyAssumption
    <3> HIDE DEF o
    <3>8. ASSUME NEW n \in 1 .. MaxRetries + 1, disk'[Manifest(p)] = <<"complete", n>>
          PROVE  \A k \in 1 .. n - 1 : disk'[Attempt(p, k)] # Absent
      <4>1. n = o.errors + 1
        BY <3>6, <3>8
      <4>2. n - 1 = o.errors
        BY <3>7, <4>1
      <4> QED  BY <3>4, <4>2
    <3>9. ASSUME NEW n \in 0 .. MaxRetries + 1, disk'[Manifest(p)] = <<"failed", n>>
          PROVE  n = o.errors /\ ~Succeeded(o)
      BY <3>6, <3>9
    <3>10. disk'[Manifest(p)] = <<"failed", 0>> => disk'[Attempt(p, 0)] # Absent
      <4> SUFFICES ASSUME disk'[Manifest(p)] = <<"failed", 0>> PROVE ~o.warm
        BY <3>5
      <4>1. o.errors = 0 /\ ~Succeeded(o)
        BY <3>7, <3>9
      <4> QED  BY <3>7, <4>1 DEF Succeeded
    <3>11. ASSUME NEW q \in Plans, q # p
           PROVE  /\ disk'[Manifest(q)] = disk[Manifest(q)]
                  /\ \A k \in 0 .. MaxRetries + 1 : disk'[Attempt(q, k)] = disk[Attempt(q, k)]
      BY <1>6, <3>1, <3>11, FilesDistinct, PathsAreFiles
    <3>12. 0 \in 0 .. MaxRetries + 1 /\ \A n \in 1 .. MaxRetries + 1 : n \in 0 .. MaxRetries + 1
      BY <3>7
    <3>13. \A n \in 1 .. MaxRetries + 1 : /\ \A k \in 1 .. n : k \in 0 .. MaxRetries + 1
                                          /\ \A k \in 1 .. n - 1 : k \in 0 .. MaxRetries + 1
      BY <3>7
    <3>14. ASSUME NEW q \in Plans
           PROVE  /\ \A n \in 1 .. MaxRetries + 1 :
                       /\ disk'[Manifest(q)] = <<"complete", n>> =>
                            \A k \in 1 .. n - 1 : disk'[Attempt(q, k)] # Absent
                       /\ disk'[Manifest(q)] = <<"failed", n>> =>
                            \A k \in 1 .. n : disk'[Attempt(q, k)] # Absent
                  /\ disk'[Manifest(q)] = <<"failed", 0>> => disk'[Attempt(q, 0)] # Absent
      <4>1. CASE q = p
        BY <3>4, <3>8, <3>9, <3>10, <3>12, <4>1
      <4>2. CASE q # p
        BY <1>4, <3>11, <3>12, <3>13, <4>2 DEF AttemptsOnRecord
      <4> QED  BY <4>1, <4>2
    <3> QED  BY <3>14 DEF AttemptsOnRecord
  <2> QED  BY <2>1, <2>2
<1>12. BundleConsistent'
  BY <1>1, Elsewhere
<1>13. MemoryType'
  BY <1>1, <1>4 DEF MemoryType, Executed
<1>14. BusyInv'
  <2>1. ASSUME NEW q \in Cached PROVE OnDisk(q)'
    <3>1. config \in Configs /\ q \in Plans /\ q # p /\ OnDisk(q)
      BY <1>2, <2>1, ConfigPlansIn DEF Inv, Working, BusyInv, Cached, ConfigPlans
    <3>2. h.file # Result(q) /\ h.file # Manifest(q)
      BY <1>2, <3>1, FilesDistinct, WriteFields DEF RunWrite
    <3> QED  BY <1>1, <1>2, <1>4, <1>5, <3>1, <3>2, OnDiskKept
  <2>2. Cached' = Cached /\ ConfigPlans' = ConfigPlans /\ Executed' = Executed
    BY <1>1 DEF Cached, ConfigPlans, Executed
  <2> QED  BY <1>1, <2>1, <2>2 DEF Inv, Working, BusyInv
<1>15. OutcomeInv' /\ IdleInv' /\ StudyInv'
  BY <1>1 DEF Inv, Working, OutcomeInv, IdleInv, StudyInv, Executed
<1>16. CompletedInv'
  BY <1>1 DEF Inv, Working, CompletedInv, Cached, ConfigPlans, Won
<1>17. ScriptInv'
  <2>1. ToSet(t) \subseteq WritesOf(p)
    BY <1>2, <1>3
  <2>2. \A i \in 1 .. Len(t) - 1 : t[i].file # Manifest(p)
    <3> SUFFICES ASSUME NEW i \in 1 .. Len(t) - 1 PROVE t[i].file # Manifest(p)
      OBVIOUS
    <3>1. i \in 1 .. Len(script) - 1 /\ i + 1 \in 1 .. Len(script) - 1
      BY <1>3
    <3> QED  BY <1>2, <1>3, <3>1
  <2> QED  BY <1>1, <1>3, <1>7, <2>1, <2>2 DEF ScriptInv
<1>18. WritesInv'
  <2> SUFFICES ASSUME NEW q \in persisted, NEW w \in WritesOf(q)
               PROVE  w \in ToSet(t) \/ Written(w)'
    BY <1>1, <1>7 DEF WritesInv
  <2>1. w \in ToSet(script) \/ Written(w)
    BY DEF Inv, Working, WritesInv
  <2> QED  BY <1>3, <1>10, <2>1
<1> QED  BY <1>6, <1>11, <1>12, <1>13, <1>14, <1>15, <1>16, <1>17, <1>18, TypeParts DEF Inv, Working

\* One of the study's artifacts is written.
LEMMA WriteStudyStep ==
  ASSUME Inv, WriteFile, pc = "study"
  PROVE  Inv'
<1> DEFINE h == Head(script)
           t == Tail(script)
           c == h.contents
<1>1. /\ script # <<>> /\ disk' = [disk EXCEPT ![h.file] = c] /\ script' = t
      /\ pc' = "study" /\ invocations' = invocations /\ config' = config
      /\ resume' = resume /\ workers' = workers /\ todo' = todo /\ outcome' = outcome
      /\ persisted' = persisted /\ completed' = completed /\ failure' = failure /\ ended' = ended
  BY DEF WriteFile, runVars
<1>2. PICK i \in DOMAIN StudyFiles : h = Write(StudyFiles[i], StudyContents(config, completed)[i])
  BY <1>1, HeadIs
<1>3. t \in Seq(ToSet(t)) /\ ToSet(script) = {h} \cup ToSet(t)
  BY <1>1, HeadAndRest DEF Inv, Working, ScriptInv
<1> HIDE DEF h, t
<1>4. DiskType /\ MemoryType /\ AttemptsOnRecord
  BY TypeParts DEF Inv
<1>5. c \in {h.contents, Remains(h)} /\ StudyWrite(h)
      /\ \A q : h.file # Result(q) /\ h.file # Manifest(q)
  BY <1>2, StudyWriteIs
<1> HIDE DEF c
<1>6. MemoryType' /\ BundleConsistent' /\ OutcomeInv' /\ IdleInv' /\ CompletedInv'
  <2>1. BundleConsistent'
    BY <1>1, Elsewhere
  <2>2. MemoryType'
    BY <1>1, <1>4 DEF MemoryType, Executed
  <2>3. OutcomeInv' /\ IdleInv' /\ CompletedInv'
    BY <1>1 DEF Inv, Working, OutcomeInv, IdleInv, CompletedInv, Executed
  <2> QED  BY <2>1, <2>2, <2>3
<1>7. config \in Configs /\ todo \subseteq ConfigPlans /\ ConfigPlans \subseteq Plans
  BY <1>1, ConfigPlansIn DEF Inv, Working, BusyInv, ConfigPlans
<1>8. \A q \in Plans : OnDisk(q)' <=> OnDisk(q)
  BY <1>1, <1>4, <1>5, OnDiskKept
<1>9. CASE Plans = {}
  <2>1. PlansOf[config] \in Seq(Nat) /\ PlansOf[config] # <<>>
    BY <1>7, StudyAssumption
  <2>2. 1 \in DOMAIN PlansOf[config]
    BY <2>1, EmptySeq, LenProperties
  <2>3. PlansOf[config][1] \in ConfigPlans
    BY <2>2 DEF ConfigPlans, ToSet
  <2> QED  BY <1>7, <1>9, <2>3
<1>10. CASE Plans # {}
  <2>1. PICK p \in Plans : TRUE
    BY <1>10
  <2>2. /\ h.file \in Files /\ DiskType' /\ disk'[h.file] = c
        /\ \A f \in Files : f # h.file => disk'[f] = disk[f]
    BY <1>1, <1>4, <1>5, <2>1, OneFile
  <2>3. AttemptsOnRecord'
    BY <1>1, <1>4, <1>5, <2>1, AttemptsKept
  <2>4. BusyInv'
    BY <1>1, <1>7, <1>8 DEF Inv, Working, BusyInv, Cached, ConfigPlans, Executed
  <2>5. ScriptInv'
    BY <1>1, <1>3 DEF Inv, Working, ScriptInv
  <2>6. ASSUME NEW w \in ToSet(StudyWrites(config, completed)), w \in ToSet(script) \/ Written(w)
        PROVE  w \in ToSet(t) \/ Written(w)'
    <3>1. PICK k \in DOMAIN StudyFiles : w = Write(StudyFiles[k], StudyContents(config, completed)[k])
      BY DEF StudyWrites, ToSet
    <3>2. w.file \in Files /\ (w.file = h.file => w = h)
      BY <1>2, <3>1, WriteFields, StudyFilesDistinct, PathsAreFiles
    <3>3. w = h => Written(w)'
      BY <2>2 DEF Written, c
    <3>4. Written(w) /\ w # h => Written(w)'
      BY <2>2, <3>2 DEF Written
    <3> QED  BY <1>3, <2>6, <3>3, <3>4
  <2>7. StudyInv'
    BY <1>1, <1>7, <1>8, <2>6 DEF Inv, Working, StudyInv, ConfigPlans
  <2>8. WritesInv'
    <3> SUFFICES ASSUME NEW q \in persisted, NEW w \in WritesOf(q)
                 PROVE  w \in ToSet(t) \/ Written(w)'
      BY <1>1 DEF WritesInv, WritesOf
    <3>1. q \in Plans /\ outcome[q] \in Outcomes
      BY <1>4 DEF Inv, Working, OutcomeInv, MemoryType
    <3>2. \/ \E k \in 0 .. MaxRetries + 1 : w = ErrorWrite(q, k)
          \/ w = RecordWrite(q)
          \/ w = ManifestWrite(q, outcome[q])
      BY <3>1, WritesOfOutcome DEF WritesOf
    <3>3. w.file \in Files
      BY <3>1, <3>2, WriteFields, PathsAreFiles
    <3>4. w.file # h.file
      BY <1>2, <3>2, WriteFields, StudyFilesDistinct
    <3>5. w \in ToSet(script) \/ Written(w)
      BY DEF Inv, Working, WritesInv
    <3> QED  BY <1>3, <2>2, <3>3, <3>4, <3>5 DEF Written
  <2> QED  BY <1>6, <2>2, <2>3, <2>4, <2>5, <2>7, <2>8, TypeParts DEF Inv, Working
<1> QED  BY <1>9, <1>10

\* The process dies, and may leave a torn file behind.
LEMMA CrashStep ==
  ASSUME Inv, Crash
  PROVE  /\ Inv'
         /\ \A q \in Plans \ todo : OnDisk(q) => OnDisk(q)'
<1>1. End("crashed") /\ pc # "idle"
  BY DEF Crash
<1>2. DiskType /\ MemoryType /\ AttemptsOnRecord /\ persisted \subseteq Plans
  BY TypeParts DEF Inv, MemoryType
<1>3. BundleConsistent'
  BY <1>1, Elsewhere DEF End
<1>4. CASE disk' = disk
  BY <1>1, <1>2, <1>3, <1>4, SameDisk, EndStep
<1>5. CASE disk' # disk
  <2> DEFINE h == Head(script)
             x == Remains(h)
  <2>1. script # <<>> /\ disk' = [disk EXCEPT ![h.file] = x]
    BY <1>5 DEF Crash
  <2>2. \/ \E p \in Plans : p \in todo /\ RunWrite(h, p)
        \/ StudyWrite(h) /\ \A q : h.file # Result(q) /\ h.file # Manifest(q)
    BY <1>2, <2>1, HeadIs, StudyWriteIs
  <2>3. \E p \in Plans : (p \in todo /\ RunWrite(h, p))
                         \/ (StudyWrite(h) /\ \A q : h.file # Result(q) /\ h.file # Manifest(q))
    <3>1. \E p : p \in Plans
      <4>1. config \in Configs
        BY <1>1 DEF Inv, Working, BusyInv
      <4>2. PlansOf[config] \in Seq(Nat) /\ PlansOf[config] # <<>>
        BY <4>1, StudyAssumption
      <4>3. 1 \in DOMAIN PlansOf[config]
        BY <4>2, EmptySeq, LenProperties
      <4>4. PlansOf[config][1] \in ToSet(PlansOf[config])
        BY <4>3 DEF ToSet
      <4> QED  BY <4>1, <4>4 DEF Plans
    <3> QED  BY <2>2, <3>1
  <2>4. PICK p \in Plans : (p \in todo /\ RunWrite(h, p))
                         \/ (StudyWrite(h) /\ \A q : h.file # Result(q) /\ h.file # Manifest(q))
    BY <2>3
  <2>5. x \in {h.contents, Remains(h)}
    OBVIOUS
  <2> HIDE DEF h, x
  <2>6. DiskType'
    BY <1>2, <2>1, <2>4, <2>5, OneFile
  <2>7. (\A q \in Plans : h.file # Manifest(q)) \/ x = Torn
    <3>1. ASSUME NEW q \in Plans, h.file = Manifest(q)
          PROVE  Remains(h) = Torn
      BY <3>1 DEF Remains, Manifest
    <3> QED  BY <3>1 DEF x
  <2>8. AttemptsOnRecord'
    BY <1>2, <2>1, <2>4, <2>5, <2>7, AttemptsKept
  <2>9. ASSUME NEW q \in Plans \ todo, OnDisk(q) PROVE OnDisk(q)'
    <3>1. h.file # Result(q) /\ h.file # Manifest(q)
      BY <2>4, FilesDistinct, WriteFields DEF RunWrite
    <3> QED  BY <1>2, <2>1, <2>4, <2>5, <2>9, <3>1, OnDiskKept
  <2> QED  BY <1>1, <1>3, <2>6, <2>8, <2>9, EndStep
<1> QED  BY <1>4, <1>5

\* run_study returns with everything written.
LEMMA ReturnStep ==
  ASSUME Inv, Return
  PROVE  Inv'
<1>1. pc = "study" /\ script = <<>> /\ End("returned") /\ disk' = disk
  BY DEF Return
<1>2. DiskType' /\ AttemptsOnRecord'
  BY <1>1, SameDisk, TypeParts DEF Inv
<1>3. BundleConsistent'
  <2>1. config' = config
    BY <1>1 DEF End
  <2>2. \A p \in ToSet(PlansOf[config]) : OnDisk(p)'
    BY <1>1, SameDisk DEF Inv, Working, StudyInv, ConfigPlans
  <2>3. completed \in [DOMAIN PlansOf[config] -> ToSet(PlansOf[config])]
    <3>1. completed \in Seq(Plans)
      BY TypeParts DEF Inv, MemoryType
    <3>2. DOMAIN completed = DOMAIN PlansOf[config] /\ ToSet(completed) = ToSet(PlansOf[config])
      BY <1>1 DEF Inv, Working, StudyInv, ConfigPlans
    <3>3. completed \in [DOMAIN completed -> ToSet(completed)]
      BY <3>1, LenProperties DEF ToSet
    <3> QED  BY <3>2, <3>3
  <2>4. \A i, k \in DOMAIN completed : i < k => completed[i] < completed[k]
    BY <1>1 DEF Inv, Working, StudyInv, Increasing
  <2>5. ASSUME NEW i \in DOMAIN StudyFiles
        PROVE  disk[StudyFiles[i]] = StudyContents(config, completed)[i]
    <3> DEFINE w == Write(StudyFiles[i], StudyContents(config, completed)[i])
    <3>1. w \in ToSet(StudyWrites(config, completed))
      BY DEF StudyWrites, ToSet
    <3>2. w.file = StudyFiles[i] /\ w.contents = StudyContents(config, completed)[i]
      BY WriteFields
    <3>3. ToSet(script) = {}
      BY <1>1 DEF ToSet
    <3> HIDE DEF w
    <3>4. Written(w)
      BY <1>1, <3>1, <3>3 DEF Inv, Working, StudyInv
    <3> QED  BY <3>2, <3>4 DEF Written
  <2> QED  BY <1>1, <2>1, <2>2, <2>3, <2>4, <2>5 DEF BundleConsistent
<1> QED  BY <1>1, <1>2, <1>3, EndStep

\* A step that leaves with what is on disk.
LEMMA LeaveStep ==
  ASSUME Inv, NEW how \in {"failed", "broken"}, End(how), disk' = disk
  PROVE  Inv'
<1>1. DiskType' /\ AttemptsOnRecord' /\ BundleConsistent'
  <2>1. ended' # "returned"
    BY DEF End
  <2> QED  BY <2>1, SameDisk, Elsewhere, TypeParts DEF Inv
<1> QED  BY <1>1, EndStep

\* The invariant holds at first.
LEMMA InitInv == Init => Inv
<1> SUFFICES ASSUME Init PROVE Inv
  OBVIOUS
<1>1. DOMAIN outcome = {} /\ Executed = {}
  <2>1. DOMAIN outcome = 1 .. 0
    BY DEF Init
  <2> QED  BY <2>1 DEF Executed
<1>2. DOMAIN disk = Files /\ \A f \in Files : disk[f] = Absent
  BY DEF Init
<1>3. DiskType
  BY <1>2, PathsAreFiles DEF DiskType
<1>4. AttemptsOnRecord
  BY <1>2, PathsAreFiles, ContentsDistinct DEF AttemptsOnRecord
<1>5. BundleConsistent
  BY DEF Init, BundleConsistent
<1>6. MemoryType
  <2>1. workers \in 0 .. Cardinality(todo)
    <3>1. Cardinality(todo) = 0 /\ 0 \in 0 .. 0
      BY FS_EmptySet DEF Init
    <3> QED  BY <3>1 DEF Init
  <2>2. completed \in Seq(Plans)
    BY DEF Init
  <2>3. invocations \in 0 .. MaxInvocations
    BY StudyAssumption DEF Init
  <2> QED  BY <1>1, <2>1, <2>2, <2>3 DEF Init, MemoryType
<1>7. ScriptInv
  <2>1. script \in Seq(ToSet(script))
    BY DEF Init
  <2> QED  BY <2>1 DEF Init, ScriptInv
<1>8. IdleInv /\ BusyInv /\ OutcomeInv /\ WritesInv /\ CompletedInv /\ StudyInv
  BY <1>1 DEF Init, IdleInv, BusyInv, OutcomeInv, WritesInv, CompletedInv, StudyInv
<1> QED  BY <1>3, <1>4, <1>5, <1>6, <1>7, <1>8, TypeParts DEF Inv, Working

\* Every step keeps the invariant.
LEMMA NextInv == Inv /\ [Next]_vars => Inv'
<1> SUFFICES ASSUME Inv, [Next]_vars PROVE Inv'
  OBVIOUS
<1>1. ASSUME NEW c \in Configs, NEW w \in Workers, NEW r \in BOOLEAN, Begin(c, w, r)
      PROVE  Inv'
  BY <1>1, BeginStep
<1>2. ASSUME NEW p \in Plans, ExecuteSerially(p)
      PROVE  Inv'
  <2>1. pc = "runs" /\ workers = 0 /\ ~failure /\ p \in Waiting /\ Executed \subseteq persisted /\ disk' = disk
    BY <1>2 DEF ExecuteSerially
  <2>2. CASE End("failed")
    BY <2>1, <2>2, LeaveStep
  <2>3. CASE /\ \E o \in {o \in Outcomes : o.warm} : Record(p, o)
             /\ UNCHANGED <<pc, runVars, persisted, completed, failure, script, ended>>
    BY <2>1, <2>3, RecordStep
  <2> QED  BY <1>2, <2>2, <2>3 DEF ExecuteSerially
<1>3. ASSUME NEW p \in Plans, ExecuteInPool(p)
      PROVE  Inv'
  <2>1. pc = "runs" /\ workers # 0 /\ p \in Waiting
    BY <1>3 DEF ExecuteInPool
  <2>2. PICK o \in Outcomes : Record(p, o)
    BY <1>3 DEF ExecuteInPool
  <2>3. UNCHANGED <<disk, pc, runVars, persisted, completed, failure, script, ended>>
    BY <1>3 DEF ExecuteInPool
  <2> QED  BY <2>1, <2>2, <2>3, RecordStep
<1>4. ASSUME NEW p \in Plans, Persist(p) PROVE Inv'
  BY <1>4, PersistStep
<1>5. ASSUME WriteFile PROVE Inv'
  BY <1>5, WriteRunStep, WriteStudyStep, HeadIs DEF WriteFile
<1>6. ASSUME Raise PROVE Inv'
  BY <1>6, LeaveStep DEF Raise
<1>7. ASSUME BeginStudy PROVE Inv'
  BY <1>7, BeginStudyStep
<1>8. ASSUME Return PROVE Inv'
  BY <1>8, ReturnStep
<1>9. ASSUME BreakPool PROVE Inv'
  BY <1>9, LeaveStep DEF BreakPool
<1>10. ASSUME Crash PROVE Inv'
  BY <1>10, CrashStep
<1>11. ASSUME UNCHANGED vars PROVE Inv'
  BY <1>11 DEF vars, runVars, Inv, TypeOK, AttemptsOnRecord, BundleConsistent, Working, IdleInv, BusyInv,
     OutcomeInv, ScriptInv, WritesInv, CompletedInv, StudyInv, Executed, OnDisk, Cached, ConfigPlans,
     WritesOf, Written, Won
<1> QED  BY <1>1, <1>2, <1>3, <1>4, <1>5, <1>6, <1>7, <1>8, <1>9, <1>10, <1>11 DEF Next, Progress

\* The inductive invariant holds.
THEOREM Invariance == Spec => []Inv
BY InitInv, NextInv, PTL DEF Spec

-----------------------------------------------------------------------------
(* The properties.                                                         *)

\* What each step does to a run that is on disk and is not run again: nothing.
LEMMA KeepsStep ==
  ASSUME Inv, [Next]_vars, NEW q \in Plans, OnDisk(q), q \notin todo
  PROVE  OnDisk(q)'
<1>1. CASE disk' = disk
  BY <1>1, SameDisk
<1>2. CASE Crash
  BY <1>2, CrashStep
<1>3. CASE WriteFile
  <2> DEFINE h == Head(script)
             c == h.contents
  <2>1. script # <<>> /\ disk' = [disk EXCEPT ![h.file] = c] /\ c \in {h.contents, Remains(h)}
    BY <1>3 DEF WriteFile
  <2>2. DiskType /\ persisted \subseteq Plans
    BY TypeParts DEF Inv, MemoryType
  <2>3. \/ \E p \in Plans : p \in todo /\ RunWrite(h, p)
        \/ StudyWrite(h) /\ \A r : h.file # Result(r) /\ h.file # Manifest(r)
    BY <2>1, <2>2, HeadIs, StudyWriteIs
  <2> HIDE DEF h, c
  <2>4. CASE \E p \in Plans : p \in todo /\ RunWrite(h, p)
    <3>1. PICK p \in Plans : p \in todo /\ RunWrite(h, p)
      BY <2>4
    <3>2. h.file # Result(q) /\ h.file # Manifest(q)
      BY <3>1, FilesDistinct, WriteFields DEF RunWrite
    <3> QED  BY <2>1, <2>2, <3>1, <3>2, OnDiskKept
  <2>5. CASE StudyWrite(h) /\ \A r : h.file # Result(r) /\ h.file # Manifest(r)
    BY <2>1, <2>2, <2>5, OnDiskKept
  <2> QED  BY <2>3, <2>4, <2>5
<1>4. [Next]_vars => disk' = disk \/ Crash \/ WriteFile
  BY DEF Next, Progress, Begin, ExecuteSerially, ExecuteInPool, Persist, Raise, BeginStudy, Return,
     BreakPool, vars
<1> QED  BY <1>1, <1>2, <1>3, <1>4

\* A failed invocation leaves no success behind that is not on disk.
LEMMA FailStep ==
  ASSUME Inv, [Next]_vars, pc = "runs", pc' = "idle", ended' = "failed",
         NEW p \in Executed, Succeeded(outcome[p])
  PROVE  OnDisk(p)
<1>1. MemoryType /\ p \in Plans /\ outcome[p] \in Outcomes
  BY TypeParts DEF Inv, Working, OutcomeInv, MemoryType
<1>2. script = <<>> /\ Executed \subseteq persisted
  <2>1. ASSUME NEW q \in Plans, ExecuteSerially(q) PROVE script = <<>> /\ Executed \subseteq persisted
    BY <2>1 DEF ExecuteSerially
  <2>2. ASSUME Raise PROVE script = <<>> /\ Executed \subseteq persisted
    <3>1. script = <<>> /\ failure /\ (workers = 0 \/ todo \subseteq persisted)
      BY <2>2 DEF Raise
    <3>2. Executed \subseteq todo /\ (workers = 0 => Executed \subseteq persisted)
      BY <3>1 DEF Inv, Working, BusyInv, OutcomeInv
    <3> QED  BY <3>1, <3>2
  <2>3. ~ \E c \in Configs, w \in Workers, r \in BOOLEAN : Begin(c, w, r)
    BY DEF Begin
  <2>4. ~ \E q \in Plans : ExecuteInPool(q) \/ Persist(q)
    BY DEF ExecuteInPool, Persist
  <2>5. ~WriteFile /\ ~BeginStudy /\ ~Return /\ ~ UNCHANGED vars
    BY DEF WriteFile, BeginStudy, Return, vars
  <2>6. ~BreakPool /\ ~Crash
    BY DEF BreakPool, Crash, End
  <2> QED  BY <2>1, <2>2, <2>3, <2>4, <2>5, <2>6 DEF Next, Progress
<1>3. \A w \in ToSet(OutcomeWrites(p, outcome[p])) : Written(w)
  <2>1. ToSet(script) = {}
    BY <1>2 DEF ToSet
  <2> QED  BY <1>2, <2>1 DEF Inv, Working, WritesInv, WritesOf
<1> QED  BY <1>1, <1>3, WonIsOnDisk

\* What an invocation that may resume starts to run was not whole on disk.
LEMMA ResumeStep ==
  ASSUME Inv, [Next]_vars, pc = "idle", pc' = "runs", resume', NEW p \in todo'
  PROVE  ~OnDisk(p)
<1>1. \E c \in Configs, w \in Workers, r \in BOOLEAN : Begin(c, w, r)
  BY DEF Next, Progress, ExecuteSerially, ExecuteInPool, Persist, WriteFile, Raise, BeginStudy, Return,
     BreakPool, Crash, End, vars
<1>2. PICK c \in Configs, w \in Workers, r \in BOOLEAN : Begin(c, w, r)
  BY <1>1
<1>3. p \in ToSet(PlansOf[c]) /\ ~Loadable(p)
  BY <1>2 DEF Begin
<1> QED  BY <1>3, ConfigPlansIn, LoadableIsOnDisk, TypeParts DEF Inv

\* Every variable keeps its type.
THEOREM TypeCorrect == Spec => []TypeOK
BY Invariance, PTL DEF Inv

\* Whatever died when, a study that has returned is complete on disk and lists its runs in
\* one order (run_study, study/runner.py).
THEOREM BundleIsConsistent == Spec => []BundleConsistent
BY Invariance, PTL DEF Inv

\* No manifest claims failed attempts whose error files are missing
\* (_persist_study_outcomes writes it last).
THEOREM AttemptsAreOnRecord == Spec => []AttemptsOnRecord
BY Invariance, PTL DEF Inv

\* An invocation that resumes runs nothing that is whole on disk, and no invocation damages
\* a run it took over (_load_completed_run).
THEOREM ResumeIsTrusted == Spec => ResumeTrustsDisk
<1>1. Inv /\ [Next]_vars =>
        [/\ pc = "idle" /\ pc' = "runs" /\ resume' => \A p \in todo' : ~OnDisk(p)
         /\ \A p \in Plans : OnDisk(p) /\ p \notin todo => OnDisk(p)']_vars
  BY KeepsStep, ResumeStep
<1> QED  BY <1>1, Invariance, PTL DEF Spec, ResumeTrustsDisk

\* A failed run takes no other run's success with it.
THEOREM SuccessIsKept == Spec => NoSuccessLost
<1>1. Inv /\ [Next]_vars =>
        [pc = "runs" /\ pc' = "idle" /\ ended' = "failed" =>
           \A p \in Executed : Succeeded(outcome[p]) => OnDisk(p)]_vars
  BY FailStep
<1> QED  BY <1>1, Invariance, PTL DEF Spec, NoSuccessLost
=============================================================================
