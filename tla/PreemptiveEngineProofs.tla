------------------------ MODULE PreemptiveEngineProofs ------------------------
(***************************************************************************)
(* Theorems of PreemptiveEngine, for all jobs, fleets, costs and scenarios:*)
(* its loop implements the lifecycle specification, completes jobs when    *)
(* their work is done, never evicts in vain or in reverse, and leaves      *)
(* nothing behind.                                                         *)
(*                                                                         *)
(* The inductive invariant Inv joins what the loop keeps (Core) with the   *)
(* invariant already proved of the lifecycle specification, read through   *)
(* the mapping: each step of the loop is a step of that specification      *)
(* (NextMaps), so its invariant needs no second proof. Three invariants    *)
(* on top of it state when timers are due (Timing), what reservations wait *)
(* for (Settled), and how a pass ranks the jobs (Ranked).                  *)
(***************************************************************************)
EXTENDS PreemptiveEngine, FiniteLemmas, SequenceTheorems

-----------------------------------------------------------------------------
(* Lexicographic order.                                                    *)

\* Less on tuples of one length is irreflexive, transitive and total.
LEMMA LessOrder ==
  ASSUME NEW n \in Nat, NEW s \in [1 .. n -> Int], NEW t \in [1 .. n -> Int],
         NEW u \in [1 .. n -> Int]
  PROVE  /\ ~Less(s, s)
         /\ s # t => Less(s, t) \/ Less(t, s)
         /\ Less(s, t) /\ Less(t, u) => Less(s, u)
<1>1. ~Less(s, s)
  BY DEF Less
<1>2. ASSUME s # t PROVE Less(s, t) \/ Less(t, s)
  <2> DEFINE B == {i \in 1 .. n : s[i] # t[i]}
  <2>1. B \in SUBSET Nat /\ B # {}
    BY <1>2
  <2>2. PICK i \in B : \A k \in B : i <= k
    <3> HIDE DEF B
    <3> QED  BY <2>1, LeastNumber
  <2>3. \A k \in 1 .. i - 1 : s[k] = t[k]
    BY <2>2
  <2>4. s[i] < t[i] \/ t[i] < s[i]
    BY <2>2
  <2> QED  BY <2>2, <2>3, <2>4 DEF Less
<1>3. ASSUME Less(s, t), Less(t, u) PROVE Less(s, u)
  <2>1. PICK i \in 1 .. n : s[i] < t[i] /\ \A k \in 1 .. i - 1 : s[k] = t[k]
    BY <1>3 DEF Less
  <2>2. PICK k \in 1 .. n : t[k] < u[k] /\ \A l \in 1 .. k - 1 : t[l] = u[l]
    BY <1>3 DEF Less
  <2>3. CASE i <= k
    <3>1. s[i] < u[i] /\ \A l \in 1 .. i - 1 : s[l] = u[l]
      BY <2>1, <2>2, <2>3
    <3> QED  BY <3>1 DEF Less
  <2>4. CASE k < i
    <3>1. s[k] < u[k] /\ \A l \in 1 .. k - 1 : s[l] = u[l]
      BY <2>1, <2>2, <2>4
    <3> QED  BY <3>1 DEF Less
  <2> QED  BY <2>3, <2>4
<1> QED  BY <1>1, <1>2, <1>3

\* The elements ahead of x by their keys, and the first k elements.
AheadOf(S, key, x) == {y \in S : Less(key[y], key[x])}
FirstOf(S, key, k) == {x \in S : Cardinality(AheadOf(S, key, x)) < k}

\* The first k elements of a finite set by distinct keys are k elements.
LEMMA FirstByKey ==
  ASSUME NEW S, IsFiniteSet(S), NEW n \in Nat, NEW key \in [S -> [1 .. n -> Int]],
         \A x, y \in S : x # y => key[x] # key[y],
         NEW k \in 0 .. Cardinality(S)
  PROVE  Cardinality(FirstOf(S, key, k)) = k
<1> DEFINE R == {p \in S \X S : Less(key[p[1]], key[p[2]])}
           First == {x \in S : Rank(x, R, S) < k}
           f == [x \in First |-> Rank(x, R, S) + 1]
           C == Cardinality(S)
<1>1. \A x, y \in S : <<x, y>> \in R <=> Less(key[x], key[y])
  OBVIOUS
<1>2. StrictOrder(R, S)
  <2> HIDE DEF R
  <2>1. \A x \in S : <<x, x>> \notin R
    BY <1>1, LessOrder
  <2>2. \A x, y \in S : x # y => <<x, y>> \in R \/ <<y, x>> \in R
    BY <1>1, LessOrder
  <2>3. ASSUME NEW x \in S, NEW y \in S, NEW z \in S, <<x, y>> \in R, <<y, z>> \in R
        PROVE  <<x, z>> \in R
    BY <1>1, <2>3, LessOrder
  <2> QED  BY <2>1, <2>2, <2>3 DEF StrictOrder
<1>3. C \in Nat
  BY FS_CardinalityType
<1>4. \A x \in S : Rank(x, R, S) = Cardinality(AheadOf(S, key, x))
  <2> SUFFICES ASSUME NEW x \in S
               PROVE  {y \in S : <<y, x>> \in R} = {y \in S : Less(key[y], key[x])}
    BY DEF Rank, AheadOf
  <2> QED  BY <1>1
<1> HIDE DEF R
<1>5. /\ \A x \in S : Rank(x, R, S) \in 0 .. C - 1
      /\ \A x, y \in S : <<x, y>> \in R <=> Rank(x, R, S) < Rank(y, R, S)
      /\ \A m \in 0 .. C - 1 : \E x \in S : Rank(x, R, S) = m
  BY <1>2, RankBijection
<1>6. k \in Nat /\ k <= C
  BY <1>3
<1> HIDE DEF C
<1>7. f \in Bijection(First, 1 .. k)
  <2>1. f \in [First -> 1 .. k]
    BY <1>3, <1>5, <1>6
  <2>2. \A x, y \in First : f[x] = f[y] => x = y
    <3> SUFFICES ASSUME NEW x \in First, NEW y \in First, f[x] = f[y], x # y PROVE FALSE
      OBVIOUS
    <3>1. Rank(x, R, S) = Rank(y, R, S) /\ Rank(x, R, S) \in Nat
      BY <1>3, <1>5
    <3>2. <<x, y>> \notin R /\ <<y, x>> \notin R
      BY <1>5, <3>1
    <3> QED  BY <1>2, <3>2 DEF StrictOrder
  <2>3. \A m \in 1 .. k : \E x \in First : f[x] = m
    <3> SUFFICES ASSUME NEW m \in 1 .. k PROVE \E x \in First : f[x] = m
      OBVIOUS
    <3>1. m - 1 \in 0 .. C - 1
      BY <1>3, <1>6
    <3>2. PICK x \in S : Rank(x, R, S) = m - 1
      BY <1>5, <3>1
    <3>3. x \in First
      BY <1>6, <3>2
    <3> QED  BY <3>2, <3>3
  <2> QED  BY <2>1, <2>2, <2>3, Fun_IsBij
<1>8. First \in SUBSET S /\ IsFiniteSet(First)
  BY FS_Subset
<1>9. Cardinality(First) = Cardinality(1 .. k)
  <2> HIDE DEF First, f
  <2>1. ExistsBijection(First, 1 .. k)
    BY <1>7 DEF ExistsBijection
  <2> QED  BY <1>8, <2>1, FS_Bijection
<1>10. Cardinality(1 .. k) = k
  BY <1>6, FS_Interval
<1>11. First = FirstOf(S, key, k)
  BY <1>4 DEF FirstOf
<1> QED  BY <1>9, <1>10, <1>11

-----------------------------------------------------------------------------
(* What Place returns.                                                     *)

\* The GPUs that may host job j while the others in occupied may not.
HostsFor(j, occupied, scope) ==
  {g \in scope \cap Compatible[j] : Usable(NodeOf[g]) /\ g \notin occupied}

SingleVendor(P) == \A g, h \in P : VendorOf[g] = VendorOf[h]
IsGang(j, P) == Cardinality(P) = GpuCount[j] /\ SingleVendor(P)

\* GPUs are finitely many.
LEMMA GpusFinite == \A P \in SUBSET GPUs : IsFiniteSet(P) /\ Cardinality(P) \in Nat
BY EngineAssumption, FS_Subset, FS_CardinalityType

\* GPUs and nodes are numbers, in the order of their ids.
LEMMA GpuNumbers == \A g \in GPUs : g \in Nat /\ NodeOf[g] \in Nodes /\ NodeOf[g] \in Nat
<1> SUFFICES ASSUME NEW g \in GPUs PROVE g \in Nat /\ NodeOf[g] \in Nodes /\ NodeOf[g] \in Nat
  OBVIOUS
<1>1. NodeOf[g] \in Nodes
  BY EngineAssumption
<1> QED  BY <1>1, EngineAssumption

\* The least of some numbers is one of them.
LEMMA MinIn == ASSUME NEW S \in SUBSET Nat, S # {} PROVE Min(S) \in S
<1>1. \E n \in S : \A m \in S : n <= m
  BY LeastNumber
<1> QED  BY <1>1 DEF Min

\* Cluster.eligible_gpus: hosts, all of one vendor if more than one is needed.
LEMMA EligibleIs ==
  ASSUME NEW j \in Jobs, NEW occupied, NEW scope \in SUBSET GPUs
  PROVE  /\ Eligible(j, occupied, scope) \subseteq HostsFor(j, occupied, scope)
         /\ GpuCount[j] > 1 => SingleVendor(Eligible(j, occupied, scope))
         /\ \A P \in SUBSET HostsFor(j, occupied, scope) :
              IsGang(j, P) => Cardinality(Eligible(j, occupied, scope)) >= GpuCount[j]
<1> DEFINE hosts == HostsFor(j, occupied, scope)
           OfVendor(w) == {g \in hosts : VendorOf[g] = w}
           enough == {w \in {VendorOf[g] : g \in hosts} : Cardinality(OfVendor(w)) >= GpuCount[j]}
<1>1. Eligible(j, occupied, scope) =
        IF GpuCount[j] <= 1 THEN hosts ELSE IF enough = {} THEN {} ELSE OfVendor(Min(enough))
  BY DEF Eligible, HostsFor
<1>2. hosts \in SUBSET GPUs /\ GpuCount[j] \in Nat \ {0}
  BY EngineAssumption DEF HostsFor
<1>3. Eligible(j, occupied, scope) \subseteq hosts
  BY <1>1
<1>4. enough \subseteq Nat /\ (enough # {} => Min(enough) \in enough)
  <2>1. enough \in SUBSET Nat
    BY <1>2, EngineAssumption
  <2> HIDE DEF enough
  <2> QED  BY <2>1, MinIn
<1>5. ASSUME GpuCount[j] > 1 PROVE SingleVendor(Eligible(j, occupied, scope))
  <2> HIDE DEF enough, hosts
  <2> QED  BY <1>1, <1>2, <1>5 DEF SingleVendor
<1>6. ASSUME NEW P \in SUBSET hosts, IsGang(j, P)
      PROVE  Cardinality(Eligible(j, occupied, scope)) >= GpuCount[j]
  <2>1. Cardinality(P) = GpuCount[j] /\ P # {}
    BY <1>2, <1>6, FS_EmptySet DEF IsGang
  <2>2. CASE GpuCount[j] <= 1
    <3> HIDE DEF hosts
    <3> QED  BY <1>1, <1>2, <2>1, <2>2, GpusFinite, FS_Subset
  <2>3. CASE GpuCount[j] > 1
    <3>1. PICK g \in P : TRUE
      BY <2>1
    <3>2. P \in SUBSET OfVendor(VendorOf[g])
      BY <1>6 DEF IsGang, SingleVendor
    <3>3. /\ OfVendor(VendorOf[g]) \in SUBSET GPUs
          /\ IsFiniteSet(OfVendor(VendorOf[g])) /\ Cardinality(OfVendor(VendorOf[g])) \in Nat
      <4>1. OfVendor(VendorOf[g]) \in SUBSET GPUs
        BY <1>2
      <4> HIDE DEF OfVendor
      <4> QED  BY <4>1, GpusFinite
    <3>4. Cardinality(OfVendor(VendorOf[g])) >= GpuCount[j]
      <4> HIDE DEF OfVendor
      <4>1. Cardinality(P) <= Cardinality(OfVendor(VendorOf[g]))
        BY <3>2, <3>3, FS_Subset
      <4> QED  BY <1>2, <2>1, <3>3, <4>1
    <3>5. VendorOf[g] \in enough
      BY <3>4
    <3>6. Min(enough) \in enough
      BY <1>4, <3>5
    <3>7. Eligible(j, occupied, scope) = OfVendor(Min(enough))
      <4> HIDE DEF OfVendor, hosts
      <4> QED  BY <1>1, <1>2, <2>3, <3>5
    <3> QED  BY <3>6, <3>7
  <2> QED  BY <1>2, <2>2, <2>3
<1> QED  BY <1>3, <1>5, <1>6

\* Five numbers followed by two are seven, and the last is the second of the two.
LEMMA ConcatKeys ==
  ASSUME NEW s \in Seq(Int), NEW t \in Seq(Int), Len(s) = 5, Len(t) = 2
  PROVE  s \o t \in [1 .. 7 -> Int] /\ (s \o t)[7] = t[2]
<1> DEFINE r == s \o t
<1>1. /\ r \in Seq(Int) /\ Len(r) = Len(s) + Len(t)
      /\ \A i \in 1 .. Len(s) + Len(t) : r[i] = IF i <= Len(s) THEN s[i] ELSE t[i - Len(s)]
  BY ConcatProperties
<1> HIDE DEF r
<1>2. Len(r) = 7 /\ r[7] = t[2]
  BY <1>1
<1>3. r \in [1 .. 7 -> Int]
  BY <1>1, <1>2, LenProperties
<1> QED  BY <1>2, <1>3 DEF r

\* BinPackScheduler.place takes as many of the eligible GPUs as the job asks for.
LEMMA PlaceTakes ==
  ASSUME NEW j \in Jobs, NEW occupied \in SUBSET GPUs, NEW scope \in SUBSET GPUs,
         Cardinality(Eligible(j, occupied, scope)) >= GpuCount[j]
  PROVE  /\ Place(j, occupied, scope) \subseteq Eligible(j, occupied, scope)
         /\ Cardinality(Place(j, occupied, scope)) = GpuCount[j]
<1> DEFINE eligible == Eligible(j, occupied, scope)
           Slack == [g \in eligible |-> GpuMemory[g] - JobMemory[j]]
           NodeKey(n) ==
             LET used == Cardinality(occupied \cap scope \cap OnNode(n))
                 here == eligible \cap OnNode(n)
             IN  <<IF used = 0 THEN 1 ELSE 0, -used, Cardinality(here), SumFunctionOnSet(Slack, here), n>>
           GpuKey == [g \in eligible |-> NodeKey(NodeOf[g]) \o <<Slack[g], g>>]
           Ahead(g) == {h \in eligible : Less(GpuKey[h], GpuKey[g])}
           P == Place(j, occupied, scope)
<1>1. P = IF Cardinality(eligible) < GpuCount[j] THEN {}
          ELSE {g \in eligible : Cardinality(Ahead(g)) < GpuCount[j]}
  BY DEF Place
<1>2. eligible \subseteq HostsFor(j, occupied, scope) /\ eligible \in SUBSET GPUs
      /\ IsFiniteSet(eligible) /\ Cardinality(eligible) \in Nat /\ GpuCount[j] \in Nat \ {0}
  <2>1. eligible \subseteq HostsFor(j, occupied, scope)
    BY EligibleIs
  <2>2. eligible \in SUBSET GPUs
    BY <2>1 DEF HostsFor
  <2> QED  BY <2>1, <2>2, GpusFinite, EngineAssumption
<1>3. GpuKey \in [eligible -> [1 .. 7 -> Int]] /\ \A g \in eligible : GpuKey[g][7] = g
  <2> SUFFICES ASSUME NEW g \in eligible
               PROVE  /\ NodeKey(NodeOf[g]) \o <<Slack[g], g>> \in [1 .. 7 -> Int]
                      /\ (NodeKey(NodeOf[g]) \o <<Slack[g], g>>)[7] = g
    OBVIOUS
  <2> DEFINE n == NodeOf[g]
             used == Cardinality(occupied \cap scope \cap OnNode(n))
             here == eligible \cap OnNode(n)
  <2>1. used \in Nat /\ Cardinality(here) \in Nat /\ IsFiniteSet(here)
    <3>1. occupied \cap scope \cap OnNode(n) \in SUBSET GPUs /\ here \in SUBSET GPUs
      BY <1>2
    <3> QED  BY <3>1, GpusFinite
  <2>2. \A h \in eligible : Slack[h] \in Nat
    <3> SUFFICES ASSUME NEW h \in eligible PROVE GpuMemory[h] - JobMemory[j] \in Nat
      OBVIOUS
    <3>1. h \in GPUs /\ JobMemory[j] <= GpuMemory[h]
      BY <1>2 DEF HostsFor, Compatible
    <3>2. GpuMemory[h] \in Nat /\ JobMemory[j] \in Nat
      BY <3>1, EngineAssumption
    <3> QED  BY <3>1, <3>2
  <2>3. SumFunctionOnSet(Slack, here) \in Nat
    <3>1. \A h \in here : Slack[h] \in Nat
      BY <2>2
    <3> HIDE DEF Slack, here
    <3> QED  BY <2>1, <3>1, SumType
  <2>4. NodeOf[g] \in Int /\ g \in Int
    BY <1>2, GpuNumbers
  <2> HIDE DEF eligible
  <2> DEFINE a == IF used = 0 THEN 1 ELSE 0
             b == -used
             c == Cardinality(here)
             d == SumFunctionOnSet(Slack, here)
             x == Slack[g]
  <2>5. NodeKey(NodeOf[g]) \o <<Slack[g], g>> = <<a, b, c, d, n>> \o <<x, g>>
    OBVIOUS
  <2>6. a \in Int /\ b \in Int /\ c \in Int /\ d \in Int /\ n \in Int /\ x \in Int /\ g \in Int
    BY <2>1, <2>2, <2>3, <2>4
  <2> HIDE DEF a, b, c, d, n, x
  <2> DEFINE s == <<a, b, c, d, n>>
             t == <<x, g>>
  <2>7. s \in Seq(Int) /\ t \in Seq(Int) /\ Len(s) = 5 /\ Len(t) = 2 /\ t[2] = g
    BY <2>6
  <2>8. NodeKey(NodeOf[g]) \o <<Slack[g], g>> = s \o t
    BY <2>5
  <2> HIDE DEF NodeKey, Slack, s, t
  <2> QED  BY <2>7, <2>8, ConcatKeys
<1>0. Cardinality(eligible) >= GpuCount[j]
  OBVIOUS
<1>4. P = {g \in eligible : Cardinality(Ahead(g)) < GpuCount[j]}
  <2> HIDE DEF eligible, Ahead
  <2> QED  BY <1>0, <1>1, <1>2
<1> HIDE DEF eligible, GpuKey
<1>5. Cardinality(P) = GpuCount[j]
  <2>1. GpuCount[j] \in 0 .. Cardinality(eligible)
    BY <1>0, <1>2
  <2>2. \A x, y \in eligible : x # y => GpuKey[x] # GpuKey[y]
    BY <1>3
  <2> DEFINE k == GpuCount[j]
             n == 7
  <2>3. n \in Nat /\ GpuKey \in [eligible -> [1 .. n -> Int]]
    BY <1>3
  <2> HIDE DEF k, n
  <2>4. Cardinality(FirstOf(eligible, GpuKey, k)) = k
    BY <1>2, <2>1, <2>2, <2>3, FirstByKey DEF k
  <2> QED  BY <1>4, <2>4 DEF k, FirstOf, AheadOf
<1> QED  BY <1>4, <1>5 DEF eligible

\* It finds a gang of hosts, or nothing if there is none.
LEMMA PlaceIs ==
  ASSUME NEW j \in Jobs, NEW occupied \in SUBSET GPUs, NEW scope \in SUBSET GPUs
  PROVE  /\ Place(j, occupied, scope) # {} =>
              /\ Place(j, occupied, scope) \subseteq HostsFor(j, occupied, scope)
              /\ IsGang(j, Place(j, occupied, scope))
         /\ \A Q \in SUBSET HostsFor(j, occupied, scope) :
              IsGang(j, Q) => Place(j, occupied, scope) # {}
<1> DEFINE eligible == Eligible(j, occupied, scope)
           P == Place(j, occupied, scope)
<1>1. eligible \subseteq HostsFor(j, occupied, scope) /\ eligible \in SUBSET GPUs
      /\ Cardinality(eligible) \in Nat /\ GpuCount[j] \in Nat \ {0}
  <2>1. eligible \subseteq HostsFor(j, occupied, scope)
    BY EligibleIs
  <2>2. eligible \in SUBSET GPUs
    BY <2>1 DEF HostsFor
  <2> QED  BY <2>1, <2>2, GpusFinite, EngineAssumption
<1>2. CASE Cardinality(eligible) < GpuCount[j]
  <2>1. P = {}
    BY <1>2 DEF Place
  <2>2. ~ Cardinality(eligible) >= GpuCount[j]
    BY <1>1, <1>2
  <2> QED  BY <2>1, <2>2, EligibleIs
<1>3. CASE Cardinality(eligible) >= GpuCount[j]
  <2>1. P \subseteq eligible /\ Cardinality(P) = GpuCount[j]
    BY <1>3, PlaceTakes
  <2>2. P # {}
    BY <1>1, <2>1, FS_EmptySet
  <2>3. SingleVendor(P)
    <3>1. CASE GpuCount[j] > 1
      <4>1. SingleVendor(eligible)
        BY <3>1, EligibleIs
      <4> QED  BY <2>1, <4>1 DEF SingleVendor
    <3>2. CASE GpuCount[j] = 1
      <4>1. P \in SUBSET GPUs
        BY <1>1, <2>1
      <4> HIDE DEF P
      <4>2. PICK x : P = {x}
        BY <2>1, <3>2, <4>1, GpusFinite, FS_Singleton
      <4> QED  BY <4>2 DEF SingleVendor
    <3> QED  BY <1>1, <3>1, <3>2
  <2> QED  BY <1>1, <2>1, <2>2, <2>3 DEF IsGang
<1> QED  BY <1>1, <1>2, <1>3

\* Every variable but the queue has its type.
Types ==
  /\ scenario \in Scenarios
  /\ now \in Nat
  /\ pc \in {"pop", "handle", "dispatch", "retry", "resume", "done"}
  /\ todo \subseteq Jobs /\ initial \subseteq Jobs /\ incoming \in Jobs \cup {None}
  /\ status \in [Jobs -> {"pending", "completed"} \cup Active]
  /\ alloc \in [Jobs -> SUBSET GPUs]
  /\ owner \in [GPUs -> Jobs \cup {None}]
  /\ gen \in [Jobs -> Nat]
  /\ acc \in [Jobs -> Nat]
  /\ lastStart \in [Jobs -> Nat \cup {None}]
  /\ runningPriority \in [Jobs -> 0 .. Critical \cup {None}]
  /\ interrupted \subseteq Jobs /\ pending \subseteq Jobs /\ suspended \subseteq Jobs
  /\ target \in [Jobs -> Jobs \cup {None}]
  /\ reserved \in [Jobs -> SUBSET GPUs]
  /\ available \in [Nodes -> BOOLEAN] /\ schedulable \in [Nodes -> BOOLEAN]

\* Jobs whose arrival is still queued.
Waiting == {j \in Jobs : \E e \in Queued : e.kind = "JOB_ARRIVAL" /\ e.id = j}

\* The events of a job that carry its generation, and all the events of a job.
Timers == {"JOB_COMPLETE", "JOB_CHECKPOINT_COMPLETE", "JOB_RESTART_COMPLETE"}
JobKinds == Timers \cup {"JOB_ARRIVAL", "SCHEDULER_TICK"}

\* Queued events are due now or later, and those of this instant are due now. Between
\* the instants nothing is left of the last one.
EventsTyped ==
  /\ \A e \in Queued :
       /\ e.time \in Nat /\ now <= e.time
       /\ e.kind \in JobKinds \cup FleetKinds
       /\ e.kind \in JobKinds => e.id \in Jobs
       /\ e.kind \in FleetKinds => e.id \in Nodes
       /\ e.kind \in Timers => e.gen \in Nat
  /\ \A e \in batch : e.time = now
  /\ pc # "handle" => batch = {}

\* A job has one arrival, and one timer of a kind in a generation.
EventsDistinct ==
  /\ \A e, f \in Queued : e.kind = f.kind /\ e.id = f.id =>
       /\ e.kind = "JOB_ARRIVAL" => e = f
       /\ e.kind \in Timers /\ e.gen = f.gen => e = f
  /\ \A e \in heap \cap batch : e.kind \notin Timers \cup {"JOB_ARRIVAL"}

\* A job that has not arrived has not started.
ArrivalsWait == \A j \in Waiting : status[j] = "pending"

\* A job that holds GPUs holds its whole gang.
Gangs == \A j \in Jobs : status[j] \in Active => Cardinality(alloc[j]) = GpuCount[j]

\* A job has progress or was interrupted only if it has started once; a job that waits
\* again was interrupted.
History ==
  \A j \in Jobs :
    /\ gen[j] = 0 => acc[j] = 0 /\ j \notin interrupted
    /\ status[j] = "pending" /\ gen[j] > 0 => j \in interrupted
    /\ status[j] \in Active => gen[j] > 0
    /\ status[j] = "checkpointing" => j \in interrupted

\* No start lies in the future.
Clock == \A j \in Jobs : lastStart[j] # None => lastStart[j] <= now

\* Where the pass is: the jobs it has still to try are queued, and one that retries is
\* not among them.
Pass ==
  /\ PassTriesQueuedJobs
  /\ incoming \notin todo
  /\ pc # "retry" => incoming = None
  /\ pc = "retry" => incoming \in Jobs

\* The invariant of the loop itself.
Core == Types /\ EventsTyped /\ EventsDistinct /\ ArrivalsWait /\ Gangs /\ History /\ Clock /\ Pass

\* The theorems of the lifecycle specification, for the engine.
Proved == INSTANCE JobLifecycleProofs WITH
  Replicas <- [j \in Jobs |-> {GpuCount[j]}],
  CheckpointJobs <- {j \in Jobs : CheckpointCost[j] > 0},
  RestartJobs <- {j \in Jobs : RestartCost[j] > 0},
  RunGenerations <- Nat,
  status <- Submitted,
  completeEvents <- Generations("JOB_COMPLETE"),
  checkpointEvents <- Generations("JOB_CHECKPOINT_COMPLETE"),
  restartEvents <- Generations("JOB_RESTART_COMPLETE")

\* The invariant of the engine: that of the loop, and that of the lifecycle
\* specification in the states the engine maps to. The second part gives the ownership,
\* the queues and the fencing of timers without proving them a second time.
Inv == Core /\ Proved!IInv

\* None is no job, no time.
LEMMA NoneIsNot == None \notin Jobs /\ None \notin Nat /\ None \notin 0 .. Critical
BY EngineAssumption DEF Critical

\* What the lifecycle specification assumes of its constants.
LEMMA Constants ==
  /\ NodeOf \in [GPUs -> Nodes]
  /\ Compatible \in [Jobs -> SUBSET GPUs]
  /\ [j \in Jobs |-> {GpuCount[j]}] \in [Jobs -> SUBSET (Nat \ {0})]
  /\ {j \in Jobs : CheckpointCost[j] > 0} \subseteq Jobs
  /\ {j \in Jobs : RestartCost[j] > 0} \subseteq Jobs
  /\ Nat \subseteq Nat
  /\ None \notin Jobs
<1>1. \A j \in Jobs : GpuCount[j] \in Nat \ {0}
  BY EngineAssumption
<1> QED  BY <1>1, EngineAssumption, NoneIsNot DEF Compatible

\* A step of the lifecycle specification keeps what is proved of it.
LEMMA LifecycleKeeps == Proved!IInv /\ [Proved!Next]_(Proved!vars) => Proved!IInv'
BY Constants, Proved!NextIInv

\* The generations of the events of one kind and job in a set.
GensIn(Q, kind, j) == {e.gen : e \in {f \in Q : f.kind = kind /\ f.id = j}}

\* The mapping in terms of the jobs that wait for their arrival and the generations of
\* the queued timers.
LEMMA MappingIs ==
  /\ Submitted = [j \in Jobs |-> IF j \in Waiting THEN "unsubmitted" ELSE status[j]]
  /\ \A kind : Generations(kind) = [j \in Jobs |-> GensIn(Queued, kind, j)]
  /\ Submitted' = [j \in Jobs |-> IF j \in Waiting' THEN "unsubmitted" ELSE status'[j]]
  /\ \A kind : Generations(kind)' = [j \in Jobs |-> GensIn(Queued, kind, j)']
BY DEF Submitted, Waiting, Generations, GensIn

\* What the invariants of the lifecycle specification say of the engine.
Owned ==
  \A j \in Jobs : /\ \A g \in GPUs : owner[g] = j <=> g \in alloc[j]
                  /\ alloc[j] # {} <=> status[j] \in Active

\* A job waits in one queue if it has arrived and is pending.
InOneQueue ==
  /\ pending \cap suspended = {}
  /\ \A j \in Jobs : j \in pending \cup suspended <=> status[j] = "pending" /\ j \notin Waiting

\* A victim with a target is suspended or on its way, and its target holds a reservation.
VictimsAim ==
  \A v \in Jobs : /\ v \in suspended => target[v] # None
                  /\ target[v] # None => /\ status[v] = "checkpointing" \/ v \in suspended
                                         /\ target[v] \in pending
                                         /\ reserved[target[v]] # {}

\* A reservation belongs to a queued job, to no other job, and is free or being freed.
Reserving ==
  \A h \in Jobs : /\ reserved[h] # {} => h \in pending
                  /\ \A g \in reserved[h] :
                       /\ Usable(NodeOf[g])
                       /\ owner[g] # None => status[owner[g]] = "checkpointing"
                       /\ \A i \in Jobs \ {h} : g \notin reserved[i]

\* The timer of the present phase is queued.
Phases ==
  \A j \in Jobs :
    /\ status[j] = "running" => gen[j] \in GensIn(Queued, "JOB_COMPLETE", j)
    /\ status[j] = "checkpointing" => gen[j] \in GensIn(Queued, "JOB_CHECKPOINT_COMPLETE", j)
    /\ status[j] = "restarting" => gen[j] \in GensIn(Queued, "JOB_RESTART_COMPLETE", j)

\* No timer is ahead of its job, and none of another phase is live.
Fenced ==
  \A j \in Jobs :
    /\ \A kind \in Timers : \A k \in GensIn(Queued, kind, j) : k <= gen[j]
    /\ status[j] = "running" => gen[j] \notin GensIn(Queued, "JOB_CHECKPOINT_COMPLETE", j)
    /\ status[j] = "restarting" =>
         gen[j] \notin GensIn(Queued, "JOB_COMPLETE", j) \cup GensIn(Queued, "JOB_CHECKPOINT_COMPLETE", j)

\* The invariant of the lifecycle specification says all that of the engine.
LEMMA Plain ==
  ASSUME Inv
  PROVE  Owned /\ InOneQueue /\ VictimsAim /\ Reserving /\ Phases /\ Fenced
<1> DEFINE sub == [j \in Jobs |-> IF j \in Waiting THEN "unsubmitted" ELSE status[j]]
<1>1. Submitted = sub
  BY MappingIs
<1>2. \A j \in Waiting : status[j] = "pending"
  BY DEF Inv, Core, ArrivalsWait, Waiting
<1>3. \A kind : \A j \in Jobs : Generations(kind)[j] = GensIn(Queued, kind, j)
  BY MappingIs
<1>4. Proved!OwnershipAgrees /\ Proved!NoJobLost /\ Proved!VictimsReturn /\ Proved!ReservationsSound
      /\ Proved!ActiveJobHasEvent /\ Proved!EventsFenced
  BY DEF Inv, Proved!IInv
<1>5. \A j \in Jobs : /\ sub[j] \in Active <=> status[j] \in Active
                      /\ sub[j] = "pending" <=> status[j] = "pending" /\ j \notin Waiting
                      /\ sub[j] = "running" <=> status[j] = "running"
                      /\ sub[j] = "restarting" <=> status[j] = "restarting"
                      /\ sub[j] = "checkpointing" <=> status[j] = "checkpointing"
  BY <1>2 DEF Active
<1>6. Types
  BY DEF Inv, Core
<1> HIDE DEF sub
<1>7. Owned
  BY <1>1, <1>4, <1>5 DEF Proved!OwnershipAgrees, Proved!Active, Active, Owned
<1>8. InOneQueue
  BY <1>1, <1>4, <1>5 DEF Proved!NoJobLost, InOneQueue
<1>9. VictimsAim
  BY <1>1, <1>4, <1>5 DEF Proved!VictimsReturn, VictimsAim
<1>10. Reserving
  BY <1>1, <1>4, <1>5, <1>6 DEF Proved!ReservationsSound, Proved!Usable, Usable, Types, Reserving
<1>11. Phases
  BY <1>1, <1>3, <1>4, <1>5 DEF Proved!ActiveJobHasEvent, Phases
<1>12. Fenced
  BY <1>1, <1>3, <1>4, <1>5 DEF Proved!EventsFenced, Timers, Fenced
<1> QED  BY <1>7, <1>8, <1>9, <1>10, <1>11, <1>12

-----------------------------------------------------------------------------
(* The queue of events.                                                    *)

\* The kinds that are timers.
LEMMA TimerKinds ==
  /\ \A e : IsTimer(e) <=> e.kind \in Timers
  /\ \A e : IsTimer(e) => Awaited(e.kind) \in Active
BY DEF IsTimer, Awaited, Timers, Active

\* Events a handler may push: ticks, and timers under a generation that is not queued.
NewEvents(N) ==
  \A n \in N :
    /\ n.time \in Nat /\ now <= n.time
    /\ n.kind \in Timers \cup {"SCHEDULER_TICK"} /\ n.id \in Jobs
    /\ n.kind \in Timers => /\ n.gen \in Nat \ GensIn(Queued, n.kind, n.id)
                            /\ \A m \in N : m.kind = n.kind /\ m.id = n.id => m = n

\* The loop takes the events in D out of the batch and pushes those in N.
Moves(D, N) ==
  /\ D \subseteq batch /\ batch' = batch \ D
  /\ heap' = heap \cup N
  /\ now' = now /\ (pc' # "handle" => batch' = {})

\* What that does to the queue.
LEMMA QueueMoves ==
  ASSUME EventsTyped, EventsDistinct, NEW D, NEW N, NewEvents(N), Moves(D, N)
  PROVE  /\ EventsTyped' /\ EventsDistinct'
         /\ \A kind \in Timers : \A j \in Jobs :
              GensIn(Queued, kind, j)' = (GensIn(Queued, kind, j) \ GensIn(D, kind, j)) \cup GensIn(N, kind, j)
         /\ Waiting' = Waiting \ {e.id : e \in {d \in D : d.kind = "JOB_ARRIVAL"}}
<1> DEFINE Marked == Timers \cup {"JOB_ARRIVAL"}
<1>1. /\ Queued' \subseteq Queued \cup N
      /\ \A e : e.kind \in Marked => (e \in Queued' <=> (e \in Queued /\ e \notin D) \/ e \in N)
  <2>1. \A e \in D : e.kind \in Marked => e \notin heap
    BY DEF Moves, EventsDistinct
  <2>2. \A e \in D \cap N : e.kind \notin Marked
    BY DEF Moves, NewEvents, GensIn, Queued, Timers
  <2> HIDE DEF Marked
  <2> QED  BY <2>1, <2>2 DEF Moves, Queued
<1>2. EventsTyped'
  <2>1. \A e \in Queued' : /\ e.time \in Nat /\ now <= e.time
                           /\ e.kind \in JobKinds \cup FleetKinds
                           /\ e.kind \in JobKinds => e.id \in Jobs
                           /\ e.kind \in FleetKinds => e.id \in Nodes
                           /\ e.kind \in Timers => e.gen \in Nat
    BY <1>1 DEF EventsTyped, NewEvents, JobKinds, Timers, FleetKinds
  <2> QED  BY <2>1 DEF EventsTyped, Moves
<1>3. EventsDistinct'
  <2>1. ASSUME NEW e \in Queued', NEW f \in Queued', e.kind = f.kind, e.id = f.id
        PROVE  /\ e.kind = "JOB_ARRIVAL" => e = f
               /\ e.kind \in Timers /\ e.gen = f.gen => e = f
    BY <1>1, <2>1 DEF EventsDistinct, NewEvents, GensIn, Timers
  <2>2. ASSUME NEW e \in heap' \cap batch' PROVE e.kind \notin Marked
    BY DEF Moves, EventsDistinct, NewEvents, GensIn, Queued, Timers
  <2> QED  BY <2>1, <2>2 DEF EventsDistinct
<1>4. ASSUME NEW kind \in Timers, NEW j \in Jobs
      PROVE  GensIn(Queued, kind, j)' = (GensIn(Queued, kind, j) \ GensIn(D, kind, j)) \cup GensIn(N, kind, j)
  <2>1. \A k : k \in GensIn(Queued, kind, j)' <=> \E e \in Queued' : e.kind = kind /\ e.id = j /\ e.gen = k
    BY DEF GensIn
  <2>2. \A k : k \in GensIn(Queued, kind, j) /\ k \notin GensIn(D, kind, j) <=>
              \E e \in Queued \ D : e.kind = kind /\ e.id = j /\ e.gen = k
    BY DEF GensIn, EventsDistinct, Moves, Queued
  <2>3. \A k : k \in GensIn(N, kind, j) <=> \E e \in N : e.kind = kind /\ e.id = j /\ e.gen = k
    BY DEF GensIn
  <2> QED  BY <1>1, <2>1, <2>2, <2>3
<1>5. Waiting' = Waiting \ {e.id : e \in {d \in D : d.kind = "JOB_ARRIVAL"}}
  <2>1. \A e : e.kind = "JOB_ARRIVAL" => (e \in Queued' <=> e \in Queued /\ e \notin D)
    BY <1>1 DEF NewEvents, Timers
  <2> QED  BY <2>1 DEF Waiting, EventsDistinct, Moves, Queued
<1> QED  BY <1>2, <1>3, <1>4, <1>5

\* Generations in small sets of events.
LEMMA GensSimple ==
  /\ \A kind, j : GensIn({}, kind, j) = {}
  /\ \A e, kind, j : GensIn({e}, kind, j) = IF e.kind = kind /\ e.id = j THEN {e.gen} ELSE {}
  /\ \A M, N, kind, j : GensIn(M \cup N, kind, j) = GensIn(M, kind, j) \cup GensIn(N, kind, j)
BY DEF GensIn

\* Aging ticks of queued jobs.
TickSet(N) ==
  \A n \in N : n.time \in Nat /\ now <= n.time /\ n.kind = "SCHEDULER_TICK" /\ n.id \in Jobs

\* The aging ticks that handlers push are ticks of queued jobs.
LEMMA TicksAre ==
  ASSUME Types
  PROVE  /\ TickSet({})
         /\ \A j \in Jobs : \A t : TickSet(AgingTick(j, t))
         /\ \A S \in SUBSET Jobs : TickSet(Ticks(S))
         /\ \A S \in SUBSET Jobs : TickSet(UNION {AgingTick(v, Accrued(v)) : v \in S})
<1>1. ASSUME NEW j \in Jobs, NEW t PROVE TickSet(AgingTick(j, t))
  <2>1. AgingInterval \in Nat /\ now \in Nat
    BY EngineAssumption DEF Types
  <2> QED  BY <2>1 DEF TickSet, AgingTick, Event
<1> QED  BY <1>1 DEF TickSet, Ticks

\* Pushing ticks adds no generation.
LEMMA TicksNew ==
  ASSUME NEW N, TickSet(N)
  PROVE  NewEvents(N) /\ \A kind \in Timers : \A j : GensIn(N, kind, j) = {}
BY DEF TickSet, NewEvents, GensIn, Timers

\* A handler takes one event out of the batch.
LEMMA Taking ==
  ASSUME Inv, NEW e, Take(e), NEW N, NewEvents(N), heap' = heap \cup N
  PROVE  /\ e \in Queued /\ pc = "handle" /\ pc' = "handle" /\ e.time = now
         /\ EventsTyped' /\ EventsDistinct'
         /\ \A kind \in Timers : \A i \in Jobs :
              GensIn(Queued, kind, i)' =
                (IF e.kind = kind /\ e.id = i THEN GensIn(Queued, kind, i) \ {e.gen}
                 ELSE GensIn(Queued, kind, i)) \cup GensIn(N, kind, i)
         /\ Waiting' = IF e.kind = "JOB_ARRIVAL" THEN Waiting \ {e.id} ELSE Waiting
<1>1. e \in batch /\ pc = "handle" /\ pc' = "handle" /\ Moves({e}, N)
  BY DEF Take, Moves
<1>2. e \in Queued /\ e.time = now
  BY <1>1 DEF Queued, Inv, Core, EventsTyped
<1> DEFINE D == {e}
<1>3. /\ \A kind, i : GensIn(D, kind, i) = IF e.kind = kind /\ e.id = i THEN {e.gen} ELSE {}
      /\ {d.id : d \in {f \in D : f.kind = "JOB_ARRIVAL"}} = IF e.kind = "JOB_ARRIVAL" THEN {e.id} ELSE {}
  <2>1. {f \in D : f.kind = "JOB_ARRIVAL"} = IF e.kind = "JOB_ARRIVAL" THEN {e} ELSE {}
    OBVIOUS
  <2> HIDE DEF D
  <2>2. {d.id : d \in {f \in D : f.kind = "JOB_ARRIVAL"}} = IF e.kind = "JOB_ARRIVAL" THEN {e.id} ELSE {}
    BY <2>1
  <2> QED  BY <2>2, GensSimple DEF D
<1>4. Moves(D, N) /\ EventsTyped /\ EventsDistinct
  BY <1>1 DEF Inv, Core
<1> HIDE DEF D
<1>5. /\ EventsTyped' /\ EventsDistinct'
      /\ \A kind \in Timers : \A j \in Jobs :
              GensIn(Queued, kind, j)' = (GensIn(Queued, kind, j) \ GensIn(D, kind, j)) \cup GensIn(N, kind, j)
      /\ Waiting' = Waiting \ {f.id : f \in {d \in D : d.kind = "JOB_ARRIVAL"}}
  BY <1>4, QueueMoves
<1>6. /\ \A kind \in Timers : \A i \in Jobs :
              GensIn(Queued, kind, i)' =
                (IF e.kind = kind /\ e.id = i THEN GensIn(Queued, kind, i) \ {e.gen}
                 ELSE GensIn(Queued, kind, i)) \cup GensIn(N, kind, i)
  BY <1>3, <1>5
<1>7. Waiting' = IF e.kind = "JOB_ARRIVAL" THEN Waiting \ {e.id} ELSE Waiting
  BY <1>3, <1>5
<1> QED  BY <1>1, <1>2, <1>5, <1>6, <1>7

\* So it does when the event is no timer and only ticks are pushed.
LEMMA TakingQuietly ==
  ASSUME Inv, NEW e, Take(e), e.kind \notin Timers, NEW N, TickSet(N), heap' = heap \cup N
  PROVE  /\ e \in Queued /\ pc = "handle" /\ pc' = "handle"
         /\ EventsTyped' /\ EventsDistinct'
         /\ \A kind \in Timers : \A i \in Jobs : GensIn(Queued, kind, i)' = GensIn(Queued, kind, i)
         /\ Waiting' = IF e.kind = "JOB_ARRIVAL" THEN Waiting \ {e.id} ELSE Waiting
<1>1. NewEvents(N)
  BY TicksNew
<1>2. ASSUME NEW kind \in Timers, NEW i \in Jobs
      PROVE  GensIn(Queued, kind, i)' = GensIn(Queued, kind, i)
  <2>1. GensIn(Queued, kind, i)' = GensIn(Queued, kind, i) \cup GensIn(N, kind, i)
    BY <1>1, Taking
  <2>2. GensIn(N, kind, i) = {}
    BY TicksNew
  <2> QED  BY <2>1, <2>2
<1> QED  BY <1>1, <1>2, Taking

\* When no timer and no arrival comes or goes, the lifecycle sees the same events.
LEMMA SameEvents ==
  ASSUME \A kind \in Timers : \A i \in Jobs : GensIn(Queued, kind, i)' = GensIn(Queued, kind, i)
  PROVE  /\ Generations("JOB_COMPLETE")' = Generations("JOB_COMPLETE")
         /\ Generations("JOB_CHECKPOINT_COMPLETE")' = Generations("JOB_CHECKPOINT_COMPLETE")
         /\ Generations("JOB_RESTART_COMPLETE")' = Generations("JOB_RESTART_COMPLETE")
BY MappingIs DEF Timers

\* An arrival queues its job.
LEMMA ArriveStep ==
  ASSUME Inv, NEW e, Arrive(e)
  PROVE  [Proved!Next]_(Proved!vars) /\ Core'
<1> DEFINE j == e.id
           N == AgingTick(j, acc[j])
<1>1. Core /\ Types
  BY DEF Inv, Core
<1>2. e \in Queued /\ pc = "handle" /\ e.kind = "JOB_ARRIVAL" /\ Take(e) /\ heap' = heap \cup N
  BY DEF Arrive, Take, Queued
<1>3. j \in Jobs /\ j \in Waiting /\ status[j] = "pending"
  BY <1>1, <1>2 DEF Core, EventsTyped, JobKinds, ArrivalsWait, Waiting
<1>4. TickSet(N)
  BY <1>1, <1>3, TicksAre
<1> HIDE DEF N
<1>5. /\ EventsTyped' /\ EventsDistinct' /\ Waiting' = Waiting \ {j}
      /\ \A kind \in Timers : \A i \in Jobs : GensIn(Queued, kind, i)' = GensIn(Queued, kind, i)
  BY <1>2, <1>4, TakingQuietly DEF Timers
<1>7. UNCHANGED <<scenario, now, pc, todo, initial, incoming, jobVars, suspended, target, reserved, nodeVars>>
      /\ pending' = pending \cup {j}
  BY DEF Arrive, Take
<1>8. Proved!Arrive(j)
  <2>1. Submitted[j] = "unsubmitted"
    BY <1>3, MappingIs
  <2>2. Submitted' = [Submitted EXCEPT ![j] = "pending"]
    BY <1>3, <1>5, <1>7, MappingIs DEF jobVars
  <2> QED  BY <1>5, <1>7, <2>1, <2>2, SameEvents
         DEF Proved!Arrive, Proved!eventVars, Proved!nodeVars, jobVars, nodeVars
<1>9. [Proved!Next]_(Proved!vars)
  BY <1>3, <1>8 DEF Proved!Next
<1>10. Types'
  BY <1>1, <1>3, <1>7 DEF Types, jobVars, nodeVars
<1>11. ArrivalsWait' /\ Gangs' /\ History' /\ Clock' /\ Pass'
  BY <1>1, <1>2, <1>3, <1>5, <1>7
       DEF Core, ArrivalsWait, Gangs, History, Clock, Pass, PassTriesQueuedJobs, jobVars
<1> QED  BY <1>5, <1>9, <1>10, <1>11 DEF Core

\* A tick changes nothing but the queue.
LEMMA TickStep ==
  ASSUME Inv, NEW e, Tick(e)
  PROVE  [Proved!Next]_(Proved!vars) /\ Core'
<1> DEFINE N == IF e.id \in pending THEN AgingTick(e.id, acc[e.id]) ELSE {}
<1>1. Core /\ Types
  BY DEF Inv, Core
<1>2. e \in Queued /\ pc = "handle" /\ e.kind = "SCHEDULER_TICK" /\ Take(e) /\ heap' = heap \cup N
  BY DEF Tick, Take, Queued
<1>4. TickSet(N)
  BY <1>1, TicksAre DEF Types
<1> HIDE DEF N
<1>5. /\ EventsTyped' /\ EventsDistinct' /\ Waiting' = Waiting
      /\ \A kind \in Timers : \A i \in Jobs : GensIn(Queued, kind, i)' = GensIn(Queued, kind, i)
  BY <1>2, <1>4, TakingQuietly DEF Timers
<1>7. UNCHANGED <<scenario, now, pc, todo, initial, incoming, jobVars, queueVars, nodeVars>>
  BY DEF Tick, Take
<1>8. UNCHANGED Proved!vars
  <2>1. Submitted' = Submitted
    BY <1>5, <1>7, MappingIs DEF jobVars
  <2> QED  BY <1>5, <1>7, <2>1, SameEvents
      DEF Proved!vars, Proved!jobVars, Proved!queueVars, Proved!eventVars, Proved!nodeVars, jobVars,
          queueVars, nodeVars
<1>10. Types'
  BY <1>1, <1>7 DEF Types, jobVars, queueVars, nodeVars
<1>11. ArrivalsWait' /\ Gangs' /\ History' /\ Clock' /\ Pass'
  BY <1>1, <1>2, <1>5, <1>7
       DEF Core, ArrivalsWait, Gangs, History, Clock, Pass, PassTriesQueuedJobs, jobVars, queueVars
<1> QED  BY <1>5, <1>8, <1>10, <1>11 DEF Core

\* A handler that pushes nothing.
LEMMA TakingOnly ==
  ASSUME Inv, NEW e, Take(e), heap' = heap
  PROVE  /\ EventsTyped' /\ EventsDistinct'
         /\ Waiting' = IF e.kind = "JOB_ARRIVAL" THEN Waiting \ {e.id} ELSE Waiting
         /\ \A kind \in Timers : \A i \in Jobs :
              GensIn(Queued, kind, i)' = IF e.kind = kind /\ e.id = i THEN GensIn(Queued, kind, i) \ {e.gen}
                                         ELSE GensIn(Queued, kind, i)
<1> DEFINE N == {}
<1>1. NewEvents(N) /\ heap' = heap \cup N /\ \A kind, i : GensIn(N, kind, i) = {}
  BY GensSimple DEF NewEvents
<1> HIDE DEF N
<1>2. ASSUME NEW kind \in Timers, NEW i \in Jobs
      PROVE  GensIn(Queued, kind, i)' = IF e.kind = kind /\ e.id = i THEN GensIn(Queued, kind, i) \ {e.gen}
                                        ELSE GensIn(Queued, kind, i)
  <2>1. GensIn(Queued, kind, i)' =
                (IF e.kind = kind /\ e.id = i THEN GensIn(Queued, kind, i) \ {e.gen}
                 ELSE GensIn(Queued, kind, i)) \cup GensIn(N, kind, i)
    BY <1>1, Taking
  <2> QED  BY <1>1, <2>1
<1> QED  BY <1>1, <1>2, Taking

\* What the scenario says.
LEMMA ScenarioIs ==
  ASSUME Types
  PROVE  /\ scenario.arrival \in [Jobs -> Nat] /\ scenario.duration \in [Jobs -> Nat \ {0}]
         /\ scenario.priority \in [Jobs -> 0 .. Critical]
BY EngineAssumption DEF Types

\* Progress is a number and does not shrink.
LEMMA AccruedIs ==
  ASSUME Types, Clock, NEW j \in Jobs
  PROVE  Accrued(j) \in Nat /\ acc[j] <= Accrued(j)
<1>1. acc[j] \in Nat /\ now \in Nat /\ lastStart[j] \in Nat \cup {None}
  BY DEF Types
<1> QED  BY <1>1 DEF Accrued, Clock

\* A timer of an earlier phase leaves the queue.
LEMMA DropMaps ==
  ASSUME Inv, NEW e \in Queued, IsTimer(e), ~IsLive(e),
         UNCHANGED <<jobVars, queueVars, nodeVars>>, Waiting' = Waiting,
         \A kind \in Timers : \A i \in Jobs :
           GensIn(Queued, kind, i)' = IF e.kind = kind /\ e.id = i THEN GensIn(Queued, kind, i) \ {e.gen}
                                      ELSE GensIn(Queued, kind, i)
  PROVE  [Proved!Next]_(Proved!vars)
<1> DEFINE j == e.id
           Lost(kind) == Generations(kind)' = [Generations(kind) EXCEPT ![j] = @ \ {e.gen}]
           Same(kind) == Generations(kind)' = Generations(kind)
<1>1. e.kind \in Timers /\ j \in Jobs /\ e.gen \in GensIn(Queued, e.kind, j)
  BY TimerKinds DEF Inv, Core, EventsTyped, JobKinds, GensIn
<1>2. Submitted' = Submitted
  BY MappingIs DEF jobVars
<1>3. \A kind \in Timers : kind # e.kind => Same(kind)
  BY MappingIs
<1>4. Lost(e.kind)
  BY <1>1, MappingIs
<1>5. e.gen \in Generations(e.kind)[j]
  BY <1>1, MappingIs
<1>6. ~(e.gen = gen[j] /\ Submitted[j] = Awaited(e.kind))
  <2>1. Submitted[j] = Awaited(e.kind) => status[j] = Awaited(e.kind)
    BY <1>1, MappingIs, TimerKinds DEF Active
  <2> QED  BY <2>1 DEF IsLive
<1>7. Proved!DropStale(j)
  <2>0. /\ UNCHANGED <<alloc, owner, gen, pending, suspended, target, reserved, available, schedulable>>
        /\ UNCHANGED Submitted
    BY <1>2 DEF jobVars, queueVars, nodeVars
  <2> HIDE DEF Lost, Same
  <2>1. CASE e.kind = "JOB_COMPLETE"
    <3>1. Lost("JOB_COMPLETE") /\ Same("JOB_CHECKPOINT_COMPLETE") /\ Same("JOB_RESTART_COMPLETE")
          /\ Awaited(e.kind) = "running"
      BY <1>3, <1>4, <2>1 DEF Timers, Awaited
    <3> QED  BY <1>5, <1>6, <2>0, <2>1, <3>1
        DEF Lost, Same, Proved!DropStale, Proved!jobVars, Proved!queueVars, Proved!nodeVars
  <2>2. CASE e.kind = "JOB_CHECKPOINT_COMPLETE"
    <3>1. Same("JOB_COMPLETE") /\ Lost("JOB_CHECKPOINT_COMPLETE") /\ Same("JOB_RESTART_COMPLETE")
          /\ Awaited(e.kind) = "checkpointing"
      BY <1>3, <1>4, <2>2 DEF Timers, Awaited
    <3> QED  BY <1>5, <1>6, <2>0, <2>2, <3>1
        DEF Lost, Same, Proved!DropStale, Proved!jobVars, Proved!queueVars, Proved!nodeVars
  <2>3. CASE e.kind = "JOB_RESTART_COMPLETE"
    <3>1. Same("JOB_COMPLETE") /\ Same("JOB_CHECKPOINT_COMPLETE") /\ Lost("JOB_RESTART_COMPLETE")
          /\ Awaited(e.kind) = "restarting"
      BY <1>3, <1>4, <2>3 DEF Timers, Awaited
    <3> QED  BY <1>5, <1>6, <2>0, <2>3, <3>1
        DEF Lost, Same, Proved!DropStale, Proved!jobVars, Proved!queueVars, Proved!nodeVars
  <2> QED  BY <1>1, <2>1, <2>2, <2>3 DEF Timers
<1> QED  BY <1>1, <1>7 DEF Proved!Next

\* A stale timer changes nothing but the queue of events.
LEMMA StaleTimerStep ==
  ASSUME Inv, NEW e, StaleTimer(e)
  PROVE  [Proved!Next]_(Proved!vars) /\ Core'
<1>1. Core /\ Types
  BY DEF Inv, Core
<1>2. e \in Queued /\ pc = "handle" /\ e.kind \in Timers /\ Take(e) /\ heap' = heap
      /\ IsTimer(e) /\ ~IsLive(e)
  BY TimerKinds DEF StaleTimer, Take, Queued
<1>4. /\ EventsTyped' /\ EventsDistinct' /\ Waiting' = Waiting
      /\ \A kind \in Timers : \A i \in Jobs :
           GensIn(Queued, kind, i)' = IF e.kind = kind /\ e.id = i THEN GensIn(Queued, kind, i) \ {e.gen}
                                      ELSE GensIn(Queued, kind, i)
  <2>1. e.kind # "JOB_ARRIVAL"
    BY <1>2 DEF Timers
  <2> QED  BY <1>2, <2>1, TakingOnly
<1>5. UNCHANGED <<scenario, now, pc, todo, initial, incoming, jobVars, queueVars, nodeVars>>
  BY DEF StaleTimer, Take
<1>6. [Proved!Next]_(Proved!vars)
  BY <1>2, <1>4, <1>5, DropMaps
<1>7. Types'
  BY <1>1, <1>5 DEF Types, jobVars, queueVars, nodeVars
<1>8. ArrivalsWait' /\ Gangs' /\ History' /\ Clock' /\ Pass'
  BY <1>1, <1>2, <1>4, <1>5
       DEF Core, ArrivalsWait, Gangs, History, Clock, Pass, PassTriesQueuedJobs, jobVars, queueVars
<1> QED  BY <1>4, <1>6, <1>7, <1>8 DEF Core

\* A completion releases the job's GPUs.
LEMMA CompleteStep ==
  ASSUME Inv, NEW e, Complete(e)
  PROVE  [Proved!Next]_(Proved!vars) /\ Core'
<1> DEFINE j == e.id
<1>1. Core /\ Types
  BY DEF Inv, Core
<1>2. e \in Queued /\ pc = "handle" /\ e.kind = "JOB_COMPLETE" /\ Take(e) /\ heap' = heap
      /\ status[j] = "running" /\ e.gen = gen[j]
  BY DEF Complete, Take, Queued, IsLive, Awaited
<1>3. j \in Jobs /\ j \notin Waiting
  BY <1>1, <1>2 DEF Core, EventsTyped, JobKinds, Timers, ArrivalsWait
<1>5. /\ EventsTyped' /\ EventsDistinct' /\ Waiting' = Waiting
      /\ \A kind \in Timers : \A i \in Jobs :
           GensIn(Queued, kind, i)' = IF e.kind = kind /\ e.id = i THEN GensIn(Queued, kind, i) \ {gen[j]}
                                      ELSE GensIn(Queued, kind, i)
  BY <1>2, TakingOnly
<1>6. /\ UNCHANGED <<scenario, now, pc, todo, initial, incoming, gen, interrupted, queueVars, nodeVars>>
      /\ acc' = [acc EXCEPT ![j] = Min({scenario.duration[j], Accrued(j)})]
      /\ Release({j})
      /\ status' = [status EXCEPT ![j] = "completed"]
      /\ lastStart' = [lastStart EXCEPT ![j] = None]
      /\ runningPriority' = [runningPriority EXCEPT ![j] = None]
  BY DEF Complete, Take
<1>7. Proved!Complete(j)
  <2>1. Submitted[j] = "running" /\ Submitted' = [Submitted EXCEPT ![j] = "completed"]
    BY <1>1, <1>2, <1>3, <1>5, <1>6, MappingIs DEF Types
  <2>2. gen[j] \in Generations("JOB_COMPLETE")[j]
    BY <1>2, <1>3, MappingIs DEF GensIn
  <2>3. /\ Generations("JOB_COMPLETE")' = [Generations("JOB_COMPLETE") EXCEPT ![j] = @ \ {gen[j]}]
        /\ UNCHANGED <<Generations("JOB_CHECKPOINT_COMPLETE"), Generations("JOB_RESTART_COMPLETE")>>
    BY <1>2, <1>3, <1>5, MappingIs DEF Timers
  <2> QED  BY <1>6, <2>1, <2>2, <2>3
      DEF Proved!Complete, Proved!Release, Release, Proved!queueVars, queueVars, Proved!nodeVars,
          nodeVars
<1>8. [Proved!Next]_(Proved!vars)
  BY <1>3, <1>7 DEF Proved!Next
<1>9. Types'
  <2>1. Min({scenario.duration[j], Accrued(j)}) \in Nat
    <3>1. scenario.duration[j] \in Nat /\ Accrued(j) \in Nat
      BY <1>1, <1>3, ScenarioIs, AccruedIs DEF Core
    <3> DEFINE S == {scenario.duration[j], Accrued(j)}
    <3>2. S \in SUBSET Nat /\ S # {}
      BY <3>1
    <3> HIDE DEF S
    <3>3. Min(S) \in S
      BY <3>2, MinIn
    <3> QED  BY <3>2, <3>3 DEF S
  <2>2. acc' \in [Jobs -> Nat]
    BY <1>1, <1>6, <2>1 DEF Types
  <2> QED  BY <1>1, <1>3, <1>6, <2>2 DEF Types, queueVars, nodeVars, Release
<1>10. ArrivalsWait' /\ Gangs' /\ History' /\ Clock' /\ Pass'
  BY <1>1, <1>2, <1>3, <1>5, <1>6, NoneIsNot
     DEF Core, Types, ArrivalsWait, Gangs, History, Clock, Pass, PassTriesQueuedJobs, Release, queueVars,
         Active
<1> QED  BY <1>5, <1>8, <1>9, <1>10 DEF Core

\* The greater of zero and a number.
LEMMA MaxZero == ASSUME NEW x \in Int PROVE Max({0, x}) = IF x > 0 THEN x ELSE 0
<1> DEFINE m == IF x > 0 THEN x ELSE 0
<1>1. m \in {0, x} /\ \A y \in {0, x} : m >= y
  OBVIOUS
<1>2. \A z \in {0, x} : (\A y \in {0, x} : z >= y) => z = m
  OBVIOUS
<1> QED  BY <1>1, <1>2 DEF Max

\* The completion of a job that starts or resumes now.
LEMMA CompletionIs ==
  ASSUME Types, NEW j \in Jobs, NEW t \in Nat, NEW g
  PROVE  /\ Completion(j, t, g).time \in Nat /\ now <= Completion(j, t, g).time
         /\ Completion(j, t, g).kind = "JOB_COMPLETE" /\ Completion(j, t, g).id = j
         /\ Completion(j, t, g).gen = g
         /\ t <= scenario.duration[j] => Completion(j, t, g).time = now + scenario.duration[j] - t
<1>1. now \in Nat /\ scenario.duration[j] \in Nat /\ scenario.duration[j] - t \in Int
  BY ScenarioIs DEF Types
<1>2. Max({0, scenario.duration[j] - t}) =
        IF scenario.duration[j] - t > 0 THEN scenario.duration[j] - t ELSE 0
  BY <1>1, MaxZero
<1> QED  BY <1>1, <1>2 DEF Completion, Event

\* After its checkpoint a victim is queued again, or parked for its target.
LEMMA CompleteCheckpointStep ==
  ASSUME Inv, NEW e, CompleteCheckpoint(e)
  PROVE  [Proved!Next]_(Proved!vars) /\ Core'
<1> DEFINE j == e.id
           parks == target[j] # None
           N == IF parks THEN {} ELSE AgingTick(j, acc[j])
<1>1. Core /\ Types
  BY DEF Inv, Core
<1>2. e \in Queued /\ pc = "handle" /\ e.kind = "JOB_CHECKPOINT_COMPLETE" /\ Take(e)
      /\ heap' = heap \cup N /\ status[j] = "checkpointing" /\ e.gen = gen[j]
  BY DEF CompleteCheckpoint, Take, Queued, IsLive, Awaited
<1>3. j \in Jobs /\ j \notin Waiting
  BY <1>1, <1>2 DEF Core, EventsTyped, JobKinds, Timers, ArrivalsWait
<1>4. TickSet(N)
  BY <1>1, <1>3, TicksAre
<1> HIDE DEF N
<1>5. /\ EventsTyped' /\ EventsDistinct' /\ Waiting' = Waiting
      /\ \A kind \in Timers : \A i \in Jobs :
           GensIn(Queued, kind, i)' = IF e.kind = kind /\ e.id = i THEN GensIn(Queued, kind, i) \ {gen[j]}
                                      ELSE GensIn(Queued, kind, i)
  <2>1. NewEvents(N) /\ \A kind \in Timers : \A i : GensIn(N, kind, i) = {}
    BY <1>4, TicksNew
  <2>2. ASSUME NEW kind \in Timers, NEW i \in Jobs
        PROVE  GensIn(Queued, kind, i)' = IF e.kind = kind /\ e.id = i THEN GensIn(Queued, kind, i) \ {gen[j]}
                                          ELSE GensIn(Queued, kind, i)
    <3>1. GensIn(Queued, kind, i)' =
                (IF e.kind = kind /\ e.id = i THEN GensIn(Queued, kind, i) \ {e.gen}
                 ELSE GensIn(Queued, kind, i)) \cup GensIn(N, kind, i)
      BY <1>2, <2>1, Taking
    <3> QED  BY <1>2, <2>1, <3>1
  <2> QED  BY <1>2, <2>1, <2>2, Taking
<1>6. /\ UNCHANGED <<scenario, now, pc, todo, initial, incoming, gen, acc, lastStart, runningPriority,
                     interrupted, target, reserved, nodeVars>>
      /\ Release({j})
      /\ status' = [status EXCEPT ![j] = "pending"]
      /\ suspended' = IF parks THEN suspended \cup {j} ELSE suspended
      /\ pending' = IF parks THEN pending ELSE pending \cup {j}
  BY DEF CompleteCheckpoint, Take
<1>7. Proved!CompleteCheckpoint(j)
  <2>1. Submitted[j] = "checkpointing" /\ Submitted' = [Submitted EXCEPT ![j] = "pending"]
    BY <1>1, <1>2, <1>3, <1>5, <1>6, MappingIs DEF Types
  <2>2. gen[j] \in Generations("JOB_CHECKPOINT_COMPLETE")[j]
    BY <1>2, <1>3, MappingIs DEF GensIn
  <2>3. /\ Generations("JOB_CHECKPOINT_COMPLETE")' = [Generations("JOB_CHECKPOINT_COMPLETE") EXCEPT ![j] = @ \ {gen[j]}]
        /\ UNCHANGED <<Generations("JOB_COMPLETE"), Generations("JOB_RESTART_COMPLETE")>>
    BY <1>2, <1>3, <1>5, MappingIs DEF Timers
  <2> QED  BY <1>6, <2>1, <2>2, <2>3
      DEF Proved!CompleteCheckpoint, Proved!Release, Release, Proved!nodeVars, nodeVars
<1>8. [Proved!Next]_(Proved!vars)
  BY <1>3, <1>7 DEF Proved!Next
<1>9. Types'
  BY <1>1, <1>3, <1>6 DEF Types, nodeVars, Release
<1>10. ArrivalsWait' /\ Gangs' /\ History' /\ Clock' /\ Pass'
  BY <1>1, <1>2, <1>3, <1>5, <1>6
     DEF Core, Types, ArrivalsWait, Gangs, History, Clock, Pass, PassTriesQueuedJobs, Release, Active
<1> QED  BY <1>5, <1>8, <1>9, <1>10 DEF Core

\* After its restart a job runs, and its completion is queued.
LEMMA CompleteRestartStep ==
  ASSUME Inv, NEW e, CompleteRestart(e)
  PROVE  [Proved!Next]_(Proved!vars) /\ Core'
<1> DEFINE j == e.id
           n == Completion(j, acc[j], gen[j])
           N == {n}
<1>1. Core /\ Types
  BY DEF Inv, Core
<1>2. e \in Queued /\ pc = "handle" /\ e.kind = "JOB_RESTART_COMPLETE" /\ Take(e)
      /\ heap' = heap \cup N /\ status[j] = "restarting" /\ e.gen = gen[j]
  BY DEF CompleteRestart, Take, Queued, IsLive, Awaited
<1>3. j \in Jobs /\ j \notin Waiting
  BY <1>1, <1>2 DEF Core, EventsTyped, JobKinds, Timers, ArrivalsWait
<1>4. /\ n.time \in Nat /\ now <= n.time /\ n.kind = "JOB_COMPLETE" /\ n.id = j /\ n.gen = gen[j]
      /\ gen[j] \in Nat /\ gen[j] \notin GensIn(Queued, "JOB_COMPLETE", j)
  <2>1. acc[j] \in Nat /\ gen[j] \in Nat
    BY <1>1, <1>3 DEF Types
  <2> QED  BY <1>1, <1>2, <1>3, <2>1, CompletionIs, Plain DEF Fenced
<1> HIDE DEF n
<1>5. /\ EventsTyped' /\ EventsDistinct' /\ Waiting' = Waiting
      /\ \A i \in Jobs :
           /\ GensIn(Queued, "JOB_COMPLETE", i)' =
                IF i = j THEN GensIn(Queued, "JOB_COMPLETE", i) \cup {gen[j]} ELSE GensIn(Queued, "JOB_COMPLETE", i)
           /\ GensIn(Queued, "JOB_CHECKPOINT_COMPLETE", i)' = GensIn(Queued, "JOB_CHECKPOINT_COMPLETE", i)
           /\ GensIn(Queued, "JOB_RESTART_COMPLETE", i)' =
                IF i = j THEN GensIn(Queued, "JOB_RESTART_COMPLETE", i) \ {gen[j]} ELSE GensIn(Queued, "JOB_RESTART_COMPLETE", i)
  <2>1. NewEvents(N)
    BY <1>3, <1>4 DEF NewEvents, Timers
  <2>2. \A kind, i : GensIn(N, kind, i) = IF kind = "JOB_COMPLETE" /\ i = j THEN {gen[j]} ELSE {}
    BY <1>4, GensSimple
  <2> HIDE DEF N
  <2>3. \A kind \in Timers : \A i \in Jobs : GensIn(Queued, kind, i)' =
                (IF e.kind = kind /\ e.id = i THEN GensIn(Queued, kind, i) \ {e.gen}
                 ELSE GensIn(Queued, kind, i)) \cup GensIn(N, kind, i)
    BY <1>2, <2>1, Taking
  <2>4. EventsTyped' /\ EventsDistinct' /\ Waiting' = Waiting
    BY <1>2, <2>1, Taking
  <2>5. ASSUME NEW i \in Jobs
        PROVE  /\ GensIn(Queued, "JOB_COMPLETE", i)' =
                    IF i = j THEN GensIn(Queued, "JOB_COMPLETE", i) \cup {gen[j]} ELSE GensIn(Queued, "JOB_COMPLETE", i)
               /\ GensIn(Queued, "JOB_CHECKPOINT_COMPLETE", i)' = GensIn(Queued, "JOB_CHECKPOINT_COMPLETE", i)
               /\ GensIn(Queued, "JOB_RESTART_COMPLETE", i)' =
                    IF i = j THEN GensIn(Queued, "JOB_RESTART_COMPLETE", i) \ {gen[j]} ELSE GensIn(Queued, "JOB_RESTART_COMPLETE", i)
    <3>1. \A kind \in Timers : GensIn(Queued, kind, i)' =
            (IF e.kind = kind /\ j = i THEN GensIn(Queued, kind, i) \ {gen[j]} ELSE GensIn(Queued, kind, i))
              \cup (IF kind = "JOB_COMPLETE" /\ i = j THEN {gen[j]} ELSE {})
      BY <1>2, <2>2, <2>3
    <3>2. GensIn(Queued, "JOB_COMPLETE", i)' =
            GensIn(Queued, "JOB_COMPLETE", i) \cup (IF i = j THEN {gen[j]} ELSE {})
      BY <1>2, <3>1 DEF Timers
    <3>3. GensIn(Queued, "JOB_CHECKPOINT_COMPLETE", i)' = GensIn(Queued, "JOB_CHECKPOINT_COMPLETE", i) \cup {}
      BY <1>2, <3>1 DEF Timers
    <3>4. GensIn(Queued, "JOB_RESTART_COMPLETE", i)' =
            (IF i = j THEN GensIn(Queued, "JOB_RESTART_COMPLETE", i) \ {gen[j]}
             ELSE GensIn(Queued, "JOB_RESTART_COMPLETE", i)) \cup {}
      BY <1>2, <3>1 DEF Timers
    <3> QED  BY <3>2, <3>3, <3>4
  <2> QED  BY <2>4, <2>5
<1>6. /\ UNCHANGED <<scenario, now, pc, todo, initial, incoming, alloc, owner, gen, acc, runningPriority,
                     interrupted, queueVars, nodeVars>>
      /\ status' = [status EXCEPT ![j] = "running"]
      /\ lastStart' = [lastStart EXCEPT ![j] = now]
  BY DEF CompleteRestart, Take
<1>7. Proved!CompleteRestart(j)
  <2>1. Submitted[j] = "restarting" /\ Submitted' = [Submitted EXCEPT ![j] = "running"]
    BY <1>1, <1>2, <1>3, <1>5, <1>6, MappingIs DEF Types
  <2>2. gen[j] \in Generations("JOB_RESTART_COMPLETE")[j]
    BY <1>2, <1>3, MappingIs DEF GensIn
  <2>3. /\ Generations("JOB_COMPLETE")' = [Generations("JOB_COMPLETE") EXCEPT ![j] = @ \cup {gen[j]}]
        /\ Generations("JOB_RESTART_COMPLETE")' = [Generations("JOB_RESTART_COMPLETE") EXCEPT ![j] = @ \ {gen[j]}]
        /\ UNCHANGED Generations("JOB_CHECKPOINT_COMPLETE")
    BY <1>3, <1>5, MappingIs
  <2> QED  BY <1>6, <2>1, <2>2, <2>3
      DEF Proved!CompleteRestart, Proved!queueVars, queueVars, Proved!nodeVars, nodeVars
<1>8. [Proved!Next]_(Proved!vars)
  BY <1>3, <1>7 DEF Proved!Next
<1>9. Types'
  BY <1>1, <1>3, <1>6 DEF Types, queueVars, nodeVars, Active
<1>10. ArrivalsWait' /\ Gangs' /\ History' /\ Clock' /\ Pass'
  BY <1>1, <1>2, <1>3, <1>5, <1>6
     DEF Core, Types, ArrivalsWait, Gangs, History, Clock, Pass, PassTriesQueuedJobs, Active, queueVars
<1> QED  BY <1>5, <1>8, <1>9, <1>10 DEF Core

\* A node that comes back disturbs no job.
LEMMA RestoreStep ==
  ASSUME Inv, NEW e, Restore(e)
  PROVE  [Proved!Next]_(Proved!vars) /\ Core'
<1>1. Core /\ Types
  BY DEF Inv, Core
<1>2. e \in Queued /\ pc = "handle" /\ e.kind \in FleetKinds /\ Take(e) /\ heap' = heap
  BY DEF Restore, Take, Queued, FleetKinds
<1>3. e.id \in Nodes
  BY <1>1, <1>2 DEF Core, EventsTyped
<1>5. /\ EventsTyped' /\ EventsDistinct' /\ Waiting' = Waiting
      /\ \A kind \in Timers : \A i \in Jobs : GensIn(Queued, kind, i)' = GensIn(Queued, kind, i)
  <2>1. e.kind \notin Timers /\ e.kind # "JOB_ARRIVAL"
    BY <1>2 DEF Timers, FleetKinds
  <2> QED  BY <1>2, <2>1, TakingOnly
<1>6. /\ UNCHANGED <<scenario, now, pc, todo, initial, incoming, jobVars, queueVars>>
      /\ available' = [available EXCEPT ![e.id] = TRUE]
      /\ schedulable' = [schedulable EXCEPT ![e.id] = TRUE]
  BY DEF Restore, Take
<1>7. Proved!Restore(e.id)
  <2>1. Submitted' = Submitted
    BY <1>5, <1>6, MappingIs DEF jobVars
  <2> QED  BY <1>5, <1>6, <2>1, SameEvents
      DEF Proved!Restore, Proved!jobVars, Proved!queueVars, Proved!eventVars, jobVars, queueVars
<1>8. [Proved!Next]_(Proved!vars)
  BY <1>3, <1>7 DEF Proved!Next
<1>9. Types'
  BY <1>1, <1>3, <1>6 DEF Types, queueVars, jobVars
<1>10. ArrivalsWait' /\ Gangs' /\ History' /\ Clock' /\ Pass'
  BY <1>1, <1>2, <1>5, <1>6
     DEF Core, ArrivalsWait, Gangs, History, Clock, Pass, PassTriesQueuedJobs, queueVars, jobVars
<1> QED  BY <1>5, <1>8, <1>9, <1>10 DEF Core

\* The lifecycle specification counts as the engine does.
LEMMA SameCardinality == \A S : Proved!Cardinality(S) = Cardinality(S)
BY DEF Cardinality, IsFiniteSet, Proved!Cardinality, Proved!IsFiniteSet

\* A drain drops the reservations on its node.
LEMMA DrainStep ==
  ASSUME Inv, NEW e, Drain(e)
  PROVE  [Proved!Next]_(Proved!vars) /\ Core'
<1> DEFINE back == ReturnedVictims(Affected(e.id))
           N == Ticks(back)
<1>1. Core /\ Types
  BY DEF Inv, Core
<1>2. e \in Queued /\ pc = "handle" /\ e.kind \in FleetKinds /\ Take(e) /\ heap' = heap \cup N
  BY DEF Drain, Take, Queued, FleetKinds
<1>3. e.id \in Nodes /\ e.kind \notin Timers /\ e.kind # "JOB_ARRIVAL"
  BY <1>1, <1>2 DEF Core, EventsTyped, FleetKinds, Timers
<1>4. back \subseteq Jobs /\ TickSet(N)
  <2>1. back \in SUBSET Jobs
    BY <1>1 DEF Types, ReturnedVictims
  <2> QED  BY <1>1, <2>1, TicksAre
<1>6. /\ UNCHANGED <<scenario, now, pc, todo, initial, incoming, jobVars, available>>
      /\ schedulable' = [schedulable EXCEPT ![e.id] = FALSE]
      /\ DropReservations(Affected(e.id))
      /\ pending' = pending \cup back
      /\ suspended' = suspended \ back
  BY DEF Drain, Take
<1> HIDE DEF N
<1>5. /\ EventsTyped' /\ EventsDistinct' /\ Waiting' = Waiting
      /\ \A kind \in Timers : \A i \in Jobs : GensIn(Queued, kind, i)' = GensIn(Queued, kind, i)
  BY <1>2, <1>3, <1>4, TakingQuietly
<1>7. Proved!Drain(e.id)
  <2>1. Submitted' = Submitted
    BY <1>5, <1>6, MappingIs DEF jobVars
  <2> QED  BY <1>5, <1>6, <2>1, SameEvents
      DEF Proved!Drain, Proved!DropReservations, Proved!TargetsWithout, Proved!Holders, Proved!Affected,
          Proved!OnNode, Proved!ReturnedVictims, Proved!jobVars, Proved!eventVars,
          DropReservations, TargetsWithout, Holders, Affected, OnNode, ReturnedVictims, jobVars
<1>8. [Proved!Next]_(Proved!vars)
  BY <1>3, <1>7 DEF Proved!Next
<1>9. Types'
  BY <1>1, <1>3, <1>4, <1>6 DEF Types, jobVars, DropReservations, TargetsWithout
<1>10. ArrivalsWait' /\ Gangs' /\ History' /\ Clock' /\ Pass'
  BY <1>1, <1>2, <1>5, <1>6
     DEF Core, ArrivalsWait, Gangs, History, Clock, Pass, PassTriesQueuedJobs, jobVars
<1> QED  BY <1>5, <1>8, <1>9, <1>10 DEF Core

\* A gang that loses a GPU is no gang any more.
LEMMA GangBroken ==
  ASSUME Inv, NEW j \in Jobs, NEW g \in alloc[j], NEW n, g \in OnNode(n)
  PROVE  Cardinality(alloc[j] \ OnNode(n)) # GpuCount[j]
<1>1. alloc[j] \in SUBSET GPUs /\ status[j] \in Active
  BY Plain DEF Inv, Core, Types, Owned
<1>2. Cardinality(alloc[j]) = GpuCount[j]
  BY <1>1 DEF Inv, Core, Gangs
<1> DEFINE P == alloc[j]
           R == alloc[j] \ OnNode(n)
<1>3. IsFiniteSet(P) /\ R \in SUBSET P /\ R # P
  BY <1>1, GpusFinite
<1> HIDE DEF P, R
<1>4. Cardinality(R) # Cardinality(P)
  BY <1>3, FS_Subset
<1> QED  BY <1>2, <1>4 DEF P, R

\* A failure interrupts every job on its node.
LEMMA FailStep ==
  ASSUME Inv, NEW e, Fail(e)
  PROVE  [Proved!Next]_(Proved!vars) /\ Core'
<1> DEFINE n == e.id
           back == ReturnedVictims(Affected(n))
           lost == {j \in Jobs : \E g \in OnNode(n) : owner[g] = j}
           parked == {j \in lost : TargetsWithout(Affected(n))[j] # None}
           N == Ticks(back)
<1>1. Core /\ Types
  BY DEF Inv, Core
<1>2. e \in Queued /\ pc = "handle" /\ e.kind \in FleetKinds /\ Take(e) /\ heap' = heap \cup N
  BY DEF Fail, Take, Queued, FleetKinds
<1>3. n \in Nodes /\ e.kind \notin Timers /\ e.kind # "JOB_ARRIVAL"
  BY <1>1, <1>2 DEF Core, EventsTyped, FleetKinds, Timers
<1>4. back \subseteq Jobs /\ TickSet(N)
  <2>1. back \in SUBSET Jobs
    BY <1>1 DEF Types, ReturnedVictims
  <2> QED  BY <1>1, <2>1, TicksAre
<1>6. /\ UNCHANGED <<scenario, now, pc, todo, initial, incoming>>
      /\ available' = [available EXCEPT ![n] = FALSE]
      /\ schedulable' = [schedulable EXCEPT ![n] = FALSE]
      /\ DropReservations(Affected(n))
      /\ Release(lost)
      /\ acc' = [j \in Jobs |-> IF j \in lost THEN Accrued(j) ELSE acc[j]]
      /\ gen' = [j \in Jobs |-> IF j \in lost THEN gen[j] + 1 ELSE gen[j]]
      /\ status' = [j \in Jobs |-> IF j \in lost THEN "pending" ELSE status[j]]
      /\ lastStart' = [j \in Jobs |-> IF j \in lost THEN None ELSE lastStart[j]]
      /\ runningPriority' = [j \in Jobs |-> IF j \in lost THEN None ELSE runningPriority[j]]
      /\ interrupted' = interrupted \cup lost
      /\ pending' = pending \cup back \cup (lost \ parked)
      /\ suspended' = (suspended \ back) \cup parked
  BY DEF Fail, Take
<1> HIDE DEF N
<1>5. /\ EventsTyped' /\ EventsDistinct' /\ Waiting' = Waiting
      /\ \A kind \in Timers : \A i \in Jobs : GensIn(Queued, kind, i)' = GensIn(Queued, kind, i)
  BY <1>2, <1>3, <1>4, TakingQuietly
<1>0. \A j \in lost : status[j] \in Active /\ j \notin Waiting /\ gen[j] > 0
  <2> SUFFICES ASSUME NEW j \in lost PROVE status[j] \in Active /\ j \notin Waiting /\ gen[j] > 0
    OBVIOUS
  <2>1. alloc[j] # {}
    BY Plain DEF Owned, OnNode
  <2>2. status[j] \in Active
    BY <2>1, Plain DEF Owned
  <2> QED  BY <1>1, <2>2 DEF Core, ArrivalsWait, History, Active
<1>7. Proved!Fail(n)
  <2>1. Submitted' = [j \in Jobs |-> IF j \in lost THEN "pending" ELSE Submitted[j]]
    BY <1>0, <1>5, <1>6, MappingIs
  <2> DEFINE impacted == {j \in Jobs : \E g \in Proved!OnNode(n) : owner[g] = j}
             Shrinks(j) == /\ Submitted[j] = "running"
                           /\ Proved!Cardinality(alloc[j] \ Proved!OnNode(n)) \in [i \in Jobs |-> {GpuCount[i]}][j]
             shrunk == {j \in impacted : Shrinks(j)}
  <2>2. OnNode(n) = Proved!OnNode(n) /\ impacted = lost
    BY DEF OnNode, Proved!OnNode
  <2>3. shrunk = {} /\ impacted \ shrunk = lost
    <3>1. ASSUME NEW j \in lost PROVE ~Shrinks(j)
      <4>1. PICK g \in OnNode(n) : owner[g] = j
        OBVIOUS
      <4>2. g \in alloc[j]
        BY <4>1, Plain DEF Owned, OnNode
      <4>3. Cardinality(alloc[j] \ OnNode(n)) # GpuCount[j]
        BY <4>1, <4>2, GangBroken
      <4> QED  BY <2>2, <4>3, SameCardinality
    <3> HIDE DEF Shrinks
    <3> QED  BY <2>2, <3>1
  <2>4. owner' = [g \in GPUs |-> IF g \in OnNode(n) \/ owner[g] \in lost THEN None ELSE owner[g]]
    <3>1. \A g \in OnNode(n) : owner[g] \in lost \/ owner[g] = None
      BY <1>1 DEF Types, OnNode
    <3> QED  BY <1>6, <3>1 DEF Release
  <2>5. /\ Proved!Affected(n) = Affected(n) /\ Proved!TargetsWithout(Affected(n)) = TargetsWithout(Affected(n))
        /\ Proved!ReturnedVictims(Affected(n)) = back
        /\ (Proved!DropReservations(Affected(n)) <=> DropReservations(Affected(n)))
    BY DEF Proved!DropReservations, Proved!TargetsWithout, Proved!Holders, Proved!Affected,
          Proved!OnNode, Proved!ReturnedVictims,
          DropReservations, TargetsWithout, Holders, Affected, OnNode, ReturnedVictims
  <2>6. \A j \in Jobs : Proved!NextGeneration(j) = gen[j] + 1 /\ gen[j] + 1 \in Nat
    BY <1>1 DEF Proved!NextGeneration, Types
  <2>7. /\ alloc' = [j \in Jobs |-> IF j \in lost THEN {} ELSE IF j \in {} THEN alloc[j] \ OnNode(n) ELSE alloc[j]]
        /\ gen' = [j \in Jobs |-> IF j \in lost THEN Proved!NextGeneration(j) ELSE gen[j]]
        /\ \A j \in lost : Proved!NextGeneration(j) \in Nat
        /\ Generations("JOB_COMPLETE")' = [j \in Jobs |-> IF j \in {} THEN Generations("JOB_COMPLETE")[j] \cup {Proved!NextGeneration(j)}
                                                          ELSE Generations("JOB_COMPLETE")[j]]
    BY <1>5, <1>6, <2>6, MappingIs DEF Release, Timers
  <2>8. /\ UNCHANGED <<Generations("JOB_CHECKPOINT_COMPLETE"), Generations("JOB_RESTART_COMPLETE")>>
    BY <1>5, SameEvents
  <2> DEFINE gone == impacted \ shrunk
             held == {j \in gone : Proved!TargetsWithout(Proved!Affected(n))[j] # None}
             NextGen(j) == Proved!NextGeneration(j)
  <2>9. Proved!Fail(n) <=>
          /\ \A j \in impacted : NextGen(j) \in Nat
          /\ available' = [available EXCEPT ![n] = FALSE]
          /\ schedulable' = [schedulable EXCEPT ![n] = FALSE]
          /\ Proved!DropReservations(Proved!Affected(n))
          /\ owner' = [g \in GPUs |-> IF g \in Proved!OnNode(n) \/ owner[g] \in gone THEN None ELSE owner[g]]
          /\ alloc' = [j \in Jobs |-> IF j \in gone THEN {}
                                     ELSE IF j \in shrunk THEN alloc[j] \ Proved!OnNode(n) ELSE alloc[j]]
          /\ gen' = [j \in Jobs |-> IF j \in impacted THEN NextGen(j) ELSE gen[j]]
          /\ Submitted' = [j \in Jobs |-> IF j \in gone THEN "pending" ELSE Submitted[j]]
          /\ pending' = pending \cup Proved!ReturnedVictims(Proved!Affected(n)) \cup (gone \ held)
          /\ suspended' = (suspended \ Proved!ReturnedVictims(Proved!Affected(n))) \cup held
          /\ Generations("JOB_COMPLETE")' =
               [j \in Jobs |-> IF j \in shrunk THEN Generations("JOB_COMPLETE")[j] \cup {NextGen(j)}
                               ELSE Generations("JOB_COMPLETE")[j]]
          /\ UNCHANGED <<Generations("JOB_CHECKPOINT_COMPLETE"), Generations("JOB_RESTART_COMPLETE")>>
    BY DEF Proved!Fail
  <2>10. gone = lost /\ held = parked
    BY <2>3, <2>5
  <2> HIDE DEF lost, parked, back, impacted, shrunk, gone, held, NextGen
  <2>11. /\ shrunk = {} /\ impacted = lost /\ gone = lost /\ held = parked
         /\ Proved!OnNode(n) = OnNode(n) /\ Proved!Affected(n) = Affected(n)
         /\ Proved!ReturnedVictims(Affected(n)) = back
         /\ (Proved!DropReservations(Affected(n)) <=> DropReservations(Affected(n)))
    BY <2>2, <2>3, <2>5, <2>10
  <2> QED  BY <1>6, <2>1, <2>4, <2>7, <2>8, <2>9, <2>11 DEF NextGen
<1>8. [Proved!Next]_(Proved!vars)
  BY <1>3, <1>7 DEF Proved!Next
<1>9. Types'
  <2>1. \A j \in Jobs : Accrued(j) \in Nat
    BY <1>1, AccruedIs DEF Core
  <2>2. acc' \in [Jobs -> Nat]
    BY <1>1, <1>6, <2>1 DEF Types
  <2>3. alloc' \in [Jobs -> SUBSET GPUs] /\ owner' \in [GPUs -> Jobs \cup {None}]
    BY <1>1, <1>6 DEF Types, Release
  <2>4. gen' \in [Jobs -> Nat] /\ status' \in [Jobs -> {"pending", "completed"} \cup Active]
        /\ lastStart' \in [Jobs -> Nat \cup {None}]
        /\ runningPriority' \in [Jobs -> 0 .. Critical \cup {None}]
    BY <1>1, <1>6 DEF Types
  <2>5. /\ interrupted' \subseteq Jobs /\ pending' \subseteq Jobs /\ suspended' \subseteq Jobs
    BY <1>1, <1>4, <1>6 DEF Types
  <2>6. /\ target' \in [Jobs -> Jobs \cup {None}]
        /\ reserved' \in [Jobs -> SUBSET GPUs]
        /\ available' \in [Nodes -> BOOLEAN] /\ schedulable' \in [Nodes -> BOOLEAN]
    BY <1>1, <1>6 DEF Types, DropReservations, TargetsWithout
  <2> QED  BY <1>1, <1>6, <2>2, <2>3, <2>4, <2>5, <2>6 DEF Types
<1>10. ArrivalsWait' /\ Gangs'
  <2>1. \A j \in Jobs \ lost : alloc'[j] = alloc[j] /\ status'[j] = status[j]
    BY <1>6 DEF Release
  <2>2. \A j \in lost : status'[j] = "pending"
    BY <1>6
  <2>3. Waiting \subseteq Jobs
    BY DEF Waiting
  <2> HIDE DEF lost
  <2> QED  BY <1>1, <1>5, <2>1, <2>2, <2>3 DEF Core, ArrivalsWait, Gangs, Active
<1>12. Clock' /\ Pass'
  BY <1>1, <1>2, <1>6 DEF Core, Types, Clock, Pass, PassTriesQueuedJobs
<1>11. History'
  BY <1>1, <1>6, <1>0 DEF Core, Types, History, Active
<1> QED  BY <1>5, <1>8, <1>9, <1>10, <1>11, <1>12 DEF Core

-----------------------------------------------------------------------------
(* Placements and plans.                                                   *)

\* A priority with aging is a priority, and no lower than the base priority.
LEMMA AgedIs ==
  ASSUME Types, NEW j \in Jobs, NEW t \in Nat
  PROVE  Aged(j, t) \in scenario.priority[j] .. Critical /\ Aged(j, t) \in 0 .. Critical
<1> DEFINE x == now - scenario.arrival[j] - t
           waited == Max({0, x})
           p == scenario.priority[j]
           q == p + (waited \div AgingInterval)
<1>1. x \in Int /\ p \in 0 .. Critical /\ AgingInterval \in Nat \ {0} /\ Critical = 3
  BY ScenarioIs, EngineAssumption DEF Types, Critical
<1>2. waited \in Nat
  BY <1>1, MaxZero
<1> HIDE DEF waited, x
<1>3. waited \div AgingInterval \in Nat
  BY <1>1, <1>2
<1>4. q \in Nat /\ p <= q
  BY <1>1, <1>3
<1> HIDE DEF q
<1>5. Min({Critical, q}) \in {Critical, q}
  <2> DEFINE S == {Critical, q}
  <2>1. S \in SUBSET Nat /\ S # {}
    BY <1>1, <1>4
  <2> HIDE DEF S
  <2>2. Min(S) \in S
    BY <2>1, MinIn
  <2> QED  BY <2>2 DEF S
<1>6. Min({Critical, q}) <= Critical
  <2> DEFINE m == IF Critical <= q THEN Critical ELSE q
  <2>1. m \in {Critical, q} /\ \A y \in {Critical, q} : m <= y
    BY <1>1, <1>4
  <2>2. \A z \in {Critical, q} : (\A y \in {Critical, q} : z <= y) => z = m
    BY <1>1, <1>4
  <2> QED  BY <1>1, <1>4, <2>1, <2>2 DEF Min
<1>7. Aged(j, t) = Min({Critical, q})
  BY DEF Aged, q, waited, x
<1> QED  BY <1>1, <1>4, <1>5, <1>6, <1>7

\* The GPUs that look occupied to a job.
LEMMA OccupiedIs == ASSUME Types, NEW j \in Jobs PROVE OccupiedFor(j) \in SUBSET GPUs
BY DEF Types, OccupiedFor, ReservedElsewhere

\* A placement found now is a gang of free GPUs that nobody else reserved.
LEMMA PlaceNowIs ==
  ASSUME Types, NEW j \in Jobs, PlaceNow(j) # {}
  PROVE  /\ PlaceNow(j) \in SUBSET GPUs /\ IsGang(j, PlaceNow(j))
         /\ \A g \in PlaceNow(j) : /\ g \in Compatible[j] /\ owner[g] = None
                                   /\ Usable(NodeOf[g]) /\ g \notin ReservedElsewhere(j)
<1>1. PlaceNow(j) \subseteq HostsFor(j, OccupiedFor(j), GPUs) /\ IsGang(j, PlaceNow(j))
  BY OccupiedIs, PlaceIs DEF PlaceNow
<1> QED  BY <1>1 DEF HostsFor, OccupiedFor

\* A plan commits a gang of GPUs that are free, or are held by its victims.
LEMMA PlanIs ==
  ASSUME Inv, NEW j \in Jobs, NEW plan \in BestPlans(j)
  PROVE  /\ plan.victims \subseteq EligibleVictims(j)
         /\ plan.placement \in SUBSET GPUs /\ IsGang(j, plan.placement)
         /\ \A g \in plan.placement : /\ g \in Compatible[j] /\ Usable(NodeOf[g]) /\ g \notin ReservedElsewhere(j)
                                      /\ owner[g] \in plan.victims \cup {None}
         /\ PlaceNow(j) = {} => plan.victims # {}
<1>1. Types
  BY DEF Inv, Core
<1>2. PICK w : plan = VendorPlan(j, w) /\ plan.placement # {}
  BY DEF BestPlans, Plans
<1> DEFINE scope == {g \in GPUs : VendorOf[g] = w}
           victims == {v \in EligibleVictims(j) : alloc[v] \cap scope # {}}
           Ahead(v) == {u \in victims : Less(VictimKey(u, j), VictimKey(v, j))}
           First(k) == {v \in victims : Cardinality(Ahead(v)) < k}
           Left(k) == OccupiedFor(j) \ UNION {alloc[v] : v \in First(k)}
           Projected(k) == Place(j, Left(k), scope)
           fits == {k \in 0 .. Cardinality(victims) : Projected(k) # {}}
           least == Min(fits)
<1>3. VendorPlan(j, w) = IF fits = {} THEN [victims |-> {}, placement |-> {}, vendor |-> w]
                         ELSE [victims |-> First(least), placement |-> Projected(least), vendor |-> w]
  BY DEF VendorPlan
<1>4. plan.victims = First(least) /\ plan.placement = Projected(least)
  <2> HIDE DEF fits, First, Projected, least
  <2> QED  BY <1>2, <1>3
<1>5. First(least) \subseteq EligibleVictims(j)
  OBVIOUS
<1>6. scope \in SUBSET GPUs /\ OccupiedFor(j) \in SUBSET GPUs /\ Left(least) \in SUBSET GPUs
  BY <1>1, OccupiedIs
<1>7. Left(least) = OccupiedFor(j) \ UNION {alloc[v] : v \in plan.victims}
  BY <1>4
<1> HIDE DEF scope, victims, Left, First
<1>8. /\ Projected(least) \subseteq HostsFor(j, Left(least), scope)
      /\ IsGang(j, Projected(least))
  BY <1>2, <1>4, <1>6, PlaceIs
<1>9. ASSUME NEW g \in plan.placement
      PROVE  /\ g \in Compatible[j] /\ Usable(NodeOf[g]) /\ g \notin ReservedElsewhere(j)
             /\ owner[g] \in plan.victims \cup {None} /\ g \in GPUs
  <2>1. g \in Compatible[j] /\ Usable(NodeOf[g]) /\ g \notin Left(least) /\ g \in GPUs
    BY <1>4, <1>6, <1>8 DEF HostsFor
  <2>2. CASE g \notin OccupiedFor(j)
    BY <2>1, <2>2 DEF OccupiedFor
  <2>3. CASE g \in OccupiedFor(j)
    <3>1. PICK v \in plan.victims : g \in alloc[v]
      BY <1>7, <2>1, <2>3
    <3>2. v \in Jobs /\ status[v] = "running" /\ owner[g] = v
      BY <1>4, <1>5, <2>1, <3>1, Plain DEF EligibleVictims, Owned
    <3>3. v # None
      BY <3>2, NoneIsNot
    <3>4. \A h \in Jobs : g \notin reserved[h]
      BY <3>2, <3>3, Plain DEF Reserving
    <3> QED  BY <2>1, <3>1, <3>2, <3>4 DEF ReservedElsewhere
  <2> QED  BY <2>2, <2>3
<1>10. ASSUME plan.victims = {} PROVE PlaceNow(j) # {}
  <2>1. Left(least) = OccupiedFor(j)
    BY <1>7, <1>10
  <2>2. Projected(least) \in SUBSET HostsFor(j, OccupiedFor(j), GPUs)
    BY <1>6, <1>8, <2>1 DEF HostsFor
  <2> QED  BY <1>6, <1>8, <2>2, PlaceIs DEF PlaceNow
<1> QED  BY <1>4, <1>5, <1>8, <1>9, <1>10

\* The state but for the loop's own variables.
StateTypes ==
  /\ status \in [Jobs -> {"pending", "completed"} \cup Active]
  /\ alloc \in [Jobs -> SUBSET GPUs]
  /\ owner \in [GPUs -> Jobs \cup {None}]
  /\ gen \in [Jobs -> Nat]
  /\ acc \in [Jobs -> Nat]
  /\ lastStart \in [Jobs -> Nat \cup {None}]
  /\ runningPriority \in [Jobs -> 0 .. Critical \cup {None}]
  /\ interrupted \subseteq Jobs /\ pending \subseteq Jobs /\ suspended \subseteq Jobs
  /\ target \in [Jobs -> Jobs \cup {None}]
  /\ reserved \in [Jobs -> SUBSET GPUs]
  /\ available \in [Nodes -> BOOLEAN] /\ schedulable \in [Nodes -> BOOLEAN]

\* The part of the invariant that does not depend on where the loop is.
Steady == StateTypes /\ EventsTyped /\ EventsDistinct /\ ArrivalsWait /\ Gangs /\ History /\ Clock

\* The scheduling pass pushes events, but handles none.
LEMMA Pushing ==
  ASSUME Inv, pc # "handle", pc' # "handle", UNCHANGED <<now, batch>>,
         NEW N, NewEvents(N), heap' = heap \cup N
  PROVE  /\ EventsTyped' /\ EventsDistinct' /\ Waiting' = Waiting
         /\ \A kind \in Timers : \A i \in Jobs :
              GensIn(Queued, kind, i)' = GensIn(Queued, kind, i) \cup GensIn(N, kind, i)
<1> DEFINE D == {}
<1>1. Moves(D, N) /\ EventsTyped /\ EventsDistinct /\ batch = {}
  BY DEF Inv, Core, EventsTyped, Moves
<1>2. (\A kind, i : GensIn(D, kind, i) = {}) /\ {f.id : f \in {d \in D : d.kind = "JOB_ARRIVAL"}} = {}
  BY GensSimple
<1> HIDE DEF D
<1>3. /\ EventsTyped' /\ EventsDistinct'
      /\ \A kind \in Timers : \A j \in Jobs :
           GensIn(Queued, kind, j)' = (GensIn(Queued, kind, j) \ GensIn(D, kind, j)) \cup GensIn(N, kind, j)
      /\ Waiting' = Waiting \ {f.id : f \in {d \in D : d.kind = "JOB_ARRIVAL"}}
  BY <1>1, QueueMoves
<1> QED  BY <1>2, <1>3

\* A queued job starts on the gang that was found for it.
LEMMA StartEffect ==
  ASSUME Inv, pc # "handle", pc' # "handle", UNCHANGED <<scenario, now, batch>>,
         NEW j \in pending, NEW P, P = PlaceNow(j), P # {}, StartJob(j, P)
  PROVE  [Proved!Next]_(Proved!vars) /\ Steady' /\ pending \ {j} \subseteq pending'
<1> DEFINE back == ReturnedVictims({j})
           restarts == (j \in interrupted \/ acc[j] > 0) /\ RestartCost[j] > 0
           timer == IF restarts
                    THEN Event(now + RestartCost[j], "JOB_RESTART_COMPLETE", j, gen[j] + 1)
                    ELSE Completion(j, acc[j], gen[j] + 1)
           kindOf == IF restarts THEN "JOB_RESTART_COMPLETE" ELSE "JOB_COMPLETE"
           M == {timer}
           T == Ticks(back)
           N == M \cup T
<1>1. Core /\ Types /\ j \in Jobs
  BY DEF Inv, Core, Types
<1>2. /\ owner' = [g \in GPUs |-> IF g \in P THEN j ELSE owner[g]]
      /\ alloc' = [alloc EXCEPT ![j] = P]
      /\ gen' = [gen EXCEPT ![j] = @ + 1]
      /\ runningPriority' = [runningPriority EXCEPT ![j] = EffectivePriority(j)]
      /\ status' = [status EXCEPT ![j] = IF restarts THEN "restarting" ELSE "running"]
      /\ lastStart' = [lastStart EXCEPT ![j] = IF restarts THEN None ELSE now]
      /\ pending' = (pending \ {j}) \cup back
      /\ suspended' = suspended \ back
      /\ DropReservations({j})
      /\ heap' = heap \cup N
      /\ UNCHANGED <<acc, interrupted, nodeVars>>
  BY DEF StartJob
<1>3. status[j] = "pending" /\ j \notin Waiting
  BY <1>1, Plain DEF InOneQueue
<1>4. back \subseteq Jobs /\ TickSet(T)
  <2>1. back \in SUBSET Jobs
    BY <1>1 DEF Types, ReturnedVictims
  <2> QED  BY <1>1, <2>1, TicksAre
<1>5. gen[j] \in Nat /\ acc[j] \in Nat /\ RestartCost[j] \in Nat /\ now \in Nat
  BY <1>1, EngineAssumption DEF Types
<1>6. restarts <=> gen[j] > 0 /\ j \in {i \in Jobs : RestartCost[i] > 0}
  BY <1>1, <1>3, <1>5 DEF Core, History
<1>7. /\ timer.time \in Nat /\ now <= timer.time /\ timer.id = j /\ timer.gen = gen[j] + 1
      /\ timer.kind = kindOf
  BY <1>1, <1>5, CompletionIs DEF Event
<1>8. /\ EventsTyped' /\ EventsDistinct' /\ Waiting' = Waiting
      /\ \A kind \in Timers : \A i \in Jobs :
           GensIn(Queued, kind, i)' = IF kind = kindOf /\ i = j THEN GensIn(Queued, kind, i) \cup {gen[j] + 1}
                                      ELSE GensIn(Queued, kind, i)
  <2> HIDE DEF timer, T
  <2>1. \A kind \in Timers : gen[j] + 1 \notin GensIn(Queued, kind, j)
    <3>1. \A kind \in Timers : \A k \in GensIn(Queued, kind, j) : k <= gen[j]
      BY <1>1, Plain DEF Fenced
    <3>2. ~(gen[j] + 1 <= gen[j])
      BY <1>5
    <3> QED  BY <3>1, <3>2
  <2>2. NewEvents(N)
    BY <1>1, <1>4, <1>5, <1>7, <2>1 DEF NewEvents, TickSet, Timers
  <2>3. \A kind, i : GensIn(M, kind, i) = IF kind = kindOf /\ i = j THEN {gen[j] + 1} ELSE {}
    BY <1>7, GensSimple
  <2>4. \A kind \in Timers : \A i : GensIn(T, kind, i) = {}
    BY <1>4, TicksNew
  <2> HIDE DEF M, kindOf
  <2>5. \A kind, i : GensIn(N, kind, i) = GensIn(M, kind, i) \cup GensIn(T, kind, i)
    BY GensSimple
  <2> HIDE DEF N
  <2>6. ASSUME NEW kind \in Timers, NEW i \in Jobs
        PROVE  GensIn(Queued, kind, i)' =
                 IF kind = kindOf /\ i = j THEN GensIn(Queued, kind, i) \cup {gen[j] + 1}
                 ELSE GensIn(Queued, kind, i)
    <3>1. GensIn(Queued, kind, i)' = GensIn(Queued, kind, i) \cup GensIn(N, kind, i)
      BY <1>2, <2>2, Pushing
    <3>2. GensIn(N, kind, i) = IF kind = kindOf /\ i = j THEN {gen[j] + 1} ELSE {}
      BY <2>3, <2>4, <2>5
    <3> QED  BY <3>1, <3>2
  <2> QED  BY <1>2, <2>2, <2>6, Pushing
<1>9. /\ P \in SUBSET GPUs /\ IsGang(j, P)
      /\ \A g \in P : /\ g \in Compatible[j] /\ owner[g] = None
                      /\ Usable(NodeOf[g]) /\ g \notin ReservedElsewhere(j)
  BY <1>1, PlaceNowIs
<1> HIDE DEF timer, T, back, restarts, kindOf
<1>10. Proved!Start(j, P)
  <2>1. Submitted' = [Submitted EXCEPT ![j] = IF restarts THEN "restarting" ELSE "running"]
    BY <1>1, <1>2, <1>3, <1>8, MappingIs DEF Types
  <2>2. P \subseteq Proved!PlaceableAfter(j, {})
    BY <1>9 DEF Proved!PlaceableAfter, Proved!Usable, Usable, Proved!ReservedElsewhere, ReservedElsewhere
  <2>3. Proved!IsGang(j, P)
    BY <1>1, <1>9, SameCardinality DEF Proved!IsGang, IsGang, Proved!SingleVendor, SingleVendor
  <2>4. Proved!NextGeneration(j) = gen[j] + 1 /\ gen[j] + 1 \in Nat
    BY <1>5 DEF Proved!NextGeneration
  <2>5. gen' = [gen EXCEPT ![j] = Proved!NextGeneration(j)]
    BY <1>2, <2>4
  <2>6. Proved!ReturnedVictims({j}) = back /\ Proved!DropReservations({j})
    BY <1>2 DEF Proved!DropReservations, Proved!TargetsWithout, Proved!Holders, Proved!ReturnedVictims,
          DropReservations, TargetsWithout, Holders, ReturnedVictims, back
  <2>7. UNCHANGED Generations("JOB_CHECKPOINT_COMPLETE")
    BY <1>8, MappingIs DEF kindOf, Timers
  <2>8. CASE restarts
    <3>1. /\ Generations("JOB_RESTART_COMPLETE")' =
               [Generations("JOB_RESTART_COMPLETE") EXCEPT ![j] = @ \cup {Proved!NextGeneration(j)}]
          /\ UNCHANGED Generations("JOB_COMPLETE")
      BY <1>1, <1>8, <2>4, <2>8, MappingIs DEF kindOf, Timers
    <3> QED  BY <1>2, <1>6, <2>1, <2>2, <2>3, <2>4, <2>5, <2>6, <2>7, <2>8, <3>1
        DEF Proved!Start, Proved!nodeVars, nodeVars
  <2>9. CASE ~restarts
    <3>1. /\ Generations("JOB_COMPLETE")' =
               [Generations("JOB_COMPLETE") EXCEPT ![j] = @ \cup {Proved!NextGeneration(j)}]
          /\ UNCHANGED Generations("JOB_RESTART_COMPLETE")
      BY <1>1, <1>8, <2>4, <2>9, MappingIs DEF kindOf, Timers
    <3> QED  BY <1>2, <1>6, <2>1, <2>2, <2>3, <2>4, <2>5, <2>6, <2>7, <2>9, <3>1
        DEF Proved!Start, Proved!nodeVars, nodeVars
  <2> QED  BY <2>8, <2>9
<1>11. [Proved!Next]_(Proved!vars)
  <2>1. P \in SUBSET Proved!PlaceableAfter(j, {})
    BY <1>10 DEF Proved!Start
  <2> QED  BY <1>10, <2>1 DEF Proved!Next
<1>12. StateTypes'
  <2>1. EffectivePriority(j) \in 0 .. Critical
    BY <1>1, <1>3, <1>5, AgedIs DEF EffectivePriority
  <2>2. /\ status' \in [Jobs -> {"pending", "completed"} \cup Active]
        /\ alloc' \in [Jobs -> SUBSET GPUs]
        /\ owner' \in [GPUs -> Jobs \cup {None}]
        /\ gen' \in [Jobs -> Nat]
        /\ lastStart' \in [Jobs -> Nat \cup {None}]
        /\ runningPriority' \in [Jobs -> 0 .. Critical \cup {None}]
    BY <1>1, <1>2, <1>5, <1>9, <2>1 DEF Types, Active
  <2>3. /\ acc' \in [Jobs -> Nat]
        /\ interrupted' \subseteq Jobs /\ pending' \subseteq Jobs /\ suspended' \subseteq Jobs
        /\ target' \in [Jobs -> Jobs \cup {None}]
        /\ reserved' \in [Jobs -> SUBSET GPUs]
        /\ available' \in [Nodes -> BOOLEAN] /\ schedulable' \in [Nodes -> BOOLEAN]
    BY <1>1, <1>2, <1>4 DEF Types, DropReservations, TargetsWithout, nodeVars
  <2> QED  BY <2>2, <2>3 DEF StateTypes
<1>13. ArrivalsWait' /\ Gangs'
  BY <1>1, <1>2, <1>3, <1>8, <1>9 DEF Core, Types, ArrivalsWait, Gangs, IsGang, Waiting
<1>14. History' /\ Clock'
  BY <1>1, <1>2, <1>5 DEF Core, Types, History, Clock
<1>15. pending \ {j} \subseteq pending'
  BY <1>2
<1> QED  BY <1>8, <1>11, <1>12, <1>13, <1>14, <1>15 DEF Steady

\* A job that does not fit evicts the victims of its best plan.
LEMMA PreemptEffect ==
  ASSUME Inv, pc # "handle", pc' # "handle", UNCHANGED <<scenario, now, batch>>,
         NEW j \in pending, NEW plan \in BestPlans(j), PlaceNow(j) = {}, PreemptFor(j, plan)
  PROVE  [Proved!Next]_(Proved!vars) /\ Steady' /\ pending \subseteq pending'
<1> DEFINE V == plan.victims
           deferred == \E v \in V : CheckpointCost[v] > 0
           freed == {v \in V : CheckpointCost[v] = 0}
           written == V \ freed
           aims == [v \in Jobs |-> IF deferred /\ v \in V THEN j ELSE target[v]]
           parked == {v \in freed : aims[v] # None}
           M == {Event(now + CheckpointCost[v], "JOB_CHECKPOINT_COMPLETE", v, gen[v]) : v \in written}
           T == UNION {AgingTick(v, Accrued(v)) : v \in freed \ parked}
           N == M \cup T
           CJ == {i \in Jobs : CheckpointCost[i] > 0}
<1>1. Core /\ Types /\ j \in Jobs
  BY DEF Inv, Core, Types
<1>2. /\ reserved' = IF deferred THEN [reserved EXCEPT ![j] = plan.placement] ELSE reserved
      /\ target' = aims
      /\ Release(freed)
      /\ acc' = [v \in Jobs |-> IF v \in V THEN Accrued(v) ELSE acc[v]]
      /\ status' = [v \in Jobs |-> IF v \in freed THEN "pending"
                                   ELSE IF v \in written THEN "checkpointing" ELSE status[v]]
      /\ lastStart' = [v \in Jobs |-> IF v \in V THEN None ELSE lastStart[v]]
      /\ runningPriority' = [v \in Jobs |-> IF v \in V THEN None ELSE runningPriority[v]]
      /\ interrupted' = interrupted \cup V
      /\ suspended' = suspended \cup parked
      /\ pending' = pending \cup (freed \ parked)
      /\ heap' = heap \cup N
      /\ UNCHANGED <<gen, nodeVars>>
  BY DEF PreemptFor
<1>3. /\ V \in SUBSET {v \in Jobs : status[v] = "running"} /\ V # {}
      /\ plan.placement \in SUBSET GPUs /\ IsGang(j, plan.placement)
      /\ \A g \in plan.placement : /\ g \in Compatible[j] /\ Usable(NodeOf[g]) /\ g \notin ReservedElsewhere(j)
                                   /\ owner[g] \in V \cup {None}
  BY <1>1, PlanIs DEF EligibleVictims
<1>4. \A v \in V : v \in Jobs /\ v \notin Waiting /\ status[v] = "running"
                   /\ gen[v] \in Nat /\ CheckpointCost[v] \in Nat /\ Accrued(v) \in Nat
                   /\ gen[v] \notin GensIn(Queued, "JOB_CHECKPOINT_COMPLETE", v)
  <2> SUFFICES ASSUME NEW v \in V
               PROVE  v \in Jobs /\ v \notin Waiting /\ status[v] = "running"
                      /\ gen[v] \in Nat /\ CheckpointCost[v] \in Nat /\ Accrued(v) \in Nat
                      /\ gen[v] \notin GensIn(Queued, "JOB_CHECKPOINT_COMPLETE", v)
    OBVIOUS
  <2>1. v \in Jobs /\ status[v] = "running"
    BY <1>3
  <2>2. v \notin Waiting
    BY <1>1, <2>1 DEF Core, ArrivalsWait
  <2>3. Accrued(v) \in Nat
    BY <1>1, <2>1, AccruedIs DEF Core
  <2>4. gen[v] \in Nat /\ CheckpointCost[v] \in Nat
    BY <1>1, <2>1, EngineAssumption DEF Types
  <2>5. gen[v] \notin GensIn(Queued, "JOB_CHECKPOINT_COMPLETE", v)
    BY <2>1, Plain DEF Fenced
  <2> QED  BY <2>1, <2>2, <2>3, <2>4, <2>5
<1>5. now \in Nat
  BY <1>1 DEF Types
<1>6. TickSet(T)
  <2>1. ASSUME NEW v \in freed PROVE TickSet(AgingTick(v, Accrued(v)))
    BY <1>1, <1>4, TicksAre
  <2> HIDE DEF freed, parked
  <2> QED  BY <2>1 DEF TickSet
<1>7. \A n \in M : /\ n.time \in Nat /\ now <= n.time /\ n.kind = "JOB_CHECKPOINT_COMPLETE"
                   /\ n.id \in written /\ n.gen = gen[n.id]
                   /\ n = Event(now + CheckpointCost[n.id], "JOB_CHECKPOINT_COMPLETE", n.id, gen[n.id])
  <2> SUFFICES ASSUME NEW v \in written, NEW n, n = Event(now + CheckpointCost[v], "JOB_CHECKPOINT_COMPLETE", v, gen[v])
               PROVE  /\ n.time \in Nat /\ now <= n.time /\ n.kind = "JOB_CHECKPOINT_COMPLETE"
                      /\ n.id \in written /\ n.gen = gen[n.id]
                      /\ n = Event(now + CheckpointCost[n.id], "JOB_CHECKPOINT_COMPLETE", n.id, gen[n.id])
    OBVIOUS
  <2>1. CheckpointCost[v] \in Nat
    BY <1>4
  <2>2. n.time = now + CheckpointCost[v] /\ n.kind = "JOB_CHECKPOINT_COMPLETE" /\ n.id = v /\ n.gen = gen[v]
    BY DEF Event
  <2> HIDE DEF written
  <2> QED  BY <1>5, <2>1, <2>2
<1>8. NewEvents(N)
  <2>1. \A n \in M : /\ n.time \in Nat /\ now <= n.time /\ n.id \in Jobs /\ n.kind = "JOB_CHECKPOINT_COMPLETE"
                     /\ n.gen \in Nat \ GensIn(Queued, n.kind, n.id)
    BY <1>4, <1>7
  <2>2. \A n, m \in M : n.id = m.id => n = m
    BY <1>7
  <2>3. \A n \in T : n.time \in Nat /\ now <= n.time /\ n.kind = "SCHEDULER_TICK" /\ n.id \in Jobs
    BY <1>6 DEF TickSet
  <2> HIDE DEF M, T
  <2> QED  BY <2>1, <2>2, <2>3 DEF NewEvents, Timers
<1>9. \A kind \in Timers : \A i \in Jobs :
        GensIn(N, kind, i) = IF kind = "JOB_CHECKPOINT_COMPLETE" /\ i \in written THEN {gen[i]} ELSE {}
  <2> SUFFICES ASSUME NEW kind \in Timers, NEW i \in Jobs
               PROVE  GensIn(N, kind, i) = IF kind = "JOB_CHECKPOINT_COMPLETE" /\ i \in written THEN {gen[i]} ELSE {}
    OBVIOUS
  <2>1. GensIn(T, kind, i) = {}
    BY <1>6, TicksNew
  <2>2. GensIn(N, kind, i) = GensIn(M, kind, i) \cup GensIn(T, kind, i)
    <3> HIDE DEF M, T
    <3> QED  BY GensSimple
  <2>3. kind = "JOB_CHECKPOINT_COMPLETE" /\ i \in written => gen[i] \in GensIn(M, kind, i)
    <3> SUFFICES ASSUME kind = "JOB_CHECKPOINT_COMPLETE", i \in written PROVE gen[i] \in GensIn(M, kind, i)
      OBVIOUS
    <3> DEFINE n == Event(now + CheckpointCost[i], "JOB_CHECKPOINT_COMPLETE", i, gen[i])
    <3>1. n \in M
      OBVIOUS
    <3>2. n.kind = "JOB_CHECKPOINT_COMPLETE" /\ n.id = i /\ n.gen = gen[i]
      BY DEF Event
    <3> HIDE DEF n, M
    <3> QED  BY <3>1, <3>2 DEF GensIn
  <2>4. \A k \in GensIn(M, kind, i) : kind = "JOB_CHECKPOINT_COMPLETE" /\ i \in written /\ k = gen[i]
    <3> HIDE DEF M, written
    <3> QED  BY <1>7 DEF GensIn
  <2> HIDE DEF M, T, written, N
  <2>5. GensIn(N, kind, i) = GensIn(M, kind, i)
    BY <2>1, <2>2
  <2>6. CASE kind = "JOB_CHECKPOINT_COMPLETE" /\ i \in written
    <3>1. GensIn(M, kind, i) = {gen[i]}
      BY <2>3, <2>4, <2>6
    <3> QED  BY <2>5, <2>6, <3>1
  <2>7. CASE ~(kind = "JOB_CHECKPOINT_COMPLETE" /\ i \in written)
    <3>1. GensIn(M, kind, i) = {}
      BY <2>4, <2>7
    <3> QED  BY <2>5, <2>7, <3>1
  <2> QED  BY <2>6, <2>7
<1> HIDE DEF N
<1>10. /\ EventsTyped' /\ EventsDistinct' /\ Waiting' = Waiting
       /\ \A kind \in Timers : \A i \in Jobs :
            GensIn(Queued, kind, i)' = GensIn(Queued, kind, i) \cup GensIn(N, kind, i)
  BY <1>2, <1>8, Pushing
<1>11. /\ Generations("JOB_COMPLETE")' = Generations("JOB_COMPLETE")
       /\ Generations("JOB_RESTART_COMPLETE")' = Generations("JOB_RESTART_COMPLETE")
       /\ Generations("JOB_CHECKPOINT_COMPLETE")' =
            [i \in Jobs |-> IF i \in written THEN Generations("JOB_CHECKPOINT_COMPLETE")[i] \cup {gen[i]}
                            ELSE Generations("JOB_CHECKPOINT_COMPLETE")[i]]
  <2> HIDE DEF written
  <2>1. ASSUME NEW i \in Jobs
        PROVE  /\ GensIn(Queued, "JOB_COMPLETE", i)' = GensIn(Queued, "JOB_COMPLETE", i)
               /\ GensIn(Queued, "JOB_RESTART_COMPLETE", i)' = GensIn(Queued, "JOB_RESTART_COMPLETE", i)
               /\ GensIn(Queued, "JOB_CHECKPOINT_COMPLETE", i)' =
                    IF i \in written THEN GensIn(Queued, "JOB_CHECKPOINT_COMPLETE", i) \cup {gen[i]}
                    ELSE GensIn(Queued, "JOB_CHECKPOINT_COMPLETE", i)
    <3>1. GensIn(Queued, "JOB_COMPLETE", i)' = GensIn(Queued, "JOB_COMPLETE", i) \cup {}
      BY <1>9, <1>10 DEF Timers
    <3>2. GensIn(Queued, "JOB_RESTART_COMPLETE", i)' = GensIn(Queued, "JOB_RESTART_COMPLETE", i) \cup {}
      BY <1>9, <1>10 DEF Timers
    <3>3. GensIn(Queued, "JOB_CHECKPOINT_COMPLETE", i)' =
            GensIn(Queued, "JOB_CHECKPOINT_COMPLETE", i) \cup (IF i \in written THEN {gen[i]} ELSE {})
      BY <1>9, <1>10 DEF Timers
    <3> QED  BY <3>1, <3>2, <3>3
  <2> QED  BY <2>1, MappingIs
<1>12. /\ freed = V \ CJ /\ written = V \cap CJ
       /\ (deferred <=> V \cap CJ # {})
  BY <1>4
<1>13. Submitted' = [i \in Jobs |-> IF i \in freed THEN "pending"
                                    ELSE IF i \in V THEN "checkpointing" ELSE Submitted[i]]
  <2>1. \A i \in Jobs : i \in V <=> i \in freed \/ i \in written
    OBVIOUS
  <2>2. \A i \in V : i \notin Waiting
    BY <1>4
  <2> HIDE DEF freed, written, V
  <2> QED  BY <1>2, <1>10, <2>1, <2>2, MappingIs
<1>14. Proved!Preempt(j, V, plan.placement)
  <2> DEFINE deferred2 == V \cap CJ # {}
             freed2 == V \ CJ
             aims2 == [v \in Jobs |-> IF deferred2 /\ v \in V THEN j ELSE target[v]]
             parked2 == {v \in freed2 : aims2[v] # None}
             G == Generations("JOB_CHECKPOINT_COMPLETE")
  <2>1. Proved!Preempt(j, V, plan.placement) <=>
          /\ j \in pending
          /\ V # {}
          /\ \A v \in V : Submitted[v] = "running"
          /\ plan.placement \subseteq Proved!PlaceableAfter(j, V)
          /\ Proved!IsGang(j, plan.placement)
          /\ reserved' = IF deferred2 THEN [reserved EXCEPT ![j] = plan.placement] ELSE reserved
          /\ target' = aims2
          /\ Proved!Release(freed2)
          /\ Submitted' = [i \in Jobs |-> IF i \in freed2 THEN "pending"
                                    ELSE IF i \in V THEN "checkpointing" ELSE Submitted[i]]
          /\ suspended' = suspended \cup parked2
          /\ pending' = pending \cup (freed2 \ parked2)
          /\ G' = [i \in Jobs |-> IF i \in V \cap CJ THEN G[i] \cup {gen[i]} ELSE G[i]]
          /\ UNCHANGED <<gen, Generations("JOB_COMPLETE"), Generations("JOB_RESTART_COMPLETE"), Proved!nodeVars>>
    BY DEF Proved!Preempt
  <2>2. /\ (deferred2 <=> deferred) /\ freed2 = freed /\ aims2 = aims /\ parked2 = parked
    <3>1. (deferred2 <=> deferred) /\ freed2 = freed
      BY <1>12
    <3> HIDE DEF deferred2, freed2, deferred, freed
    <3> QED  BY <3>1
  <2>3. plan.placement \subseteq Proved!PlaceableAfter(j, V)
    BY <1>3 DEF Proved!PlaceableAfter, Proved!Usable, Usable, Proved!ReservedElsewhere, ReservedElsewhere
  <2>4. Proved!IsGang(j, plan.placement)
    BY <1>1, <1>3, SameCardinality DEF Proved!IsGang, IsGang, Proved!SingleVendor, SingleVendor
  <2>5. \A v \in V : Submitted[v] = "running"
    BY <1>4, MappingIs
  <2>6. Proved!Release(freed) <=> Release(freed)
    BY DEF Proved!Release, Release
  <2>7. V \cap CJ = written
    BY <1>12
  <2> HIDE DEF deferred2, freed2, aims2, parked2, deferred, freed, aims, parked, CJ, V, written
  <2> QED  BY <1>2, <1>3, <1>11, <1>13, <2>1, <2>2, <2>3, <2>4, <2>5, <2>6, <2>7
         DEF Proved!nodeVars, nodeVars
<1>15. [Proved!Next]_(Proved!vars)
  <2>1. V \in SUBSET {v \in Jobs : Submitted[v] = "running"}
    BY <1>3, <1>4, MappingIs
  <2>2. plan.placement \in SUBSET Proved!PlaceableAfter(j, V)
    BY <1>14 DEF Proved!Preempt
  <2> HIDE DEF V
  <2> QED  BY <1>14, <2>1, <2>2 DEF Proved!Next
<1>16. StateTypes'
  <2>0. freed \in SUBSET Jobs /\ written \in SUBSET Jobs /\ V \in SUBSET Jobs /\ parked \in SUBSET Jobs
    BY <1>3
  <2>1. \A v \in V : Accrued(v) \in Nat
    BY <1>4
  <2> HIDE DEF freed, written, V, parked, deferred
  <2>2. /\ status' \in [Jobs -> {"pending", "completed"} \cup Active]
        /\ gen' \in [Jobs -> Nat]
        /\ lastStart' \in [Jobs -> Nat \cup {None}]
        /\ runningPriority' \in [Jobs -> 0 .. Critical \cup {None}]
    BY <1>1, <1>2 DEF Types, Active
  <2>3. /\ alloc' \in [Jobs -> SUBSET GPUs]
        /\ owner' \in [GPUs -> Jobs \cup {None}]
    BY <1>1, <1>2 DEF Types, Release
  <2>4. acc' \in [Jobs -> Nat]
    BY <1>1, <1>2, <2>1 DEF Types
  <2>5. /\ target' \in [Jobs -> Jobs \cup {None}]
        /\ reserved' \in [Jobs -> SUBSET GPUs]
    BY <1>1, <1>2, <1>3 DEF Types
  <2>6. /\ interrupted' \subseteq Jobs /\ pending' \subseteq Jobs /\ suspended' \subseteq Jobs
        /\ available' \in [Nodes -> BOOLEAN] /\ schedulable' \in [Nodes -> BOOLEAN]
    BY <1>1, <1>2, <2>0 DEF Types, nodeVars
  <2> QED  BY <2>2, <2>3, <2>4, <2>5, <2>6 DEF StateTypes
<1>17. ArrivalsWait' /\ Gangs' /\ History' /\ Clock'
  <2>1. \A v \in V : status[v] = "running" /\ v \notin Waiting
    BY <1>4
  <2>2. V = freed \cup written /\ freed \cap written = {}
    OBVIOUS
  <2>3. Waiting \subseteq Jobs
    BY DEF Waiting
  <2> HIDE DEF freed, written, V, parked, deferred
  <2>4. ArrivalsWait'
    BY <1>1, <1>2, <1>10, <2>1, <2>2, <2>3 DEF Core, ArrivalsWait
  <2>5. Gangs'
    BY <1>1, <1>2, <2>1, <2>2 DEF Core, Gangs, Release, Active
  <2>6. History'
    BY <1>1, <1>2, <2>1, <2>2 DEF Core, History, Types, Active
  <2>7. Clock'
    BY <1>1, <1>2 DEF Core, Clock, Types
  <2> QED  BY <2>4, <2>5, <2>6, <2>7
<1>18. pending \subseteq pending'
  BY <1>2
<1> QED  BY <1>10, <1>15, <1>16, <1>17, <1>18 DEF Steady

\* A step of the loop that changes only where the loop is.
LEMMA IdleEffect ==
  ASSUME Inv, pc' # "handle" => batch = {},
         UNCHANGED <<scenario, now, heap, batch, jobVars, queueVars, nodeVars>>
  PROVE  [Proved!Next]_(Proved!vars) /\ Steady'
<1>1. Core /\ Types
  BY DEF Inv, Core
<1>2. Queued' = Queued /\ Waiting' = Waiting /\ \A kind, i : GensIn(Queued, kind, i)' = GensIn(Queued, kind, i)
  <2>1. Queued' = Queued
    BY DEF Queued
  <2> QED  BY <2>1 DEF Waiting, GensIn
<1>3. EventsTyped' /\ EventsDistinct'
  BY <1>1, <1>2 DEF Core, EventsTyped, EventsDistinct
<1>4. UNCHANGED Proved!vars
  <2>1. Submitted' = Submitted
    BY <1>2, MappingIs DEF jobVars
  <2>2. /\ Generations("JOB_COMPLETE")' = Generations("JOB_COMPLETE")
        /\ Generations("JOB_CHECKPOINT_COMPLETE")' = Generations("JOB_CHECKPOINT_COMPLETE")
        /\ Generations("JOB_RESTART_COMPLETE")' = Generations("JOB_RESTART_COMPLETE")
    BY <1>2, SameEvents
  <2> QED  BY <2>1, <2>2
      DEF Proved!vars, Proved!jobVars, Proved!queueVars, Proved!eventVars, Proved!nodeVars, jobVars,
          queueVars, nodeVars
<1>5. StateTypes'
  BY <1>1 DEF Types, StateTypes, jobVars, queueVars, nodeVars
<1>6. ArrivalsWait' /\ Gangs' /\ History' /\ Clock'
  BY <1>1, <1>2 DEF Core, ArrivalsWait, Gangs, History, Clock, jobVars, queueVars
<1> QED  BY <1>3, <1>4, <1>5, <1>6 DEF Steady

\* One attempt to place a queued job.
LEMMA AttemptEffect ==
  ASSUME Inv, pc # "handle", pc' # "handle", UNCHANGED <<scenario, now, batch>>,
         NEW j \in pending, StartIfPlaced(j, PlaceNow(j))
  PROVE  [Proved!Next]_(Proved!vars) /\ Steady' /\ pending \ {j} \subseteq pending'
<1>1. CASE PlaceNow(j) # {}
  <2>1. StartJob(j, PlaceNow(j))
    BY <1>1 DEF StartIfPlaced
  <2> DEFINE P == PlaceNow(j)
  <2>2. P = PlaceNow(j) /\ P # {} /\ StartJob(j, P)
    BY <1>1, <2>1
  <2> HIDE DEF P
  <2> QED  BY <2>2, StartEffect
<1>2. CASE PlaceNow(j) = {}
  <2>1. UNCHANGED <<heap, jobVars, queueVars, nodeVars>>
    BY <1>2 DEF StartIfPlaced
  <2>2. batch = {} /\ pending' = pending
    BY <2>1 DEF Inv, Core, EventsTyped, queueVars
  <2>3. [Proved!Next]_(Proved!vars) /\ Steady'
    BY <2>1, <2>2, IdleEffect
  <2> QED  BY <2>2, <2>3
<1> QED  BY <1>1, <1>2

\* The variables of the loop keep their types.
LoopTypes ==
  /\ scenario \in Scenarios
  /\ now \in Nat
  /\ pc \in {"pop", "handle", "dispatch", "retry", "resume", "done"}
  /\ todo \subseteq Jobs /\ initial \subseteq Jobs /\ incoming \in Jobs \cup {None}

\* The invariant of the loop splits into what the pass changes and what it keeps.
LEMMA CoreIs == (Core <=> LoopTypes /\ Steady /\ Pass) /\ (Core' <=> (LoopTypes /\ Steady /\ Pass)')
<1>1. Core <=> LoopTypes /\ Steady /\ Pass
  BY DEF Core, Steady, Types, StateTypes, LoopTypes
<1>2. Core' <=> (LoopTypes /\ Steady /\ Pass)'
  BY DEF Core, Steady, Types, StateTypes, LoopTypes
<1> QED  BY <1>1, <1>2

\* The foremost job of the pass is one that it has still to try.
LEMMA ForemostIn == \A S : Foremost(S) \subseteq S
BY DEF Foremost

\* The next job of the queue is tried.
LEMMA DispatchStep ==
  ASSUME Inv, Dispatch
  PROVE  [Proved!Next]_(Proved!vars) /\ Core'
<1>1. Core /\ Types /\ LoopTypes /\ Steady /\ Pass
  BY CoreIs DEF Inv, Core
<1>2. PICK j \in Foremost(todo) :
        /\ todo' = todo \ {j}
        /\ \/ /\ PlaceNow(j) # {} \/ BestPlans(j) = {}
              /\ StartIfPlaced(j, PlaceNow(j))
              /\ UNCHANGED <<pc, incoming>>
           \/ /\ PlaceNow(j) = {}
              /\ \E plan \in BestPlans(j) : PreemptFor(j, plan)
  BY DEF Dispatch
<1>3. pc = "dispatch" /\ UNCHANGED <<scenario, now, batch, initial>>
  BY DEF Dispatch
<1>4. j \in todo /\ todo \subseteq pending /\ j \in pending /\ j \in Jobs /\ incoming = None
  BY <1>1, <1>3, ForemostIn DEF Pass, PassTriesQueuedJobs, Types
<1>5. CASE StartIfPlaced(j, PlaceNow(j)) /\ UNCHANGED <<pc, incoming>>
  <2>1. [Proved!Next]_(Proved!vars) /\ Steady' /\ pending \ {j} \subseteq pending'
    BY <1>3, <1>4, <1>5, AttemptEffect
  <2>2. LoopTypes'
    BY <1>1, <1>2, <1>3, <1>5 DEF LoopTypes
  <2>3. Pass'
    BY <1>1, <1>2, <1>3, <1>4, <1>5, <2>1 DEF Pass, PassTriesQueuedJobs
  <2> QED  BY <2>1, <2>2, <2>3, CoreIs
<1>6. CASE PlaceNow(j) = {} /\ \E plan \in BestPlans(j) : PreemptFor(j, plan)
  <2>1. PICK plan \in BestPlans(j) : PreemptFor(j, plan)
    BY <1>6
  <2>2. \/ pc' = "dispatch" /\ incoming' = None
        \/ pc' = "retry" /\ incoming' = j
    BY <1>3, <2>1 DEF PreemptFor
  <2>3. [Proved!Next]_(Proved!vars) /\ Steady' /\ pending \subseteq pending'
    BY <1>3, <1>4, <1>6, <2>1, <2>2, PreemptEffect
  <2>4. LoopTypes'
    BY <1>1, <1>2, <1>3, <1>4, <2>2 DEF LoopTypes
  <2>5. Pass'
    BY <1>1, <1>2, <1>3, <1>4, <2>2, <2>3, NoneIsNot DEF Pass, PassTriesQueuedJobs
  <2> QED  BY <2>3, <2>4, <2>5, CoreIs
<1> QED  BY <1>2, <1>5, <1>6

\* The job that preempted is tried again.
LEMMA RetryStep ==
  ASSUME Inv, Retry
  PROVE  [Proved!Next]_(Proved!vars) /\ Core'
<1>1. Core /\ Types /\ LoopTypes /\ Steady /\ Pass
  BY CoreIs DEF Inv, Core
<1> DEFINE j == incoming
<1>2. pc = "retry" /\ pc' = "dispatch" /\ incoming' = None
      /\ StartIfPlaced(j, PlaceNow(j)) /\ UNCHANGED <<scenario, now, batch, todo, initial>>
  BY DEF Retry
<1>3. j \in Jobs /\ j \in pending /\ todo \subseteq pending /\ j \notin todo
  BY <1>1, <1>2, NoneIsNot DEF Pass, PassTriesQueuedJobs
<1>4. [Proved!Next]_(Proved!vars) /\ Steady' /\ pending \ {j} \subseteq pending'
  BY <1>2, <1>3, AttemptEffect
<1>5. LoopTypes'
  BY <1>1, <1>2 DEF LoopTypes
<1>6. Pass'
  BY <1>1, <1>2, <1>3, <1>4, NoneIsNot DEF Pass, PassTriesQueuedJobs, Types
<1> QED  BY <1>4, <1>5, <1>6, CoreIs

\* A job that was queued during the pass is tried.
LEMMA ResumeStep ==
  ASSUME Inv, Resume
  PROVE  [Proved!Next]_(Proved!vars) /\ Core'
<1>1. Core /\ Types /\ LoopTypes /\ Steady /\ Pass
  BY CoreIs DEF Inv, Core
<1>2. PICK j \in Foremost(todo) : todo' = todo \ {j} /\ StartIfPlaced(j, PlaceNow(j))
  BY DEF Resume
<1>3. pc = "resume" /\ UNCHANGED <<scenario, now, pc, batch, initial, incoming>>
  BY DEF Resume
<1>4. j \in todo /\ todo \subseteq pending /\ j \in pending /\ j \in Jobs /\ incoming = None
  BY <1>1, <1>3, ForemostIn DEF Pass, PassTriesQueuedJobs, Types
<1>5. [Proved!Next]_(Proved!vars) /\ Steady' /\ pending \ {j} \subseteq pending'
  BY <1>2, <1>3, <1>4, AttemptEffect
<1>6. LoopTypes'
  BY <1>1, <1>2, <1>3 DEF LoopTypes
<1>7. Pass'
  BY <1>1, <1>2, <1>3, <1>4, <1>5 DEF Pass, PassTriesQueuedJobs
<1> QED  BY <1>5, <1>6, <1>7, CoreIs

\* The steps between the parts of a pass.
LEMMA LoopStep ==
  ASSUME Inv, BeginPass \/ BeginResume \/ EndPass \/ Finish \/ Terminated
  PROVE  [Proved!Next]_(Proved!vars) /\ Core'
<1>1. Core /\ Types /\ LoopTypes /\ Steady /\ Pass /\ pending \subseteq Jobs
  BY CoreIs DEF Inv, Core, Types
<1>2. CASE Terminated
  <2>1. UNCHANGED <<scenario, loopVars, jobVars, queueVars, nodeVars>>
    BY <1>2 DEF Terminated, vars
  <2>2. UNCHANGED <<scenario, now, pc, heap, batch, todo, initial, incoming, jobVars, queueVars, nodeVars>>
    BY <2>1 DEF loopVars
  <2>3. pc' # "handle" => batch = {}
    BY <1>1, <2>2 DEF Core, EventsTyped
  <2>4. [Proved!Next]_(Proved!vars) /\ Steady'
    BY <2>2, <2>3, IdleEffect
  <2>5. LoopTypes' /\ Pass'
    BY <1>1, <2>2 DEF LoopTypes, Pass, PassTriesQueuedJobs, queueVars
  <2> QED  BY <2>4, <2>5, CoreIs
<1>3. CASE BeginPass \/ BeginResume \/ EndPass \/ Finish
  <2>1. UNCHANGED <<scenario, now, heap, batch, incoming, jobVars, queueVars, nodeVars>>
    BY <1>3 DEF BeginPass, BeginResume, EndPass, Finish
  <2>2. batch = {}
    BY <1>1, <1>3 DEF BeginPass, BeginResume, EndPass, Finish, Core, EventsTyped
  <2>3. [Proved!Next]_(Proved!vars) /\ Steady'
    BY <2>1, <2>2, IdleEffect
  <2>4. /\ pc' \in {"pop", "dispatch", "resume", "done"} /\ incoming' = None /\ incoming = None
        /\ todo' \subseteq Jobs /\ initial' \subseteq Jobs
        /\ pc' \in {"dispatch", "resume"} => todo' \subseteq pending
    BY <1>1, <1>3, <2>1 DEF LoopTypes, Pass, BeginPass, BeginResume, EndPass, Finish
  <2>5. LoopTypes'
    BY <1>1, <2>1, <2>4 DEF LoopTypes
  <2>6. Pass'
    BY <1>1, <2>1, <2>4, NoneIsNot DEF Pass, PassTriesQueuedJobs, queueVars, LoopTypes
  <2> QED  BY <2>3, <2>5, <2>6, CoreIs
<1> QED  BY <1>2, <1>3

\* An event that says nothing any more leaves the queue.
LEMMA DiscardStep ==
  ASSUME Inv, NEW e \in heap, Discard(e)
  PROVE  [Proved!Next]_(Proved!vars) /\ Core'
<1>1. Core /\ Types /\ LoopTypes /\ Steady /\ Pass
  BY CoreIs DEF Inv, Core
<1>2. /\ pc = "pop" /\ Discardable(e) /\ heap' = heap \ {e}
      /\ UNCHANGED <<scenario, now, pc, batch, todo, initial, incoming, jobVars, queueVars, nodeVars>>
  BY DEF Discard
<1>3. batch = {} /\ e \in Queued /\ Queued' = Queued \ {e} /\ e.kind # "JOB_ARRIVAL"
  <2>1. batch = {}
    BY <1>1, <1>2 DEF Core, EventsTyped
  <2> QED  BY <1>2, <2>1, TimerKinds DEF Queued, Discardable, Timers
<1>4. EventsTyped' /\ EventsDistinct'
  <2>1. Queued' \subseteq Queued /\ batch' = {} /\ pc' = pc /\ now' = now
    BY <1>2, <1>3
  <2> QED  BY <1>1, <2>1 DEF Core, EventsTyped, EventsDistinct
<1>5. Waiting' = Waiting
  BY <1>3 DEF Waiting
<1>6. ASSUME IsTimer(e), ~IsLive(e) PROVE [Proved!Next]_(Proved!vars)
  <2>1. e.kind \in Timers
    BY <1>6, TimerKinds
  <2>2. ASSUME NEW kind \in Timers, NEW i \in Jobs
        PROVE  GensIn(Queued, kind, i)' = IF e.kind = kind /\ e.id = i THEN GensIn(Queued, kind, i) \ {e.gen}
                                          ELSE GensIn(Queued, kind, i)
    <3>1. \A k : k \in GensIn(Queued, kind, i)' <=> \E f \in Queued \ {e} : f.kind = kind /\ f.id = i /\ f.gen = k
      BY <1>3 DEF GensIn
    <3>2. \A k : k \in GensIn(Queued, kind, i) <=> \E f \in Queued : f.kind = kind /\ f.id = i /\ f.gen = k
      BY DEF GensIn
    <3>3. \A f \in Queued : f.kind = e.kind /\ f.id = e.id /\ f.gen = e.gen => f = e
      BY <1>1, <1>3, <2>1 DEF Core, EventsDistinct
    <3>4. CASE e.kind = kind /\ e.id = i
      <4>1. \A k : k \in GensIn(Queued, kind, i)' <=> k \in GensIn(Queued, kind, i) /\ k # e.gen
        BY <1>3, <3>1, <3>2, <3>3, <3>4
      <4>2. GensIn(Queued, kind, i)' = GensIn(Queued, kind, i) \ {e.gen}
        BY <4>1
      <4> QED  BY <3>4, <4>2
    <3>5. CASE ~(e.kind = kind /\ e.id = i)
      <4>1. GensIn(Queued, kind, i)' = GensIn(Queued, kind, i)
        BY <3>1, <3>2, <3>5
      <4> QED  BY <3>5, <4>1
    <3> QED  BY <3>4, <3>5
  <2> QED  BY <1>2, <1>3, <1>5, <1>6, <2>2, DropMaps
<1>7. ASSUME e.kind = "SCHEDULER_TICK" PROVE [Proved!Next]_(Proved!vars)
  <2>1. ASSUME NEW kind \in Timers, NEW i \in Jobs PROVE GensIn(Queued, kind, i)' = GensIn(Queued, kind, i)
    BY <1>3, <1>7 DEF GensIn, Timers
  <2>2. Submitted' = Submitted
    BY <1>2, <1>5, MappingIs DEF jobVars
  <2> QED  BY <1>2, <2>1, <2>2, SameEvents
      DEF Proved!vars, Proved!jobVars, Proved!queueVars, Proved!eventVars, Proved!nodeVars, jobVars,
          queueVars, nodeVars
<1>8. [Proved!Next]_(Proved!vars)
  BY <1>2, <1>6, <1>7 DEF Discardable
<1>9. StateTypes'
  BY <1>1, <1>2 DEF Types, StateTypes, jobVars, queueVars, nodeVars
<1>10. ArrivalsWait' /\ Gangs' /\ History' /\ Clock'
  BY <1>1, <1>2, <1>5 DEF Core, ArrivalsWait, Gangs, History, Clock, jobVars, queueVars
<1>11. LoopTypes' /\ Pass'
  BY <1>1, <1>2 DEF LoopTypes, Pass, PassTriesQueuedJobs, queueVars
<1> QED  BY <1>4, <1>8, <1>9, <1>10, <1>11, CoreIs DEF Steady

\* The head of the queue is due first.
LEMMA HeadIsFirst ==
  ASSUME Inv, NEW e \in heap, IsHead(e)
  PROVE  \A f \in heap : e.time <= f.time
<1> SUFFICES ASSUME NEW f \in heap PROVE e.time <= f.time
  OBVIOUS
<1>1. e.time \in Nat /\ f.time \in Nat
  BY DEF Inv, Core, EventsTyped, Queued
<1> DEFINE s == <<f.time, Order(f.kind)>>
           t == <<e.time, Order(e.kind)>>
<1>2. ~Less(s, t)
  BY DEF IsHead, Before
<1>3. DOMAIN s = 1 .. 2 /\ s[1] = f.time /\ t[1] = e.time
  OBVIOUS
<1> HIDE DEF s, t
<1>4. ~(f.time < e.time)
  BY <1>2, <1>3 DEF Less
<1> QED  BY <1>1, <1>4

\* The clock moves to the next instant.
LEMMA PopStep ==
  ASSUME Inv, NEW e \in heap, Pop(e)
  PROVE  [Proved!Next]_(Proved!vars) /\ Core'
<1>1. Core /\ Types /\ LoopTypes /\ Steady /\ Pass
  BY CoreIs DEF Inv, Core
<1>2. /\ pc = "pop" /\ IsHead(e) /\ now' = e.time
      /\ batch' = {f \in heap : f.time = e.time} /\ heap' = heap \ batch' /\ pc' = "handle"
      /\ UNCHANGED <<scenario, todo, initial, incoming, jobVars, queueVars, nodeVars>>
  BY DEF Pop
<1>3. batch = {} /\ Queued = heap /\ Queued' = Queued
  <2>1. batch = {}
    BY <1>1, <1>2 DEF Core, EventsTyped
  <2> QED  BY <1>2, <2>1 DEF Queued
<1>4. Waiting' = Waiting /\ \A kind, i : GensIn(Queued, kind, i)' = GensIn(Queued, kind, i)
  BY <1>3 DEF Waiting, GensIn
<1>5. now \in Nat /\ e.time \in Nat /\ now <= e.time
  BY <1>1, <1>3 DEF Types, Core, EventsTyped
<1>6. EventsTyped' /\ EventsDistinct'
  <2>1. \A f \in Queued' : e.time <= f.time
    BY <1>2, <1>3, HeadIsFirst
  <2>2. \A f \in batch' : f.time = e.time
    BY <1>2
  <2>3. heap' \cap batch' = {}
    BY <1>2
  <2>4. now' = e.time /\ pc' = "handle" /\ Queued' = Queued
    BY <1>2, <1>3
  <2>5. EventsTyped'
    BY <1>1, <2>1, <2>2, <2>4 DEF Core, EventsTyped
  <2>6. EventsDistinct'
    BY <1>1, <2>3, <2>4 DEF Core, EventsDistinct
  <2> QED  BY <2>5, <2>6
<1>7. UNCHANGED Proved!vars
  <2>1. Submitted' = Submitted
    BY <1>2, <1>4, MappingIs DEF jobVars
  <2>2. /\ Generations("JOB_COMPLETE")' = Generations("JOB_COMPLETE")
        /\ Generations("JOB_CHECKPOINT_COMPLETE")' = Generations("JOB_CHECKPOINT_COMPLETE")
        /\ Generations("JOB_RESTART_COMPLETE")' = Generations("JOB_RESTART_COMPLETE")
    BY <1>4, SameEvents
  <2> QED  BY <1>2, <2>1, <2>2
      DEF Proved!vars, Proved!jobVars, Proved!queueVars, Proved!eventVars, Proved!nodeVars, jobVars,
          queueVars, nodeVars
<1>8. StateTypes' /\ LoopTypes'
  BY <1>1, <1>2, <1>5 DEF Types, StateTypes, LoopTypes, jobVars, queueVars, nodeVars
<1>9. ArrivalsWait' /\ Gangs' /\ History'
  BY <1>1, <1>2, <1>4 DEF Core, ArrivalsWait, Gangs, History, jobVars, queueVars
<1>10. Clock'
  <2> SUFFICES ASSUME NEW j \in Jobs, lastStart[j] # None PROVE lastStart[j] <= e.time
    BY <1>2 DEF Clock, jobVars
  <2>1. lastStart[j] \in Nat /\ lastStart[j] <= now
    BY <1>1 DEF Types, Core, Clock
  <2> QED  BY <1>5, <2>1
<1>11. Pass'
  BY <1>1, <1>2 DEF Pass, PassTriesQueuedJobs
<1> QED  BY <1>6, <1>7, <1>8, <1>9, <1>10, <1>11, CoreIs DEF Steady

\* The simulation starts as the lifecycle specification does.
LEMMA InitMaps == Init => Proved!Init /\ Core
<1> SUFFICES ASSUME Init PROVE Proved!Init /\ Core
  OBVIOUS
<1>1. scenario \in Scenarios /\ scenario.arrival \in [Jobs -> Nat]
      /\ \A f \in scenario.fleet : f.time \in Nat /\ f.kind \in FleetKinds /\ f.id \in Nodes
  BY EngineAssumption DEF Init
<1> DEFINE A == {Event(scenario.arrival[j], "JOB_ARRIVAL", j, 0) : j \in Jobs}
<1>2. \A f \in A : /\ f.time \in Nat /\ f.kind = "JOB_ARRIVAL" /\ f.id \in Jobs
                   /\ f = Event(scenario.arrival[f.id], "JOB_ARRIVAL", f.id, 0)
  BY <1>1 DEF Event
<1>3. \A j \in Jobs : \E f \in A : f.kind = "JOB_ARRIVAL" /\ f.id = j
  <2> SUFFICES ASSUME NEW j \in Jobs PROVE \E f \in A : f.kind = "JOB_ARRIVAL" /\ f.id = j
    OBVIOUS
  <2>1. Event(scenario.arrival[j], "JOB_ARRIVAL", j, 0) \in A
    OBVIOUS
  <2> HIDE DEF A
  <2> QED  BY <2>1 DEF Event
<1>4. Queued = A \cup scenario.fleet /\ batch = {} /\ heap = A \cup scenario.fleet
  BY DEF Init, Queued
<1> HIDE DEF A
<1>5. Waiting = Jobs
  BY <1>3, <1>4 DEF Waiting
<1>6. \A kind \in Timers : \A j : GensIn(Queued, kind, j) = {}
  BY <1>1, <1>2, <1>4 DEF GensIn, Timers, FleetKinds
<1>7. Types
  BY <1>1 DEF Init, Types
<1>8. EventsTyped
  <2>1. now = 0
    BY DEF Init
  <2>2. \A f \in Queued : f.time \in Nat /\ now <= f.time
    BY <1>1, <1>2, <1>4, <2>1
  <2>3. \A f \in Queued : \/ f.kind = "JOB_ARRIVAL" /\ f.id \in Jobs
                          \/ f.kind \in FleetKinds /\ f.id \in Nodes
    BY <1>1, <1>2, <1>4
  <2> QED  BY <1>4, <2>2, <2>3 DEF EventsTyped, JobKinds, Timers, FleetKinds
<1>9. EventsDistinct
  <2>1. \A f \in Queued : f.kind = "JOB_ARRIVAL" => f \in A
    BY <1>1, <1>4 DEF FleetKinds
  <2>2. \A f \in Queued : f.kind \notin Timers
    BY <1>1, <1>2, <1>4 DEF FleetKinds, Timers
  <2> QED  BY <1>2, <1>4, <2>1, <2>2 DEF EventsDistinct
<1>10. ArrivalsWait /\ Gangs /\ History /\ Clock /\ Pass
  BY <1>5, NoneIsNot DEF Init, ArrivalsWait, Gangs, History, Clock, Pass, PassTriesQueuedJobs, Active
<1>11. Proved!Init
  <2>1. Submitted = [j \in Jobs |-> "unsubmitted"]
    BY <1>5, MappingIs
  <2>2. /\ Generations("JOB_COMPLETE") = [j \in Jobs |-> {}]
        /\ Generations("JOB_CHECKPOINT_COMPLETE") = [j \in Jobs |-> {}]
        /\ Generations("JOB_RESTART_COMPLETE") = [j \in Jobs |-> {}]
    BY <1>6, MappingIs DEF Timers
  <2> QED  BY <2>1, <2>2 DEF Init, Proved!Init
<1> QED  BY <1>7, <1>8, <1>9, <1>10, <1>11 DEF Core

\* The invariant holds when the simulation starts.
LEMMA InitInv == Init => Inv
BY InitMaps, Constants, Proved!InitIInv DEF Inv

\* Every step of the loop is a step of the lifecycle specification or changes
\* nothing of what it sees.
LEMMA NextMaps ==
  ASSUME Inv, [Next]_vars
  PROVE  [Proved!Next]_(Proved!vars) /\ Core'
<1>1. CASE UNCHANGED vars
  <2>1. UNCHANGED <<scenario, now, pc, heap, batch, todo, initial, incoming, jobVars, queueVars, nodeVars>>
    BY <1>1 DEF vars, loopVars
  <2>2. /\ pc' # "handle" => batch = {}
        /\ LoopTypes /\ Pass
    BY <2>1, CoreIs DEF Inv, Core, EventsTyped
  <2>3. [Proved!Next]_(Proved!vars) /\ Steady'
    BY <2>1, <2>2, IdleEffect
  <2>4. LoopTypes' /\ Pass'
    BY <2>1, <2>2 DEF LoopTypes, Pass, PassTriesQueuedJobs, queueVars
  <2> QED  BY <2>3, <2>4, CoreIs
<1>2. ASSUME NEW e \in heap, Discard(e) \/ Pop(e)
      PROVE  [Proved!Next]_(Proved!vars) /\ Core'
  BY <1>2, DiscardStep, PopStep
<1>3. ASSUME NEW e \in batch, Handle(e)
      PROVE  [Proved!Next]_(Proved!vars) /\ Core'
  BY <1>3, ArriveStep, TickStep, StaleTimerStep, CompleteStep, CompleteCheckpointStep,
       CompleteRestartStep,
     RestoreStep, DrainStep, FailStep DEF Handle
<1> QED
  BY <1>1, <1>2, <1>3, DispatchStep, RetryStep, ResumeStep, LoopStep DEF Next, Step

\* The invariant is inductive.
LEMMA NextInv == ASSUME Inv, [Next]_vars PROVE Inv'
BY NextMaps, LifecycleKeeps DEF Inv

\* The invariant of the engine.
THEOREM Invariance == Spec => []Inv
<1>1. Inv /\ [Next]_vars => Inv'
  BY NextInv
<1> QED  BY <1>1, InitInv, PTL DEF Spec

\* The specification instantiated in PreemptiveEngine and the one instantiated here
\* with its theorems are the same, action by action.
LEMMA SameOperators ==
  /\ \A S : Lifecycle!Cardinality(S) = Proved!Cardinality(S)
  /\ \A j, V : Lifecycle!PlaceableAfter(j, V) = Proved!PlaceableAfter(j, V)
  /\ \A j, P : Lifecycle!IsGang(j, P) <=> Proved!IsGang(j, P)
  /\ \A T : Lifecycle!ReturnedVictims(T) = Proved!ReturnedVictims(T)
  /\ \A T : Lifecycle!TargetsWithout(T) = Proved!TargetsWithout(T)
  /\ \A T : Lifecycle!DropReservations(T) <=> Proved!DropReservations(T)
  /\ \A R : Lifecycle!Release(R) <=> Proved!Release(R)
  /\ \A n : Lifecycle!Affected(n) = Proved!Affected(n)
  /\ \A n : Lifecycle!OnNode(n) = Proved!OnNode(n)
  /\ \A j : Lifecycle!NextGeneration(j) = Proved!NextGeneration(j)
<1>1. \A S : Lifecycle!Cardinality(S) = Proved!Cardinality(S)
  BY DEF Lifecycle!Cardinality, Lifecycle!IsFiniteSet, Proved!Cardinality, Proved!IsFiniteSet
<1>2. \A j, V : Lifecycle!PlaceableAfter(j, V) = Proved!PlaceableAfter(j, V)
  BY DEF Lifecycle!PlaceableAfter, Lifecycle!Usable, Lifecycle!ReservedElsewhere,
         Proved!PlaceableAfter, Proved!Usable, Proved!ReservedElsewhere
<1>3. \A j, P : Lifecycle!IsGang(j, P) <=> Proved!IsGang(j, P)
  BY <1>1 DEF Lifecycle!IsGang, Lifecycle!SingleVendor, Proved!IsGang, Proved!SingleVendor
<1>4. /\ \A T : Lifecycle!ReturnedVictims(T) = Proved!ReturnedVictims(T)
      /\ \A T : Lifecycle!TargetsWithout(T) = Proved!TargetsWithout(T)
      /\ \A T : Lifecycle!DropReservations(T) <=> Proved!DropReservations(T)
  BY DEF Lifecycle!Holders, Lifecycle!ReturnedVictims, Lifecycle!TargetsWithout,
       Lifecycle!DropReservations,
         Proved!Holders, Proved!ReturnedVictims, Proved!TargetsWithout, Proved!DropReservations
<1>5. /\ \A R : Lifecycle!Release(R) <=> Proved!Release(R)
      /\ \A n : Lifecycle!Affected(n) = Proved!Affected(n)
      /\ \A n : Lifecycle!OnNode(n) = Proved!OnNode(n)
      /\ \A j : Lifecycle!NextGeneration(j) = Proved!NextGeneration(j)
  BY DEF Lifecycle!Release, Lifecycle!Affected, Lifecycle!OnNode, Lifecycle!NextGeneration,
         Proved!Release, Proved!Affected, Proved!OnNode, Proved!NextGeneration
<1> QED  BY <1>1, <1>2, <1>3, <1>4, <1>5

\* Steps that change nothing of the one copy of the lifecycle specification change
\* nothing of the other.
LEMMA SameStutter == UNCHANGED Proved!vars => UNCHANGED Lifecycle!vars
BY DEF Lifecycle!jobVars, Lifecycle!queueVars, Lifecycle!eventVars, Lifecycle!nodeVars, Lifecycle!vars,
       Proved!jobVars, Proved!queueVars, Proved!eventVars, Proved!nodeVars, Proved!vars

\* Steps of the one copy are steps of the other.
LEMMA SameLifecycle ==
  /\ Proved!Init => Lifecycle!Init
  /\ [Proved!Next]_(Proved!vars) => [Lifecycle!Next]_(Lifecycle!vars)
<1>1. Proved!Init => Lifecycle!Init
  BY DEF Lifecycle!Init, Proved!Init
<1>2. \A j : Proved!Arrive(j) => Lifecycle!Arrive(j)
  BY DEF Lifecycle!Arrive, Proved!Arrive, Lifecycle!eventVars, Proved!eventVars, Lifecycle!nodeVars,
       Proved!nodeVars
<1>3. \A j, P : Proved!Start(j, P) => Lifecycle!Start(j, P)
  BY SameOperators DEF Lifecycle!Start, Proved!Start, Lifecycle!nodeVars, Proved!nodeVars
<1>4. \A j : Proved!CompleteRestart(j) => Lifecycle!CompleteRestart(j)
  BY DEF Lifecycle!CompleteRestart, Proved!CompleteRestart, Lifecycle!queueVars, Proved!queueVars,
         Lifecycle!nodeVars, Proved!nodeVars
<1>5. \A j : Proved!Complete(j) => Lifecycle!Complete(j)
  BY SameOperators DEF Lifecycle!Complete, Proved!Complete, Lifecycle!queueVars, Proved!queueVars,
         Lifecycle!nodeVars, Proved!nodeVars
<1>6. \A j : Proved!CompleteCheckpoint(j) => Lifecycle!CompleteCheckpoint(j)
  BY SameOperators
       DEF Lifecycle!CompleteCheckpoint, Proved!CompleteCheckpoint, Lifecycle!nodeVars, Proved!nodeVars
<1>7. \A j : Proved!DropStale(j) => Lifecycle!DropStale(j)
  BY DEF Lifecycle!DropStale, Proved!DropStale, Lifecycle!jobVars, Lifecycle!queueVars,
       Lifecycle!eventVars, Lifecycle!nodeVars, Proved!jobVars, Proved!queueVars, Proved!eventVars,
       Proved!nodeVars
<1>8. \A h, V, P : Proved!Preempt(h, V, P) => Lifecycle!Preempt(h, V, P)
  BY SameOperators DEF Lifecycle!Preempt, Proved!Preempt, Lifecycle!nodeVars, Proved!nodeVars
<1>9. \A h : Proved!GiveUpReservation(h) => Lifecycle!GiveUpReservation(h)
  BY SameOperators
       DEF Lifecycle!GiveUpReservation, Proved!GiveUpReservation, Lifecycle!jobVars, Lifecycle!queueVars,
           Lifecycle!eventVars, Lifecycle!nodeVars, Proved!jobVars, Proved!queueVars, Proved!eventVars,
           Proved!nodeVars
<1>10. \A j, P : Proved!Resize(j, P) => Lifecycle!Resize(j, P)
  BY SameOperators DEF Lifecycle!Resize, Proved!Resize, Lifecycle!queueVars, Proved!queueVars,
                       Lifecycle!nodeVars, Proved!nodeVars
<1>11. \A n : Proved!Restore(n) => Lifecycle!Restore(n)
  BY DEF Lifecycle!Restore, Proved!Restore, Lifecycle!jobVars, Lifecycle!queueVars, Lifecycle!eventVars,
       Lifecycle!nodeVars, Proved!jobVars, Proved!queueVars, Proved!eventVars, Proved!nodeVars
<1>12. \A n : Proved!Drain(n) => Lifecycle!Drain(n)
  BY SameOperators
       DEF Lifecycle!Drain, Proved!Drain, Lifecycle!jobVars, Lifecycle!queueVars, Lifecycle!eventVars,
           Lifecycle!nodeVars, Proved!jobVars, Proved!queueVars, Proved!eventVars, Proved!nodeVars
<1>13. \A n : Proved!Fail(n) => Lifecycle!Fail(n)
  BY DEF Lifecycle!Fail, Proved!Fail, Lifecycle!Cardinality, Lifecycle!IsFiniteSet, Proved!Cardinality,
         Proved!IsFiniteSet, Lifecycle!Holders, Lifecycle!ReturnedVictims, Lifecycle!TargetsWithout,
         Lifecycle!DropReservations, Proved!Holders, Proved!ReturnedVictims, Proved!TargetsWithout,
         Proved!DropReservations, Lifecycle!Affected, Lifecycle!OnNode, Lifecycle!NextGeneration,
         Proved!Affected, Proved!OnNode, Proved!NextGeneration
<1>14. Proved!Next => Lifecycle!Next
  BY <1>2, <1>3, <1>4, <1>5, <1>6, <1>7, <1>8, <1>9, <1>10, <1>11, <1>12, <1>13, SameOperators
     DEF Lifecycle!Next, Proved!Next
<1> QED  BY <1>1, <1>14, SameStutter

\* The engine implements the untimed lifecycle specification.
THEOREM LifecycleRefinement == Spec => ImplementsLifecycle
<1>1. Init => Lifecycle!Init
  BY InitMaps, SameLifecycle
<1>2. Inv /\ [Next]_vars => [Lifecycle!Next]_(Lifecycle!vars)
  BY NextMaps, SameLifecycle
<1> QED  BY <1>1, <1>2, Invariance, PTL DEF Spec, ImplementsLifecycle, Lifecycle!Spec

\* Every variable has its type.
THEOREM TypeCorrect == Spec => []TypeOK
<1>1. Inv => TypeOK
  BY DEF Inv, Core, Types, EventsTyped, TypeOK, JobKinds, Timers, FleetKinds, Order
<1> QED  BY <1>1, Invariance, PTL

\* A pass tries only jobs that are queued.
THEOREM QueuedJobsTried == Spec => []PassTriesQueuedJobs
<1>1. Inv => PassTriesQueuedJobs
  BY DEF Inv, Core, Pass
<1> QED  BY <1>1, Invariance, PTL

-----------------------------------------------------------------------------
(* The timers are due when their phases are over.                          *)

\* A job runs since its last start, never beyond its duration, and its completion is
\* due when its productive runtime reaches it.
Timing ==
  \A j \in Jobs :
    /\ status[j] = "running" <=> lastStart[j] # None
    /\ acc[j] <= scenario.duration[j]
    /\ status[j] = "running" =>
         \A e \in Queued : e.kind = "JOB_COMPLETE" /\ e.id = j /\ e.gen = gen[j] =>
           e.time = lastStart[j] + scenario.duration[j] - acc[j]

\* What a step does to the productive runtime.
Progress ==
  \A j \in Jobs :
    /\ acc'[j] >= acc[j]
    /\ status'[j] = "completed" /\ status[j] # "completed" => acc'[j] = scenario.duration[j]

\* A running job has not reached its duration before now.
LEMMA AccruedBounded ==
  ASSUME Inv, Timing, NEW j \in Jobs
  PROVE  /\ Accrued(j) \in Nat /\ acc[j] <= Accrued(j) /\ Accrued(j) <= scenario.duration[j]
         /\ acc[j] \in Nat /\ scenario.duration[j] \in Nat
<1>1. Types /\ EventsTyped /\ Clock /\ Phases
  BY Plain DEF Inv, Core
<1>2. acc[j] \in Nat /\ now \in Nat /\ lastStart[j] \in Nat \cup {None} /\ scenario.duration[j] \in Nat
  BY <1>1, ScenarioIs DEF Types
<1>3. Accrued(j) \in Nat /\ acc[j] <= Accrued(j)
  BY <1>1, AccruedIs
<1>4. CASE lastStart[j] = None
  BY <1>2, <1>3, <1>4 DEF Accrued, Timing
<1>5. CASE lastStart[j] # None
  <2>1. status[j] = "running"
    BY <1>5 DEF Timing
  <2>2. PICK e \in Queued : e.kind = "JOB_COMPLETE" /\ e.id = j /\ e.gen = gen[j]
    BY <1>1, <2>1 DEF Phases, GensIn
  <2>3. e.time = lastStart[j] + scenario.duration[j] - acc[j] /\ now <= e.time
    BY <1>1, <2>1, <2>2 DEF Timing, EventsTyped
  <2> QED  BY <1>2, <1>3, <1>5, <2>3 DEF Accrued
<1> QED  BY <1>2, <1>3, <1>4, <1>5

\* The three ways a step may treat a job.
Kept(i, N) ==
  /\ status'[i] = status[i] /\ lastStart'[i] = lastStart[i] /\ acc'[i] = acc[i] /\ gen'[i] = gen[i]
  /\ \A n \in N : n.kind = "JOB_COMPLETE" => n.id # i
Stopped(i) == status'[i] # "running" /\ lastStart'[i] = None /\ acc'[i] <= scenario.duration[i]
Started(i, N) ==
  /\ status'[i] = "running" /\ lastStart'[i] = now /\ acc'[i] = acc[i]
  /\ gen'[i] \notin GensIn(Queued, "JOB_COMPLETE", i)
  /\ \A n \in N : n.kind = "JOB_COMPLETE" => n.id = i /\ n.time = now + scenario.duration[i] - acc[i]

\* A step that keeps, stops or starts each job keeps the timing.
LEMMA TimingKept ==
  ASSUME Inv, Timing, scenario' = scenario, NEW N, Queued' \subseteq Queued \cup N,
         \A i \in Jobs : Kept(i, N) \/ Stopped(i) \/ Started(i, N)
  PROVE  Timing'
<1> SUFFICES ASSUME NEW j \in Jobs
             PROVE  /\ status'[j] = "running" <=> lastStart'[j] # None
                    /\ acc'[j] <= scenario.duration[j]
                    /\ status'[j] = "running" =>
                         \A e \in Queued' : e.kind = "JOB_COMPLETE" /\ e.id = j /\ e.gen = gen'[j] =>
                           e.time = lastStart'[j] + scenario.duration[j] - acc'[j]
  BY DEF Timing
<1>1. CASE Kept(j, N)
  BY <1>1 DEF Kept, Timing
<1>2. CASE Stopped(j)
  BY <1>2 DEF Stopped
<1>3. CASE Started(j, N)
  <2>1. now # None
    BY NoneIsNot DEF Inv, Core, Types
  <2>2. ASSUME NEW e \in Queued', e.kind = "JOB_COMPLETE", e.id = j, e.gen = gen'[j]
        PROVE  e.time = lastStart'[j] + scenario.duration[j] - acc'[j]
    <3>1. e \in N
      BY <1>3, <2>2 DEF Started, GensIn
    <3> QED  BY <1>3, <2>2, <3>1 DEF Started
  <2> QED  BY <1>3, <2>1, <2>2 DEF Started, Timing
<1> QED  BY <1>1, <1>2, <1>3

\* A step that pushes ticks only and leaves the jobs alone.
LEMMA QuietTiming ==
  ASSUME Inv, Timing, UNCHANGED <<scenario, jobVars>>, NEW N, TickSet(N), Queued' \subseteq Queued \cup N
  PROVE  Timing' /\ Progress
<1>1. \A i \in Jobs : Kept(i, N)
  BY DEF Kept, TickSet, jobVars
<1>2. Timing'
  BY <1>1, TimingKept
<1>3. \A i \in Jobs : acc'[i] >= acc[i] /\ status'[i] = status[i]
  BY DEF Inv, Core, Types, jobVars
<1> QED  BY <1>2, <1>3 DEF Progress

\* A step that only removes events or moves them.
LEMMA IdleTiming ==
  ASSUME Inv, Timing, UNCHANGED <<scenario, jobVars>>, Queued' \subseteq Queued
  PROVE  Timing' /\ Progress
<1> DEFINE N == {}
<1>1. TickSet(N) /\ Queued' \subseteq Queued \cup N
  BY DEF TickSet
<1> HIDE DEF N
<1> QED  BY <1>1, QuietTiming

\* Handling an event queues only what the handler pushes.
LEMMA TakeQueue == ASSUME NEW e, Take(e), NEW N, heap' = heap \cup N PROVE Queued' \subseteq Queued \cup N
BY DEF Take, Queued

\* Handlers that change neither status nor progress keep the timing.
LEMMA QuietTimingSteps ==
  ASSUME Inv, Timing, NEW e,
         Arrive(e) \/ Tick(e) \/ StaleTimer(e) \/ Restore(e) \/ Drain(e)
  PROVE  Timing' /\ Progress
<1>1. Types
  BY DEF Inv, Core
<1>2. \E N : TickSet(N) /\ heap' = heap \cup N
  <2>1. CASE Arrive(e)
    <3>1. e.id \in Jobs
      BY <2>1 DEF Arrive, Take, Inv, Core, EventsTyped, JobKinds, Queued
    <3> QED  BY <1>1, <2>1, <3>1, TicksAre DEF Arrive
  <2>2. CASE Tick(e)
    <3>1. \/ heap' = heap \cup {}
          \/ e.id \in pending /\ heap' = heap \cup AgingTick(e.id, acc[e.id])
      BY <2>2 DEF Tick
    <3> QED  BY <1>1, <3>1, TicksAre DEF Types
  <2>3. CASE StaleTimer(e) \/ Restore(e)
    <3>1. heap' = heap \cup {}
      BY <2>3 DEF StaleTimer, Restore
    <3> QED  BY <1>1, <3>1, TicksAre
  <2>4. CASE Drain(e)
    <3> DEFINE back == ReturnedVictims(Affected(e.id))
    <3>1. heap' = heap \cup Ticks(back)
      BY <2>4 DEF Drain
    <3>2. back \in SUBSET Jobs
      BY <1>1 DEF Types, ReturnedVictims
    <3> HIDE DEF back
    <3> QED  BY <1>1, <3>1, <3>2, TicksAre
  <2> QED  BY <2>1, <2>2, <2>3, <2>4
<1>3. Take(e) /\ UNCHANGED <<scenario, jobVars>>
  BY DEF Arrive, Tick, StaleTimer, Restore, Drain, Take
<1>4. PICK N : TickSet(N) /\ heap' = heap \cup N
  BY <1>2
<1> QED  BY <1>3, <1>4, TakeQueue, QuietTiming

\* A completion is handled when the whole duration has been worked.
LEMMA CompleteTiming ==
  ASSUME Inv, Timing, NEW e, Complete(e)
  PROVE  Timing' /\ Progress
<1> DEFINE j == e.id
           N == {}
<1>1. Core /\ Types
  BY DEF Inv, Core
<1>2. e \in batch /\ e \in Queued /\ e.kind = "JOB_COMPLETE" /\ Take(e) /\ heap' = heap
      /\ status[j] = "running" /\ e.gen = gen[j]
  BY DEF Complete, Take, Queued, IsLive, Awaited
<1>3. j \in Jobs /\ e.time = now
  BY <1>1, <1>2 DEF Core, EventsTyped, JobKinds, Timers
<1>4. /\ UNCHANGED <<scenario, gen>>
      /\ acc' = [acc EXCEPT ![j] = Min({scenario.duration[j], Accrued(j)})]
      /\ status' = [status EXCEPT ![j] = "completed"]
      /\ lastStart' = [lastStart EXCEPT ![j] = None]
  BY DEF Complete, Take
<1>5. Accrued(j) = scenario.duration[j]
  <2>1. now = lastStart[j] + scenario.duration[j] - acc[j] /\ lastStart[j] # None
    BY <1>2, <1>3 DEF Timing
  <2>2. lastStart[j] \in Nat /\ acc[j] \in Nat /\ scenario.duration[j] \in Nat /\ now \in Nat
    BY <1>1, <1>3, <2>1, ScenarioIs DEF Types
  <2> QED  BY <2>1, <2>2 DEF Accrued
<1>6. scenario.duration[j] \in Nat /\ acc[j] <= scenario.duration[j]
  BY <1>1, <1>3, ScenarioIs DEF Timing
<1>7. Min({scenario.duration[j], Accrued(j)}) = scenario.duration[j]
  <2> DEFINE S == {scenario.duration[j], Accrued(j)}
  <2>1. S \in SUBSET Nat /\ S # {}
    BY <1>5, <1>6
  <2> HIDE DEF S
  <2>2. Min(S) \in S
    BY <2>1, MinIn
  <2> QED  BY <1>5, <2>2 DEF S
<1>8. acc' = [acc EXCEPT ![j] = scenario.duration[j]]
  BY <1>4, <1>7
<1>9. Queued' \subseteq Queued \cup N /\ \A i \in Jobs : Kept(i, N) \/ Stopped(i)
  <2>1. Queued' \subseteq Queued \cup N
    BY <1>2, TakeQueue
  <2> QED  BY <1>1, <1>3, <1>4, <1>6, <1>8, <2>1 DEF Types, Kept, Stopped
<1> HIDE DEF N
<1>10. Timing'
  BY <1>4, <1>9, TimingKept
<1>11. Progress
  BY <1>1, <1>3, <1>4, <1>6, <1>8 DEF Types, Progress
<1> QED  BY <1>10, <1>11

\* A written checkpoint leaves the progress alone.
LEMMA CheckpointTiming ==
  ASSUME Inv, Timing, NEW e, CompleteCheckpoint(e)
  PROVE  Timing' /\ Progress
<1> DEFINE j == e.id
           parks == target[j] # None
           N == IF parks THEN {} ELSE AgingTick(j, acc[j])
<1>1. Core /\ Types
  BY DEF Inv, Core
<1>2. e \in Queued /\ e.kind = "JOB_CHECKPOINT_COMPLETE" /\ Take(e)
      /\ heap' = heap \cup N /\ status[j] = "checkpointing"
  BY DEF CompleteCheckpoint, Take, Queued, IsLive, Awaited
<1>3. j \in Jobs
  BY <1>1, <1>2 DEF Core, EventsTyped, JobKinds, Timers
<1>4. TickSet(N)
  BY <1>1, <1>3, TicksAre
<1> HIDE DEF N
<1>5. UNCHANGED <<scenario, gen, acc, lastStart>> /\ status' = [status EXCEPT ![j] = "pending"]
  BY DEF CompleteCheckpoint, Take
<1>6. lastStart[j] = None /\ acc[j] <= scenario.duration[j]
  BY <1>2, <1>3 DEF Timing
<1>7. \A i \in Jobs : Kept(i, N) \/ Stopped(i)
  BY <1>1, <1>3, <1>4, <1>5, <1>6 DEF Types, Kept, Stopped, TickSet
<1>8. Queued' \subseteq Queued \cup N
  BY <1>2, TakeQueue
<1>9. Timing'
  BY <1>5, <1>7, <1>8, TimingKept
<1>10. Progress
  BY <1>1, <1>3, <1>5 DEF Types, Progress
<1> QED  BY <1>9, <1>10

\* A job that has restarted runs until its remaining work is done.
LEMMA RestartTiming ==
  ASSUME Inv, Timing, NEW e, CompleteRestart(e)
  PROVE  Timing' /\ Progress
<1> DEFINE j == e.id
           n == Completion(j, acc[j], gen[j])
           N == {n}
<1>1. Core /\ Types
  BY DEF Inv, Core
<1>2. e \in Queued /\ e.kind = "JOB_RESTART_COMPLETE" /\ Take(e)
      /\ heap' = heap \cup N /\ status[j] = "restarting"
  BY DEF CompleteRestart, Take, Queued, IsLive, Awaited
<1>3. j \in Jobs
  BY <1>1, <1>2 DEF Core, EventsTyped, JobKinds, Timers
<1>4. UNCHANGED <<scenario, gen, acc>> /\ status' = [status EXCEPT ![j] = "running"]
      /\ lastStart' = [lastStart EXCEPT ![j] = now]
  BY DEF CompleteRestart, Take
<1>5. gen[j] \notin GensIn(Queued, "JOB_COMPLETE", j)
  BY <1>2, <1>3, Plain DEF Fenced
<1>6. n.kind = "JOB_COMPLETE" /\ n.id = j /\ n.time = now + scenario.duration[j] - acc[j]
  <2>1. acc[j] \in Nat /\ acc[j] <= scenario.duration[j]
    BY <1>1, <1>3 DEF Types, Timing
  <2> QED  BY <1>1, <1>3, <2>1, CompletionIs
<1> HIDE DEF n
<1>7. \A i \in Jobs : Kept(i, N) \/ Started(i, N)
  BY <1>1, <1>3, <1>4, <1>5, <1>6 DEF Types, Kept, Started
<1>8. Queued' \subseteq Queued \cup N
  BY <1>2, TakeQueue
<1>9. Timing'
  <2> HIDE DEF N
  <2> QED  BY <1>4, <1>7, <1>8, TimingKept
<1>10. Progress
  BY <1>1, <1>3, <1>4 DEF Types, Progress
<1> QED  BY <1>9, <1>10

\* A failed node stops its jobs with the progress they had made.
LEMMA FailTiming ==
  ASSUME Inv, Timing, NEW e, Fail(e)
  PROVE  Timing' /\ Progress
<1> DEFINE back == ReturnedVictims(Affected(e.id))
           lost == {j \in Jobs : \E g \in OnNode(e.id) : owner[g] = j}
           N == Ticks(back)
<1>1. Types /\ Take(e)
  BY DEF Inv, Core, Fail
<1>2. heap' = heap \cup N /\ TickSet(N)
  <2>1. back \in SUBSET Jobs
    BY <1>1 DEF Types, ReturnedVictims
  <2> QED  BY <1>1, <2>1, TicksAre DEF Fail
<1>3. /\ scenario' = scenario
      /\ acc' = [j \in Jobs |-> IF j \in lost THEN Accrued(j) ELSE acc[j]]
      /\ gen' = [j \in Jobs |-> IF j \in lost THEN gen[j] + 1 ELSE gen[j]]
      /\ status' = [j \in Jobs |-> IF j \in lost THEN "pending" ELSE status[j]]
      /\ lastStart' = [j \in Jobs |-> IF j \in lost THEN None ELSE lastStart[j]]
  BY DEF Fail, Take
<1>4. Queued' \subseteq Queued \cup N
  BY <1>1, <1>2, TakeQueue
<1> HIDE DEF N, lost
<1>5. \A j \in Jobs : acc[j] <= Accrued(j) /\ Accrued(j) <= scenario.duration[j] /\ Accrued(j) \in Nat /\ acc[j] \in Nat
  BY AccruedBounded
<1>6. \A i \in Jobs : Kept(i, N) \/ Stopped(i)
  BY <1>2, <1>3, <1>5 DEF Kept, Stopped, TickSet
<1>7. Timing'
  BY <1>3, <1>4, <1>6, TimingKept
<1>8. Progress
  BY <1>3, <1>5 DEF Progress
<1> QED  BY <1>7, <1>8

\* A job that starts runs until its remaining work is done, or restarts first.
LEMMA StartTiming ==
  ASSUME Inv, Timing, UNCHANGED <<scenario, batch>>, NEW j \in pending, NEW P, StartJob(j, P)
  PROVE  Timing' /\ Progress
<1> DEFINE back == ReturnedVictims({j})
           restarts == (j \in interrupted \/ acc[j] > 0) /\ RestartCost[j] > 0
           timer == IF restarts
                    THEN Event(now + RestartCost[j], "JOB_RESTART_COMPLETE", j, gen[j] + 1)
                    ELSE Completion(j, acc[j], gen[j] + 1)
           N == {timer} \cup Ticks(back)
<1>1. Core /\ Types /\ j \in Jobs
  BY DEF Inv, Core, Types
<1>2. /\ gen' = [gen EXCEPT ![j] = @ + 1]
      /\ status' = [status EXCEPT ![j] = IF restarts THEN "restarting" ELSE "running"]
      /\ lastStart' = [lastStart EXCEPT ![j] = IF restarts THEN None ELSE now]
      /\ heap' = heap \cup N
      /\ acc' = acc
  BY DEF StartJob
<1>3. TickSet(Ticks(back))
  <2>1. back \in SUBSET Jobs
    BY <1>1 DEF Types, ReturnedVictims
  <2> QED  BY <1>1, <2>1, TicksAre
<1>4. acc[j] \in Nat /\ acc[j] <= scenario.duration[j] /\ gen[j] \in Nat
  BY <1>1 DEF Types, Timing
<1>5. /\ ~restarts => timer.kind = "JOB_COMPLETE" /\ timer.id = j /\ timer.time = now + scenario.duration[j] - acc[j]
      /\ restarts => timer.kind # "JOB_COMPLETE"
  BY <1>1, <1>4, CompletionIs DEF Event
<1>6. gen[j] + 1 \notin GensIn(Queued, "JOB_COMPLETE", j)
  <2>1. \A k \in GensIn(Queued, "JOB_COMPLETE", j) : k <= gen[j]
    BY <1>1, Plain DEF Fenced, Timers
  <2>2. ~(gen[j] + 1 <= gen[j])
    BY <1>4
  <2> QED  BY <2>1, <2>2
<1>7. \A n \in N : n.kind = "JOB_COMPLETE" => ~restarts /\ n.id = j /\ n.time = now + scenario.duration[j] - acc[j]
  <2> HIDE DEF timer, back, restarts
  <2> QED  BY <1>3, <1>5 DEF TickSet
<1> HIDE DEF N, timer, restarts
<1>8. \A i \in Jobs : Kept(i, N) \/ Stopped(i) \/ Started(i, N)
  BY <1>1, <1>2, <1>4, <1>6, <1>7 DEF Types, Kept, Stopped, Started
<1>9. Queued' \subseteq Queued \cup N
  BY <1>2 DEF Queued
<1>10. Timing'
  BY <1>8, <1>9, TimingKept
<1>11. Progress
  BY <1>1, <1>2 DEF Types, Progress
<1> QED  BY <1>10, <1>11

\* An eviction stops its victims with the progress they had made.
LEMMA PreemptTiming ==
  ASSUME Inv, Timing, UNCHANGED <<scenario, batch>>, NEW j \in Jobs, NEW plan \in BestPlans(j), PreemptFor(j, plan)
  PROVE  Timing' /\ Progress
<1> DEFINE V == plan.victims
           deferred == \E v \in V : CheckpointCost[v] > 0
           freed == {v \in V : CheckpointCost[v] = 0}
           written == V \ freed
           aims == [v \in Jobs |-> IF deferred /\ v \in V THEN j ELSE target[v]]
           parked == {v \in freed : aims[v] # None}
           M == {Event(now + CheckpointCost[v], "JOB_CHECKPOINT_COMPLETE", v, gen[v]) : v \in written}
           T == UNION {AgingTick(v, Accrued(v)) : v \in freed \ parked}
           N == M \cup T
<1>1. Types /\ V \subseteq Jobs /\ \A v \in V : status[v] = "running"
  BY PlanIs DEF Inv, Core, EligibleVictims
<1>2. /\ acc' = [v \in Jobs |-> IF v \in V THEN Accrued(v) ELSE acc[v]]
      /\ status' = [v \in Jobs |-> IF v \in freed THEN "pending"
                                   ELSE IF v \in written THEN "checkpointing" ELSE status[v]]
      /\ lastStart' = [v \in Jobs |-> IF v \in V THEN None ELSE lastStart[v]]
      /\ heap' = heap \cup N /\ gen' = gen
  BY DEF PreemptFor
<1>3. TickSet(T)
  <2>1. freed \ parked \in SUBSET Jobs
    BY <1>1
  <2> HIDE DEF freed, parked
  <2> DEFINE R == freed \ parked
  <2>2. R \in SUBSET Jobs
    BY <2>1
  <2> HIDE DEF R
  <2>3. TickSet(UNION {AgingTick(v, Accrued(v)) : v \in R})
    BY <1>1, <2>2, TicksAre
  <2> QED  BY <2>3 DEF R
<1>4. \A n \in M : n.kind # "JOB_COMPLETE"
  BY DEF Event
<1>5. \A n \in N : n.kind # "JOB_COMPLETE"
  <2> HIDE DEF M, T
  <2> QED  BY <1>3, <1>4 DEF TickSet
<1>6. \A i \in Jobs : acc[i] <= Accrued(i) /\ Accrued(i) <= scenario.duration[i] /\ Accrued(i) \in Nat /\ acc[i] \in Nat
  BY AccruedBounded
<1>7. \A i \in V : i \in freed \/ i \in written
  OBVIOUS
<1>8. \A i \in Jobs \ V : i \notin freed /\ i \notin written
  OBVIOUS
<1> HIDE DEF N, freed, written, V
<1>9. \A i \in Jobs : Kept(i, N) \/ Stopped(i)
  BY <1>2, <1>5, <1>6, <1>7, <1>8 DEF Kept, Stopped
<1>10. Queued' \subseteq Queued \cup N
  BY <1>2 DEF Queued
<1>11. Timing'
  BY <1>9, <1>10, TimingKept
<1>12. Progress
  BY <1>1, <1>2, <1>6, <1>7, <1>8 DEF Progress
<1> QED  BY <1>11, <1>12

\* The steps of a pass keep the timing and all progress.
LEMMA DispatchTiming ==
  ASSUME Inv, Timing, Dispatch \/ Retry \/ Resume
  PROVE  Timing' /\ Progress
<1>1. Core /\ Types /\ pending \subseteq Jobs /\ UNCHANGED <<scenario, batch>>
  BY DEF Inv, Core, Types, Dispatch, Retry, Resume
<1>2. \/ \E j \in pending : StartIfPlaced(j, PlaceNow(j))
      \/ \E j \in pending : \E plan \in BestPlans(j) : PreemptFor(j, plan)
  <2>1. CASE Dispatch
    <3>1. PICK j \in Foremost(todo) :
            \/ StartIfPlaced(j, PlaceNow(j))
            \/ \E plan \in BestPlans(j) : PreemptFor(j, plan)
      BY <2>1 DEF Dispatch
    <3>2. j \in pending
      BY <1>1, <2>1, ForemostIn DEF Core, Pass, PassTriesQueuedJobs, Dispatch
    <3> QED  BY <3>1, <3>2
  <2>2. CASE Retry
    <3>1. incoming \in pending
      BY <1>1, <2>2, NoneIsNot DEF Core, Pass, PassTriesQueuedJobs, Retry
    <3> QED  BY <2>2, <3>1 DEF Retry
  <2>3. CASE Resume
    <3>1. PICK j \in Foremost(todo) : StartIfPlaced(j, PlaceNow(j))
      BY <2>3 DEF Resume
    <3>2. j \in pending
      BY <1>1, <2>3, ForemostIn DEF Core, Pass, PassTriesQueuedJobs, Resume
    <3> QED  BY <3>1, <3>2
  <2> QED  BY <2>1, <2>2, <2>3
<1>3. ASSUME NEW j \in pending, StartIfPlaced(j, PlaceNow(j)) PROVE Timing' /\ Progress
  <2>1. CASE PlaceNow(j) # {}
    BY <1>1, <1>3, <2>1, StartTiming DEF StartIfPlaced
  <2>2. CASE PlaceNow(j) = {}
    <3>1. UNCHANGED <<heap, jobVars>>
      BY <1>3, <2>2 DEF StartIfPlaced
    <3> QED  BY <1>1, <3>1, IdleTiming DEF Queued
  <2> QED  BY <2>1, <2>2
<1>4. ASSUME NEW j \in pending, NEW plan \in BestPlans(j), PreemptFor(j, plan) PROVE Timing' /\ Progress
  BY <1>1, <1>4, PreemptTiming
<1> QED  BY <1>2, <1>3, <1>4

\* Every step keeps the timing and all progress.
LEMMA TimingStep ==
  ASSUME Inv, Timing, [Next]_vars
  PROVE  Timing' /\ Progress
<1>1. CASE UNCHANGED vars \/ Terminated \/ BeginPass \/ BeginResume \/ EndPass \/ Finish
  <2>1. UNCHANGED <<scenario, heap, batch, jobVars>>
    BY <1>1 DEF vars, loopVars, Terminated, BeginPass, BeginResume, EndPass, Finish
  <2> QED  BY <2>1, IdleTiming DEF Queued
<1>2. ASSUME NEW e \in heap, Discard(e) \/ Pop(e) PROVE Timing' /\ Progress
  <2>1. UNCHANGED <<scenario, jobVars>> /\ Queued' \subseteq Queued
    BY <1>2 DEF Discard, Pop, Queued
  <2> QED  BY <2>1, IdleTiming
<1>3. ASSUME NEW e \in batch, Handle(e) PROVE Timing' /\ Progress
  BY <1>3, QuietTimingSteps, CompleteTiming, CheckpointTiming, RestartTiming, FailTiming DEF Handle
<1> QED  BY <1>1, <1>2, <1>3, DispatchTiming DEF Next, Step

\* The timing is right when the simulation starts.
LEMMA InitTiming == Init => Timing
<1> SUFFICES ASSUME Init, NEW j \in Jobs
             PROVE  /\ status[j] # "running" /\ lastStart[j] = None /\ acc[j] <= scenario.duration[j]
  BY DEF Timing
<1>1. scenario.duration[j] \in Nat /\ acc[j] = 0
  BY EngineAssumption DEF Init
<1> QED  BY <1>1 DEF Init

\* The timing is an invariant.
LEMMA TimingInvariance == Spec => []Timing
<1>1. Inv /\ Timing /\ [Next]_vars => Timing'
  BY TimingStep
<1> QED  BY <1>1, InitTiming, Invariance, PTL DEF Spec

\* Productive runtime never shrinks, and a job completes with its whole duration.
THEOREM ProgressIsConserved == Spec => ProgressConserved
<1>1. Inv /\ Timing /\ [Next]_vars =>
        [\A j \in Jobs :
           /\ acc'[j] >= acc[j]
           /\ status'[j] = "completed" /\ status[j] # "completed" => acc'[j] = scenario.duration[j]]_vars
  BY TimingStep DEF Progress
<1> QED  BY <1>1, TimingInvariance, Invariance, PTL DEF Spec, ProgressConserved

\* The event that ends the present phase of an active job.
LEMMA LiveEventIs ==
  ASSUME Inv, NEW j \in Jobs
  PROVE  /\ status[j] \in Active => \E e : LiveEvents(j) = {e}
         /\ status[j] \notin Active => LiveEvents(j) = {}
<1>1. EventsDistinct /\ Phases
  BY Plain DEF Inv, Core
<1>2. \A e \in LiveEvents(j) : /\ e \in Queued /\ e.kind \in Timers /\ e.id = j /\ e.gen = gen[j]
                               /\ status[j] = Awaited(e.kind) /\ status[j] \in Active
  BY TimerKinds DEF LiveEvents, IsLive
<1>3. \A e, f \in LiveEvents(j) : e = f
  <2> SUFFICES ASSUME NEW e \in LiveEvents(j), NEW f \in LiveEvents(j) PROVE e = f
    OBVIOUS
  <2>1. e.kind = f.kind
    BY <1>2 DEF Awaited, Timers
  <2> QED  BY <1>1, <1>2, <2>1 DEF EventsDistinct
<1>4. ASSUME status[j] \in Active PROVE \E e : e \in LiveEvents(j)
  <2>1. PICK kind \in Timers : Awaited(kind) = status[j] /\ gen[j] \in GensIn(Queued, kind, j)
    BY <1>1, <1>4 DEF Phases, Active, Awaited, Timers
  <2>2. PICK e \in Queued : e.kind = kind /\ e.id = j /\ e.gen = gen[j]
    BY <2>1 DEF GensIn
  <2> QED  BY <2>1, <2>2, TimerKinds DEF LiveEvents, IsLive
<1> QED  BY <1>2, <1>3, <1>4

\* Exactly one queued event ends the present phase, and it is due when the phase is over.
THEOREM LiveEventUnique == Spec => []OneLiveEvent
<1>1. Inv /\ Timing => OneLiveEvent
  <2> SUFFICES ASSUME Inv, Timing, NEW j \in Jobs
               PROVE  /\ Cardinality(LiveEvents(j)) = IF status[j] \in Active THEN 1 ELSE 0
                      /\ status[j] = "running" =>
                           \A e \in LiveEvents(j) : e.time = lastStart[j] + scenario.duration[j] - acc[j]
    BY DEF OneLiveEvent
  <2>1. Cardinality(LiveEvents(j)) = IF status[j] \in Active THEN 1 ELSE 0
    <3>1. CASE status[j] \in Active
      <4>1. PICK e : LiveEvents(j) = {e}
        BY <3>1, LiveEventIs
      <4> QED  BY <3>1, <4>1, FS_Singleton
    <3>2. CASE status[j] \notin Active
      BY <3>2, LiveEventIs, FS_EmptySet
    <3> QED  BY <3>1, <3>2
  <2>2. ASSUME status[j] = "running", NEW e \in LiveEvents(j)
        PROVE  e.time = lastStart[j] + scenario.duration[j] - acc[j]
    <3>1. e \in Queued /\ e.kind = "JOB_COMPLETE" /\ e.id = j /\ e.gen = gen[j]
      BY <2>2, TimerKinds DEF LiveEvents, IsLive, Awaited, Timers
    <3> QED  BY <2>2, <3>1 DEF Timing
  <2> QED  BY <2>1, <2>2
<1> QED  BY <1>1, Invariance, TimingInvariance, PTL

-----------------------------------------------------------------------------
(* Reservations and the victims they wait for.                             *)

\* A reserved GPU is free, or held by a victim that aims at the reservation.
Aims ==
  \A h \in Jobs : \A g \in reserved[h] : owner[g] # None => target[owner[g]] = h

\* A reservation is a gang its job could be placed on.
ReservedGangs ==
  \A h \in Jobs : reserved[h] # {} => reserved[h] \subseteq Compatible[h] /\ IsGang(h, reserved[h])

\* What holds of reservations in every state.
Claims == Aims /\ ReservedGangs

\* A victim of h still writes its checkpoint.
AwaitedBy(h) == \E v \in Jobs : target[v] = h /\ status[v] = "checkpointing"

\* Outside the handlers, a reservation waits for a victim unless the pass has still
\* to try its job.
Waits ==
  \A h \in Jobs : reserved[h] # {} =>
    \/ pc = "handle"
    \/ pc \in {"dispatch", "retry"} /\ h \in todo
    \/ AwaitedBy(h)
    \/ pc = "retry" /\ h = incoming

\* While no job holds a GPU, the jobs that the pass has tried do not fit.
Idle ==
  ~Busy => /\ pc = "dispatch" => \A j \in pending \ todo : PlaceNow(j) = {}
           /\ pc \in {"resume", "pop", "done"} => \A j \in pending : PlaceNow(j) = {}

\* The run is done only when no event is queued.
Ended == pc = "done" => Queued = {}

\* Places depend on the owners, the reservations and the nodes only.
LEMMA PlaceSame ==
  ASSUME UNCHANGED nodeVars, NEW j, NEW occupied, NEW scope
  PROVE  Place(j, occupied, scope)' = Place(j, occupied, scope)
<1>1. \A n : Usable(n)' = Usable(n)
  BY DEF Usable, nodeVars
<1>2. Eligible(j, occupied, scope)' = Eligible(j, occupied, scope)
  BY <1>1 DEF Eligible
<1> QED  BY <1>2 DEF Place

\* A step that keeps owners, reservations and nodes keeps what fits.
LEMMA PlaceNowSame ==
  ASSUME UNCHANGED <<owner, reserved, nodeVars>>, NEW j
  PROVE  PlaceNow(j)' = PlaceNow(j)
<1> DEFINE occ == OccupiedFor(j)'
<1>1. PlaceNow(j)' = Place(j, occ, GPUs)
  BY PlaceSame DEF PlaceNow
<1>2. occ = OccupiedFor(j)
  BY DEF OccupiedFor, ReservedElsewhere
<1> QED  BY <1>1, <1>2 DEF PlaceNow

\* Steps that release GPUs and drop reservations.
LEMMA ClaimsShrink ==
  ASSUME Types, Claims,
         \A g \in GPUs : owner'[g] \in {owner[g], None},
         \A h \in Jobs : reserved'[h] \in {reserved[h], {}},
         \A v \in Jobs : target'[v] # target[v] => target[v] \in Jobs /\ reserved'[target[v]] = {}
  PROVE  Claims'
<1>1. ASSUME NEW h \in Jobs, NEW g \in reserved'[h], owner'[g] # None PROVE target'[owner'[g]] = h
  <2>1. g \in reserved[h] /\ g \in GPUs
    BY <1>1 DEF Types
  <2>2. owner'[g] = owner[g] /\ owner[g] \in Jobs
    BY <1>1, <2>1 DEF Types
  <2>3. target[owner[g]] = h
    BY <1>1, <2>1, <2>2 DEF Claims, Aims
  <2> QED  BY <1>1, <2>2, <2>3
<1>2. Aims'
  BY <1>1 DEF Aims
<1>3. ReservedGangs'
  BY DEF Claims, ReservedGangs, IsGang, SingleVendor
<1> QED  BY <1>2, <1>3 DEF Claims

\* Dropping reservations leaves the others, and the aims at them.
LEMMA DropShrinks ==
  ASSUME Inv, NEW T \in SUBSET Jobs, DropReservations(T)
  PROVE  /\ \A h \in Jobs : reserved'[h] \in {reserved[h], {}}
         /\ \A v \in Jobs : target'[v] # target[v] => target[v] \in Jobs /\ reserved'[target[v]] = {}
BY DEF DropReservations, TargetsWithout, Holders, Inv, Core, Types

\* Handlers make no reservation.
LEMMA HandleClaims ==
  ASSUME Inv, Claims, NEW e, Handle(e)
  PROVE  Claims'
<1>1. Types
  BY DEF Inv, Core
<1>2. CASE Arrive(e) \/ Tick(e) \/ StaleTimer(e) \/ CompleteRestart(e) \/ Restore(e)
  <2>1. UNCHANGED <<owner, target, reserved>>
    BY <1>2 DEF Arrive, Tick, StaleTimer, CompleteRestart, Restore, jobVars, queueVars
  <2> QED  BY <1>1, <2>1, ClaimsShrink
<1>3. CASE Complete(e) \/ CompleteCheckpoint(e)
  <2>1. Release({e.id}) /\ UNCHANGED <<target, reserved>>
    BY <1>3 DEF Complete, CompleteCheckpoint, queueVars
  <2>2. \A g \in GPUs : owner'[g] \in {owner[g], None}
    BY <1>1, <2>1 DEF Release, Types
  <2> QED  BY <1>1, <2>1, <2>2, ClaimsShrink
<1>4. CASE Drain(e)
  <2>1. UNCHANGED owner /\ DropReservations(Affected(e.id)) /\ Affected(e.id) \in SUBSET Jobs
    BY <1>4 DEF Drain, jobVars, Affected
  <2> QED  BY <1>1, <2>1, DropShrinks, ClaimsShrink
<1>5. CASE Fail(e)
  <2>1. DropReservations(Affected(e.id)) /\ Affected(e.id) \in SUBSET Jobs
        /\ \A g \in GPUs : owner'[g] \in {owner[g], None}
    BY <1>1, <1>5 DEF Fail, Affected, Release, Types
  <2> QED  BY <1>1, <2>1, DropShrinks, ClaimsShrink
<1> QED  BY <1>2, <1>3, <1>4, <1>5 DEF Handle

\* A job that starts gives up its own reservation only.
LEMMA StartClaims ==
  ASSUME Inv, Claims, NEW j \in pending, NEW P, P = PlaceNow(j), P # {}, StartJob(j, P)
  PROVE  /\ Claims'
         /\ reserved'[j] = {} /\ status'[j] \in Active
         /\ \A h \in Jobs \ {j} : reserved'[h] = reserved[h] /\ (AwaitedBy(h) => AwaitedBy(h)')
<1>1. Types /\ j \in Jobs
  BY DEF Inv, Core, Types
<1>2. \A g \in P : g \in GPUs /\ g \notin ReservedElsewhere(j)
  BY <1>1, PlaceNowIs
<1>3. /\ owner' = [g \in GPUs |-> IF g \in P THEN j ELSE owner[g]]
      /\ status' \in {[status EXCEPT ![j] = "restarting"], [status EXCEPT ![j] = "running"]}
      /\ reserved' = [h \in Jobs |-> IF h \in {j} THEN {} ELSE reserved[h]]
      /\ target' = [v \in Jobs |-> IF target[v] \in Holders({j}) THEN None ELSE target[v]]
  BY DEF StartJob, DropReservations, TargetsWithout
<1>4. reserved'[j] = {} /\ \A h \in Jobs \ {j} : reserved'[h] = reserved[h]
  BY <1>1, <1>3
<1>5. \A v \in Jobs : target[v] # j => target'[v] = target[v]
  BY <1>3 DEF Holders
<1>6. status'[j] \in Active /\ \A v \in Jobs \ {j} : status'[v] = status[v]
  BY <1>1, <1>3 DEF Types, Active
<1>7. status[j] = "pending"
  BY <1>1, Plain DEF InOneQueue
<1>8. ASSUME NEW h \in Jobs, NEW g \in reserved'[h], owner'[g] # None PROVE target'[owner'[g]] = h
  <2>1. h # j /\ g \in reserved[h] /\ g \in GPUs
    BY <1>1, <1>4, <1>8 DEF Types
  <2>2. g \notin P
    BY <1>2, <2>1 DEF ReservedElsewhere
  <2>3. owner'[g] = owner[g] /\ owner[g] \in Jobs
    BY <1>1, <1>3, <1>8, <2>1, <2>2 DEF Types
  <2>4. target[owner[g]] = h
    BY <1>8, <2>1, <2>3 DEF Claims, Aims
  <2> QED  BY <1>5, <2>1, <2>3, <2>4
<1>9. ReservedGangs'
  BY <1>4 DEF Claims, ReservedGangs, IsGang, SingleVendor
<1>10. ASSUME NEW h \in Jobs \ {j}, AwaitedBy(h) PROVE AwaitedBy(h)'
  BY <1>5, <1>6, <1>7, <1>10 DEF AwaitedBy
<1> QED  BY <1>4, <1>6, <1>8, <1>9, <1>10 DEF Claims, Aims

\* A job with a reservation that does not fit waits for one of its victims.
LEMMA StuckReservation ==
  ASSUME Inv, Claims, NEW j \in Jobs, reserved[j] # {}, PlaceNow(j) = {}
  PROVE  AwaitedBy(j)
<1> SUFFICES ASSUME ~AwaitedBy(j) PROVE FALSE
  OBVIOUS
<1>1. Types /\ Reserving
  BY Plain DEF Inv, Core
<1>2. ASSUME NEW g \in reserved[j]
      PROVE  g \in Compatible[j] /\ Usable(NodeOf[g]) /\ owner[g] = None /\ g \notin ReservedElsewhere(j) /\ g \in GPUs
  <2>1. g \in GPUs /\ g \in Compatible[j] /\ Usable(NodeOf[g])
    BY <1>1, <1>2 DEF Types, Claims, ReservedGangs, Reserving
  <2>2. owner[g] = None
    <3> SUFFICES ASSUME owner[g] # None PROVE FALSE
      OBVIOUS
    <3>1. owner[g] \in Jobs /\ status[owner[g]] = "checkpointing" /\ target[owner[g]] = j
      BY <1>1, <1>2, <2>1 DEF Types, Reserving, Claims, Aims
    <3> QED  BY <3>1 DEF AwaitedBy
  <2>3. g \notin ReservedElsewhere(j)
    BY <1>1, <1>2 DEF Reserving, ReservedElsewhere
  <2> QED  BY <2>1, <2>2, <2>3
<1>3. reserved[j] \in SUBSET HostsFor(j, OccupiedFor(j), GPUs)
  BY <1>2 DEF HostsFor, OccupiedFor
<1>4. IsGang(j, reserved[j])
  BY DEF Claims, ReservedGangs
<1> QED  BY <1>1, <1>3, <1>4, OccupiedIs, PlaceIs DEF PlaceNow

\* An eviction reserves a gang that waits for its victims, or frees one at once.
LEMMA PreemptClaims ==
  ASSUME Inv, Claims, NEW j \in pending, NEW plan \in BestPlans(j), PlaceNow(j) = {}, PreemptFor(j, plan), pc = "dispatch"
  PROVE  /\ Claims'
         /\ \A h \in Jobs \ {j} : reserved'[h] = reserved[h] /\ (AwaitedBy(h) => AwaitedBy(h)')
         /\ \/ pc' = "retry" /\ incoming' = j /\ PlaceNow(j)' # {}
            \/ pc' = "dispatch" /\ AwaitedBy(j)'
<1> DEFINE V == plan.victims
           deferred == \E v \in V : CheckpointCost[v] > 0
           freed == {v \in V : CheckpointCost[v] = 0}
           written == V \ freed
           aims == [v \in Jobs |-> IF deferred /\ v \in V THEN j ELSE target[v]]
<1>1. Types /\ j \in Jobs /\ Reserving
  BY Plain DEF Inv, Core, Types
<1>2. /\ reserved' = IF deferred THEN [reserved EXCEPT ![j] = plan.placement] ELSE reserved
      /\ target' = aims
      /\ owner' = [g \in GPUs |-> IF owner[g] \in freed THEN None ELSE owner[g]]
      /\ status' = [v \in Jobs |-> IF v \in freed THEN "pending"
                                   ELSE IF v \in written THEN "checkpointing" ELSE status[v]]
      /\ pc' = IF deferred THEN pc ELSE "retry"
      /\ incoming' = IF deferred THEN None ELSE j
      /\ UNCHANGED nodeVars
  BY DEF PreemptFor, Release
<1>3. /\ V \in SUBSET {v \in Jobs : status[v] = "running"}
      /\ plan.placement \in SUBSET GPUs /\ IsGang(j, plan.placement)
      /\ \A g \in plan.placement : /\ g \in Compatible[j] /\ Usable(NodeOf[g]) /\ g \notin ReservedElsewhere(j)
                                   /\ owner[g] \in V \cup {None}
  BY <1>1, PlanIs DEF EligibleVictims
<1>4. V = freed \cup written /\ (\A v \in V : CheckpointCost[v] \in Nat)
      /\ (~deferred => freed = V) /\ (deferred => \E v \in written : TRUE)
  <2>1. \A v \in V : CheckpointCost[v] \in Nat
    BY <1>3, EngineAssumption
  <2> QED  BY <2>1
<1>5. \A v \in Jobs : status[v] # "running" => target'[v] = target[v] /\ status'[v] = status[v]
  <2>1. \A v \in V : status[v] = "running"
    BY <1>3
  <2> HIDE DEF V
  <2> QED  BY <1>2, <2>1
<1>6. \A h \in Jobs \ {j} : reserved'[h] = reserved[h]
  BY <1>1, <1>2 DEF Types
<1>7. ASSUME NEW h \in Jobs \ {j}, AwaitedBy(h) PROVE AwaitedBy(h)'
  <2>1. PICK v \in Jobs : target[v] = h /\ status[v] = "checkpointing"
    BY <1>7 DEF AwaitedBy
  <2>2. target'[v] = h /\ status'[v] = "checkpointing"
    BY <1>5, <2>1
  <2> QED  BY <2>2 DEF AwaitedBy
<1> HIDE DEF freed, written, V, deferred
<1>8. ASSUME NEW h \in Jobs, NEW g \in reserved'[h], owner'[g] # None PROVE target'[owner'[g]] = h
  <2>1. g \in GPUs /\ (deferred /\ h = j => g \in plan.placement) /\ (~(deferred /\ h = j) => g \in reserved[h])
    BY <1>1, <1>2, <1>3, <1>8 DEF Types
  <2>2. owner'[g] = owner[g] /\ owner[g] \notin freed /\ owner[g] \in Jobs
    BY <1>1, <1>2, <1>8, <2>1 DEF Types
  <2>3. CASE deferred /\ h = j
    <3>1. owner[g] \in V
      BY <1>3, <1>8, <2>1, <2>2, <2>3
    <3> QED  BY <1>2, <2>2, <2>3, <3>1
  <2>4. CASE ~(deferred /\ h = j)
    <3>1. target[owner[g]] = h /\ status[owner[g]] = "checkpointing"
      BY <1>1, <1>8, <2>1, <2>2, <2>4 DEF Claims, Aims, Reserving
    <3> QED  BY <1>5, <2>2, <3>1
  <2> QED  BY <2>3, <2>4
<1>9. ReservedGangs'
  <2> SUFFICES ASSUME NEW h \in Jobs, reserved'[h] # {}
               PROVE  reserved'[h] \subseteq Compatible[h] /\ IsGang(h, reserved'[h])
    BY DEF ReservedGangs, IsGang, SingleVendor
  <2>1. reserved'[h] = reserved[h] \/ (h = j /\ reserved'[h] = plan.placement)
    BY <1>1, <1>2, <1>6
  <2> QED  BY <1>3, <2>1 DEF Claims, ReservedGangs
<1>10. Claims'
  BY <1>8, <1>9 DEF Claims, Aims
<1>11. CASE deferred
  <2>1. PICK v \in written : v \in V
    BY <1>4, <1>11
  <2>2. v \in Jobs /\ target'[v] = j /\ status'[v] = "checkpointing"
    <3>1. v \in Jobs /\ v \notin freed
      BY <1>3, <2>1 DEF written
    <3> QED  BY <1>2, <1>11, <2>1, <3>1
  <2>3. pc' = "dispatch" /\ AwaitedBy(j)'
    BY <1>2, <1>11, <2>2 DEF AwaitedBy
  <2> QED  BY <1>6, <1>7, <1>10, <2>3
<1>12. CASE ~deferred
  <2>1. pc' = "retry" /\ incoming' = j /\ reserved' = reserved /\ freed = V
    BY <1>2, <1>4, <1>12
  <2> DEFINE occ == OccupiedFor(j)'
  <2>2. \A g \in plan.placement : g \notin occ
    <3>1. \A g \in plan.placement : owner'[g] = None
      BY <1>2, <1>3, <2>1
    <3> QED  BY <1>3, <2>1, <3>1 DEF OccupiedFor, ReservedElsewhere
  <2>3. occ \in SUBSET GPUs
    BY <1>1, <2>1 DEF OccupiedFor, ReservedElsewhere, Types
  <2>4. PlaceNow(j)' = Place(j, occ, GPUs)
    BY <1>2, PlaceSame DEF PlaceNow
  <2> HIDE DEF occ
  <2>5. plan.placement \in SUBSET HostsFor(j, occ, GPUs)
    BY <1>3, <2>2 DEF HostsFor
  <2>6. Place(j, occ, GPUs) # {}
    BY <1>1, <1>3, <2>3, <2>5, PlaceIs
  <2>7. PlaceNow(j)' # {}
    BY <2>4, <2>6
  <2> QED  BY <1>6, <1>7, <1>10, <2>1, <2>7
<1> QED  BY <1>11, <1>12

\* What holds of reservations and of idle capacity along a pass.
Settled == Claims /\ Waits /\ EvictionPaysOff /\ Idle /\ Ended

\* A step that changes only the queue of events and where the loop is.
LEMMA SameClaims ==
  ASSUME Inv, Claims, UNCHANGED <<jobVars, queueVars, nodeVars>>
  PROVE  /\ Claims' /\ reserved' = reserved /\ pending' = pending
         /\ \A h \in Jobs : AwaitedBy(h)' <=> AwaitedBy(h)
         /\ \A j : PlaceNow(j)' = PlaceNow(j)
         /\ Busy' <=> Busy
<1>1. UNCHANGED <<status, owner, target, reserved, pending>>
  BY DEF jobVars, queueVars
<1>2. Claims'
  BY <1>1, ClaimsShrink DEF Inv, Core
<1>3. \A j : PlaceNow(j)' = PlaceNow(j)
  BY <1>1, PlaceNowSame
<1> QED  BY <1>1, <1>2, <1>3 DEF AwaitedBy, Busy

\* While events are handled nothing is promised but the claims.
LEMMA HandleSettled ==
  ASSUME Inv, Settled, NEW e, Handle(e)
  PROVE  Settled'
<1>1. pc' = "handle"
  BY DEF Handle, Arrive, Tick, StaleTimer, Complete, CompleteCheckpoint, CompleteRestart, Restore, Drain,
       Fail, Take
<1>2. Claims'
  BY HandleClaims DEF Settled
<1> QED  BY <1>1, <1>2 DEF Settled, Waits, EvictionPaysOff, Idle, Ended

\* The steps between the parts of the loop move from one promise to the next.
LEMMA LoopSettled ==
  ASSUME Inv, Settled,
         \/ UNCHANGED vars \/ Terminated \/ BeginPass \/ BeginResume \/ EndPass \/ Finish
         \/ \E e \in heap : Discard(e) \/ Pop(e)
  PROVE  Settled'
<1>1. UNCHANGED <<jobVars, queueVars, nodeVars>>
  BY DEF vars, Terminated, BeginPass, BeginResume, EndPass, Finish, Discard, Pop
<1>2. /\ Claims' /\ reserved' = reserved /\ pending' = pending
      /\ \A h \in Jobs : AwaitedBy(h)' <=> AwaitedBy(h)
      /\ \A j : PlaceNow(j)' = PlaceNow(j)
      /\ Busy' <=> Busy
  BY <1>1, SameClaims DEF Settled
<1>3. \A h \in Jobs : reserved[h] # {} => h \in pending
  BY Plain DEF Reserving
<1>4. CASE UNCHANGED vars \/ Terminated
  <2>1. UNCHANGED <<pc, todo, incoming, heap, batch>>
    BY <1>4 DEF Terminated, vars, loopVars
  <2> QED  BY <1>2, <2>1 DEF Settled, Waits, EvictionPaysOff, Idle, Ended, Queued
<1>5. CASE BeginPass
  <2>1. pc' = "dispatch" /\ todo' = pending
    BY <1>5 DEF BeginPass
  <2> QED  BY <1>2, <1>3, <2>1 DEF Settled, Waits, EvictionPaysOff, Idle, Ended
<1>6. CASE BeginResume
  <2>1. pc = "dispatch" /\ todo = {} /\ pc' = "resume"
    BY <1>6 DEF BeginResume
  <2> QED  BY <1>2, <2>1 DEF Settled, Waits, EvictionPaysOff, Idle, Ended
<1>7. CASE EndPass
  <2>1. pc = "resume" /\ pc' = "pop"
    BY <1>7 DEF EndPass
  <2> QED  BY <1>2, <2>1 DEF Settled, Waits, EvictionPaysOff, Idle, Ended
<1>8. CASE Finish
  <2>1. pc = "pop" /\ pc' = "done" /\ heap = {} /\ UNCHANGED <<heap, batch>>
    BY <1>8 DEF Finish
  <2>2. Queued' = {}
    BY <2>1 DEF Inv, Core, EventsTyped, Queued
  <2> QED  BY <1>2, <2>1, <2>2 DEF Settled, Waits, EvictionPaysOff, Idle, Ended
<1>9. CASE \E e \in heap : Pop(e)
  <2>1. pc' = "handle"
    BY <1>9 DEF Pop
  <2> QED  BY <1>2, <2>1 DEF Settled, Waits, EvictionPaysOff, Idle, Ended
<1>10. CASE \E e \in heap : Discard(e)
  <2>1. pc = "pop" /\ pc' = "pop"
    BY <1>10 DEF Discard
  <2> QED  BY <1>2, <2>1 DEF Settled, Waits, EvictionPaysOff, Idle, Ended
<1> QED  BY <1>4, <1>5, <1>6, <1>7, <1>8, <1>9, <1>10

\* One attempt settles its job: it holds GPUs, or does not fit and waits for a victim
\* if it has a reservation.
LEMMA AttemptSettles ==
  ASSUME Inv, Claims, NEW j \in pending, StartIfPlaced(j, PlaceNow(j))
  PROVE  /\ Claims'
         /\ \A h \in Jobs \ {j} : reserved'[h] = reserved[h] /\ (AwaitedBy(h) => AwaitedBy(h)')
         /\ reserved'[j] # {} => AwaitedBy(j)'
         /\ \/ Busy'
            \/ /\ PlaceNow(j) = {} /\ pending' = pending
               /\ Busy' <=> Busy
               /\ \A i : PlaceNow(i)' = PlaceNow(i)
         /\ PlaceNow(j) # {} => Busy'
<1>1. j \in Jobs
  BY DEF Inv, Core, Types
<1>2. CASE PlaceNow(j) # {}
  <2> DEFINE P == PlaceNow(j)
  <2>1. P = PlaceNow(j) /\ P # {} /\ StartJob(j, P)
    BY <1>2 DEF StartIfPlaced
  <2> HIDE DEF P
  <2>2. /\ Claims' /\ reserved'[j] = {} /\ status'[j] \in Active
        /\ \A h \in Jobs \ {j} : reserved'[h] = reserved[h] /\ (AwaitedBy(h) => AwaitedBy(h)')
    BY <2>1, StartClaims
  <2>3. Busy'
    BY <1>1, <2>2 DEF Busy
  <2> QED  BY <2>2, <2>3
<1>3. CASE PlaceNow(j) = {}
  <2>1. UNCHANGED <<jobVars, queueVars, nodeVars>>
    BY <1>3 DEF StartIfPlaced
  <2>2. /\ Claims' /\ reserved' = reserved /\ pending' = pending
        /\ \A h \in Jobs : AwaitedBy(h)' <=> AwaitedBy(h)
        /\ \A i : PlaceNow(i)' = PlaceNow(i)
        /\ Busy' <=> Busy
    BY <2>1, SameClaims
  <2>3. reserved[j] # {} => AwaitedBy(j)
    BY <1>1, <1>3, StuckReservation
  <2> QED  BY <1>1, <1>3, <2>2, <2>3
<1> QED  BY <1>2, <1>3

\* The next job of the queue is settled.
LEMMA DispatchSettled ==
  ASSUME Inv, Settled, Dispatch
  PROVE  Settled'
<1>1. PICK j \in Foremost(todo) :
        /\ todo' = todo \ {j}
        /\ \/ /\ PlaceNow(j) # {} \/ BestPlans(j) = {}
              /\ StartIfPlaced(j, PlaceNow(j))
              /\ UNCHANGED <<pc, incoming>>
           \/ /\ PlaceNow(j) = {}
              /\ \E plan \in BestPlans(j) : PreemptFor(j, plan)
  BY DEF Dispatch
<1>2. pc = "dispatch" /\ j \in pending /\ j \in Jobs
  BY ForemostIn DEF Dispatch, Inv, Core, Pass, PassTriesQueuedJobs, Types
<1>3. \A h \in Jobs : reserved[h] # {} => h \in todo \/ AwaitedBy(h)
  BY <1>2 DEF Settled, Waits
<1>4. CASE StartIfPlaced(j, PlaceNow(j)) /\ UNCHANGED <<pc, incoming>>
  <2>1. /\ Claims'
        /\ \A h \in Jobs \ {j} : reserved'[h] = reserved[h] /\ (AwaitedBy(h) => AwaitedBy(h)')
        /\ reserved'[j] # {} => AwaitedBy(j)'
        /\ \/ Busy'
           \/ /\ PlaceNow(j) = {} /\ pending' = pending
              /\ Busy' <=> Busy
              /\ \A i : PlaceNow(i)' = PlaceNow(i)
    BY <1>2, <1>4, AttemptSettles DEF Settled
  <2>2. Waits'
    BY <1>1, <1>2, <1>3, <1>4, <2>1 DEF Waits
  <2>3. Idle'
    BY <1>1, <1>2, <1>4, <2>1 DEF Idle, Settled
  <2> QED  BY <1>2, <1>4, <2>1, <2>2, <2>3 DEF Settled, EvictionPaysOff, Ended
<1>5. CASE PlaceNow(j) = {} /\ \E plan \in BestPlans(j) : PreemptFor(j, plan)
  <2>1. PICK plan \in BestPlans(j) : PreemptFor(j, plan)
    BY <1>5
  <2>2. /\ Claims'
        /\ \A h \in Jobs \ {j} : reserved'[h] = reserved[h] /\ (AwaitedBy(h) => AwaitedBy(h)')
        /\ \/ pc' = "retry" /\ incoming' = j /\ PlaceNow(j)' # {}
           \/ pc' = "dispatch" /\ AwaitedBy(j)'
    BY <1>2, <1>5, <2>1, PreemptClaims DEF Settled
  <2>3. Waits'
    BY <1>1, <1>2, <1>3, <2>2 DEF Waits
  <2>4. AwaitedBy(j)' => Busy'
    BY DEF AwaitedBy, Busy, Active
  <2>5. EvictionPaysOff' /\ Idle' /\ Ended'
    BY <2>2, <2>4 DEF EvictionPaysOff, Idle, Ended
  <2> QED  BY <2>2, <2>3, <2>5 DEF Settled
<1> QED  BY <1>1, <1>4, <1>5

\* The job that preempted starts.
LEMMA RetrySettled ==
  ASSUME Inv, Settled, Retry
  PROVE  Settled'
<1>1. pc = "retry" /\ pc' = "dispatch" /\ todo' = todo
  BY DEF Retry
<1>2. incoming \in pending /\ incoming \in Jobs /\ PlaceNow(incoming) # {}
  BY <1>1, NoneIsNot DEF Inv, Core, Pass, PassTriesQueuedJobs, Settled, EvictionPaysOff
<1>3. PICK j \in pending : j = incoming /\ j \in Jobs
  BY <1>2
<1>4. StartIfPlaced(j, PlaceNow(j)) /\ PlaceNow(j) # {}
  BY <1>2, <1>3 DEF Retry
<1>5. \A h \in Jobs \ {j} : reserved[h] # {} => h \in todo \/ AwaitedBy(h)
  BY <1>1, <1>3 DEF Settled, Waits
<1>6. /\ Claims' /\ Busy'
      /\ \A h \in Jobs \ {j} : reserved'[h] = reserved[h] /\ (AwaitedBy(h) => AwaitedBy(h)')
      /\ reserved'[j] # {} => AwaitedBy(j)'
  BY <1>4, AttemptSettles DEF Settled
<1>7. Waits'
  BY <1>1, <1>3, <1>5, <1>6 DEF Waits
<1> QED  BY <1>1, <1>6, <1>7 DEF Settled, EvictionPaysOff, Idle, Ended

\* A job that was queued during the pass is settled.
LEMMA ResumeSettled ==
  ASSUME Inv, Settled, Resume
  PROVE  Settled'
<1>1. PICK j \in Foremost(todo) : StartIfPlaced(j, PlaceNow(j))
  BY DEF Resume
<1>2. pc = "resume" /\ pc' = "resume" /\ j \in pending /\ j \in Jobs
  BY ForemostIn DEF Resume, Inv, Core, Pass, PassTriesQueuedJobs, Types
<1>3. \A h \in Jobs : reserved[h] # {} => AwaitedBy(h)
  BY <1>2 DEF Settled, Waits
<1>4. /\ Claims'
      /\ \A h \in Jobs \ {j} : reserved'[h] = reserved[h] /\ (AwaitedBy(h) => AwaitedBy(h)')
      /\ reserved'[j] # {} => AwaitedBy(j)'
      /\ \/ Busy'
         \/ /\ PlaceNow(j) = {} /\ pending' = pending
            /\ Busy' <=> Busy
            /\ \A i : PlaceNow(i)' = PlaceNow(i)
  BY <1>1, <1>2, AttemptSettles DEF Settled
<1>5. Waits'
  BY <1>3, <1>4 DEF Waits
<1>6. Idle'
  BY <1>2, <1>4 DEF Idle, Settled
<1> QED  BY <1>2, <1>4, <1>5, <1>6 DEF Settled, EvictionPaysOff, Ended

\* Every step keeps the promises.
LEMMA SettledStep ==
  ASSUME Inv, Settled, [Next]_vars
  PROVE  Settled'
BY HandleSettled, LoopSettled, DispatchSettled, RetrySettled, ResumeSettled DEF Next, Step

\* Nothing is reserved at first.
LEMMA InitSettled == Init => Settled
BY DEF Init, Settled, Claims, Aims, ReservedGangs, Waits, EvictionPaysOff, Idle, Ended

\* The promises are an invariant.
LEMMA SettledInvariance == Spec => []Settled
<1>1. Inv /\ Settled /\ [Next]_vars => Settled'
  BY SettledStep
<1> QED  BY <1>1, InitSettled, Invariance, PTL DEF Spec

\* Victims that release their GPUs at once make room for the job they were evicted for.
THEOREM EvictionsPayOff == Spec => []EvictionPaysOff
<1>1. Settled => EvictionPaysOff
  BY DEF Settled
<1> QED  BY <1>1, SettledInvariance, PTL

\* Between two instants a reservation waits for one of its victims.
THEOREM ReservationsAwaitVictims == Spec => []ReservationAwaitsVictim
<1>1. Settled => ReservationAwaitsVictim
  BY DEF Settled, Waits, AwaitedBy, ReservationAwaitsVictim
<1> QED  BY <1>1, SettledInvariance, PTL

\* Nothing is left half-way when the queue of events is empty.
THEOREM NothingIsLeftBehind == Spec => []NothingLeftBehind
<1>1. Inv /\ Settled => NothingLeftBehind
  <2> SUFFICES ASSUME Inv, Settled, pc = "done"
               PROVE  /\ \A j \in Jobs : status[j] \in {"pending", "completed"} /\ reserved[j] = {}
                      /\ suspended = {}
                      /\ \A j \in pending : Place(j, {}, GPUs) = {}
    BY DEF NothingLeftBehind
  <2>1. Types /\ Owned /\ Phases /\ VictimsAim
    BY Plain DEF Inv, Core
  <2>2. \A kind \in Timers : \A j \in Jobs : GensIn(Queued, kind, j) = {}
    BY DEF Settled, Ended, GensIn
  <2>3. \A j \in Jobs : status[j] \notin Active
    BY <2>1, <2>2 DEF Phases, Active, Timers
  <2>4. \A j \in Jobs : reserved[j] = {}
    BY <2>3 DEF Settled, Waits, AwaitedBy, Active
  <2>5. suspended = {}
    BY <2>1, <2>4 DEF Types, VictimsAim
  <2>6. \A g \in GPUs : owner[g] = None
    BY <2>1, <2>3 DEF Types, Owned
  <2>7. ASSUME NEW j \in pending PROVE Place(j, {}, GPUs) = {}
    <3>1. OccupiedFor(j) = {}
      BY <2>4, <2>6 DEF OccupiedFor, ReservedElsewhere
    <3>2. PlaceNow(j) = {}
      BY <2>3 DEF Settled, Idle, Busy
    <3> QED  BY <3>1, <3>2 DEF PlaceNow
  <2> QED  BY <2>1, <2>3, <2>4, <2>5, <2>7 DEF Types
<1> QED  BY <1>1, Invariance, SettledInvariance, PTL

-----------------------------------------------------------------------------
(* Priorities in a pass.                                                   *)

\* The effective priority of a job that is not running.
Level(j) == Aged(j, acc[j])

\* The jobs the pass has still to try have no more than the priority of any job that
\* it started, because it tries them in the order of their priorities and the clock
\* stands still.
Ranked ==
  pc \in {"dispatch", "retry"} =>
    /\ pc = "retry" => \A i \in todo : Level(i) <= Level(incoming)
    /\ \A v \in initial : status[v] = "running" =>
         \A i \in todo \cup ({incoming} \ {None}) : Level(i) <= runningPriority[v]

\* A job without new progress has the same level until the clock moves.
LEMMA LevelSame ==
  ASSUME UNCHANGED <<scenario, now>>, NEW i \in Jobs, acc'[i] = acc[i]
  PROVE  Level(i)' = Level(i)
BY DEF Level, Aged

\* Levels and running priorities are numbers.
LEMMA LevelIs ==
  ASSUME Inv, NEW i \in Jobs
  PROVE  Level(i) \in Int /\ runningPriority[i] \in Int
<1>1. Types /\ acc[i] \in Nat
  BY DEF Inv, Core, Types
<1>2. Level(i) \in 0 .. Critical
  BY <1>1, AgedIs DEF Level
<1>3. runningPriority[i] \in 0 .. Critical \cup {None}
  BY <1>1 DEF Types
<1> QED  BY <1>2, <1>3, EngineAssumption DEF Critical

\* The foremost job has the highest level.
LEMMA ForemostLevel ==
  ASSUME Inv, NEW S \in SUBSET pending, NEW j \in Foremost(S), NEW i \in S
  PROVE  Level(i) <= Level(j)
<1>1. i \in Jobs /\ j \in Jobs /\ i \in pending /\ j \in pending
  BY ForemostIn DEF Inv, Core, Types
<1>2. status[i] = "pending" /\ status[j] = "pending"
  BY <1>1, Plain DEF InOneQueue
<1>3. Level(i) \in Int /\ Level(j) \in Int
  BY <1>1, LevelIs
<1>4. EffectivePriority(i) = Level(i) /\ EffectivePriority(j) = Level(j)
  BY <1>2 DEF EffectivePriority, Level
<1>5. CASE i = j
  BY <1>3, <1>5
<1>6. CASE i # j
  <2> DEFINE s == PendingKey(j)
             t == PendingKey(i)
  <2>1. Less(s, t)
    BY <1>6 DEF Foremost
  <2>2. DOMAIN s = 1 .. 3 /\ s[1] = -Level(j) /\ t[1] = -Level(i)
    BY <1>4 DEF PendingKey
  <2> HIDE DEF s, t
  <2>3. PICK k \in 1 .. 3 : s[k] < t[k] /\ \A m \in 1 .. k - 1 : s[m] = t[m]
    BY <2>1, <2>2 DEF Less
  <2>4. s[1] <= t[1]
    <3>1. CASE k = 1
      BY <1>3, <2>2, <2>3, <3>1
    <3>2. CASE k # 1
      BY <1>3, <2>2, <2>3, <3>2
    <3> QED  BY <3>1, <3>2
  <2> QED  BY <1>3, <2>2, <2>4
<1> QED  BY <1>5, <1>6

\* A job that starts in a pass starts at its level.
LEMMA AttemptLevels ==
  ASSUME Inv, NEW j \in pending, StartIfPlaced(j, PlaceNow(j)), UNCHANGED <<scenario, now>>
  PROVE  /\ \A i \in Jobs : Level(i)' = Level(i)
         /\ \A v \in Jobs : status[v] = "running" => status'[v] = "running"
         /\ \A v \in Jobs : status'[v] = "running" =>
              \/ status[v] = "running" /\ runningPriority'[v] = runningPriority[v]
              \/ v = j /\ runningPriority'[v] = Level(j)
<1>1. Types /\ j \in Jobs /\ status[j] = "pending"
  BY Plain DEF Inv, Core, Types, InOneQueue
<1>2. acc' = acc /\ \/ UNCHANGED <<status, runningPriority>>
                    \/ /\ runningPriority' = [runningPriority EXCEPT ![j] = Level(j)]
                       /\ \E s \in {"restarting", "running"} : status' = [status EXCEPT ![j] = s]
  <2>1. EffectivePriority(j) = Level(j)
    BY <1>1 DEF EffectivePriority, Level
  <2>2. CASE PlaceNow(j) # {}
    <3> DEFINE P == PlaceNow(j)
    <3>1. StartJob(j, P)
      BY <2>2 DEF StartIfPlaced
    <3> HIDE DEF P
    <3> QED  BY <2>1, <3>1 DEF StartJob
  <2>3. CASE PlaceNow(j) = {}
    BY <2>3 DEF StartIfPlaced, jobVars
  <2> QED  BY <2>2, <2>3
<1>3. \A i \in Jobs : Level(i)' = Level(i)
  BY <1>2, LevelSame
<1>4. status \in [Jobs -> {"pending", "completed"} \cup Active]
      /\ runningPriority \in [Jobs -> 0 .. Critical \cup {None}]
  BY <1>1 DEF Types
<1> HIDE DEF Level
<1> QED  BY <1>1, <1>2, <1>3, <1>4

\* A plan evicts only running jobs of a lower level.
LEMMA PreemptLevels ==
  ASSUME Inv, NEW j \in pending, NEW plan \in BestPlans(j), PreemptFor(j, plan), UNCHANGED <<scenario, now>>
  PROVE  /\ \A i \in pending : Level(i)' = Level(i)
         /\ \A v \in Jobs : status[v] = "running" /\ status'[v] # "running" => runningPriority[v] < Level(j)
         /\ \A v \in Jobs : status'[v] = "running" =>
              status[v] = "running" /\ runningPriority'[v] = runningPriority[v]
<1> DEFINE V == plan.victims
<1>1. Types /\ j \in Jobs /\ pending \subseteq Jobs /\ \A i \in pending : status[i] = "pending"
  BY Plain DEF Inv, Core, Types, InOneQueue
<1>2. \A v \in V : status[v] = "running" /\ runningPriority[v] < Level(j)
  <2>1. V \subseteq EligibleVictims(j)
    BY <1>1, PlanIs
  <2>2. EffectivePriority(j) = Level(j)
    BY <1>1 DEF EffectivePriority, Level
  <2>3. \A v \in V : status[v] = "running" /\ EffectivePriority(v) < EffectivePriority(j)
    BY <2>1 DEF EligibleVictims
  <2> QED  BY <2>2, <2>3 DEF EffectivePriority
<1>3. /\ \A i \in Jobs \ V : acc'[i] = acc[i] /\ status'[i] = status[i] /\ runningPriority'[i] = runningPriority[i]
      /\ \A i \in Jobs \cap V : status'[i] \in {"pending", "checkpointing"}
  BY DEF PreemptFor
<1> HIDE DEF V
<1>4. ASSUME NEW i \in pending PROVE Level(i)' = Level(i)
  <2>1. i \in Jobs \ V
    BY <1>1, <1>2
  <2> QED  BY <1>3, <2>1, LevelSame
<1> QED  BY <1>2, <1>3, <1>4

\* The jobs of this pass that run now keep running.
NotEvicted == \A j \in initial : pc \in {"dispatch", "retry"} /\ status[j] = "running" => status'[j] = "running"

\* The next job of the queue is ranked below those that started, and evicts none of them.
LEMMA DispatchRanked ==
  ASSUME Inv, Ranked, Dispatch
  PROVE  Ranked' /\ NotEvicted
<1>1. PICK j \in Foremost(todo) :
        /\ todo' = todo \ {j}
        /\ \/ StartIfPlaced(j, PlaceNow(j)) /\ UNCHANGED <<pc, incoming>>
           \/ \E plan \in BestPlans(j) : PreemptFor(j, plan)
  BY DEF Dispatch
<1>2. pc = "dispatch" /\ UNCHANGED <<scenario, now, initial>> /\ incoming = None
      /\ j \in todo /\ todo \in SUBSET pending /\ pending \subseteq Jobs /\ initial \subseteq Jobs
  BY ForemostIn DEF Dispatch, Inv, Core, Pass, PassTriesQueuedJobs, Types
<1>3. \A i \in todo : Level(i) <= Level(j)
  BY <1>2, ForemostLevel
<1>4. \A v \in initial : status[v] = "running" => \A i \in todo : Level(i) <= runningPriority[v]
  BY <1>2 DEF Ranked
<1>5. \A i \in Jobs : Level(i) \in Int /\ runningPriority[i] \in Int
  BY LevelIs
<1>6. CASE StartIfPlaced(j, PlaceNow(j)) /\ UNCHANGED <<pc, incoming>>
  <2>1. /\ \A i \in Jobs : Level(i)' = Level(i)
        /\ \A v \in Jobs : status[v] = "running" => status'[v] = "running"
        /\ \A v \in Jobs : status'[v] = "running" =>
              \/ status[v] = "running" /\ runningPriority'[v] = runningPriority[v]
              \/ v = j /\ runningPriority'[v] = Level(j)
    BY <1>2, <1>6, AttemptLevels
  <2>2. Ranked'
    BY <1>1, <1>2, <1>3, <1>4, <1>6, <2>1 DEF Ranked
  <2> QED  BY <1>2, <2>1, <2>2 DEF NotEvicted
<1>7. CASE \E plan \in BestPlans(j) : PreemptFor(j, plan)
  <2>1. PICK plan \in BestPlans(j) : PreemptFor(j, plan)
    BY <1>7
  <2>2. /\ \A i \in pending : Level(i)' = Level(i)
        /\ \A v \in Jobs : status[v] = "running" /\ status'[v] # "running" => runningPriority[v] < Level(j)
        /\ \A v \in Jobs : status'[v] = "running" =>
              status[v] = "running" /\ runningPriority'[v] = runningPriority[v]
    BY <1>2, <2>1, PreemptLevels
  <2>3. incoming' \in {None, j} /\ (pc' = "retry" => incoming' = j)
    BY <1>2, <2>1 DEF PreemptFor
  <2>4. NotEvicted
    BY <1>2, <1>4, <1>5, <2>2 DEF NotEvicted
  <2>5. ASSUME pc' = "retry", NEW i \in todo' PROVE Level(i)' <= Level(incoming)'
    <3>1. Level(j)' = Level(j) /\ Level(i)' = Level(i) /\ Level(i) <= Level(j)
      BY <1>1, <1>2, <1>3, <2>2, <2>5
    <3>2. Level(incoming)' = Level(j)'
      BY <2>3, <2>5 DEF Level
    <3> QED  BY <3>1, <3>2
  <2>6. \A v \in initial' : status'[v] = "running" =>
          \A i \in todo' \cup ({incoming'} \ {None}) : Level(i)' <= runningPriority'[v]
    BY <1>1, <1>2, <1>4, <2>2, <2>3
  <2> QED  BY <2>4, <2>5, <2>6 DEF Ranked
<1> QED  BY <1>1, <1>6, <1>7

\* The job that preempted is ranked below those that started.
LEMMA RetryRanked ==
  ASSUME Inv, Ranked, Retry
  PROVE  Ranked' /\ NotEvicted
<1>1. pc = "retry" /\ incoming \in pending /\ incoming # None /\ todo \in SUBSET pending
      /\ pending \subseteq Jobs /\ initial \subseteq Jobs
      /\ UNCHANGED <<scenario, now, todo, initial>> /\ incoming' = None
  BY NoneIsNot DEF Retry, Inv, Core, Pass, PassTriesQueuedJobs, Types
<1>2. PICK j \in pending : j = incoming
  BY <1>1
<1>3. StartIfPlaced(j, PlaceNow(j))
  BY <1>2 DEF Retry
<1>4. (\A i \in todo : Level(i) <= Level(j))
      /\ \A v \in initial : status[v] = "running" => \A i \in todo : Level(i) <= runningPriority[v]
  BY <1>1, <1>2 DEF Ranked
<1>5. /\ \A i \in Jobs : Level(i)' = Level(i)
      /\ \A v \in Jobs : status[v] = "running" => status'[v] = "running"
      /\ \A v \in Jobs : status'[v] = "running" =>
            \/ status[v] = "running" /\ runningPriority'[v] = runningPriority[v]
            \/ v = j /\ runningPriority'[v] = Level(j)
  BY <1>1, <1>3, AttemptLevels
<1>6. pc' = "dispatch"
  BY DEF Retry
<1>7. Ranked'
  BY <1>1, <1>4, <1>5, <1>6 DEF Ranked
<1> QED  BY <1>1, <1>5, <1>7 DEF NotEvicted

\* Every step keeps the ranks and evicts no job of the pass.
LEMMA RankedStep ==
  ASSUME Inv, Ranked, [Next]_vars
  PROVE  Ranked' /\ NotEvicted
<1>1. CASE UNCHANGED vars \/ Terminated
  <2>1. UNCHANGED <<scenario, now, pc, todo, initial, incoming, status, acc, runningPriority>>
    BY <1>1 DEF vars, loopVars, jobVars, Terminated
  <2>2. \A i : Level(i)' = Level(i)
    BY <2>1 DEF Level, Aged
  <2>3. Level(incoming)' = Level(incoming)
    BY <2>1 DEF Level, Aged
  <2> QED  BY <2>1, <2>2, <2>3 DEF Ranked, NotEvicted
<1>2. CASE BeginPass
  <2>1. pc = "handle" /\ pc' = "dispatch" /\ initial' = pending /\ status' = status
    BY <1>2 DEF BeginPass, jobVars
  <2>2. \A v \in pending : status[v] = "pending"
    BY Plain DEF Inv, Core, Types, InOneQueue
  <2> QED  BY <2>1, <2>2 DEF Ranked, NotEvicted
<1>3. CASE BeginResume \/ EndPass \/ Finish \/ Resume \/ \E e \in heap : Discard(e) \/ Pop(e)
  <2>1. pc' \notin {"dispatch", "retry"} /\ (pc \in {"dispatch", "retry"} => status' = status)
    BY <1>3 DEF BeginResume, EndPass, Finish, Resume, Discard, Pop, jobVars
  <2> QED  BY <2>1 DEF Ranked, NotEvicted
<1>4. CASE \E e \in batch : Handle(e)
  <2>1. pc = "handle" /\ pc' = "handle"
    BY <1>4 DEF Handle, Arrive, Tick, StaleTimer, Complete, CompleteCheckpoint, CompleteRestart,
                Restore, Drain, Fail, Take
  <2> QED  BY <2>1 DEF Ranked, NotEvicted
<1> QED  BY <1>1, <1>2, <1>3, <1>4, DispatchRanked, RetryRanked DEF Next, Step

\* A job dispatched in a pass keeps its GPUs for the rest of the pass, whatever the
\* priorities, agings and victims are.
THEOREM NoEvictionInReverse == Spec => NoReverseEviction
<1>1. Init => Ranked
  BY DEF Init, Ranked
<1>2. Inv /\ Ranked /\ [Next]_vars => Ranked' /\ [NotEvicted]_vars
  BY RankedStep
<1>3. Spec => [][NotEvicted]_vars
  BY <1>1, <1>2, Invariance, PTL DEF Spec
<1> QED  BY <1>3 DEF NoReverseEviction, NotEvicted
=============================================================================
