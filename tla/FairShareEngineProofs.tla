------------------------- MODULE FairShareEngineProofs -------------------------
(***************************************************************************)
(* The loop with fair-share scheduling implements the quota ledger, for    *)
(* every fleet, tree of queues, set of jobs and scenario.                  *)
(***************************************************************************)
EXTENDS FairShareEngine, PlacementLemmas

-----------------------------------------------------------------------------
(* Resource vectors and can_allocate, for any tree of queues.              *)

\* u is nowhere above v.
AtMost(u, v) == \A q \in Queues : \A d \in Dims : u[q][d] <= v[q][d]

\* AtMost is reflexive and transitive on vectors.
LEMMA AtMostOrder ==
  ASSUME NEW u \in [Queues -> Vectors], NEW v \in [Queues -> Vectors], NEW w \in [Queues -> Vectors]
  PROVE  AtMost(u, u) /\ (AtMost(u, v) /\ AtMost(v, w) => AtMost(u, w))
<1>1. \A q \in Queues : \A d \in Dims : u[q][d] \in Nat /\ v[q][d] \in Nat /\ w[q][d] \in Nat
  BY DEF Vectors
<1> QED  BY <1>1 DEF AtMost

\* Adding two resource vectors gives a resource vector.
LEMMA PlusType ==
  ASSUME NEW u \in Vectors, NEW v \in Vectors
  PROVE  Plus(u, v) \in Vectors
BY DEF Plus, Vectors

\* A quota met by a vector is met by every smaller one.
LEMMA SmallerFits ==
  ASSUME NEW q \in Queues, NEW u \in Vectors, NEW v \in Vectors,
         \A d \in Dims : u[d] <= v[d]
  PROVE  /\ FitsLimit(q, v) => FitsLimit(q, u)
         /\ WithinGuarantee(q, v) => WithinGuarantee(q, u)
<1>1. \A d \in DOMAIN Limit[q] \cup DOMAIN Guarantee[q] : d \in Dims
  BY HierarchyAssumption DEF IsQuota
<1>2. \A d \in DOMAIN Limit[q] : Limit[q][d] \in Nat
  BY HierarchyAssumption DEF IsQuota
<1>3. \A d \in DOMAIN Guarantee[q] : Guarantee[q][d] \in Nat
  BY HierarchyAssumption DEF IsQuota
<1>4. \A d \in Dims : u[d] \in Nat /\ v[d] \in Nat
  BY DEF Vectors
<1> QED  BY <1>1, <1>2, <1>3, <1>4 DEF FitsLimit, WithinGuarantee

-----------------------------------------------------------------------------
(* can_allocate.                                                           *)

\* can_allocate that accepts a demand at some usage accepts it at less.
LEMMA LessUsageAllocates ==
  ASSUME NEW q \in Queues, NEW v \in Vectors, NEW u \in [Queues -> Vectors],
         NEW w \in [Queues -> Vectors], AtMost(u, w), NEW borrowing,
         CanAllocate(q, v, w, borrowing)
  PROVE  CanAllocate(q, v, u, TRUE)
<1>1. \A a \in Ancestors(q) : a \in Queues
  BY HierarchyAssumption DEF Ancestors
<1>2. ASSUME NEW a \in Ancestors(q), NEW d \in Dims
      PROVE  /\ Plus(u[a], v)[d] <= Plus(w[a], v)[d]
             /\ Plus(u[a], v)[d] \in Nat /\ Plus(w[a], v)[d] \in Nat
  BY <1>1 DEF Plus, AtMost, Vectors
<1>3. \A a \in Ancestors(q) : IsQuota(Guarantee[a]) /\ IsQuota(Limit[a])
  BY <1>1, HierarchyAssumption
<1>4. ASSUME NEW a \in Ancestors(q)
      PROVE  /\ FitsLimit(a, Plus(w[a], v)) => FitsLimit(a, Plus(u[a], v))
             /\ WithinGuarantee(a, Plus(w[a], v)) => WithinGuarantee(a, Plus(u[a], v))
  <2>1. ASSUME NEW d \in DOMAIN Limit[a], Plus(w[a], v)[d] <= Limit[a][d]
        PROVE  Plus(u[a], v)[d] <= Limit[a][d]
    <3>1. d \in Dims /\ Limit[a][d] \in Nat
      BY <1>3 DEF IsQuota
    <3> QED  BY <1>2, <2>1, <3>1
  <2>2. ASSUME NEW d \in DOMAIN Guarantee[a], Plus(w[a], v)[d] <= Guarantee[a][d]
        PROVE  Plus(u[a], v)[d] <= Guarantee[a][d]
    <3>1. d \in Dims /\ Guarantee[a][d] \in Nat
      BY <1>3 DEF IsQuota
    <3> QED  BY <1>2, <2>2, <3>1
  <2> QED  BY <2>1, <2>2 DEF FitsLimit, WithinGuarantee
<1> QED  BY <1>4 DEF CanAllocate

\* Usage v of queue q is within its limit and, if it may not borrow, its guarantee.
Respects(q, v) ==
  /\ FitsLimit(q, v)
  /\ q \in NoBorrowing /\ HasGuarantee(q) => WithinGuarantee(q, v)

\* A grant that can_allocate accepts leaves every queue it charges within its quotas: a
\* queue that may not borrow makes every queue below it stay within the guarantees.
LEMMA GrantRespects ==
  ASSUME NEW q \in Queues, NEW demand \in Vectors, NEW u \in [Queues -> Vectors],
         CanAllocate(q, demand, u, TRUE), NEW a \in Ancestors(q)
  PROVE  Respects(a, Plus(u[a], demand))
<1>1. FitsLimit(a, Plus(u[a], demand))
  BY DEF CanAllocate
<1>2. ASSUME a \in NoBorrowing, HasGuarantee(a)
      PROVE  WithinGuarantee(a, Plus(u[a], demand))
  <2>1. ~MayBorrow(q)
    BY <1>2 DEF MayBorrow
  <2> QED  BY <1>2, <2>1 DEF CanAllocate
<1> QED  BY <1>1, <1>2 DEF Respects

\* What respects the quotas of a queue goes on doing so as it shrinks.
LEMMA ReturnRespects ==
  ASSUME NEW q \in Queues, NEW u \in Vectors, NEW v \in Vectors,
         \A d \in Dims : u[d] <= v[d], Respects(q, v)
  PROVE  Respects(q, u)
BY SmallerFits DEF Respects

\* An unused queue does.
LEMMA ZeroRespects == \A q \in Queues : Respects(q, Zero)
<1> SUFFICES ASSUME NEW q \in Queues PROVE FitsLimit(q, Zero) /\ WithinGuarantee(q, Zero)
  BY DEF Respects
<1>1. \A d \in Dims : Zero[d] = 0
  BY DEF Zero
<1>2. IsQuota(Limit[q]) /\ IsQuota(Guarantee[q])
  BY HierarchyAssumption
<1> QED  BY <1>1, <1>2 DEF IsQuota, FitsLimit, WithinGuarantee

-----------------------------------------------------------------------------
(* What a set of GPUs weighs, and what a job with these GPUs charges.      *)

\* Sets of GPUs are finite.
LEMMA GpusFinite == \A P \in SUBSET GPUs : IsFiniteSet(P) /\ Cardinality(P) \in Nat
BY PlacementAssumption, FS_Subset, FS_CardinalityType

\* The units of a set of GPUs are a number.
LEMMA UnitsType == ASSUME NEW P \in SUBSET GPUs PROVE UnitsIn(P) \in Nat
<1>1. \A g \in P : Units[g] \in Nat
  BY FairShareAssumption
<1> QED  BY <1>1, GpusFinite, SumType DEF UnitsIn

\* The units of disjoint sets add up.
LEMMA UnitsJoin ==
  ASSUME NEW P \in SUBSET GPUs, NEW R \in SUBSET GPUs, P \cap R = {}
  PROVE  UnitsIn(P \cup R) = UnitsIn(P) + UnitsIn(R)
<1>1. \A g \in P \cup R : Units[g] \in Nat
  BY FairShareAssumption
<1> QED  BY <1>1, GpusFinite, SumDisjoint DEF UnitsIn

\* A job charges a resource vector.
LEMMA AllocationType ==
  ASSUME NEW j \in Jobs, NEW P \in SUBSET GPUs
  PROVE  Allocation(j, P) \in Vectors
<1>1. JobMemory[j] \in Nat /\ Cardinality(P) \in Nat /\ UnitsIn(P) \in Nat
  BY PlacementAssumption, GpusFinite, UnitsType
<1>2. \A m, n \in Nat : m * n \in Nat
  OBVIOUS
<1> QED  BY <1>1, <1>2 DEF Allocation, Vector, Vectors, Dims

\* What a job charges for disjoint sets adds up.
LEMMA AllocationJoin ==
  ASSUME NEW j \in Jobs, NEW P \in SUBSET GPUs, NEW R \in SUBSET GPUs, P \cap R = {}
  PROVE  Allocation(j, P \cup R) = Plus(Allocation(j, P), Allocation(j, R))
<1>1. UnitsIn(P \cup R) = UnitsIn(P) + UnitsIn(R)
  BY UnitsJoin
<1>2. Cardinality(P \cup R) = Cardinality(P) + Cardinality(R)
  <2>1. Cardinality(P \cap R) = 0
    BY FS_EmptySet
  <2> QED  BY <2>1, GpusFinite, FS_Union
<1>3. JobMemory[j] \in Nat /\ Cardinality(P) \in Nat /\ Cardinality(R) \in Nat
  BY PlacementAssumption, GpusFinite
<1>4. \A k, m, n \in Nat : k * (m + n) = k * m + k * n
  OBVIOUS
<1>5. JobMemory[j] * Cardinality(P \cup R) = JobMemory[j] * Cardinality(P) + JobMemory[j] * Cardinality(R)
  BY <1>2, <1>3, <1>4
<1> QED  BY <1>1, <1>5 DEF Allocation, Vector, Plus, Dims

\* A job charges nothing for nothing.
LEMMA AllocationEmpty == \A j \in Jobs : Allocation(j, {}) = Zero
<1>1. UnitsIn({}) = 0
  BY SumEmpty DEF UnitsIn
<1>2. Cardinality({}) = 0
  BY FS_EmptySet
<1>3. \A j \in Jobs : JobMemory[j] * 0 = 0
  BY PlacementAssumption
<1> QED  BY <1>1, <1>2, <1>3 DEF Allocation, Vector, Zero

\* A job charges less for fewer GPUs.
LEMMA AllocationMonotone ==
  ASSUME NEW j \in Jobs, NEW P \in SUBSET GPUs, NEW R \in SUBSET P, NEW d \in Dims
  PROVE  Allocation(j, R)[d] <= Allocation(j, P)[d]
<1> DEFINE Rest == P \ R
<1>1. Allocation(j, P) = Plus(Allocation(j, R), Allocation(j, Rest))
  <2>1. P = R \cup Rest /\ R \cap Rest = {} /\ R \in SUBSET GPUs /\ Rest \in SUBSET GPUs
    OBVIOUS
  <2> HIDE DEF Rest
  <2> QED  BY <2>1, AllocationJoin
<1>2. Allocation(j, R)[d] \in Nat /\ Allocation(j, Rest)[d] \in Nat
  BY AllocationType DEF Vectors
<1> HIDE DEF Rest
<1> QED  BY <1>1, <1>2 DEF Plus

-----------------------------------------------------------------------------
(* Usage of the queues when the jobs hold a and Q gives their queues.      *)

Holdings == [Jobs -> SUBSET GPUs]
JobQueues == [Jobs -> Queues]

Charges(a, d) == [j \in Jobs |-> Allocation(j, a[j])[d]]
DirectBy(Q, a) ==
  [q \in Queues |->
     [d \in Dims |-> SumFunctionOnSet(Charges(a, d), {j \in Jobs : Q[j] = q})]]
UsageBy(Q, a) == Aggregate(DirectBy(Q, a))

\* Usage in the module is that of the scenario's queues.
LEMMA DirectIs == \A a : DirectOf(a) = DirectBy(scenario.queue, a) /\ UsageOf(a) = UsageBy(scenario.queue, a)
BY DEF DirectOf, DirectBy, UsageOf, UsageBy, QueueOf, Charges

\* What a job charges is a number in each dimension.
LEMMA ChargesType ==
  ASSUME NEW a \in Holdings, NEW d \in Dims
  PROVE  \A j \in Jobs : Charges(a, d)[j] \in Nat
BY AllocationType DEF Charges, Holdings, Vectors

\* The usage of a queue's own jobs is a vector.
LEMMA DirectType ==
  ASSUME NEW Q \in JobQueues, NEW a \in Holdings
  PROVE  DirectBy(Q, a) \in [Queues -> Vectors]
<1>1. ASSUME NEW q \in Queues, NEW d \in Dims
      PROVE  SumFunctionOnSet(Charges(a, d), {j \in Jobs : Q[j] = q}) \in Nat
  <2>1. IsFiniteSet({j \in Jobs : Q[j] = q})
    BY PlacementAssumption, FS_Subset
  <2> QED  BY <2>1, ChargesType, SumType
<1> QED  BY <1>1 DEF DirectBy, Vectors

\* Jobs that hold less use less.
LEMMA DirectMonotone ==
  ASSUME NEW Q \in JobQueues, NEW a \in Holdings, NEW b \in Holdings,
         \A j \in Jobs : a[j] \subseteq b[j]
  PROVE  AtMost(DirectBy(Q, a), DirectBy(Q, b))
<1> SUFFICES ASSUME NEW q \in Queues, NEW d \in Dims
             PROVE  DirectBy(Q, a)[q][d] <= DirectBy(Q, b)[q][d]
  BY DEF AtMost
<1> DEFINE here == {j \in Jobs : Q[j] = q}
<1>1. IsFiniteSet(here)
  BY PlacementAssumption, FS_Subset
<1>2. \A j \in here : /\ Charges(a, d)[j] \in Nat /\ Charges(b, d)[j] \in Nat
                      /\ Charges(a, d)[j] <= Charges(b, d)[j]
  <2>1. \A j \in Jobs : Charges(a, d)[j] <= Charges(b, d)[j]
    BY AllocationMonotone DEF Charges, Holdings
  <2> QED  BY <2>1, ChargesType
<1>3. SumFunctionOnSet(Charges(a, d), here) <= SumFunctionOnSet(Charges(b, d), here)
  BY <1>1, <1>2, SumMonotone
<1> QED  BY <1>3 DEF DirectBy

\* A job that takes GPUs it does not hold is charged for them in its queue.
LEMMA DirectGains ==
  ASSUME NEW Q \in JobQueues, NEW a \in Holdings, NEW j \in Jobs, NEW P \in SUBSET GPUs,
         P \cap a[j] = {}
  PROVE  DirectBy(Q, [a EXCEPT ![j] = @ \cup P])
           = [DirectBy(Q, a) EXCEPT ![Q[j]] = Plus(@, Allocation(j, P))]
<1> DEFINE b == [a EXCEPT ![j] = @ \cup P]
           u == DirectBy(Q, a)
           w == [u EXCEPT ![Q[j]] = Plus(@, Allocation(j, P))]
<1>1. a[j] \in SUBSET GPUs /\ b \in Holdings /\ b[j] = a[j] \cup P /\ \A i \in Jobs \ {j} : b[i] = a[i]
  BY DEF Holdings
<1>2. Allocation(j, P) \in Vectors /\ Allocation(j, a[j]) \in Vectors
  BY <1>1, AllocationType
<1>3. ASSUME NEW d \in Dims, NEW i \in Jobs
      PROVE  Charges(b, d)[i] = IF i = j THEN Charges(a, d)[i] + Allocation(j, P)[d]
                                ELSE Charges(a, d)[i]
  <2>1. Allocation(j, a[j] \cup P) = Plus(Allocation(j, a[j]), Allocation(j, P))
    BY <1>1, AllocationJoin
  <2> HIDE DEF b
  <2> QED  BY <1>1, <2>1 DEF Charges, Plus
<1>4. ASSUME NEW q \in Queues, NEW d \in Dims
      PROVE  DirectBy(Q, b)[q][d] = IF q = Q[j] THEN u[q][d] + Allocation(j, P)[d] ELSE u[q][d]
  <2> DEFINE here == {i \in Jobs : Q[i] = q}
  <2>1. IsFiniteSet(here)
    BY PlacementAssumption, FS_Subset
  <2>2. \A i \in here : Charges(a, d)[i] \in Nat
    BY ChargesType
  <2>3. Allocation(j, P)[d] \in Nat
    BY <1>2 DEF Vectors
  <2>4. /\ DirectBy(Q, b)[q][d] = SumFunctionOnSet(Charges(b, d), here)
        /\ u[q][d] = SumFunctionOnSet(Charges(a, d), here)
    BY DEF DirectBy
  <2> HIDE DEF b, u
  <2>5. CASE q = Q[j]
    <3>1. j \in here
      BY <2>5
    <3>2. \A i \in here : Charges(b, d)[i] = IF i = j THEN Charges(a, d)[i] + Allocation(j, P)[d]
                                             ELSE Charges(a, d)[i]
      BY <1>3
    <3> HIDE DEF here
    <3>3. SumFunctionOnSet(Charges(b, d), here) = SumFunctionOnSet(Charges(a, d), here) + Allocation(j, P)[d]
      BY <2>1, <2>2, <2>3, <3>1, <3>2, SumGains
    <3> QED  BY <2>4, <2>5, <3>3
  <2>6. CASE q # Q[j]
    <3>1. \A i \in here : Charges(b, d)[i] = Charges(a, d)[i]
      BY <1>3, <2>6
    <3> HIDE DEF here
    <3>2. SumFunctionOnSet(Charges(b, d), here) = SumFunctionOnSet(Charges(a, d), here)
      BY <2>1, <2>2, <3>1, SumEqual
    <3> QED  BY <2>4, <2>6, <3>2
  <2> QED  BY <2>5, <2>6
<1>5. DirectBy(Q, b) \in [Queues -> Vectors] /\ u \in [Queues -> Vectors]
  BY <1>1, DirectType
<1>6. w \in [Queues -> Vectors]
  <2>1. Plus(u[Q[j]], Allocation(j, P)) \in Vectors
    BY <1>2, <1>5 DEF Plus, Vectors, JobQueues
  <2> HIDE DEF u
  <2> QED  BY <1>5, <2>1
<1>7. ASSUME NEW q \in Queues, NEW d \in Dims PROVE DirectBy(Q, b)[q][d] = w[q][d]
  <2> HIDE DEF u, b
  <2> QED  BY <1>4, <1>5, <1>7 DEF Plus
<1> HIDE DEF w, u, b
<1>8. \A q \in Queues : DirectBy(Q, b)[q] = w[q]
  BY <1>5, <1>6, <1>7 DEF Vectors
<1>9. DirectBy(Q, b) = w
  BY <1>5, <1>6, <1>8
<1> QED  BY <1>9 DEF w, u, b

\* Aggregate usage is a vector for every queue.
LEMMA AggregateType ==
  ASSUME NEW u \in [Queues -> Vectors]
  PROVE  Aggregate(u) \in [Queues -> Vectors]
<1>1. ASSUME NEW q \in Queues, NEW d \in Dims
      PROVE  SumFunctionOnSet([c \in Queues |-> u[c][d]], {c \in Queues : q \in Ancestors(c)}) \in Nat
  <2>1. IsFiniteSet({c \in Queues : q \in Ancestors(c)})
    BY HierarchyAssumption, FS_Subset
  <2>2. \A c \in Queues : u[c][d] \in Nat
    BY DEF Vectors
  <2> QED  BY <2>1, <2>2, SumType
<1> QED  BY <1>1 DEF Aggregate, Vectors

\* It grows with the usage of the queues' own jobs.
LEMMA AggregateMonotone ==
  ASSUME NEW u \in [Queues -> Vectors], NEW v \in [Queues -> Vectors], AtMost(u, v)
  PROVE  AtMost(Aggregate(u), Aggregate(v))
<1> SUFFICES ASSUME NEW q \in Queues, NEW d \in Dims
             PROVE  Aggregate(u)[q][d] <= Aggregate(v)[q][d]
  BY DEF AtMost
<1> DEFINE below == {c \in Queues : q \in Ancestors(c)}
           f == [c \in Queues |-> u[c][d]]
           g == [c \in Queues |-> v[c][d]]
<1>1. IsFiniteSet(below)
  BY HierarchyAssumption, FS_Subset
<1>2. \A c \in below : f[c] \in Nat /\ g[c] \in Nat /\ f[c] <= g[c]
  BY DEF Vectors, AtMost
<1>3. Aggregate(u)[q][d] = SumFunctionOnSet(f, below) /\ Aggregate(v)[q][d] = SumFunctionOnSet(g, below)
  BY DEF Aggregate
<1> HIDE DEF below, f, g
<1> QED  BY <1>1, <1>2, <1>3, SumMonotone

\* What a queue's own jobs gain is charged to all its ancestors.
LEMMA AggregateGains ==
  ASSUME NEW u \in [Queues -> Vectors], NEW q \in Queues, NEW v \in Vectors
  PROVE  Aggregate([u EXCEPT ![q] = Plus(@, v)])
           = [a \in Queues |-> IF a \in Ancestors(q) THEN Plus(Aggregate(u)[a], v)
                               ELSE Aggregate(u)[a]]
<1> DEFINE w == [u EXCEPT ![q] = Plus(@, v)]
           z == [a \in Queues |-> IF a \in Ancestors(q) THEN Plus(Aggregate(u)[a], v)
                                  ELSE Aggregate(u)[a]]
<1>1. Plus(u[q], v) \in Vectors /\ w \in [Queues -> Vectors]
  BY DEF Plus, Vectors
<1>2. Aggregate(u) \in [Queues -> Vectors] /\ Aggregate(w) \in [Queues -> Vectors]
  BY <1>1, AggregateType
<1>3. z \in [Queues -> Vectors]
  <2>1. \A a \in Queues : Plus(Aggregate(u)[a], v) \in Vectors
    BY <1>2 DEF Plus, Vectors
  <2> QED  BY <1>2, <2>1
<1>4. ASSUME NEW a \in Queues, NEW d \in Dims PROVE Aggregate(w)[a][d] = z[a][d]
  <2> DEFINE below == {c \in Queues : a \in Ancestors(c)}
             f == [c \in Queues |-> u[c][d]]
             g == [c \in Queues |-> w[c][d]]
  <2>1. IsFiniteSet(below)
    BY HierarchyAssumption, FS_Subset
  <2>2. \A c \in below : f[c] \in Nat
    BY DEF Vectors
  <2>3. v[d] \in Nat
    BY DEF Vectors
  <2>4. \A c \in below : g[c] = IF c = q THEN f[c] + v[d] ELSE f[c]
    BY DEF Plus
  <2>5. Aggregate(u)[a][d] = SumFunctionOnSet(f, below) /\ Aggregate(w)[a][d] = SumFunctionOnSet(g, below)
    BY DEF Aggregate
  <2>6. q \in below <=> a \in Ancestors(q)
    OBVIOUS
  <2> HIDE DEF below, f, g, w
  <2>7. CASE a \in Ancestors(q)
    <3>1. SumFunctionOnSet(g, below) = SumFunctionOnSet(f, below) + v[d]
      BY <2>1, <2>2, <2>3, <2>4, <2>6, <2>7, SumGains
    <3> QED  BY <2>5, <2>7, <3>1 DEF Plus
  <2>8. CASE a \notin Ancestors(q)
    <3>1. \A c \in below : g[c] = f[c]
      BY <2>4, <2>6, <2>8
    <3>2. SumFunctionOnSet(g, below) = SumFunctionOnSet(f, below)
      BY <2>1, <2>2, <3>1, SumEqual
    <3> QED  BY <2>5, <2>8, <3>2
  <2> QED  BY <2>7, <2>8
<1> HIDE DEF w, z
<1>5. \A a \in Queues : Aggregate(w)[a] = z[a]
  BY <1>2, <1>3, <1>4 DEF Vectors
<1>6. Aggregate(w) = z
  BY <1>2, <1>3, <1>5
<1> QED  BY <1>6 DEF w, z

-----------------------------------------------------------------------------
(* Placements.                                                             *)

\* A placement of the topology scheduler uses hosts of its view only.
LEMMA TopologyPlaceHosts ==
  ASSUME NEW j \in Jobs, NEW n, NEW view
  PROVE  TopologyPlace(j, n, view) \subseteq Hosts(j, view)
<1>1. \A S, k, key : First(S, k, key) \subseteq S
  BY DEF First
<1>2. \A eligible : \A P \in Candidates(j, n, eligible) : P \subseteq eligible
  <2> SUFFICES ASSUME NEW eligible, NEW P \in Candidates(j, n, eligible)
               PROVE  P \subseteq eligible
    OBVIOUS
  <2> DEFINE tight == [g \in eligible |-> <<Slack(j, g), NodeOf[g], g>>]
             near(s) == [g \in eligible |-> <<Distance(s, NodeOf[g]), NodeOf[g]>> \o tight[g]]
             Domain(D(_)) == {{g \in eligible : D(NodeOf[g]) = d} :
                                d \in {D(m) : m \in NodesOf(eligible)}}
             domains == {eligible} \cup Domain(LAMBDA m : m) \cup Domain(RackDomain)
                          \cup Domain(ZoneDomain)
  <2>1. \A S \in domains : S \subseteq eligible
    OBVIOUS
  <2>2. \/ \E S \in domains : P = First(S, n, tight)
        \/ \E s \in NodesOf(eligible) : P = First(eligible, n, near(s))
    BY DEF Candidates
  <2> HIDE DEF domains, tight, near
  <2> QED  BY <1>1, <2>1, <2>2
<1>3. \A eligible : Localised(j, n, eligible, view) \subseteq eligible
  BY <1>1, <1>2 DEF Localised, Least
<1>4. \A w : OfVendor(Hosts(j, view), w) \subseteq Hosts(j, view)
  BY DEF OfVendor
<1> QED  BY <1>3, <1>4 DEF TopologyPlace

\* A placement of the quota scheduler is a placement that can_allocate accepts.
LEMMA QuotaPlaceIs ==
  ASSUME NEW j \in Jobs, NEW view, NEW usage, NEW borrowing,
         NEW P, P = QuotaPlace(j, view, usage, borrowing), P # {}
  PROVE  P \subseteq Hosts(j, view) /\ CanAllocate(QueueOf(j), Allocation(j, P), usage, borrowing)
<1>1. P = TopologyPlace(j, MinReplicas[j], view)
      /\ CanAllocate(QueueOf(j), Allocation(j, P), usage, borrowing)
  <2> DEFINE X == TopologyPlace(j, MinReplicas[j], view)
             C(R) == CanAllocate(QueueOf(j), Allocation(j, R), usage, borrowing)
  <2>1. P = UNION {R \in {X} : C(R)}
    BY DEF QuotaPlace
  <2> HIDE DEF X, C
  <2>2. C(X)
    BY <2>1
  <2>3. P = X
    BY <2>1, <2>2
  <2> QED  BY <2>2, <2>3 DEF X, C
<1> QED  BY <1>1, TopologyPlaceHosts

\* So is what a job gets during the pass.
LEMMA PlaceNowIs ==
  ASSUME NEW j \in Jobs, NEW borrowing, NEW P, P = PlaceNow(j, borrowing), P # {}
  PROVE  /\ P \subseteq Hosts(j, ViewFor(j))
         /\ CanAllocate(QueueOf(j), Allocation(j, P), Usage, borrowing)
<1> DEFINE X == QuotaPlace(j, ViewFor(j), Usage, borrowing)
           C(R) == reserved[j] # {} => Covered(j, R, Usage, entitled[j])
<1>1. P = UNION {R \in {X} : C(R)}
  BY DEF PlaceNow
<1>2. P = X
  <2> HIDE DEF X, C
  <2> QED  BY <1>1
<1> QED  BY <1>2, QuotaPlaceIs

\* Hosts for a job are GPUs that nobody owns.
LEMMA HostsFree ==
  \A j \in Jobs : Hosts(j, ViewFor(j)) \subseteq {g \in GPUs : owner[g] = None}
BY DEF Hosts, ViewFor, Compatible, UsableGpus, Occupied

-----------------------------------------------------------------------------
(* Plans.                                                                  *)

\* One action of a plan: a shrink or an eviction.
Act(shrinking, h, w, p) == IF shrinking THEN Shrink(h, w, p) ELSE Evict(h, w, p)

\* f holds the plans after 0, 1, 2... actions, from p on.
Acts(f, N, shrinking, h, w, p) ==
  f = [k \in N |-> IF k = 0 THEN p ELSE Act(shrinking, h, w, f[k - 1])]

\* What such a function holds.
LEMMA ActsAt ==
  ASSUME NEW f, NEW N, NEW shrinking, NEW h, NEW w, NEW p, Acts(f, N, shrinking, h, w, p),
         NEW k \in N
  PROVE  f[k] = IF k = 0 THEN p ELSE Act(shrinking, h, w, f[k - 1])
BY DEF Acts

\* Two such functions agree where both are defined.
LEMMA ActsUnique ==
  ASSUME NEW shrinking, NEW h, NEW w, NEW p, NEW m \in Nat, NEW n \in Nat, NEW f, NEW g,
         Acts(f, 0 .. m, shrinking, h, w, p), Acts(g, 0 .. n, shrinking, h, w, p),
         NEW k \in Nat, k <= m, k <= n
  PROVE  f[k] = g[k]
<1> DEFINE B == {i \in Nat : i <= m /\ i <= n /\ f[i] # g[i]}
<1> SUFFICES ASSUME B # {} PROVE FALSE
  OBVIOUS
<1>1. PICK i \in B : \A l \in B : i <= l
  <2>1. B \in SUBSET Nat
    OBVIOUS
  <2> HIDE DEF B
  <2> QED  BY <2>1, LeastNumber
<1>2. i \in 0 .. m /\ i \in 0 .. n
  OBVIOUS
<1>3. i # 0
  BY <1>1, <1>2, ActsAt
<1>4. f[i - 1] = g[i - 1]
  <2>1. i - 1 \in Nat /\ i - 1 <= m /\ i - 1 <= n /\ ~ i <= i - 1
    BY <1>3
  <2> QED  BY <1>1, <2>1
<1>5. /\ f[i] = Act(shrinking, h, w, f[i - 1])
      /\ g[i] = Act(shrinking, h, w, g[i - 1])
  <2> DEFINE M == 0 .. m
             N == 0 .. n
  <2>1. i \in M /\ i \in N /\ Acts(f, M, shrinking, h, w, p) /\ Acts(g, N, shrinking, h, w, p)
    BY <1>2
  <2> HIDE DEF M, N
  <2> QED  BY <1>3, <2>1, ActsAt
<1> QED  BY <1>4, <1>5

\* There is such a function up to any number of actions.
LEMMA ActsUpTo ==
  ASSUME NEW shrinking, NEW h, NEW w, NEW p, NEW n \in Nat
  PROVE  \E f : Acts(f, 0 .. n, shrinking, h, w, p)
<1> DEFINE B == {i \in Nat : ~ \E f : Acts(f, 0 .. i, shrinking, h, w, p)}
<1> SUFFICES ASSUME B # {} PROVE FALSE
  OBVIOUS
<1>1. PICK i \in B : \A l \in B : i <= l
  <2>1. B \in SUBSET Nat
    OBVIOUS
  <2> HIDE DEF B
  <2> QED  BY <2>1, LeastNumber
<1>2. i # 0
  <2>1. Acts([k \in 0 .. 0 |-> p], 0 .. 0, shrinking, h, w, p)
    BY DEF Acts
  <2> QED  BY <2>1
<1>3. PICK g : Acts(g, 0 .. i - 1, shrinking, h, w, p)
  <2>1. i - 1 \in Nat /\ ~ i <= i - 1
    BY <1>2
  <2> QED  BY <1>1, <2>1
<1> DEFINE f == [k \in 0 .. i |-> IF k = i THEN Act(shrinking, h, w, g[i - 1]) ELSE g[k]]
<1>4. ASSUME NEW k \in 0 .. i
      PROVE  f[k] = IF k = 0 THEN p ELSE Act(shrinking, h, w, f[k - 1])
  <2>1. CASE k = i
    <3>1. k # 0 /\ k - 1 \in 0 .. i /\ k - 1 # i
      BY <1>2, <2>1
    <3>2. f[k - 1] = g[i - 1]
      BY <2>1, <3>1
    <3> QED  BY <2>1, <3>1, <3>2
  <2>2. CASE k # i
    <3>1. k \in 0 .. i - 1
      BY <2>2
    <3>2. g[k] = IF k = 0 THEN p ELSE Act(shrinking, h, w, g[k - 1])
      <4> DEFINE N == 0 .. i - 1
      <4>1. k \in N /\ Acts(g, N, shrinking, h, w, p)
        BY <1>3, <3>1
      <4> HIDE DEF N
      <4> QED  BY <4>1, ActsAt
    <3>3. f[k] = g[k]
      BY <2>2
    <3>4. k # 0 => f[k - 1] = g[k - 1]
      <4>1. k # 0 => k - 1 \in 0 .. i /\ k - 1 # i
        BY <2>2
      <4> QED  BY <4>1
    <3> HIDE DEF f
    <3> QED  BY <3>2, <3>3, <3>4
  <2> QED  BY <2>1, <2>2
<1>5. Acts(f, 0 .. i, shrinking, h, w, p)
  <2>1. f = [k \in 0 .. i |-> f[k]]
    OBVIOUS
  <2> HIDE DEF f
  <2> QED  BY <1>4, <2>1 DEF Acts
<1> HIDE DEF f
<1> QED  BY <1>1, <1>5

\* There is one for all numbers of actions: the recursion in PlanOf is well defined.
LEMMA ActsExist ==
  ASSUME NEW shrinking, NEW h, NEW w, NEW p
  PROVE  \E f : Acts(f, Nat, shrinking, h, w, p)
<1> DEFINE UpTo(n) == CHOOSE f : Acts(f, 0 .. n, shrinking, h, w, p)
           f == [k \in Nat |-> UpTo(k)[k]]
<1>1. \A n \in Nat : Acts(UpTo(n), 0 .. n, shrinking, h, w, p)
  BY ActsUpTo
<1> HIDE DEF UpTo
<1>2. ASSUME NEW k \in Nat
      PROVE  f[k] = IF k = 0 THEN p ELSE Act(shrinking, h, w, f[k - 1])
  <2>1. UpTo(k)[k] = IF k = 0 THEN p ELSE Act(shrinking, h, w, UpTo(k)[k - 1])
    <3> DEFINE N == 0 .. k
    <3>1. k \in N /\ Acts(UpTo(k), N, shrinking, h, w, p)
      BY <1>1
    <3> HIDE DEF N
    <3> QED  BY <3>1, ActsAt
  <2>2. k # 0 => UpTo(k)[k - 1] = UpTo(k - 1)[k - 1]
    <3> SUFFICES ASSUME k # 0 PROVE UpTo(k)[k - 1] = UpTo(k - 1)[k - 1]
      OBVIOUS
    <3>1. k - 1 \in Nat /\ k - 1 <= k /\ k - 1 <= k - 1
      OBVIOUS
    <3> QED  BY <1>1, <3>1, ActsUnique
  <2>3. k # 0 => k - 1 \in Nat
    OBVIOUS
  <2> QED  BY <2>1, <2>2, <2>3
<1>3. Acts(f, Nat, shrinking, h, w, p)
  <2>1. f = [k \in Nat |-> f[k]]
    OBVIOUS
  <2> HIDE DEF f
  <2> QED  BY <1>2, <2>1 DEF Acts
<1> QED  BY <1>3

\* A plan leaves every job with some of what it holds now.
Within(p) == \A i \in Jobs : p.alloc[i] \subseteq alloc[i]
ForJobs(p) == DOMAIN p.alloc = Jobs

\* No action gives a job anything.
LEMMA ActKeeps ==
  ASSUME NEW shrinking \in BOOLEAN, NEW h, NEW w, NEW p, Within(p), ForJobs(p)
  PROVE  Within(Act(shrinking, h, w, p)) /\ ForJobs(Act(shrinking, h, w, p))
<1>1. CASE shrinking
  <2> DEFINE best == Least(DOMAIN ShrinkKeys(h, p), ShrinkKeys(h, p))
             keys(j, g) == Append(p.keys, <<j, <<runningPriority[j], 0, RemainingTime(j),
                                              Disruption(j), j, g>>>>)
             After(j, g) ==
               Projection(h, w, [p.alloc EXCEPT ![j] = @ \ {g}], p.victims,
                          p.queues \cup ClaimOf(j, h), keys(j, g))
  <2>1. Shrink(h, w, p) = IF p.placement # {} \/ best = {} THEN p
                          ELSE CHOOSE q \in {After(a[1], a[2]) : a \in best} : TRUE
    BY DEF Shrink
  <2>2. \A j, g : After(j, g).alloc = [p.alloc EXCEPT ![j] = @ \ {g}]
    BY DEF Projection
  <2>3. \A j, g : Within(After(j, g)) /\ ForJobs(After(j, g))
    BY <2>2 DEF Within, ForJobs
  <2> HIDE DEF After, best
  <2>4. Within(Shrink(h, w, p)) /\ ForJobs(Shrink(h, w, p))
    BY <2>1, <2>3
  <2> QED  BY <1>1, <2>4 DEF Act
<1>2. CASE ~shrinking
  <2> DEFINE best == Least(DOMAIN EvictKeys(h, p), EvictKeys(h, p))
             keys(j) == Append(SelectSeq(p.keys, LAMBDA k : k[1] # j),
                               <<j, <<runningPriority[j], 1, RemainingTime(j), Disruption(j), j>>>>)
             After(j) ==
               Projection(h, w, [p.alloc EXCEPT ![j] = {}], p.victims \cup {j},
                          p.queues \cup ClaimOf(j, h), keys(j))
  <2>1. Evict(h, w, p) = IF p.placement # {} \/ best = {} THEN p
                         ELSE CHOOSE q \in {After(j) : j \in best} : TRUE
    BY DEF Evict
  <2>2. \A j : After(j).alloc = [p.alloc EXCEPT ![j] = {}]
    BY DEF Projection
  <2>3. \A j : Within(After(j)) /\ ForJobs(After(j))
    BY <2>2 DEF Within, ForJobs
  <2> HIDE DEF After, best
  <2>4. Within(Evict(h, w, p)) /\ ForJobs(Evict(h, w, p))
    BY <2>1, <2>3
  <2> QED  BY <1>2, <2>4 DEF Act
<1> QED  BY <1>1, <1>2

\* Nor do any number of actions.
LEMMA ActsKeep ==
  ASSUME NEW shrinking \in BOOLEAN, NEW h, NEW w, NEW p, Within(p), ForJobs(p),
         NEW f, Acts(f, Nat, shrinking, h, w, p), NEW n \in Nat
  PROVE  Within(f[n]) /\ ForJobs(f[n])
<1> DEFINE B == {i \in Nat : ~(Within(f[i]) /\ ForJobs(f[i]))}
<1> SUFFICES ASSUME B # {} PROVE FALSE
  OBVIOUS
<1>1. PICK i \in B : \A l \in B : i <= l
  <2>1. B \in SUBSET Nat
    OBVIOUS
  <2> HIDE DEF B
  <2> QED  BY <2>1, LeastNumber
<1>2. f[i] = IF i = 0 THEN p ELSE Act(shrinking, h, w, f[i - 1])
  BY ActsAt
<1>3. i # 0
  BY <1>1, <1>2
<1>4. i - 1 \in Nat /\ ~ i <= i - 1
  BY <1>3
<1>5. Within(f[i - 1]) /\ ForJobs(f[i - 1])
  BY <1>1, <1>4
<1> QED  BY <1>1, <1>2, <1>3, <1>5, ActKeeps

\* A reclaim plan leaves every job with some of what it holds.
LEMMA PlanKeeps ==
  ASSUME NEW h, NEW w
  PROVE  Within(PlanOf(h, w)) /\ ForJobs(PlanOf(h, w))
<1> DEFINE p == Projection(h, w, [j \in Jobs |-> OfVendor(alloc[j], w)], {}, {}, <<>>)
           S == CHOOSE f : Acts(f, Nat, TRUE, h, w, p)
           q == S[Cardinality(GPUs)]
           E == CHOOSE f : Acts(f, Nat, FALSE, h, w, q)
<1>1. Within(p) /\ ForJobs(p)
  BY DEF Within, ForJobs, Projection, OfVendor
<1>2. Cardinality(GPUs) \in Nat /\ Cardinality(Jobs) \in Nat
  BY PlacementAssumption, FS_CardinalityType
<1>3. PlanOf(h, w) = E[Cardinality(Jobs)]
  BY DEF PlanOf, Acts, Act
<1> HIDE DEF p
<1>4. Acts(S, Nat, TRUE, h, w, p)
  BY ActsExist
<1> HIDE DEF S
<1>5. Within(q) /\ ForJobs(q)
  BY <1>1, <1>2, <1>4, ActsKeep
<1> HIDE DEF q
<1>6. Acts(E, Nat, FALSE, h, w, q)
  BY ActsExist
<1> HIDE DEF E
<1>7. Within(E[Cardinality(Jobs)]) /\ ForJobs(E[Cardinality(Jobs)])
  BY <1>2, <1>5, <1>6, ActsKeep
<1> QED  BY <1>3, <1>7

-----------------------------------------------------------------------------
(* The inductive invariant.                                                *)

\* Types, as far as the usage depends on them.
Types ==
  /\ scenario \in Scenarios
  /\ alloc \in Holdings
  /\ owner \in [GPUs -> Jobs \cup {None}]
  /\ direct \in [Queues -> Vectors]

\* GPUs and jobs agree on who holds what.
Owned == \A g \in GPUs : \A j \in Jobs : owner[g] = j <=> g \in alloc[j]

\* The usage the scheduler has cached is stale in one direction only: it never leaves out
\* what a job holds.
UsageCounted == AtMost(DirectOf(alloc), direct)

\* A plan is for a job, and the shrinks still to commit take GPUs and give none.
PlanHeld ==
  /\ pc \in {"commit", "retry"} => plan.target \in Jobs
  /\ pc = "commit" =>
       plan.shrink \subseteq Jobs /\ \A j \in plan.shrink : plan.alloc[j] \subseteq alloc[j]

Inv == Types /\ Owned /\ UsageCounted /\ PlanHeld

\* What a step does to what the jobs hold: it takes GPUs from them, or gives one job GPUs
\* that can_allocate accepts on what is held.
GivesBack == \A j \in Jobs : alloc'[j] \subseteq alloc[j]
Grants ==
  \E j \in Jobs : \E P \in SUBSET GPUs :
    /\ P \cap alloc[j] = {}
    /\ alloc' = [alloc EXCEPT ![j] = @ \cup P]
    /\ CanAllocate(QueueOf(j), Allocation(j, P), UsageOf(alloc), TRUE)

Effect == scenario' = scenario /\ Types' /\ Owned' /\ UsageCounted' /\ (GivesBack \/ Grants)

\* A job id is not None.
LEMMA NoneIsNoJob == None \notin Jobs
BY PlacementAssumption

\* The queues of the jobs.
LEMMA QueueTypes ==
  ASSUME Types
  PROVE  scenario.queue \in JobQueues /\ \A j \in Jobs : QueueOf(j) = scenario.queue[j] /\ QueueOf(j) \in Queues
BY ScenarioAssumption DEF Types, JobQueues, QueueOf

\* The cached usage, aggregated, is no less than that of the GPUs really held.
LEMMA CachedUsage ==
  ASSUME Inv
  PROVE  /\ Usage \in [Queues -> Vectors] /\ UsageOf(alloc) \in [Queues -> Vectors]
         /\ AtMost(UsageOf(alloc), Usage)
<1>1. DirectOf(alloc) \in [Queues -> Vectors] /\ direct \in [Queues -> Vectors]
  BY DirectIs, DirectType, QueueTypes DEF Inv, Types
<1>2. AtMost(DirectOf(alloc), direct)
  BY DEF Inv, UsageCounted
<1> QED  BY <1>1, <1>2, AggregateType, AggregateMonotone DEF Usage, UsageOf

\* can_allocate, asked on the cached usage, answers for the real one.
LEMMA CachedAllocates ==
  ASSUME Inv, NEW j \in Jobs, NEW P \in SUBSET GPUs, NEW borrowing,
         CanAllocate(QueueOf(j), Allocation(j, P), Usage, borrowing)
  PROVE  CanAllocate(QueueOf(j), Allocation(j, P), UsageOf(alloc), TRUE)
<1>1. QueueOf(j) \in Queues /\ Allocation(j, P) \in Vectors
  BY QueueTypes, AllocationType DEF Inv
<1> QED  BY <1>1, CachedUsage, LessUsageAllocates

\* A step that only takes GPUs from jobs, and caches the usage of before or after it, if
\* it caches any.
LEMMA GivingBack ==
  ASSUME Inv, scenario' = scenario, alloc' \in Holdings, owner' \in [GPUs -> Jobs \cup {None}],
         Owned', GivesBack,
         direct' \in {direct, DirectOf(alloc), DirectBy(scenario.queue, alloc')}
  PROVE  Effect
<1> DEFINE Q == scenario.queue
           u == DirectBy(Q, alloc)
           v == DirectBy(Q, alloc')
<1>1. Q \in JobQueues /\ alloc \in Holdings
  BY QueueTypes DEF Inv, Types
<1>2. u \in [Queues -> Vectors] /\ v \in [Queues -> Vectors] /\ direct \in [Queues -> Vectors]
  BY <1>1, DirectType DEF Inv, Types
<1>3. AtMost(v, u)
  BY <1>1, DirectMonotone DEF GivesBack
<1>4. AtMost(u, direct)
  BY DirectIs DEF Inv, UsageCounted
<1>5. direct' \in {direct, u, v}
  BY DirectIs
<1>6. DirectOf(alloc)' = v
  BY DEF DirectOf, DirectBy, QueueOf, Charges
<1> HIDE DEF u, v, Q
<1>7. AtMost(v, direct') /\ direct' \in [Queues -> Vectors]
  BY <1>2, <1>3, <1>4, <1>5, AtMostOrder
<1>8. UsageCounted'
  BY <1>6, <1>7 DEF UsageCounted, AtMost
<1> QED  BY <1>7, <1>8 DEF Effect, Inv, Types

\* A step that gives a job GPUs and charges them, or caches the usage of after it.
LEMMA Granting ==
  ASSUME Inv, scenario' = scenario, NEW j \in Jobs, NEW P \in SUBSET GPUs, P \cap alloc[j] = {},
         alloc' = [alloc EXCEPT ![j] = @ \cup P], owner' \in [GPUs -> Jobs \cup {None}], Owned',
         CanAllocate(QueueOf(j), Allocation(j, P), UsageOf(alloc), TRUE),
         \/ direct' = [direct EXCEPT ![QueueOf(j)] = Plus(@, Allocation(j, P))]
         \/ direct' = DirectBy(scenario.queue, alloc')
  PROVE  Effect
<1> DEFINE Q == scenario.queue
           u == DirectBy(Q, alloc)
           v == DirectBy(Q, alloc')
           A == Allocation(j, P)
<1>1. Q \in JobQueues /\ alloc \in Holdings /\ Q[j] \in Queues /\ QueueOf(j) = Q[j]
  BY QueueTypes DEF Inv, Types
<1>2. alloc' \in Holdings
  BY <1>1 DEF Holdings
<1>3. A \in Vectors
  BY AllocationType
<1>4. /\ u \in [Queues -> Vectors] /\ v \in [Queues -> Vectors]
      /\ direct \in [Queues -> Vectors]
  BY <1>1, <1>2, DirectType DEF Inv, Types
<1>5. v = [u EXCEPT ![Q[j]] = Plus(@, A)]
  <2>1. DirectBy(Q, [alloc EXCEPT ![j] = @ \cup P])
          = [DirectBy(Q, alloc) EXCEPT ![Q[j]] = Plus(@, Allocation(j, P))]
    <3> DEFINE a == alloc
    <3>1. Q \in JobQueues /\ a \in Holdings /\ P \cap a[j] = {}
      BY <1>1
    <3> HIDE DEF Q, a, v
    <3>2. DirectBy(Q, [a EXCEPT ![j] = @ \cup P])
            = [DirectBy(Q, a) EXCEPT ![Q[j]] = Plus(@, Allocation(j, P))]
      BY ONLY <3>1, j \in Jobs, P \in SUBSET GPUs, DirectGains
    <3> QED  BY <3>2 DEF a
  <2> QED  BY <2>1
<1>6. AtMost(u, direct)
  BY DirectIs DEF Inv, UsageCounted
<1>7. DirectOf(alloc)' = v
  BY DEF DirectOf, DirectBy, QueueOf, Charges
<1>8. AtMost(v, direct') /\ direct' \in [Queues -> Vectors]
  <2> HIDE DEF u, v, Q, A
  <2>1. CASE direct' = [direct EXCEPT ![Q[j]] = Plus(@, A)]
    <3>1. Plus(direct[Q[j]], A) \in Vectors
      BY <1>1, <1>3, <1>4 DEF Plus, Vectors
    <3>2. ASSUME NEW q \in Queues, NEW d \in Dims PROVE v[q][d] <= direct'[q][d]
      <4>1. u[q][d] \in Nat /\ direct[q][d] \in Nat /\ A[d] \in Nat /\ u[q][d] <= direct[q][d]
        BY <1>3, <1>4, <1>6 DEF Vectors, AtMost
      <4>2. v[q][d] = IF q = Q[j] THEN u[q][d] + A[d] ELSE u[q][d]
        BY <1>4, <1>5 DEF Plus
      <4>3. direct'[q][d] = IF q = Q[j] THEN direct[q][d] + A[d] ELSE direct[q][d]
        BY <1>4, <2>1 DEF Plus
      <4> QED  BY <4>1, <4>2, <4>3
    <3> QED  BY <1>4, <2>1, <3>1, <3>2 DEF AtMost
  <2>2. CASE direct' = v
    BY <1>4, <2>2, AtMostOrder
  <2> QED  BY <1>1, <2>1, <2>2 DEF Q, v, A
<1>9. UsageCounted'
  BY <1>7, <1>8 DEF UsageCounted, AtMost
<1> QED  BY <1>2, <1>8, <1>9 DEF Effect, Inv, Types, Grants

\* Cluster.release of some jobs.
LEMMA Releasing ==
  ASSUME Inv, NEW R, Release(R)
  PROVE  /\ alloc' \in Holdings /\ owner' \in [GPUs -> Jobs \cup {None}]
         /\ Owned' /\ GivesBack
<1> USE DEF Inv, Types, Holdings
<1>1. alloc' \in Holdings /\ owner' \in [GPUs -> Jobs \cup {None}] /\ GivesBack
  BY DEF Release, GivesBack
<1>2. ASSUME NEW g \in GPUs, NEW j \in Jobs PROVE owner'[g] = j <=> g \in alloc'[j]
  <2>1. owner[g] = j <=> g \in alloc[j]
    BY DEF Owned
  <2>2. owner'[g] = IF owner[g] \in R THEN None ELSE owner[g]
    BY DEF Release
  <2>3. alloc'[j] = IF j \in R THEN {} ELSE alloc[j]
    BY DEF Release
  <2> QED  BY <2>1, <2>2, <2>3, NoneIsNoJob
<1> QED  BY <1>1, <1>2 DEF Owned

\* Cluster.allocate and resize of a job to GPUs that are its own or free.
LEMMA Resizing ==
  ASSUME Inv, NEW j \in Jobs, NEW P \in SUBSET GPUs, Resize(j, P),
         \A g \in P : owner[g] \in {j, None}
  PROVE  /\ alloc' \in Holdings /\ owner' \in [GPUs -> Jobs \cup {None}] /\ Owned'
         /\ P \subseteq alloc[j] => GivesBack
<1> USE DEF Inv, Types, Holdings
<1>1. alloc' \in Holdings /\ owner' \in [GPUs -> Jobs \cup {None}]
  BY DEF Resize
<1>2. P \subseteq alloc[j] => GivesBack
  BY DEF Resize, GivesBack
<1>3. ASSUME NEW g \in GPUs, NEW i \in Jobs PROVE owner'[g] = i <=> g \in alloc'[i]
  <2>1. owner[g] = i <=> g \in alloc[i]
    BY DEF Owned
  <2>2. owner'[g] = IF g \in P THEN j ELSE IF owner[g] = j THEN None ELSE owner[g]
    BY DEF Resize
  <2>3. alloc'[i] = IF i = j THEN P ELSE alloc[i]
    BY DEF Resize
  <2> QED  BY <2>1, <2>2, <2>3, NoneIsNoJob
<1> QED  BY <1>1, <1>2, <1>3 DEF Owned

\* Nothing changes hands.
LEMMA Unmoved ==
  ASSUME Inv, UNCHANGED <<alloc, owner>>
  PROVE  /\ alloc' \in Holdings /\ owner' \in [GPUs -> Jobs \cup {None}]
         /\ Owned' /\ GivesBack
BY DEF Inv, Types, Owned, GivesBack, Holdings

-----------------------------------------------------------------------------
(* The steps.                                                              *)

\* The head of the loop and the handlers take GPUs away, if anything.
LEMMA LoopEventEffect ==
  ASSUME Inv, LoopEvent
  PROVE  Effect /\ PlanHeld'
<1> USE DEF jobVars, queueVars, nodeVars, passVars
<1> DEFINE Taken == /\ alloc' \in Holdings /\ owner' \in [GPUs -> Jobs \cup {None}]
                    /\ Owned' /\ GivesBack
<1>1. ASSUME NEW e \in heap, Discard(e) \/ Pop(e)
      PROVE  scenario' = scenario /\ pc' \notin {"commit", "retry"} /\ Taken
  BY <1>1, Unmoved DEF Discard, Pop
<1>2. ASSUME Finish
      PROVE  scenario' = scenario /\ pc' \notin {"commit", "retry"} /\ Taken
  BY <1>2, Unmoved DEF Finish
<1>3. ASSUME NEW e \in batch, Handle(e)
      PROVE  scenario' = scenario /\ pc' \notin {"commit", "retry"} /\ Taken
  <2>1. Take(e)
    BY <1>3 DEF Handle, StaleTimer, Complete, CompleteCheckpoint, CompleteRestart, Restore,
                Drain, Fail
  <2>2. scenario' = scenario /\ pc' \notin {"commit", "retry"}
    BY <2>1 DEF Take
  <2>3. CASE StaleTimer(e) \/ CompleteRestart(e) \/ Restore(e) \/ Drain(e)
    <3>1. UNCHANGED <<alloc, owner>>
      BY <2>3 DEF StaleTimer, CompleteRestart, Restore, Drain
    <3> QED  BY <2>2, <3>1, Unmoved
  <2>4. CASE Complete(e) \/ CompleteCheckpoint(e)
    <3>1. Release({e.id})
      BY <2>4 DEF Complete, CompleteCheckpoint
    <3> QED  BY <2>2, <3>1, Releasing
  <2>5. CASE Fail(e)
    <3> DEFINE lostGpus == OnNode(e.id)
               impacted == {j \in Jobs : alloc[j] \cap lostGpus # {}}
               shrunk == {j \in impacted \cap ElasticJobs :
                            /\ status[j] = "running"
                            /\ Cardinality(alloc[j] \ lostGpus) >= MinReplicas[j]}
               lost == impacted \ shrunk
    <3>1. /\ owner' = [g \in GPUs |-> IF g \in lostGpus \/ owner[g] \in lost THEN None ELSE owner[g]]
          /\ alloc' = [j \in Jobs |-> IF j \in lost THEN {} ELSE alloc[j] \ lostGpus]
      BY <2>5 DEF Fail
    <3> HIDE DEF lostGpus, lost
    <3>2. /\ alloc' \in Holdings /\ owner' \in [GPUs -> Jobs \cup {None}] /\ GivesBack
      BY <3>1 DEF Inv, Types, Holdings, GivesBack
    <3>3. ASSUME NEW g \in GPUs, NEW j \in Jobs PROVE owner'[g] = j <=> g \in alloc'[j]
      <4>1. owner[g] = j <=> g \in alloc[j]
        BY DEF Inv, Owned
      <4>2. owner'[g] = IF g \in lostGpus \/ owner[g] \in lost THEN None ELSE owner[g]
        BY <3>1
      <4>3. alloc'[j] = IF j \in lost THEN {} ELSE alloc[j] \ lostGpus
        BY <3>1
      <4> QED  BY <4>1, <4>2, <4>3, NoneIsNoJob
    <3> QED  BY <2>2, <3>2, <3>3 DEF Owned
  <2> QED  BY <1>3, <2>3, <2>4, <2>5 DEF Handle
<1>4. scenario' = scenario /\ pc' \notin {"commit", "retry"} /\ Taken
  <2> HIDE DEF Taken
  <2> QED  BY <1>1, <1>2, <1>3 DEF LoopEvent, LoopStep
<1>5. direct' = direct
  BY DEF LoopEvent
<1> QED  BY <1>4, <1>5, GivingBack DEF PlanHeld

\* Nothing is handed out or taken, and the usage is at most refreshed.
LEMMA IdleEffect ==
  ASSUME Inv, scenario' = scenario, UNCHANGED <<alloc, owner>>,
         direct' = direct \/ direct' = DirectOf(alloc)
  PROVE  Effect
BY Unmoved, GivingBack

\* A job is started on free GPUs that the quotas allow.
LEMMA StartEffect ==
  ASSUME Inv, scenario' = scenario, NEW j \in Jobs, NEW P, NEW borrowing,
         P \subseteq Hosts(j, ViewFor(j)),
         CanAllocate(QueueOf(j), Allocation(j, P), Usage, borrowing),
         Start(j, P)
  PROVE  Effect
<1>1. P \in SUBSET GPUs /\ \A g \in P : owner[g] = None
  BY HostsFree
<1>2. alloc[j] = {} /\ Resize(j, P) /\ Charge(j, P)
  BY DEF Start, StartJob, Allocate
<1>3. alloc' = [alloc EXCEPT ![j] = @ \cup P]
  BY <1>2 DEF Resize
<1>4. direct' = [direct EXCEPT ![QueueOf(j)] = Plus(@, Allocation(j, P))]
  BY <1>2 DEF Charge
<1>5. owner' \in [GPUs -> Jobs \cup {None}] /\ Owned'
  BY <1>1, <1>2, Resizing
<1>6. CanAllocate(QueueOf(j), Allocation(j, P), UsageOf(alloc), TRUE)
  BY <1>1, CachedAllocates
<1>7. P \cap alloc[j] = {}
  BY <1>2
<1> QED  BY <1>1, <1>3, <1>4, <1>5, <1>6, <1>7, Granting

\* One attempt of the pass.
LEMMA AttemptEffect ==
  ASSUME Inv, scenario' = scenario, NEW j \in Jobs, NEW borrowing,
         NEW P \in {PlaceNow(j, borrowing)}, StartOrWait(j, P)
  PROVE  Effect
<1>1. CASE P # {}
  <2>1. Start(j, P)
    BY <1>1 DEF StartOrWait
  <2>2. /\ P \subseteq Hosts(j, ViewFor(j))
        /\ CanAllocate(QueueOf(j), Allocation(j, P), Usage, borrowing)
    BY <1>1, PlaceNowIs
  <2> QED  BY <2>1, <2>2, StartEffect
<1>2. CASE P = {}
  <2>1. UNCHANGED <<alloc, owner, direct>>
    BY <1>2 DEF StartOrWait, GiveUp, NoChange, jobVars, shareVars
  <2> QED  BY <2>1, IdleEffect
<1> QED  BY <1>1, <1>2

\* The steps of the pass that move no GPU.
LEMMA QuietEffect ==
  ASSUME Inv,
         \/ \E e \in batch : Submit(e)
         \/ BeginPass \/ BeginBorrowing \/ BeginResume \/ EndPass
         \/ Regenerate \/ EndInstant
  PROVE  Effect /\ PlanHeld'
<1> USE DEF jobVars, queueVars, nodeVars, passVars, shareVars, stepVars
<1> DEFINE Quiet == /\ scenario' = scenario /\ pc' \notin {"commit", "retry"} /\ UNCHANGED <<alloc, owner>>
                    /\ direct' = direct \/ direct' = DirectOf(alloc)
<1>1. Quiet
  <2>1. ASSUME NEW e \in batch, Submit(e) PROVE Quiet
    BY <2>1 DEF Submit, Arrive, Take
  <2>2. CASE BeginPass
    BY <2>2 DEF BeginPass, Prepare
  <2>3. CASE BeginBorrowing
    BY <2>3 DEF BeginBorrowing, Prepare
  <2>4. CASE BeginResume
    BY <2>4 DEF BeginResume
  <2>5. CASE EndPass
    BY <2>5 DEF EndPass
  <2>6. CASE Regenerate
    BY <2>6 DEF Regenerate
  <2>7. CASE EndInstant
    BY <2>7 DEF EndInstant, Prepare
  <2> QED  BY <2>1, <2>2, <2>3, <2>4, <2>5, <2>6, <2>7
<1> QED  BY <1>1, IdleEffect DEF PlanHeld

\* The guarantee pass and the attempts of resumed victims.
LEMMA TryEffect ==
  ASSUME Inv, TryGuaranteed \/ Resume
  PROVE  Effect /\ PlanHeld'
<1>1. scenario' = scenario /\ pc' \notin {"commit", "retry"}
  BY DEF TryGuaranteed, Resume
<1>2. CASE TryGuaranteed
  <2>1. PICK j \in Jobs : \E P \in {PlaceNow(j, FALSE)} : StartOrWait(j, P)
    BY <1>2 DEF TryGuaranteed
  <2> QED  BY <1>1, <2>1, AttemptEffect DEF PlanHeld
<1>3. CASE Resume
  <2>1. PICK j \in Jobs : \E P \in {PlaceNow(j, Borrowing)} : StartOrWait(j, P)
    BY <1>3 DEF Resume
  <2> QED  BY <1>1, <2>1, AttemptEffect DEF PlanHeld
<1> QED  BY <1>2, <1>3

\* The borrowing pass: a job starts, waits, or makes a plan that takes and does not give.
LEMMA BorrowingEffect ==
  ASSUME Inv, TryBorrowing
  PROVE  Effect /\ PlanHeld'
<1> USE DEF jobVars, queueVars, nodeVars, shareVars
<1>1. scenario' = scenario /\ pc = "dispatch"
  BY DEF TryBorrowing
<1>2. PICK j \in Jobs : \E P \in {PlaceNow(j, Borrowing)} :
         \/ StartOrWait(j, P) /\ UNCHANGED <<pc, plan>>
         \/ /\ Prepare(alloc)
            /\ \E plans \in {Plans(j)} :
                 \/ plans = {} /\ UNCHANGED <<pc, plan>>
                 \/ (\E p \in Best(plans) : plan' = Commitment(j, p)) /\ pc' = "commit"
            /\ UNCHANGED <<heap, jobVars, queueVars, nodeVars, entitled>>
  BY DEF TryBorrowing
<1>3. PICK P \in {PlaceNow(j, Borrowing)} :
         \/ StartOrWait(j, P) /\ UNCHANGED <<pc, plan>>
         \/ /\ Prepare(alloc)
            /\ \E plans \in {Plans(j)} :
                 \/ plans = {} /\ UNCHANGED <<pc, plan>>
                 \/ (\E p \in Best(plans) : plan' = Commitment(j, p)) /\ pc' = "commit"
            /\ UNCHANGED <<heap, jobVars, queueVars, nodeVars, entitled>>
  BY <1>2
<1>4. CASE StartOrWait(j, P) /\ UNCHANGED <<pc, plan>>
  BY <1>1, <1>4, AttemptEffect DEF PlanHeld
<1>5. CASE /\ Prepare(alloc)
           /\ \E plans \in {Plans(j)} :
                \/ plans = {} /\ UNCHANGED <<pc, plan>>
                \/ (\E p \in Best(plans) : plan' = Commitment(j, p)) /\ pc' = "commit"
           /\ UNCHANGED <<heap, jobVars, queueVars, nodeVars, entitled>>
  <2>1. Effect
    <3>1. direct' = DirectOf(alloc) /\ UNCHANGED <<alloc, owner>>
      BY <1>5 DEF Prepare
    <3> QED  BY <1>1, <3>1, IdleEffect
  <2>2. CASE UNCHANGED pc
    BY <1>1, <2>1, <2>2 DEF PlanHeld
  <2>3. ASSUME NEW p \in Best(Plans(j)), plan' = Commitment(j, p)
        PROVE  PlanHeld'
    <3>1. p \in Plans(j)
      BY <2>3 DEF Best, Least, First
    <3>2. PICK w \in Vendors(UsableGpus \cap Compatible[j]) : p = PlanOf(j, w)
      BY <3>1 DEF Plans
    <3>3. \A v \in Jobs : p.alloc[v] \subseteq alloc[v]
      BY <3>2, PlanKeeps DEF Within
    <3>4. plan'.alloc = p.alloc /\ plan'.shrink \subseteq Jobs /\ plan'.target \in Jobs
      BY <2>3 DEF Commitment
    <3>5. alloc' = alloc
      BY <1>5
    <3> QED  BY <3>3, <3>4, <3>5 DEF PlanHeld
  <2> QED  BY <1>5, <2>1, <2>2, <2>3
<1> QED  BY <1>3, <1>4, <1>5

\* A planned shrink takes GPUs from one job.
LEMMA ShrinkEffect ==
  ASSUME Inv, CommitShrink
  PROVE  Effect /\ PlanHeld'
<1> USE DEF queueVars, nodeVars, passVars, shareVars
<1> DEFINE j == Min(plan.shrink)
<1>1. plan.shrink # {} /\ pc = "commit" /\ scenario' = scenario /\ direct' = direct
  BY DEF CommitShrink
<1>2. plan.shrink \subseteq Jobs /\ \A i \in plan.shrink : plan.alloc[i] \subseteq alloc[i]
  BY <1>1 DEF Inv, PlanHeld
<1>3. j \in plan.shrink /\ j \in Jobs
  <2>1. plan.shrink \in SUBSET Nat
    BY <1>2, PlacementAssumption
  <2> QED  BY <1>1, <1>2, <2>1, MinIn
<1>4. Resize(j, plan.alloc[j]) /\ plan' = [plan EXCEPT !.shrink = @ \ {j}]
  BY DEF CommitShrink
<1> HIDE DEF j
<1>5. plan.alloc[j] \in SUBSET GPUs /\ \A g \in plan.alloc[j] : owner[g] \in {j, None}
  BY <1>2, <1>3 DEF Inv, Types, Holdings, Owned
<1>6. /\ alloc' \in Holdings /\ owner' \in [GPUs -> Jobs \cup {None}] /\ Owned' /\ GivesBack
  BY <1>2, <1>3, <1>4, <1>5, Resizing
<1>7. Effect
  BY <1>1, <1>6, GivingBack
<1>8. ASSUME NEW i \in plan'.shrink PROVE i \in Jobs /\ plan'.alloc[i] \subseteq alloc'[i]
  <2>1. plan'.alloc = plan.alloc /\ plan'.shrink \subseteq plan.shrink \ {j}
    BY <1>4
  <2>2. i \in plan.shrink /\ i # j
    BY <1>8, <2>1
  <2>3. alloc'[i] = alloc[i]
    BY <1>2, <1>4, <2>2 DEF Resize, Inv, Types, Holdings
  <2> QED  BY <1>2, <2>1, <2>2, <2>3
<1>9. plan'.target \in Jobs
  <2>1. plan'.target = plan.target
    BY <1>4
  <2> QED  BY <1>1, <2>1 DEF Inv, PlanHeld
<1> QED  BY <1>1, <1>7, <1>8, <1>9 DEF PlanHeld

\* The evictions take all GPUs from their victims.
LEMMA EvictEffect ==
  ASSUME Inv, CommitEvict
  PROVE  Effect /\ PlanHeld'
<1> DEFINE deferred == \E v \in plan.victims : CheckpointCost[v] > 0
           freed == {v \in plan.victims : CheckpointCost[v] = 0}
<1>1. /\ scenario' = scenario
      /\ Release(freed)
      /\ IF deferred THEN UNCHANGED <<direct, service, borrowed>> ELSE Prepare(alloc')
      /\ pc' = IF deferred THEN "dispatch" ELSE "retry"
  BY DEF CommitEvict
<1> HIDE DEF deferred, freed
<1>2. direct' = direct \/ direct' = DirectBy(scenario.queue, alloc')
  <2>1. Prepare(alloc') => direct' = DirectOf(alloc')
    BY DEF Prepare
  <2> QED  BY <1>1, <2>1, DirectIs
<1>3. /\ alloc' \in Holdings /\ owner' \in [GPUs -> Jobs \cup {None}] /\ Owned' /\ GivesBack
  BY <1>1, Releasing
<1>4. pc' # "commit"
  BY <1>1
<1>5. pc' = "retry" => plan'.target \in Jobs
  <2>1. pc = "commit" /\ plan' = IF deferred THEN NoPlan ELSE plan
    BY DEF CommitEvict, deferred
  <2> QED  BY <1>1, <2>1 DEF Inv, PlanHeld
<1> QED  BY <1>1, <1>2, <1>3, <1>4, <1>5, GivingBack DEF PlanHeld

\* The target of a plan that freed its placement at once is started on it, or the program
\* stops.
LEMMA RetryEffect ==
  ASSUME Inv, Retry
  PROVE  Effect /\ PlanHeld'
<1>0. plan.target \in Jobs
  BY DEF Retry, Inv, PlanHeld
<1> DEFINE h == plan.target
           P == QuotaPlace(h, ViewFor(h), Usage, Borrowing)
           fits == P # {} /\ Covered(h, P, Usage, plan.queues)
<1>1. /\ scenario' = scenario
      /\ pc' = IF fits THEN "dispatch" ELSE "crashed"
      /\ IF fits THEN Start(h, P) ELSE NoChange
  BY DEF Retry
<1>2. CASE fits
  <2>1. /\ P \subseteq Hosts(h, ViewFor(h))
        /\ CanAllocate(QueueOf(h), Allocation(h, P), Usage, Borrowing)
    <3> DEFINE X == P
    <3>1. X = QuotaPlace(h, ViewFor(h), Usage, Borrowing) /\ X # {}
      BY <1>2
    <3> HIDE DEF X
    <3>2. /\ X \subseteq Hosts(h, ViewFor(h))
          /\ CanAllocate(QueueOf(h), Allocation(h, X), Usage, Borrowing)
      BY <1>0, <3>1, QuotaPlaceIs
    <3> QED  BY <3>2 DEF X
  <2>2. Start(h, P) /\ pc' \notin {"commit", "retry"}
    BY <1>1, <1>2
  <2> HIDE DEF P, fits
  <2> QED  BY <1>0, <1>1, <2>1, <2>2, StartEffect DEF PlanHeld
<1>3. CASE ~fits
  <2>1. NoChange /\ pc' \notin {"commit", "retry"}
    BY <1>1, <1>3
  <2>2. UNCHANGED <<alloc, owner, direct>>
    BY <2>1 DEF NoChange, jobVars, shareVars
  <2> QED  BY <1>1, <2>1, <2>2, IdleEffect DEF PlanHeld
<1> QED  BY <1>2, <1>3

\* An elastic job grows by GPUs that the quotas allow.
LEMMA GrowEffect ==
  ASSUME Inv, Grow
  PROVE  Effect /\ PlanHeld'
<1>1. /\ scenario' = scenario /\ pc' \notin {"commit", "retry"} /\ Prepare(alloc')
  BY DEF Grow
<1>2. PICK j \in Jobs : MayGrow(j) /\ Resize(j, alloc[j] \cup GrowthOf(j))
  BY DEF Grow, Foremost
<1> DEFINE P == GrowthOf(j)
<1>3. P \subseteq Hosts(j, ViewFor(j))
  BY DEF GrowthOf, Least, First
<1>4. P \in SUBSET GPUs /\ \A g \in P : owner[g] = None
  BY <1>3, HostsFree
<1>5. CanAllocate(QueueOf(j), Allocation(j, P), UsageOf(alloc), TRUE)
  <2>1. CanAllocate(QueueOf(j), Allocation(j, P), UsageOf(alloc), Borrowing)
    BY <1>2 DEF MayGrow
  <2> QED  BY <2>1 DEF CanAllocate
<1>6. alloc' = [alloc EXCEPT ![j] = @ \cup P]
  BY <1>2 DEF Resize
<1> HIDE DEF P
<1>7. alloc[j] \in SUBSET GPUs /\ (\A g \in alloc[j] : owner[g] = j) /\ P \cap alloc[j] = {}
  BY <1>4, NoneIsNoJob DEF Inv, Types, Holdings, Owned
<1>8. owner' \in [GPUs -> Jobs \cup {None}] /\ Owned'
  BY <1>2, <1>4, <1>7, Resizing DEF P
<1>9. direct' = DirectBy(scenario.queue, alloc')
  BY <1>1, DirectIs DEF Prepare
<1> QED  BY <1>1, <1>4, <1>5, <1>6, <1>7, <1>8, <1>9, Granting DEF PlanHeld

\* Every step keeps the invariant, and takes GPUs from jobs or grants some.
LEMMA StepEffect ==
  ASSUME Inv, [Next]_vars
  PROVE  Effect /\ Inv'
<1>1. Effect /\ PlanHeld'
  <2>1. CASE Step
    <3>1. CASE TryGuaranteed \/ Resume
      BY <3>1, TryEffect
    <3>2. CASE \/ \E e \in batch : Submit(e)
               \/ BeginPass \/ BeginBorrowing \/ BeginResume \/ EndPass
               \/ Regenerate \/ EndInstant
      BY <3>2, QuietEffect
    <3> QED  BY <2>1, <3>1, <3>2, LoopEventEffect, BorrowingEffect, ShrinkEffect,
                EvictEffect, RetryEffect, GrowEffect DEF Step
  <2>2. CASE UNCHANGED vars
    <3>1. UNCHANGED <<scenario, alloc, owner, direct, pc, plan>>
      BY <2>2 DEF vars, loopVars, jobVars, shareVars, stepVars
    <3> QED  BY <3>1, IdleEffect DEF PlanHeld, Inv
  <2> QED  BY <2>1, <2>2 DEF Next, Terminated
<1> QED  BY <1>1 DEF Effect, Inv

\* At first no job holds anything.
LEMMA InitInv == Init => Inv
<1> SUFFICES ASSUME Init PROVE Inv
  OBVIOUS
<1>1. Types
  BY DEF Init, LoopInit, Types, Holdings, Zero, Vectors
<1>2. Owned
  BY NoneIsNoJob DEF Init, LoopInit, Owned
<1>3. UsageCounted /\ DirectOf(alloc) = [q \in Queues |-> Zero]
  <2>1. ASSUME NEW q \in Queues, NEW d \in Dims PROVE DirectOf(alloc)[q][d] = 0
    <3> DEFINE here == {j \in Jobs : scenario.queue[j] = q}
               f == Charges(alloc, d)
    <3>1. IsFiniteSet(here)
      BY PlacementAssumption, FS_Subset
    <3>2. \A j \in here : f[j] = 0
      BY AllocationEmpty DEF Init, LoopInit, Charges, Zero
    <3>3. SumFunctionOnSet(f, here) = 0
      <4> HIDE DEF f, here
      <4> QED  BY <3>1, <3>2, SumZero
    <3>4. DirectOf(alloc)[q][d] = SumFunctionOnSet(f, here)
      BY DirectIs DEF DirectBy
    <3> QED  BY <3>3, <3>4
  <2>2. \A q \in Queues : \A d \in Dims : direct[q][d] = 0
    BY DEF Init, Zero
  <2>3. DirectOf(alloc) \in [Queues -> Vectors]
    BY <1>1, DirectIs, DirectType, QueueTypes DEF Types
  <2>4. DirectOf(alloc) = [q \in Queues |-> [d \in Dims |-> 0]]
    <3>1. \A q \in Queues : DirectOf(alloc)[q] = [d \in Dims |-> 0]
      BY <2>1, <2>3 DEF Vectors
    <3> QED  BY <2>3, <3>1
  <2> QED  BY <2>1, <2>2, <2>4 DEF UsageCounted, AtMost, Zero
<1>4. PlanHeld
  BY DEF Init, LoopInit, PlanHeld
<1> QED  BY <1>1, <1>2, <1>3, <1>4 DEF Inv

\* The invariant holds in every state.
THEOREM Invariance == Spec => []Inv
<1>1. Inv /\ [Next]_vars => Inv'
  BY StepEffect
<1> QED  BY <1>1, InitInv, PTL DEF Spec

-----------------------------------------------------------------------------
(* The quota ledger.                                                       *)

\* The ledger's can_allocate is the scheduler's.
LEMMA SameHierarchy ==
  /\ \A q, v, u, b : Ledger!CanAllocate(q, v, u, b) = CanAllocate(q, v, u, b)
  /\ \A q : Ledger!Ancestors(q) = Ancestors(q)
  /\ \A u, v : Ledger!Plus(u, v) = Plus(u, v)
  /\ Ledger!Vectors = Vectors /\ Ledger!Dims = Dims /\ Ledger!Zero = Zero
BY DEF Ledger!CanAllocate, CanAllocate, Ledger!Ancestors, Ancestors, Ledger!Plus, Plus,
       Ledger!FitsLimit, FitsLimit, Ledger!HasGuarantee, HasGuarantee, Ledger!MayBorrow, MayBorrow,
       Ledger!WithinGuarantee, WithinGuarantee, Ledger!Vectors, Vectors, Ledger!Dims, Dims,
       Ledger!Zero, Zero

\* At first nothing is used.
LEMMA InitRefines == Init => Ledger!Init
<1> SUFFICES ASSUME Init PROVE UsageOf(alloc) = [q \in Queues |-> Zero]
  BY SameHierarchy DEF Ledger!Init
<1>1. Inv
  BY InitInv
<1>2. UsageOf(alloc) \in [Queues -> Vectors] /\ Usage \in [Queues -> Vectors] /\ AtMost(UsageOf(alloc), Usage)
  BY <1>1, CachedUsage
<1>3. ASSUME NEW q \in Queues, NEW d \in Dims PROVE Usage[q][d] = 0
  <2> DEFINE below == {c \in Queues : q \in Ancestors(c)}
             f == [c \in Queues |-> direct[c][d]]
  <2>1. IsFiniteSet(below)
    BY HierarchyAssumption, FS_Subset
  <2>2. \A c \in below : f[c] = 0
    BY DEF Init, Zero
  <2>3. Usage[q][d] = SumFunctionOnSet(f, below)
    BY DEF Usage, Aggregate
  <2> HIDE DEF f, below
  <2> QED  BY <2>1, <2>2, <2>3, SumZero
<1>4. ASSUME NEW q \in Queues, NEW d \in Dims PROVE UsageOf(alloc)[q][d] = 0
  <2>1. UsageOf(alloc)[q][d] \in Nat /\ UsageOf(alloc)[q][d] <= 0
    BY <1>2, <1>3 DEF Vectors, AtMost
  <2> QED  BY <2>1
<1>5. \A q \in Queues : UsageOf(alloc)[q] = Zero
  BY <1>2, <1>4 DEF Vectors, Zero
<1> QED  BY <1>2, <1>5

\* Every step is a return, a grant that can_allocate accepts, or leaves usage alone.
LEMMA StepRefines ==
  ASSUME Inv, [Next]_vars
  PROVE  Ledger!Next
<1> DEFINE Q == scenario.queue
           u == UsageOf(alloc)
           v == UsageBy(Q, alloc')
<1>1. Effect
  BY StepEffect
<1>2. Q \in JobQueues /\ alloc \in Holdings /\ alloc' \in Holdings
      /\ \A j \in Jobs : QueueOf(j) = Q[j] /\ Q[j] \in Queues
  BY <1>1, QueueTypes DEF Inv, Types, Effect
<1>3. DirectBy(Q, alloc) \in [Queues -> Vectors] /\ DirectBy(Q, alloc') \in [Queues -> Vectors]
  BY <1>2, DirectType
<1>4. u = Aggregate(DirectBy(Q, alloc)) /\ v = Aggregate(DirectBy(Q, alloc'))
  BY DirectIs DEF UsageBy
<1>5. u \in [Queues -> Vectors] /\ v \in [Queues -> Vectors]
  BY <1>3, <1>4, AggregateType
<1>6. UsageOf(alloc)' = v
  <2>1. scenario' = scenario
    BY <1>1 DEF Effect
  <2> QED  BY <2>1 DEF UsageOf, DirectOf, UsageBy, DirectBy, QueueOf, Charges
<1>7. CASE GivesBack
  <2>1. AtMost(DirectBy(Q, alloc'), DirectBy(Q, alloc))
    BY <1>2, <1>7, DirectMonotone DEF GivesBack
  <2>2. AtMost(v, u)
    BY <1>3, <1>4, <2>1, AggregateMonotone
  <2> HIDE DEF u, v
  <2>3. Ledger!Return
    BY <1>5, <1>6, <2>2, SameHierarchy DEF Ledger!Return, AtMost, u
  <2> QED  BY <2>3 DEF Ledger!Next
<1>8. CASE Grants
  <2>1. PICK j \in Jobs, P \in SUBSET GPUs :
          /\ P \cap alloc[j] = {}
          /\ alloc' = [alloc EXCEPT ![j] = @ \cup P]
          /\ CanAllocate(QueueOf(j), Allocation(j, P), u, TRUE)
    BY <1>8 DEF Grants
  <2> DEFINE q == Q[j]
             A == Allocation(j, P)
             demand == [d \in Dims |-> v[q][d] - u[q][d]]
  <2>2. q \in Queues /\ A \in Vectors /\ q \in Ancestors(q)
    <3>1. q \in Queues /\ A \in Vectors
      BY <1>2, AllocationType
    <3>2. Path[q][1] = q /\ 1 \in DOMAIN Path[q]
      <4>1. CASE q = Root
        BY <4>1, HierarchyAssumption DEF IsTree
      <4>2. CASE q # Root
        <5>1. Path[q] = <<q>> \o Path[Parent[q]] /\ Parent[q] \in Queues
          BY <3>1, <4>2, HierarchyAssumption DEF IsTree
        <5>2. Path[Parent[q]] \in Seq(Queues)
          BY <5>1, HierarchyAssumption
        <5> HIDE DEF q
        <5> QED  BY <5>1, <5>2
      <4> QED  BY <4>1, <4>2
    <3> QED  BY <3>1, <3>2 DEF Ancestors
  <2>3. v = [a \in Queues |-> IF a \in Ancestors(q) THEN Plus(u[a], A) ELSE u[a]]
    <3> DEFINE w == DirectBy(Q, alloc)
    <3>1. DirectBy(Q, alloc') = [w EXCEPT ![q] = Plus(@, A)]
      <4> DEFINE a == alloc
      <4>1. a \in Holdings /\ P \cap a[j] = {}
        BY <1>2, <2>1
      <4> HIDE DEF Q, a
      <4>2. DirectBy(Q, [a EXCEPT ![j] = @ \cup P]) = [DirectBy(Q, a) EXCEPT ![Q[j]] = Plus(@, Allocation(j, P))]
        BY ONLY <1>2, <4>1, j \in Jobs, P \in SUBSET GPUs, DirectGains
      <4> QED  BY <2>1, <4>2 DEF a
    <3>2. w \in [Queues -> Vectors] /\ u = Aggregate(w) /\ v = Aggregate(DirectBy(Q, alloc'))
      BY <1>3, <1>4
    <3> HIDE DEF u, v, w, q, A
    <3>3. Aggregate([w EXCEPT ![q] = Plus(@, A)])
            = [a \in Queues |-> IF a \in Ancestors(q) THEN Plus(Aggregate(w)[a], A)
                                ELSE Aggregate(w)[a]]
      <4>1. q \in Queues /\ A \in Vectors /\ w \in [Queues -> Vectors]
        BY <2>2, <3>2
      <4> QED  BY ONLY <4>1, AggregateGains, Zenon
    <3> QED  BY <3>1, <3>2, <3>3
  <2>4. demand = A
    <3>1. \A d \in Dims : v[q][d] = u[q][d] + A[d] /\ u[q][d] \in Nat /\ A[d] \in Nat
      <4> HIDE DEF u, v, q, A
      <4> QED  BY <1>5, <2>2, <2>3 DEF Plus, Vectors
    <3> HIDE DEF u, v, q, A
    <3>2. \A d \in Dims : demand[d] = A[d]
      BY <3>1
    <3> QED  BY <2>2, <3>2 DEF Vectors
  <2>5. CanAllocate(q, A, u, TRUE)
    BY <1>2, <2>1
  <2> HIDE DEF q, A
  <2>6. Ledger!Grant(q)
    <3>1. [d \in Dims |-> UsageOf(alloc)'[q][d] - UsageOf(alloc)[q][d]] = A
      BY <1>6, <2>4
    <3>2. /\ A \in Vectors
          /\ CanAllocate(q, A, UsageOf(alloc), TRUE)
          /\ UsageOf(alloc)' = [a \in Queues |-> IF a \in Ancestors(q) THEN Plus(UsageOf(alloc)[a], A) ELSE UsageOf(alloc)[a]]
      BY <1>6, <2>2, <2>3, <2>5
    <3> QED  BY <3>1, <3>2, SameHierarchy DEF Ledger!Grant
  <2> QED  BY <2>2, <2>6 DEF Ledger!Next
<1> QED  BY <1>1, <1>7, <1>8 DEF Effect

\* Whatever the scheduler has cached, every change of what the jobs hold is a step of the
\* quota ledger: quotas are decided on stale usage, and kept on the GPUs really held.
THEOREM LedgerRefinement == Spec => ImplementsLedger
<1>1. Inv /\ [Next]_vars => [Ledger!Next]_(UsageOf(alloc))
  BY StepRefines
<1> QED  BY <1>1, InitRefines, Invariance, PTL DEF Spec, ImplementsLedger, Ledger!Spec

\* The ledger keeps the quotas: no queue exceeds its limit or, without the right to borrow,
\* its guarantee, in any hierarchy the loader accepts, when can_allocate is asked before each
\* grant (hierarchy.py:81-106).
THEOREM LedgerKeepsQuotas == Ledger!Spec => []Ledger!QuotasRespected
<1> DEFINE Typed == UsageOf(alloc) \in [Queues -> Vectors]
           Quotas == \A q \in Queues : Respects(q, UsageOf(alloc)[q])
<1>1. Ledger!Init => Typed /\ Quotas
  <2>1. Zero \in Vectors
    BY DEF Zero, Vectors
  <2> QED  BY <2>1, ZeroRespects, SameHierarchy DEF Ledger!Init
<1>2. Typed /\ Quotas /\ [Ledger!Next]_(UsageOf(alloc)) => Typed' /\ Quotas'
  <2> DEFINE u == UsageOf(alloc)
             v == UsageOf(alloc)'
  <2> SUFFICES ASSUME u \in [Queues -> Vectors], \A a \in Queues : Respects(a, u[a]),
                      Ledger!Next \/ v = u
               PROVE  v \in [Queues -> Vectors] /\ \A a \in Queues : Respects(a, v[a])
    OBVIOUS
  <2>1. CASE Ledger!Return
    <3>1. v \in [Queues -> Vectors] /\ \A a \in Queues : \A d \in Dims : v[a][d] <= u[a][d]
      BY <2>1, SameHierarchy DEF Ledger!Return
    <3> HIDE DEF u, v
    <3> QED  BY <3>1, ReturnRespects
  <2>2. ASSUME NEW q \in Queues, Ledger!Grant(q)
        PROVE  v \in [Queues -> Vectors] /\ \A a \in Queues : Respects(a, v[a])
    <3> DEFINE demand == [d \in Dims |-> v[q][d] - u[q][d]]
    <3>1. /\ demand \in Vectors
          /\ CanAllocate(q, demand, u, TRUE)
          /\ v = [a \in Queues |-> IF a \in Ancestors(q) THEN Plus(u[a], demand) ELSE u[a]]
      BY <2>2, SameHierarchy DEF Ledger!Grant
    <3> HIDE DEF demand, u, v
    <3>2. v \in [Queues -> Vectors]
      BY <3>1, PlusType
    <3>3. ASSUME NEW a \in Queues PROVE Respects(a, v[a])
      BY <3>1, GrantRespects
    <3> QED  BY <3>2, <3>3
  <2>3. CASE v = u
    BY <2>3
  <2> QED  BY <2>1, <2>2, <2>3 DEF Ledger!Next
<1>3. Quotas => Ledger!QuotasRespected
  BY DEF Respects, Ledger!QuotasRespected, Ledger!FitsLimit, FitsLimit, Ledger!HasGuarantee,
         HasGuarantee, Ledger!WithinGuarantee, WithinGuarantee
<1> QED  BY <1>1, <1>2, <1>3, PTL DEF Ledger!Spec

\* So no queue exceeds its limit with the GPUs its jobs really hold, and none that may not
\* borrow exceeds its guarantee, whatever reclaim, growth and failures do in between.
THEOREM QuotasOnGpus == Spec => []Ledger!QuotasRespected
  BY LedgerRefinement, LedgerKeepsQuotas, PTL DEF ImplementsLedger
=============================================================================
