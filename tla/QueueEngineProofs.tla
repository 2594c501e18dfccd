-------------------------- MODULE QueueEngineProofs --------------------------
(***************************************************************************)
(* What QueueEngine keeps for every cluster, jobs, fleet events and policy *)
(* of the schedulers that neither preempt nor reclaim: placements are sound*)
(* and complete, and backfill honours its reservation.                     *)
(*                                                                         *)
(* The invariant has a part for the jobs, the events, the gangs they hold, *)
(* the pass, and for backfill without fleet events the promise made to the *)
(* head of the queue: a placement at the reserved time.                    *)
(***************************************************************************)
EXTENDS QueueEngine, PlacementLemmas

-----------------------------------------------------------------------------
(* The inductive invariant.                                                *)

TimerKinds == {"JOB_COMPLETE", "JOB_RESTART_COMPLETE"}

\* A queued event is a timer of a job, the arrival of a job or an event of the fleet.
EventOK(e) ==
  /\ e.time \in Nat
  /\ \/ e.kind \in TimerKinds /\ e.id \in Jobs
     \/ /\ e.kind = "JOB_ARRIVAL" /\ e.id \in Jobs
        /\ e = Event(scenario.arrival[e.id], "JOB_ARRIVAL", e.id, 0)
     \/ e.kind \in FleetKinds /\ e.id \in Nodes

\* Nothing is ever suspended or reserved, the two records of ownership agree, and the
\* phase of a job says whether it holds GPUs.
JobsInv ==
  /\ suspended = {} /\ \A j \in Jobs : target[j] = None /\ reserved[j] = {}
  /\ \A j \in Jobs : alloc[j] = {g \in GPUs : owner[g] = j}
  /\ \A j \in Jobs : status[j] \in Active <=> alloc[j] # {}
  /\ \A j \in Jobs : status[j] # "checkpointing"
  /\ \A j \in pending : status[j] = "pending"
  /\ \A j \in Jobs : lastStart[j] \in Nat => lastStart[j] <= now

\* A job arrives once, and before it does anything else.
EventsInv ==
  /\ \A e \in Queued : EventOK(e)
  /\ pc # "handle" => batch = {}
  /\ \A e \in Queued : e.kind = "JOB_ARRIVAL" => status[e.id] = "pending" /\ e.id \notin pending
  /\ \A e \in batch : e.kind = "JOB_ARRIVAL" => e \notin heap

\* What an active job holds.
GangsInv ==
  \A j \in Jobs : alloc[j] # {} =>
    /\ Cardinality(alloc[j]) \in MinReplicas[j] .. GpuCount[j]
    /\ Cardinality(Vendors(alloc[j])) = 1
    /\ RequirementMet(j, alloc[j])

Impossible(j) == ~Feasible(j, GpuCount[j], Offered)
Listed(j) == \E i \in 1 .. Len(todo) : todo[i] = j

\* The head is tried first, whatever is reserved for it.
HeadIsNext ==
  /\ todo # <<>> /\ Head(todo) \in QueueHead
  /\ \A r \in reservation : r.job = Head(todo)
  /\ \A j \in pending : Listed(j)

\* Nothing is reserved, and every job in the queue is still tried or was in vain.
AllAreTried == reservation = {} /\ \A j \in pending : Listed(j) \/ Impossible(j)

OwedInVain == \A j \in Owed : Impossible(j)

PassInv ==
  /\ pc # "dispatch" => todo = <<>>
  /\ \A i \in 1 .. Len(todo) : todo[i] \in pending \/ alloc[todo[i]] # {}
  /\ pc = "dispatch" => HeadIsNext \/ AllAreTried \/ OwedInVain
  /\ pc = "pop" => OwedInVain
  /\ pc \in {"pop", "dispatch"} => \A r \in reservation : r.job \in QueueHead

\* How long a job takes that runs from start to end on all the GPUs it asks for.
Lasting(j) == TotalWork(j) \div RateOf(j, GpuCount[j])

End(j) == lastStart[j] + Lasting(j)

\* The cluster when the jobs that end by a time are gone.
ViewAt(t) ==
  [gpus |-> UsableGpus, occupied |-> UNION {alloc[k] : k \in {k \in ActiveJobs : End(k) > t}}]

\* There are no fleet events, and no job takes longer than its duration.
Quiet == scenario.fleet = {} /\ FullGangs

\* Then a job runs from its start to its end, which its completion marks,
\* and the job with the reservation has a placement at the reserved time.
QuietInv ==
  Quiet =>
    /\ interrupted = {}
    /\ \A e \in Queued : e.kind \notin FleetKinds
    /\ \A j \in Jobs : status[j] # "completed" => work[j] = 0
    /\ \A j \in ActiveJobs :
         /\ status[j] = "running" /\ lastStart[j] \in Nat
         /\ Event(End(j), "JOB_COMPLETE", j, gen[j]) \in Queued
    /\ \A r \in reservation :
         now <= r.start /\ Feasible(r.job, GpuCount[r.job], ViewAt(r.start))

Inv == TypeOK /\ JobsInv /\ EventsInv /\ GangsInv /\ PassInv /\ QuietInv

-----------------------------------------------------------------------------
(* Constants and the queue.                                                *)

\* What the constructors accept, of the scenario that was chosen.
LEMMA ScenarioFacts ==
  ASSUME scenario \in Scenarios
  PROVE  /\ scenario.arrival \in [Jobs -> Nat] /\ scenario.duration \in [Jobs -> Nat \ {0}]
         /\ scenario.priority \in [Jobs -> 0 .. Critical] /\ scenario.policy \in Policies
         /\ \A e \in scenario.fleet : e.time \in Nat /\ e.kind \in FleetKinds /\ e.id \in Nodes
BY QueueEngineAssumption DEF Accepted

\* The sizes of a gang.
LEMMA SizeFacts ==
  ASSUME NEW j \in Jobs
  PROVE  /\ j \in Nat /\ j # None
         /\ GpuCount[j] \in Nat \ {0} /\ MinReplicas[j] \in Nat \ {0}
         /\ PreferredReplicas[j] \in Nat \ {0} /\ MinReplicas[j] <= GpuCount[j]
<1>1. j \in Nat /\ j # None
  BY PlacementAssumption
<1>2. /\ GpuCount[j] \in Nat \ {0} /\ MinReplicas[j] \in Nat \ {0}
      /\ PreferredReplicas[j] \in Nat \ {0} /\ MinReplicas[j] <= PreferredReplicas[j]
  BY LoopAssumption DEF SizesInOrder
<1>3. MinReplicas[j] <= GpuCount[j]
  BY <1>2, LoopAssumption, QueueEngineAssumption
<1> QED  BY <1>1, <1>2, <1>3

\* A job that has its preferred number of GPUs, or more, is done within its duration.
LEMMA LastingIs ==
  ASSUME scenario \in Scenarios, NEW j \in Jobs
  PROVE  Lasting(j) \in Nat /\ (FullGangs => Lasting(j) <= scenario.duration[j])
<1> DEFINE d == scenario.duration[j]
           n == GpuCount[j]
           p == PreferredReplicas[j]
<1>1. d \in Nat \ {0} /\ n \in Nat \ {0} /\ p \in Nat \ {0}
  BY ScenarioFacts, SizeFacts
<1>2. Lasting(j) = IF j \in ElasticJobs THEN (d * p) \div n ELSE (d * 1) \div 1
  BY DEF Lasting, TotalWork, RateOf
<1>3. FullGangs /\ j \in ElasticJobs => p <= n
  BY <1>1 DEF FullGangs
<1> HIDE DEF d, n, p
<1>4. (d * 1) \div 1 = d /\ d * p \in Nat /\ d * n \in Nat
  BY <1>1
<1>5. (d * p) \div n \in Nat /\ n * ((d * p) \div n) <= d * p
  BY <1>1, <1>4
<1>6. ASSUME p <= n PROVE (d * p) \div n <= d
  <2> DEFINE q == (d * p) \div n
  <2>1. q \in Nat /\ n * q <= d * p
    BY <1>5
  <2> HIDE DEF q
  <2>2. d * p <= d * n
    BY <1>1, <1>6
  <2>3. ASSUME q > d PROVE FALSE
    <3>1. n * q >= n * (d + 1)
      BY <1>1, <2>1, <2>3
    <3>2. n * (d + 1) = d * n + n
      BY <1>1
    <3>3. n * q \in Nat
      BY <1>1, <2>1
    <3> QED  BY <1>1, <1>4, <2>1, <2>2, <3>1, <3>2, <3>3
  <2>4. q <= d
    BY <1>1, <2>1, <2>3
  <2> QED  BY <2>4 DEF q
<1>7. d \in Nat
  BY <1>1
<1> QED  BY <1>2, <1>3, <1>4, <1>5, <1>6, <1>7 DEF d

\* Neither depends on more than the scenario.
LEMMA QuietStays ==
  ASSUME scenario' = scenario
  PROVE  (Quiet' <=> Quiet) /\ \A j : Lasting(j)' = Lasting(j)
BY DEF Quiet, FullGangs, Lasting, TotalWork, RateOf

HeadKey(S) == [j \in S |-> <<scenario.arrival[j], j>>]
HeadOf(S) == Least(S, HeadKey(S))

\* The first job of a queue is one job, and stays the first when others leave.
LEMMA HeadFacts ==
  ASSUME scenario \in Scenarios, NEW S \in SUBSET Jobs
  PROVE  /\ HeadOf(S) \subseteq S
         /\ S # {} => \E h \in S : HeadOf(S) = {h}
         /\ \A T \in SUBSET S : HeadOf(S) \cap T \subseteq HeadOf(T)
<1>1. \A T \in SUBSET S : IsFiniteSet(T)
  BY PlacementAssumption, FS_Subset
<1>2. Keys(S, HeadKey(S))
  <2>1. \A j \in S : scenario.arrival[j] \in Int /\ j \in Int
    BY ScenarioFacts, SizeFacts
  <2>2. \A a, b \in Int : <<a, b>> \in Seq(Int)
    OBVIOUS
  <2>3. \A j \in S : HeadKey(S)[j] = <<scenario.arrival[j], j>>
    BY DEF HeadKey
  <2>4. \A j \in S : HeadKey(S)[j] \in Seq(Int)
    BY <2>1, <2>2, <2>3
  <2>5. \A i, j \in S : HeadKey(S)[i] = HeadKey(S)[j] => i = j
    BY <2>3
  <2> QED  BY <2>4, <2>5 DEF Keys
<1>3. \A T \in SUBSET S : HeadOf(T) =
        {x \in T : \A y \in T : ~Less(<<scenario.arrival[y], y>>, <<scenario.arrival[x], x>>)}
  <2> SUFFICES ASSUME NEW T \in SUBSET S
               PROVE  HeadOf(T) = {x \in T : \A y \in T : ~Less(<<scenario.arrival[y], y>>,
                                                               <<scenario.arrival[x], x>>)}
    OBVIOUS
  <2>1. HeadOf(T) = {x \in T : \A y \in T : ~Less(HeadKey(T)[y], HeadKey(T)[x])}
    BY <1>1, LeastIs DEF HeadOf
  <2>2. \A x \in T : HeadKey(T)[x] = <<scenario.arrival[x], x>>
    BY DEF HeadKey
  <2> QED  BY <2>1, <2>2
<1>4. S # {} => \E h \in S : HeadOf(S) = {h}
  BY <1>1, <1>2, LeastOne DEF HeadOf
<1>5. \A T \in SUBSET S : HeadOf(S) \cap T \subseteq HeadOf(T)
  BY <1>3
<1> QED  BY <1>3, <1>4, <1>5

\* QueueHead is the first job of the queue.
LEMMA QueueHeadIs == QueueHead = HeadOf(pending)
BY DEF QueueHead, HeadOf, HeadKey

\* Feasible says that there is a placement, and more free GPUs keep it.
LEMMA FeasibleIs ==
  ASSUME NEW j \in Jobs, NEW n \in Nat, NEW view
  PROVE  /\ Feasible(j, n, view) <=> \E G : IsPlacement(j, n, view, G)
         /\ \A v : Hosts(j, view) \subseteq Hosts(j, v) /\ Feasible(j, n, view) => Feasible(j, n, v)
<1>1. \A v : Feasible(j, n, v) <=> \E G : IsPlacement(j, n, v, G)
  BY DEF Feasible, kSubset, IsPlacement
<1>2. \A v, G : Hosts(j, view) \subseteq Hosts(j, v) /\ IsPlacement(j, n, view, G) => IsPlacement(j, n, v, G)
  BY DEF IsPlacement
<1> QED  BY <1>1, <1>2

\* Whatever the policy, the scheduler finds a placement on the GPUs it may use exactly if
\* there is one.
LEMMA PlaceOnExact ==
  ASSUME scenario \in Scenarios, NEW j \in Jobs
  PROVE  Exact(j, GpuCount[j], Offered, PlaceOn(j, View))
<1> DEFINE n == GpuCount[j]
           P == PlaceOn(j, View)
<1>1. n \in Nat \ {0} /\ scenario.policy \in Policies
  BY SizeFacts, ScenarioFacts
<1>2. CASE PrefersVendor
  <2>1. Offered = KnownView(View)
    BY <1>2 DEF Offered, KnownView, View
  <2>2. \E w : P = VendorPlace(w, j, n, View)
    BY <1>2 DEF PlaceOn, PrefersVendor
  <2> QED  BY <1>1, <2>1, <2>2, VendorPlaceExact
<1>3. CASE ~PrefersVendor
  <2>1. Offered = View
    BY <1>3 DEF Offered, View
  <2>2. \/ P = FIFOPlace(j, n, View) \/ P = BinPackPlace(j, n, View)
        \/ P = SpreadPlace(j, n, View) \/ P = TopologyPlace(j, n, View)
    BY <1>1, <1>3 DEF PlaceOn, PrefersVendor, Policies
  <2> QED  BY <1>1, <2>1, <2>2, FIFOPlaceExact, BinPackPlaceExact, SpreadPlaceExact,
              TopologyPlaceExact
<1> QED  BY <1>2, <1>3

\* So a job is not placed exactly if that is impossible, and a placement is a gang of free
\* GPUs on nodes in service.
LEMMA PlaceOnIs ==
  ASSUME scenario \in Scenarios, NEW j \in Jobs
  PROVE  LET P == PlaceOn(j, View)
         IN  /\ P = {} <=> Impossible(j)
             /\ P # {} => /\ P \subseteq UsableGpus \ Occupied
                          /\ Cardinality(P) = GpuCount[j] /\ Cardinality(Vendors(P)) = 1
                          /\ RequirementMet(j, P)
<1> DEFINE n == GpuCount[j]
           P == PlaceOn(j, View)
<1>1. Exact(j, n, Offered, P) /\ n \in Nat
  BY PlaceOnExact, SizeFacts
<1>2. Feasible(j, n, Offered) <=> \E G : IsPlacement(j, n, Offered, G)
  BY <1>1, FeasibleIs
<1>3. P = {} => Impossible(j)
  BY <1>1, <1>2 DEF Exact, Impossible
<1>4. P # {} => IsPlacement(j, n, Offered, P)
  BY <1>1 DEF Exact
<1>5. Hosts(j, Offered) \subseteq UsableGpus \ Occupied
  BY DEF Hosts, Offered
<1> QED  BY <1>2, <1>3, <1>4, <1>5 DEF IsPlacement, Impossible

-----------------------------------------------------------------------------
(* The initial state and the head of the loop.                             *)

\* An event that is a timer, an arrival or an event of the fleet has an order.
LEMMA EventFacts ==
  ASSUME NEW e, EventOK(e)
  PROVE  /\ e.time \in Nat /\ Order(e.kind) \in 0 .. 5
         /\ e.kind = "JOB_ARRIVAL" => e.id \in Jobs
         /\ e.kind \in TimerKinds => e.id \in Jobs
         /\ e.kind \in FleetKinds => e.id \in Nodes
         /\ IsTimer(e) => e.kind \in TimerKinds
         /\ e.kind \in TimerKinds => e.kind \in {"JOB_COMPLETE", "JOB_RESTART_COMPLETE"}
BY DEF EventOK, TimerKinds, FleetKinds, Order, IsTimer, Awaited, Event

\* The initial state satisfies the invariant.
LEMMA InitInv == Init => Inv
<1> SUFFICES ASSUME Init PROVE Inv
  OBVIOUS
<1> USE DEF Init, LoopInit
<1>0. /\ scenario.arrival \in [Jobs -> Nat]
      /\ \A e \in scenario.fleet : e.time \in Nat /\ e.kind \in FleetKinds /\ e.id \in Nodes
      /\ scenario.policy \in Policies
  BY ScenarioFacts
<1>1. None \notin Jobs /\ None \notin Nat
  BY PlacementAssumption
<1>2. \A e \in Queued : EventOK(e)
  <2> SUFFICES ASSUME NEW e \in Queued PROVE EventOK(e)
    OBVIOUS
  <2>1. CASE e \in scenario.fleet
    BY <1>0, <2>1 DEF EventOK
  <2>2. CASE \E j \in Jobs : e = Event(scenario.arrival[j], "JOB_ARRIVAL", j, 0)
    BY <1>0, <2>2 DEF EventOK, Event
  <2> QED  BY <2>1, <2>2 DEF Queued
<1>3. JobsInv
  BY <1>1 DEF JobsInv, Active
<1>4. EventsInv
  BY <1>2, EventFacts DEF EventsInv, Queued
<1>5. GangsInv
  BY DEF GangsInv
<1>6. QueueHead = {}
  BY QueueHeadIs, HeadFacts
<1>7. PassInv
  BY <1>6 DEF PassInv, OwedInVain, Owed
<1>8. TypeOK
  <2>1. \A e \in Queued : e.time >= now /\ Order(e.kind) \in 0 .. 5
    BY <1>2, EventFacts
  <2>2. LoopTypeOK
    <3>1. todo \in Seq(Jobs) /\ now \in Nat
      OBVIOUS
    <3> QED  BY <2>1, <3>1 DEF LoopTypeOK
  <2> QED  BY <1>0, <2>2 DEF TypeOK
<1>9. QuietInv
  <2> SUFFICES ASSUME Quiet PROVE QuietInv
    BY DEF QuietInv
  <2>1. \A e \in Queued : e.kind \notin FleetKinds
    BY DEF Queued, Event, FleetKinds, Quiet
  <2>2. ActiveJobs = {}
    BY DEF ActiveJobs, Active
  <2> QED  BY <2>1, <2>2 DEF QuietInv
<1> QED  BY <1>3, <1>4, <1>5, <1>7, <1>8, <1>9 DEF Inv

\* The parts of the invariant that speak of the clock and the events of a state in which
\* nothing else has changed.
LEMMA ClockStep ==
  ASSUME Inv,
         UNCHANGED <<scenario, todo, initial, jobVars, queueVars, nodeVars, reservation>>,
         now' \in Nat, now' >= now,
         pc' \in {"pop", "handle", "done"}, pc' # "handle" => batch' = {},
         pc' = "pop" => pc = "pop", pc # "dispatch",
         Queued' \subseteq Queued, \A e \in Queued' : e.time >= now',
         \A e \in batch' : e \notin heap',
         Quiet =>
           /\ \A r \in reservation : now' <= r.start
           /\ \A j \in ActiveJobs : Event(End(j), "JOB_COMPLETE", j, gen[j]) \in Queued'
  PROVE  Inv'
<1> USE DEF Inv, jobVars, queueVars, nodeVars
<1>1. \A e \in Queued' : EventOK(e)'
  BY DEF EventsInv, EventOK
<1>2. TypeOK'
  <2>1. \A e \in Queued' : e.time >= now' /\ Order(e.kind) \in 0 .. 5
    BY EventFacts DEF EventsInv
  <2>2. LoopTypeOK'
    BY <2>1 DEF TypeOK, LoopTypeOK
  <2> QED  BY <2>2 DEF TypeOK, Backfilling
<1>3. JobsInv'
  <2>1. \A j \in Jobs : lastStart[j] \in Nat => lastStart[j] <= now'
    BY DEF JobsInv, TypeOK, LoopTypeOK
  <2> QED  BY <2>1 DEF JobsInv
<1>4. EventsInv'
  BY <1>1 DEF EventsInv
<1>5. GangsInv'
  BY DEF GangsInv
<1>6. OwedInVain => OwedInVain'
  BY DEF OwedInVain, Owed, Backfilling, QueueHead, Impossible, Feasible, IsPlacement, Hosts,
         Offered, PrefersVendor, UsableGpus, Usable, Occupied
<1>7. PassInv'
  BY <1>6 DEF PassInv, QueueHead
<1>8. QuietInv'
  BY QuietStays DEF QuietInv, ActiveJobs, End, ViewAt, UsableGpus, Usable
<1> QED  BY <1>2, <1>3, <1>4, <1>5, <1>7, <1>8

\* The head of the heap is the earliest event.
LEMMA HeadIsEarliest ==
  ASSUME NEW e \in heap, NEW f \in heap, IsHead(e), e.time \in Nat, f.time \in Nat
  PROVE  f.time >= e.time
<1> DEFINE s == <<f.time, Order(f.kind)>>
           t == <<e.time, Order(e.kind)>>
<1>1. s[1] = f.time /\ t[1] = e.time /\ 1 \in DOMAIN s \cap DOMAIN t
  OBVIOUS
<1>2. ~Less(s, t)
  BY DEF IsHead, Before
<1> HIDE DEF s, t
<1>3. s[1] < t[1] => Less(s, t)
  <2> SUFFICES ASSUME s[1] < t[1] PROVE \E i \in DOMAIN s \cap DOMAIN t : s[i] < t[i] /\ \A k \in 1 .. i - 1 : s[k] = t[k]
    BY DEF Less
  <2>1. 1 .. 1 - 1 = {}
    OBVIOUS
  <2> QED  BY <1>1, <2>1
<1> QED  BY <1>1, <1>2, <1>3

\* Where the two records of ownership agree, an occupied GPU belongs to an active job.
LEMMA OccupiedIs ==
  ASSUME TypeOK, JobsInv
  PROVE  /\ \A g \in GPUs : g \in Occupied <=> \E k \in ActiveJobs : g \in alloc[k]
         /\ \A k \in Jobs : alloc[k] \in SUBSET GPUs
         /\ \A k \in ActiveJobs : k \in Jobs
<1>1. \A g \in GPUs : owner[g] \in Jobs \cup {None}
  BY DEF TypeOK, LoopTypeOK
<1>2. \A k \in Jobs : alloc[k] = {g \in GPUs : owner[g] = k}
  BY DEF JobsInv
<1>3. \A k \in Jobs : k \in ActiveJobs <=> alloc[k] # {}
  BY DEF JobsInv, ActiveJobs
<1>4. None \notin Jobs
  BY SizeFacts
<1> QED  BY <1>1, <1>2, <1>3, <1>4 DEF Occupied, ActiveJobs

\* The end of a job is a time.
LEMMA EndIs ==
  ASSUME Inv, Quiet, NEW k \in ActiveJobs
  PROVE  End(k) \in Nat
<1>1. scenario \in Scenarios /\ k \in Jobs /\ lastStart[k] \in Nat
  BY DEF Inv, TypeOK, LoopTypeOK, QuietInv, ActiveJobs
<1> QED  BY <1>1, LastingIs DEF End

\* While the first job waits for its reserved time, some job that ends by then is running.
LEMMA SomeoneEnds ==
  ASSUME Inv, Quiet, NEW r \in reservation, Impossible(r.job)
  PROVE  \E k \in ActiveJobs : End(k) <= r.start
<1> SUFFICES ASSUME \A k \in ActiveJobs : ~(End(k) <= r.start) PROVE FALSE
  OBVIOUS
<1> DEFINE j == r.job
           n == GpuCount[j]
<1>1. /\ Backfilling /\ j \in Jobs /\ r.start \in Nat
      /\ Feasible(j, n, ViewAt(r.start))
  BY DEF Inv, TypeOK, LoopTypeOK, QuietInv
<1>2. \A k \in ActiveJobs : End(k) > r.start
  <2>1. \A k \in ActiveJobs : End(k) \in Nat
    BY EndIs
  <2> QED  BY <1>1, <2>1
<1>3. Hosts(j, ViewAt(r.start)) \subseteq Hosts(j, Offered)
  <2>1. {k \in ActiveJobs : End(k) > r.start} = ActiveJobs
    BY <1>2
  <2>2. \A g \in GPUs : g \in Occupied => g \in UNION {alloc[k] : k \in ActiveJobs}
    BY OccupiedIs DEF Inv
  <2>3. ~PrefersVendor
    BY <1>1 DEF Backfilling, PrefersVendor
  <2>4. Occupied \subseteq GPUs
    BY DEF Occupied
  <2> QED  BY <2>1, <2>2, <2>3, <2>4 DEF Hosts, ViewAt, Offered
<1>4. Feasible(j, n, Offered)
  BY <1>1, <1>3, FeasibleIs, SizeFacts
<1> QED  BY <1>4 DEF Impossible

\* Discarding an event, advancing the clock and finishing keep the invariant.
LEMMA HeadOfLoop ==
  ASSUME Inv, UNCHANGED reservation,
         \/ \E e \in heap : Discard(e) \/ Pop(e)
         \/ Finish
  PROVE  Inv'
<1>0. \A e \in Queued : EventOK(e) /\ e.time \in Nat /\ e.time >= now
  BY EventFacts DEF Inv, EventsInv, TypeOK, LoopTypeOK
<1>1. now \in Nat /\ pc = "pop" /\ batch = {} /\ heap = Queued
  BY DEF Inv, EventsInv, TypeOK, LoopTypeOK, Discard, Pop, Finish, Queued
<1>2. Quiet =>
        /\ \A r \in reservation : now <= r.start /\ r.start \in Nat
        /\ \A j \in ActiveJobs : Event(End(j), "JOB_COMPLETE", j, gen[j]) \in Queued
  BY DEF Inv, QuietInv, TypeOK
<1>3. ASSUME NEW e \in heap, Discard(e) PROVE Inv'
  <2>1. UNCHANGED <<scenario, now, pc, batch, todo, initial, jobVars, queueVars, nodeVars, reservation>>
    BY <1>3 DEF Discard, passVars
  <2>2. Queued' = Queued \ {e}
    BY <1>1, <1>3, <2>1 DEF Discard, Queued
  <2>3. \A j \in ActiveJobs : Event(End(j), "JOB_COMPLETE", j, gen[j]) # e \/ ~Quiet
    <3> SUFFICES ASSUME NEW j \in ActiveJobs, Quiet, Event(End(j), "JOB_COMPLETE", j, gen[j]) = e
                 PROVE  FALSE
      OBVIOUS
    <3>1. status[j] = "running"
      BY DEF Inv, QuietInv
    <3>2. e.kind = "JOB_COMPLETE" /\ e.id = j /\ e.gen = gen[j]
      BY DEF Event
    <3>3. IsLive(e)
      BY <3>1, <3>2 DEF IsLive, Awaited
    <3> QED  BY <1>3, <3>3 DEF Discard
  <2>4. /\ now' \in Nat /\ now' >= now /\ pc' = "pop" /\ batch' = {}
        /\ \A f \in Queued' : f.time >= now'
    BY <1>0, <1>1, <2>1, <2>2
  <2>5. Quiet =>
          /\ \A r \in reservation : now' <= r.start
          /\ \A j \in ActiveJobs : Event(End(j), "JOB_COMPLETE", j, gen[j]) \in Queued'
    BY <1>2, <2>1, <2>2, <2>3
  <2> QED  BY <1>1, <2>1, <2>2, <2>4, <2>5, ClockStep
<1>4. ASSUME NEW e \in heap, Pop(e) PROVE Inv'
  <2>1. UNCHANGED <<scenario, todo, initial, jobVars, queueVars, nodeVars, reservation>>
    BY <1>4 DEF Pop, passVars
  <2>2. /\ now' = e.time /\ pc' = "handle"
        /\ batch' = {f \in heap : f.time = e.time} /\ heap' = heap \ batch'
    BY <1>4 DEF Pop
  <2>3. \A f \in heap : f.time >= e.time
    BY <1>0, <1>1, <1>4, HeadIsEarliest DEF Pop
  <2>4. /\ now' \in Nat /\ now' >= now
        /\ Queued' = Queued /\ \A f \in Queued' : f.time >= now'
        /\ \A f \in batch' : f \notin heap'
    BY <1>0, <1>1, <2>2, <2>3 DEF Queued
  <2>5. ASSUME Quiet, NEW r \in reservation PROVE now' <= r.start
    <3>1. r.job \in Owed
      BY <1>1, <2>5 DEF Inv, PassInv, TypeOK, Owed
    <3>2. Impossible(r.job)
      BY <1>1, <3>1 DEF Inv, PassInv, OwedInVain
    <3>3. PICK k \in ActiveJobs : End(k) <= r.start
      BY <2>5, <3>2, SomeoneEnds
    <3>4. Event(End(k), "JOB_COMPLETE", k, gen[k]) \in heap
      BY <1>1, <1>2, <2>5
    <3>5. Event(End(k), "JOB_COMPLETE", k, gen[k]).time = End(k)
      BY DEF Event
    <3>6. End(k) >= e.time /\ End(k) \in Nat
      BY <1>0, <1>1, <2>3, <3>4, <3>5
    <3> QED  BY <1>0, <1>1, <1>2, <2>2, <2>5, <3>3, <3>6
  <2>6. Quiet =>
          /\ \A r \in reservation : now' <= r.start
          /\ \A j \in ActiveJobs : Event(End(j), "JOB_COMPLETE", j, gen[j]) \in Queued'
    BY <1>2, <2>4, <2>5
  <2> QED  BY <1>1, <2>1, <2>2, <2>4, <2>6, ClockStep
<1>5. CASE Finish
  <2>1. UNCHANGED <<scenario, now, heap, batch, todo, initial, jobVars, queueVars, nodeVars, reservation>>
    BY <1>5 DEF Finish, passVars
  <2>2. pc' = "done" /\ Queued' = Queued
    BY <1>5, <2>1 DEF Finish, Queued
  <2>3. Quiet =>
          /\ \A r \in reservation : now' <= r.start
          /\ \A j \in ActiveJobs : Event(End(j), "JOB_COMPLETE", j, gen[j]) \in Queued'
    BY <1>2, <2>1, <2>2
  <2>4. /\ now' \in Nat /\ now' >= now /\ batch' = {}
        /\ \A f \in Queued' : f.time >= now'
    BY <1>0, <1>1, <2>1, <2>2
  <2> QED  BY <1>1, <2>1, <2>2, <2>3, <2>4, ClockStep
<1> QED  BY <1>3, <1>4, <1>5

-----------------------------------------------------------------------------
(* The handlers.                                                           *)

\* The types of what the handlers and the passes change.
JobTypes ==
  /\ status \in [Jobs -> {"pending", "completed", "rejected"} \cup Active]
  /\ alloc \in [Jobs -> SUBSET GPUs] /\ owner \in [GPUs -> Jobs \cup {None}]
  /\ gen \in [Jobs -> Nat] /\ work \in [Jobs -> Nat]
  /\ lastStart \in [Jobs -> Nat \cup {None}]
  /\ runningPriority \in [Jobs -> 0 .. Critical \cup {None}]
  /\ interrupted \subseteq Jobs /\ pending \subseteq Jobs
  /\ target \in [Jobs -> Jobs \cup {None}] /\ reserved \in [Jobs -> SUBSET GPUs]
  /\ available \in [Nodes -> BOOLEAN] /\ schedulable \in [Nodes -> BOOLEAN]

\* A completion is due at a time to come.
LEMMA CompletionOK ==
  ASSUME TypeOK, NEW j \in Jobs, NEW w \in Nat, NEW n \in Nat \ {0}, NEW g
  PROVE  /\ EventOK(Completion(j, w, n, g)) /\ Completion(j, w, n, g).kind = "JOB_COMPLETE"
         /\ Completion(j, w, n, g).time >= now
         /\ Completion(j, w, n, g).id = j /\ Completion(j, w, n, g).gen = g
         /\ (w = 0 /\ n = GpuCount[j] =>
              Completion(j, w, n, g).time = now + Lasting(j))
<1> DEFINE total == TotalWork(j)
           rate == RateOf(j, n)
           left == Max({0, total - w})
<1>1. /\ now \in Nat /\ scenario.duration[j] \in Nat \ {0}
      /\ PreferredReplicas[j] \in Nat \ {0}
  BY ScenarioFacts, SizeFacts DEF TypeOK, LoopTypeOK
<1>2. \A x, y \in Nat \ {0} : x * y \in Nat \ {0}
  OBVIOUS
<1>3. total \in Nat \ {0} /\ rate \in Nat \ {0}
  BY <1>1, <1>2 DEF TotalWork, RateOf
<1>4. w = 0 /\ n = GpuCount[j] => total \div rate = Lasting(j)
  BY DEF Lasting
<1> HIDE DEF total, rate
<1>5. left = IF total - w > 0 THEN total - w ELSE 0
  BY <1>3, MaxWithZero
<1>6. left \in Nat /\ (w = 0 => left = total)
  BY <1>3, <1>5
<1>7. Completion(j, w, n, g) = Event(now + left \div rate, "JOB_COMPLETE", j, g)
  BY DEF Completion, total, rate
<1> HIDE DEF left
<1>8. left \div rate \in Nat
  BY <1>3, <1>6
<1>9. now + left \div rate \in Nat /\ now + left \div rate >= now
  BY <1>1, <1>8
<1> QED  BY <1>4, <1>6, <1>7, <1>9 DEF EventOK, Event, TimerKinds

\* Progress is a number.
LEMMA AccruedType ==
  ASSUME TypeOK, JobsInv, NEW j \in Jobs
  PROVE  Accrued(j) \in Nat
<1> DEFINE n == Cardinality(alloc[j])
           rate == Rate(j)
           total == TotalWork(j)
           more == (now - lastStart[j]) * rate
<1>1. /\ work[j] \in Nat /\ now \in Nat /\ lastStart[j] \in Nat \cup {None}
      /\ lastStart[j] \in Nat => now - lastStart[j] \in Nat
  BY DEF TypeOK, LoopTypeOK, JobsInv
<1>2. scenario.duration[j] \in Nat /\ PreferredReplicas[j] \in Nat
  BY ScenarioFacts, SizeFacts DEF TypeOK, LoopTypeOK
<1>3. n \in Nat
  BY GpuSetsFinite DEF TypeOK, LoopTypeOK
<1>4. \A x, y \in Nat : x * y \in Nat
  OBVIOUS
<1>5. total \in Nat /\ rate \in Nat
  BY <1>2, <1>3, <1>4 DEF TotalWork, Rate, RateOf
<1>6. Accrued(j) = IF lastStart[j] = None THEN work[j] ELSE Min({total, work[j] + more})
  BY DEF Accrued
<1> HIDE DEF n, rate, total
<1>7. lastStart[j] \in Nat => more \in Nat
  BY <1>1, <1>4, <1>5
<1> HIDE DEF more
<1>8. CASE lastStart[j] = None
  BY <1>1, <1>6, <1>8
<1>9. CASE lastStart[j] # None
  <2>1. work[j] + more \in Nat
    BY <1>1, <1>7, <1>9
  <2>2. Min({total, work[j] + more}) \in Nat
    BY <1>5, <2>1, MinOfTwo
  <2> QED  BY <1>6, <1>9, <2>2
<1> QED  BY <1>8, <1>9

\* Part of a gang is a gang if it is large enough.
LEMMA PartOfGang ==
  ASSUME NEW j \in Jobs, NEW P \in SUBSET GPUs, NEW Q \in SUBSET P, Q # {},
         Cardinality(Vendors(P)) = 1, RequirementMet(j, P)
  PROVE  /\ Cardinality(Q) <= Cardinality(P) /\ Cardinality(Vendors(Q)) = 1
         /\ RequirementMet(j, Q)
<1>1. Cardinality(Q) <= Cardinality(P)
  BY GpuSetsFinite, FS_Subset
<1>2. Cardinality(Vendors(Q)) = 1
  <2>1. PICK w \in Vendors(P) : P \subseteq OfVendor(P, w)
    BY OneVendor
  <2>2. Q \subseteq OfVendor(Q, w) /\ Q \in SUBSET GPUs
    BY <2>1 DEF OfVendor
  <2> QED  BY <2>2, OneVendor
<1>3. RequirementMet(j, Q)
  <2>1. NodesOf(Q) \subseteq NodesOf(P) /\ {RackDomain(m) : m \in NodesOf(Q)} \subseteq {RackDomain(m) : m \in NodesOf(P)}
    BY DEF NodesOf
  <2>2. Cardinality(NodesOf(Q)) <= Cardinality(NodesOf(P)) /\ Cardinality(NodesOf(Q)) \in Nat /\ Cardinality(NodesOf(P)) \in Nat
    BY <2>1, NodesFinite, FS_Subset
  <2>3. /\ Cardinality({RackDomain(m) : m \in NodesOf(Q)}) <= Cardinality({RackDomain(m) : m \in NodesOf(P)})
        /\ Cardinality({RackDomain(m) : m \in NodesOf(Q)}) \in Nat
        /\ Cardinality({RackDomain(m) : m \in NodesOf(P)}) \in Nat
    BY <2>1, NodesFinite, FS_Subset
  <2> QED  BY <2>2, <2>3 DEF RequirementMet
<1> QED  BY <1>1, <1>2, <1>3

\* Without fleet events a handler only ends jobs, and leaves the events of the others.
Calm(e) ==
  /\ UNCHANGED <<available, schedulable, interrupted, gen>> /\ heap \subseteq heap'
  /\ \A k \in Jobs :
       \/ /\ status'[k] = status[k] /\ alloc'[k] = alloc[k]
          /\ lastStart'[k] = lastStart[k] /\ work'[k] = work[k]
          /\ status[k] \in Active => e # Event(End(k), "JOB_COMPLETE", k, gen[k])
       \/ status'[k] = "completed" /\ alloc'[k] = {}

\* What a handler has to keep.
LEMMA HandlerStep ==
  ASSUME Inv, NEW e \in batch, Take(e), UNCHANGED reservation,
         JobTypes', JobsInv', GangsInv', pending \subseteq pending',
         \A f \in heap' : f \in heap \/ (EventOK(f) /\ f.kind \in TimerKinds /\ f.time >= now),
         \A j \in Jobs : status[j] = "pending" /\ j \notin pending /\ ~(e.kind = "JOB_ARRIVAL" /\ e.id = j)
                           => status'[j] = "pending" /\ j \notin pending',
         Quiet => Calm(e)
  PROVE  Inv'
<1> USE DEF Inv
<1>1. /\ pc = "handle" /\ pc' = "handle" /\ batch' = batch \ {e}
      /\ UNCHANGED <<scenario, now, todo, initial, reservation>>
  BY DEF Take, passVars
<1>2. \A f \in Queued : EventOK(f) /\ f.time >= now
  BY DEF EventsInv, TypeOK, LoopTypeOK
<1>3. \A f \in Queued' : EventOK(f) /\ EventOK(f)' /\ f.time >= now
                          /\ (f \in Queued \/ f.kind \in TimerKinds)
  <2>1. \A f \in Queued' : EventOK(f) /\ f.time >= now /\ (f \in Queued \/ f.kind \in TimerKinds)
    BY <1>1, <1>2 DEF Queued
  <2> QED  BY <1>1, <2>1 DEF EventOK
<1>4. TypeOK'
  <2>1. \A f \in Queued' : f.time >= now' /\ Order(f.kind) \in 0 .. 5
    BY <1>1, <1>3, EventFacts
  <2>2. LoopTypeOK'
    BY <1>1, <2>1 DEF JobTypes, JobsInv, TypeOK, LoopTypeOK
  <2> QED  BY <1>1, <2>2 DEF TypeOK, Backfilling
<1>5. EventsInv'
  <2>1. \A f \in heap' : f.kind = "JOB_ARRIVAL" => f \in heap
    BY DEF TimerKinds
  <2>2. \A f \in Queued' : f.kind = "JOB_ARRIVAL" => status'[f.id] = "pending" /\ f.id \notin pending'
    <3> SUFFICES ASSUME NEW f \in Queued', f.kind = "JOB_ARRIVAL"
                 PROVE  status'[f.id] = "pending" /\ f.id \notin pending'
      OBVIOUS
    <3>1. f \in Queued /\ f.id \in Jobs
      BY <1>3, EventFacts DEF TimerKinds
    <3>2. status[f.id] = "pending" /\ f.id \notin pending
      BY <3>1 DEF EventsInv
    <3>3. f # e \/ e.kind # "JOB_ARRIVAL"
      BY <1>1, <2>1 DEF EventsInv, Queued
    <3>4. ~(e.kind = "JOB_ARRIVAL" /\ e.id = f.id)
      <4> SUFFICES ASSUME e.kind = "JOB_ARRIVAL", e.id = f.id PROVE FALSE
        OBVIOUS
      <4>1. EventOK(e) /\ EventOK(f)
        BY <1>2, <1>3 DEF Queued
      <4>2. /\ f = Event(scenario.arrival[f.id], "JOB_ARRIVAL", f.id, 0)
            /\ e = Event(scenario.arrival[e.id], "JOB_ARRIVAL", e.id, 0)
        BY <4>1 DEF EventOK, TimerKinds, FleetKinds
      <4> QED  BY <3>3, <4>2
    <3> QED  BY <3>1, <3>2, <3>4
  <2>3. \A f \in batch' : f.kind = "JOB_ARRIVAL" => f \notin heap'
    BY <1>1, <2>1 DEF EventsInv
  <2> QED  BY <1>1, <1>3, <2>2, <2>3 DEF EventsInv
<1>6. PassInv'
  BY <1>1 DEF PassInv
<1>7. QuietInv'
  <2> SUFFICES ASSUME Quiet PROVE QuietInv'
    BY <1>1, QuietStays DEF QuietInv
  <2>1. QuietInv /\ Calm(e)
    OBVIOUS
  <2>2. interrupted' = {} /\ \A f \in Queued' : f.kind \notin FleetKinds
    BY <1>3, <2>1 DEF QuietInv, Calm, TimerKinds, FleetKinds
  <2>3. \A j \in Jobs : status'[j] # "completed" => work'[j] = 0
    BY <2>1 DEF QuietInv, Calm
  <2>4. ASSUME NEW j \in ActiveJobs'
        PROVE  /\ j \in ActiveJobs /\ status'[j] = "running" /\ lastStart'[j] \in Nat
               /\ alloc'[j] = alloc[j] /\ End(j)' = End(j)
               /\ Event(End(j)', "JOB_COMPLETE", j, gen'[j]) \in Queued'
    <3>1. j \in Jobs /\ status'[j] \in Active
      BY DEF ActiveJobs
    <3>2. /\ status'[j] = status[j] /\ alloc'[j] = alloc[j] /\ lastStart'[j] = lastStart[j]
          /\ e # Event(End(j), "JOB_COMPLETE", j, gen[j]) /\ gen' = gen
      BY <2>1, <3>1 DEF Calm, Active
    <3>3. j \in ActiveJobs /\ End(j)' = End(j)
      BY <1>1, <3>1, <3>2, QuietStays DEF ActiveJobs, End
    <3>4. status[j] = "running" /\ lastStart[j] \in Nat /\ Event(End(j), "JOB_COMPLETE", j, gen[j]) \in Queued
      BY <2>1, <3>3 DEF QuietInv
    <3>5. Event(End(j), "JOB_COMPLETE", j, gen[j]) \in Queued'
      BY <1>1, <2>1, <3>2, <3>4 DEF Queued, Calm
    <3> QED  BY <3>2, <3>3, <3>4, <3>5
  <2>5. ASSUME NEW r \in reservation
        PROVE  now <= r.start /\ Feasible(r.job, GpuCount[r.job], ViewAt(r.start)')
    <3>1. now <= r.start /\ Feasible(r.job, GpuCount[r.job], ViewAt(r.start)) /\ r.job \in Jobs
      BY <2>1 DEF QuietInv, TypeOK, LoopTypeOK
    <3>2. UsableGpus' = UsableGpus
      BY <2>1 DEF Calm, UsableGpus, Usable
    <3>3. ViewAt(r.start)'.occupied \subseteq ViewAt(r.start).occupied
      <4>1. \A k \in ActiveJobs' : End(k)' > r.start => k \in ActiveJobs /\ alloc'[k] = alloc[k] /\ End(k) > r.start
        BY <2>4
      <4> QED  BY <4>1 DEF ViewAt
    <3>4. Hosts(r.job, ViewAt(r.start)) \subseteq Hosts(r.job, ViewAt(r.start)')
      BY <3>2, <3>3 DEF Hosts, ViewAt
    <3> QED  BY <3>1, <3>4, FeasibleIs, SizeFacts
  <2> QED  BY <1>1, <2>2, <2>3, <2>4, <2>5 DEF QuietInv
<1> QED  BY <1>4, <1>5, <1>6, <1>7

\* What the invariant says of the events being handled and of the jobs.
LEMMA HandlerFacts ==
  ASSUME Inv, NEW e \in batch
  PROVE  /\ EventOK(e) /\ JobTypes /\ JobsInv /\ GangsInv /\ TypeOK
         /\ e.kind = "JOB_ARRIVAL" => status[e.id] = "pending" /\ e.id \notin pending
         /\ \A j \in Jobs : status[j] # "checkpointing"
         /\ Quiet => e.kind \notin FleetKinds
BY DEF Inv, EventsInv, Queued, JobTypes, TypeOK, LoopTypeOK, JobsInv, QuietInv

\* A handler that leaves the jobs alone.
LEMMA QuietHandler ==
  ASSUME Inv, NEW e \in batch, Take(e), UNCHANGED reservation,
         UNCHANGED <<jobVars, heap, suspended, target, reserved>>,
         pending' \subseteq Jobs, pending \subseteq pending',
         \A j \in pending' : status[j] = "pending",
         \A j \in pending' \ pending : e.kind = "JOB_ARRIVAL" /\ e.id = j,
         available' \in [Nodes -> BOOLEAN], schedulable' \in [Nodes -> BOOLEAN],
         Quiet =>
           /\ UNCHANGED nodeVars
           /\ \A k \in ActiveJobs : e # Event(End(k), "JOB_COMPLETE", k, gen[k])
  PROVE  Inv'
<1> USE DEF jobVars, nodeVars
<1>1. JobTypes /\ JobsInv /\ GangsInv /\ TypeOK
  BY HandlerFacts
<1>2. JobTypes' /\ GangsInv'
  BY <1>1 DEF JobTypes, GangsInv
<1>3. JobsInv'
  BY <1>1 DEF JobsInv, Take
<1>4. Quiet => Calm(e)
  BY DEF Calm, ActiveJobs
<1>5. \A f \in heap' : f \in heap \/ (EventOK(f) /\ f.kind \in TimerKinds /\ f.time >= now)
  OBVIOUS
<1>6. \A j \in Jobs : status[j] = "pending" /\ j \notin pending /\ ~(e.kind = "JOB_ARRIVAL" /\ e.id = j)
                        => status'[j] = "pending" /\ j \notin pending'
  OBVIOUS
<1> QED  BY <1>2, <1>3, <1>4, <1>5, <1>6, HandlerStep

\* An arrival.
LEMMA SubmitStep ==
  ASSUME Inv, NEW e \in batch, Submit(e)
  PROVE  Inv'
<1>1. /\ Take(e) /\ e.kind = "JOB_ARRIVAL" /\ pending' = pending \cup {e.id}
      /\ UNCHANGED <<jobVars, heap, suspended, target, reserved, nodeVars, reservation>>
  BY DEF Submit, Arrive, jobVars
<1>2. /\ e.id \in Jobs /\ status[e.id] = "pending" /\ JobTypes /\ JobsInv
  BY <1>1, HandlerFacts, EventFacts
<1>3. /\ pending' \subseteq Jobs /\ \A j \in pending' : status[j] = "pending"
      /\ available' \in [Nodes -> BOOLEAN] /\ schedulable' \in [Nodes -> BOOLEAN]
  BY <1>1, <1>2 DEF JobTypes, JobsInv, nodeVars
<1>4. \A k \in ActiveJobs : e # Event(End(k), "JOB_COMPLETE", k, gen[k])
  BY <1>1 DEF Event
<1> QED  BY <1>1, <1>3, <1>4, QuietHandler

\* A timer of a segment or restart that is over: no job that runs awaits it.
LEMMA StaleTimerStep ==
  ASSUME Inv, NEW e \in batch, StaleTimer(e), UNCHANGED reservation
  PROVE  Inv'
<1>1. Take(e) /\ ~IsLive(e) /\ UNCHANGED <<heap, jobVars, queueVars, nodeVars>>
  BY DEF StaleTimer
<1>2. JobTypes /\ JobsInv
  BY HandlerFacts
<1>3. Quiet => \A k \in ActiveJobs : e # Event(End(k), "JOB_COMPLETE", k, gen[k])
  <2> SUFFICES ASSUME Quiet, NEW k \in ActiveJobs,
                      e = Event(End(k), "JOB_COMPLETE", k, gen[k])
               PROVE  FALSE
    OBVIOUS
  <2>1. status[k] = "running"
    BY DEF Inv, QuietInv
  <2>2. e.kind = "JOB_COMPLETE" /\ e.id = k /\ e.gen = gen[k]
    BY DEF Event
  <2> QED  BY <1>1, <2>1, <2>2 DEF IsLive, Awaited
<1>4. /\ UNCHANGED <<jobVars, heap, suspended, target, reserved, nodeVars>> /\ pending' = pending
      /\ available' \in [Nodes -> BOOLEAN] /\ schedulable' \in [Nodes -> BOOLEAN]
      /\ pending \subseteq Jobs /\ \A j \in pending : status[j] = "pending"
  BY <1>1, <1>2 DEF JobTypes, JobsInv, queueVars, nodeVars
<1> QED  BY <1>1, <1>3, <1>4, QuietHandler

\* A node that comes back: only a scenario with fleet events has one.
LEMMA RestoreStep ==
  ASSUME Inv, NEW e \in batch, Restore(e), UNCHANGED reservation
  PROVE  Inv'
<1>1. /\ Take(e) /\ e.kind \in FleetKinds /\ UNCHANGED <<heap, jobVars, queueVars>>
      /\ available' = [available EXCEPT ![e.id] = TRUE]
      /\ schedulable' = [schedulable EXCEPT ![e.id] = TRUE]
  BY DEF Restore, FleetKinds
<1>2. JobTypes /\ JobsInv /\ ~Quiet
  BY <1>1, HandlerFacts
<1>3. /\ UNCHANGED <<jobVars, heap, suspended, target, reserved>> /\ pending' = pending
      /\ available' \in [Nodes -> BOOLEAN] /\ schedulable' \in [Nodes -> BOOLEAN]
      /\ pending \subseteq Jobs /\ \A j \in pending : status[j] = "pending"
  BY <1>1, <1>2 DEF JobTypes, JobsInv, queueVars
<1> QED  BY <1>1, <1>2, <1>3, QuietHandler

\* Nobody is suspended for a reservation, because there is none.
LEMMA NobodyReturns ==
  ASSUME JobTypes, JobsInv
  PROVE  /\ \A n : Affected(n) = {}
         /\ \A T : T \subseteq Jobs => ReturnedVictims(T) = {} /\ Holders(T) = {} /\ TargetsWithout(T) = target
         /\ \A T : DropReservations(T) /\ T \subseteq Jobs => reserved' = reserved /\ target' = target
<1>1. \A h \in Jobs : reserved[h] = {}
  BY DEF JobsInv
<1>2. suspended = {} /\ target = [v \in Jobs |-> target[v]] /\ reserved = [v \in Jobs |-> reserved[v]]
  BY DEF JobTypes, JobsInv
<1>3. \A T : T \subseteq Jobs => Holders(T) = {}
  BY <1>1 DEF Holders
<1>4. \A T : T \subseteq Jobs => ReturnedVictims(T) = {} /\ TargetsWithout(T) = target
  BY <1>2, <1>3 DEF ReturnedVictims, TargetsWithout
<1>5. \A T : DropReservations(T) => reserved' = [h \in Jobs |-> IF h \in T THEN {} ELSE reserved[h]] /\ target' = TargetsWithout(T)
  BY DEF DropReservations
<1>6. \A T : [h \in Jobs |-> IF h \in T THEN {} ELSE reserved[h]] = reserved
  BY <1>1, <1>2
<1> QED  BY <1>1, <1>3, <1>4, <1>5, <1>6 DEF Affected

\* A node that is drained: its jobs keep their GPUs, and nothing is reserved on it.
LEMMA DrainStep ==
  ASSUME Inv, NEW e \in batch, Drain(e), UNCHANGED reservation
  PROVE  Inv'
<1>1. JobTypes /\ JobsInv
  BY HandlerFacts
<1>2. /\ Take(e) /\ e.kind \in FleetKinds /\ UNCHANGED <<heap, jobVars, available>>
      /\ schedulable' = [schedulable EXCEPT ![e.id] = FALSE]
      /\ DropReservations(Affected(e.id))
      /\ pending' = pending \cup ReturnedVictims(Affected(e.id))
      /\ suspended' = suspended \ ReturnedVictims(Affected(e.id))
  BY DEF Drain, FleetKinds
<1>3. Affected(e.id) = {} /\ ReturnedVictims({}) = {} /\ reserved' = reserved /\ target' = target
  BY <1>1, <1>2, NobodyReturns
<1>4. ~Quiet
  BY <1>2, HandlerFacts
<1>5. /\ UNCHANGED <<jobVars, heap, suspended, target, reserved>> /\ pending' = pending
      /\ available' \in [Nodes -> BOOLEAN] /\ schedulable' \in [Nodes -> BOOLEAN]
      /\ pending \subseteq Jobs /\ \A j \in pending : status[j] = "pending"
  BY <1>1, <1>2, <1>3 DEF JobTypes, JobsInv
<1> QED  BY <1>2, <1>4, <1>5, QuietHandler

\* The completion of a job.
LEMMA CompleteStep ==
  ASSUME Inv, NEW e \in batch, Complete(e), UNCHANGED reservation
  PROVE  Inv'
<1> DEFINE j == e.id
<1>1. /\ Take(e) /\ e.kind = "JOB_COMPLETE" /\ IsLive(e)
      /\ work' = [work EXCEPT ![j] = Accrued(j)]
      /\ owner' = [g \in GPUs |-> IF owner[g] \in {j} THEN None ELSE owner[g]]
      /\ alloc' = [k \in Jobs |-> IF k \in {j} THEN {} ELSE alloc[k]]
      /\ status' = [status EXCEPT ![j] = "completed"]
      /\ lastStart' = [lastStart EXCEPT ![j] = None]
      /\ runningPriority' = [runningPriority EXCEPT ![j] = None]
      /\ UNCHANGED <<heap, gen, interrupted, queueVars, nodeVars>>
  BY DEF Complete, Release
<1>2. j \in Jobs /\ JobTypes /\ JobsInv /\ GangsInv /\ TypeOK
  BY <1>1, HandlerFacts, EventFacts DEF TimerKinds
<1>3. status[j] = "running" /\ e.gen = gen[j]
  BY <1>1 DEF IsLive, Awaited
<1>4. Accrued(j) \in Nat /\ None \notin Jobs /\ None \notin Nat
  BY <1>2, AccruedType, PlacementAssumption
<1> HIDE DEF j
<1>5. JobTypes'
  <2>1. status' \in [Jobs -> {"pending", "completed", "rejected"} \cup Active]
    BY <1>1, <1>2 DEF JobTypes
  <2>2. /\ alloc' \in [Jobs -> SUBSET GPUs] /\ owner' \in [GPUs -> Jobs \cup {None}]
        /\ work' \in [Jobs -> Nat] /\ lastStart' \in [Jobs -> Nat \cup {None}]
        /\ runningPriority' \in [Jobs -> 0 .. Critical \cup {None}]
    BY <1>1, <1>2, <1>4 DEF JobTypes
  <2> QED  BY <1>1, <1>2, <2>1, <2>2 DEF JobTypes, queueVars, nodeVars
<1>6. \A k \in Jobs : k # j => status'[k] = status[k] /\ alloc'[k] = alloc[k]
                              /\ lastStart'[k] = lastStart[k] /\ work'[k] = work[k]
  BY <1>1, <1>2 DEF JobTypes
<1>7. status'[j] = "completed" /\ alloc'[j] = {} /\ lastStart'[j] = None
  BY <1>1, <1>2 DEF JobTypes
<1>8. JobsInv'
  <2>1. \A k \in Jobs : alloc'[k] = {g \in GPUs : owner'[g] = k}
    BY <1>1, <1>2, <1>4, <1>6, <1>7 DEF JobsInv
  <2>2. \A k \in Jobs : status'[k] \in Active <=> alloc'[k] # {}
    BY <1>2, <1>6, <1>7 DEF JobsInv, Active
  <2>3. \A k \in Jobs : status'[k] # "checkpointing" /\ (lastStart'[k] \in Nat => lastStart'[k] <= now')
    BY <1>1, <1>2, <1>4, <1>6, <1>7 DEF JobsInv, Take
  <2>4. \A k \in pending' : status'[k] = "pending"
    BY <1>1, <1>2, <1>3, <1>6 DEF JobsInv, JobTypes, queueVars
  <2> QED  BY <1>1, <1>2, <2>1, <2>2, <2>3, <2>4 DEF JobsInv, queueVars
<1>9. GangsInv'
  BY <1>2, <1>6, <1>7 DEF GangsInv
<1>10. Quiet => Calm(e)
  <2>1. \A k \in Jobs : k # j => e # Event(End(k), "JOB_COMPLETE", k, gen[k])
    BY DEF Event, j
  <2> QED  BY <1>1, <1>6, <1>7, <2>1 DEF Calm, nodeVars
<1>11. \A k \in Jobs : status[k] = "pending" /\ k \notin pending => status'[k] = "pending" /\ k \notin pending'
  BY <1>1, <1>3, <1>6 DEF queueVars
<1>12. /\ pending \subseteq pending'
       /\ \A f \in heap' : f \in heap \/ (EventOK(f) /\ f.kind \in TimerKinds /\ f.time >= now)
  BY <1>1 DEF queueVars
<1> QED  BY <1>1, <1>5, <1>8, <1>9, <1>10, <1>11, <1>12, HandlerStep

\* The end of a restart.
LEMMA CompleteRestartStep ==
  ASSUME Inv, NEW e \in batch, CompleteRestart(e), UNCHANGED reservation
  PROVE  Inv'
<1> DEFINE j == e.id
           timer == Completion(j, work[j], Cardinality(alloc[j]), gen[j])
<1>1. /\ Take(e) /\ e.kind = "JOB_RESTART_COMPLETE" /\ IsLive(e)
      /\ status' = [status EXCEPT ![j] = "running"]
      /\ lastStart' = [lastStart EXCEPT ![j] = now]
      /\ heap' = heap \cup {timer}
      /\ UNCHANGED <<alloc, owner, gen, work, runningPriority, interrupted, queueVars, nodeVars>>
  BY DEF CompleteRestart
<1>2. j \in Jobs /\ JobTypes /\ JobsInv /\ GangsInv /\ TypeOK
  BY <1>1, HandlerFacts, EventFacts DEF TimerKinds
<1>3. status[j] = "restarting"
  BY <1>1 DEF IsLive, Awaited
<1>4. Cardinality(alloc[j]) \in Nat \ {0} /\ work[j] \in Nat /\ now \in Nat
  <2>1. alloc[j] # {} /\ alloc[j] \in SUBSET GPUs
    BY <1>2, <1>3 DEF JobsInv, JobTypes, Active
  <2>2. Cardinality(alloc[j]) \in Nat /\ Cardinality(alloc[j]) # 0
    BY <2>1, GpuSetsFinite, FS_EmptySet
  <2> QED  BY <1>2, <2>2 DEF JobTypes, TypeOK, LoopTypeOK
<1>5. EventOK(timer) /\ timer.kind \in TimerKinds /\ timer.time >= now
  BY <1>2, <1>4, CompletionOK DEF TimerKinds
<1> HIDE DEF j, timer
<1>6. JobTypes'
  <2>1. status' \in [Jobs -> {"pending", "completed", "rejected"} \cup Active]
    BY <1>1, <1>2 DEF JobTypes, Active
  <2>2. lastStart' \in [Jobs -> Nat \cup {None}]
    BY <1>1, <1>2, <1>4 DEF JobTypes
  <2> QED  BY <1>1, <1>2, <2>1, <2>2 DEF JobTypes, queueVars, nodeVars
<1>7. \A k \in Jobs : IF k = j THEN status'[k] = "running" /\ lastStart'[k] = now
                      ELSE status'[k] = status[k] /\ lastStart'[k] = lastStart[k]
  BY <1>1, <1>2 DEF JobTypes
<1>8. JobsInv'
  <2>1. \A k \in Jobs : status'[k] \in Active <=> alloc'[k] # {}
    BY <1>1, <1>2, <1>3, <1>7 DEF JobsInv, Active
  <2>2. \A k \in Jobs : status'[k] # "checkpointing" /\ (lastStart'[k] \in Nat => lastStart'[k] <= now')
    BY <1>1, <1>2, <1>4, <1>7 DEF JobsInv, Take
  <2>3. \A k \in pending' : status'[k] = "pending"
    BY <1>1, <1>2, <1>3, <1>7 DEF JobsInv, JobTypes, queueVars
  <2> QED  BY <1>1, <1>2, <2>1, <2>2, <2>3 DEF JobsInv, queueVars
<1>9. GangsInv'
  BY <1>1, <1>2 DEF GangsInv
<1>10. ~Quiet
  BY <1>2, <1>3 DEF Inv, QuietInv, ActiveJobs, Active
<1>11. \A k \in Jobs : status[k] = "pending" /\ k \notin pending => status'[k] = "pending" /\ k \notin pending'
  BY <1>1, <1>3, <1>7 DEF queueVars
<1>12. /\ pending \subseteq pending'
       /\ \A f \in heap' : f \in heap \/ (EventOK(f) /\ f.kind \in TimerKinds /\ f.time >= now)
  BY <1>1, <1>5 DEF queueVars
<1> QED  BY <1>1, <1>5, <1>6, <1>8, <1>9, <1>10, <1>11, <1>12, HandlerStep

\* The loss of a node: an elastic job that keeps its minimum shrinks, the others on the
\* node go back to the queue.
LEMMA FailStep ==
  ASSUME Inv, NEW e \in batch, Fail(e), UNCHANGED reservation
  PROVE  Inv'
<1> DEFINE gone == OnNode(e.id)
           impacted == {j \in Jobs : alloc[j] \cap gone # {}}
           shrunk == {j \in impacted \cap ElasticJobs :
                        status[j] = "running" /\ Cardinality(alloc[j] \ gone) >= MinReplicas[j]}
           lost == impacted \ shrunk
           parked == {j \in lost : TargetsWithout(Affected(e.id))[j] # None}
           back == ReturnedVictims(Affected(e.id))
           Timer(j) == Completion(j, Accrued(j), Cardinality(alloc[j] \ gone), gen[j] + 1)
<1>1. Take(e) /\ e.kind \in FleetKinds
  BY DEF Fail, FleetKinds
<1>2. /\ DropReservations(Affected(e.id))
      /\ available' = [available EXCEPT ![e.id] = FALSE]
      /\ schedulable' = [schedulable EXCEPT ![e.id] = FALSE]
      /\ owner' = [g \in GPUs |-> IF g \in gone \/ owner[g] \in lost THEN None ELSE owner[g]]
      /\ alloc' = [j \in Jobs |-> IF j \in lost THEN {} ELSE alloc[j] \ gone]
      /\ work' = [j \in Jobs |-> IF j \in impacted THEN Accrued(j) ELSE work[j]]
      /\ gen' = [j \in Jobs |-> IF j \in impacted THEN gen[j] + 1 ELSE gen[j]]
      /\ status' = [j \in Jobs |-> IF j \in lost THEN "pending" ELSE status[j]]
      /\ lastStart' = [j \in Jobs |-> IF j \in lost THEN None
                                      ELSE IF j \in shrunk THEN now ELSE lastStart[j]]
      /\ runningPriority' = [j \in Jobs |-> IF j \in lost THEN None ELSE runningPriority[j]]
      /\ interrupted' = interrupted \cup lost
      /\ pending' = pending \cup back \cup (lost \ parked)
      /\ suspended' = (suspended \ back) \cup parked
      /\ heap' = heap \cup {Timer(j) : j \in shrunk}
  BY DEF Fail
<1>3. JobTypes /\ JobsInv /\ GangsInv /\ TypeOK /\ now \in Nat
  BY HandlerFacts DEF TypeOK, LoopTypeOK
<1>4. Affected(e.id) = {} /\ back = {} /\ parked = {} /\ reserved' = reserved /\ target' = target
  <2>1. Affected(e.id) = {} /\ ReturnedVictims({}) = {} /\ TargetsWithout({}) = target
    BY <1>3, NobodyReturns
  <2>2. reserved' = reserved /\ target' = target
    BY <1>2, <1>3, <2>1, NobodyReturns
  <2> QED  BY <1>3, <2>1, <2>2 DEF JobsInv
<1>5. pending' = pending \cup lost /\ suspended' = {}
  BY <1>2, <1>3, <1>4 DEF JobsInv
<1>6. /\ \A j \in Jobs : j \in impacted <=> alloc[j] \cap gone # {}
      /\ shrunk \subseteq impacted /\ lost = impacted \ shrunk /\ impacted \subseteq Jobs
      /\ \A j \in shrunk : status[j] = "running" /\ Cardinality(alloc[j] \ gone) >= MinReplicas[j]
  OBVIOUS
<1> HIDE DEF gone, impacted, shrunk, lost, parked, back, Timer
<1>7. /\ \A j \in impacted : alloc[j] # {} /\ status[j] \in Active /\ j \notin pending
      /\ \A j \in Jobs : Accrued(j) \in Nat
      /\ None \notin Jobs /\ None \notin Nat
  <2>1. \A j \in impacted : alloc[j] # {} /\ status[j] \in Active /\ j \notin pending
    BY <1>3, <1>6 DEF JobsInv, Active
  <2> QED  BY <1>3, <2>1, AccruedType, PlacementAssumption
<1>8. \A j \in shrunk : alloc[j] \ gone # {} /\ Cardinality(alloc[j] \ gone) \in Nat \ {0}
  <2> SUFFICES ASSUME NEW j \in shrunk
               PROVE  alloc[j] \ gone # {} /\ Cardinality(alloc[j] \ gone) \in Nat \ {0}
    OBVIOUS
  <2>1. MinReplicas[j] \in Nat \ {0} /\ Cardinality(alloc[j] \ gone) >= MinReplicas[j]
    BY <1>6, SizeFacts
  <2>2. alloc[j] \ gone \in SUBSET GPUs
    BY <1>3, <1>6 DEF JobTypes
  <2> QED  BY <2>1, <2>2, GpuSetsFinite, FS_EmptySet
<1>9. \A j \in shrunk : EventOK(Timer(j)) /\ Timer(j).kind \in TimerKinds /\ Timer(j).time >= now
  <2> SUFFICES ASSUME NEW j \in shrunk
               PROVE  EventOK(Timer(j)) /\ Timer(j).kind \in TimerKinds /\ Timer(j).time >= now
    OBVIOUS
  <2>1. j \in Jobs /\ Accrued(j) \in Nat /\ Cardinality(alloc[j] \ gone) \in Nat \ {0}
    BY <1>6, <1>7, <1>8
  <2> QED  BY <1>3, <2>1, CompletionOK DEF Timer, TimerKinds
<1>10. JobTypes'
  <2>1. status' \in [Jobs -> {"pending", "completed", "rejected"} \cup Active] /\ alloc' \in [Jobs -> SUBSET GPUs]
    BY <1>2, <1>3 DEF JobTypes
  <2>2. owner' \in [GPUs -> Jobs \cup {None}] /\ lastStart' \in [Jobs -> Nat \cup {None}]
    BY <1>2, <1>3 DEF JobTypes
  <2>3. gen' \in [Jobs -> Nat] /\ work' \in [Jobs -> Nat]
    BY <1>2, <1>3, <1>7 DEF JobTypes
  <2>4. runningPriority' \in [Jobs -> 0 .. Critical \cup {None}]
    BY <1>2, <1>3 DEF JobTypes
  <2>5. available' \in [Nodes -> BOOLEAN] /\ schedulable' \in [Nodes -> BOOLEAN]
    BY <1>2, <1>3 DEF JobTypes
  <2>6. interrupted' \subseteq Jobs /\ pending' \subseteq Jobs
    BY <1>2, <1>3, <1>5, <1>6 DEF JobTypes
  <2> QED  BY <1>3, <1>4, <2>1, <2>2, <2>3, <2>4, <2>5, <2>6 DEF JobTypes
<1>11. \A j \in Jobs : IF j \in lost THEN alloc'[j] = {} /\ status'[j] = "pending" /\ lastStart'[j] = None
                       ELSE /\ alloc'[j] = alloc[j] \ gone /\ status'[j] = status[j]
                            /\ lastStart'[j] \in {now, lastStart[j]}
  BY <1>2
<1>12. \A j \in Jobs \ lost : alloc'[j] # {} <=> alloc[j] # {}
  <2> SUFFICES ASSUME NEW j \in Jobs \ lost PROVE alloc'[j] # {} <=> alloc[j] # {}
    OBVIOUS
  <2>1. CASE j \in shrunk
    BY <1>8, <1>11, <2>1
  <2>2. CASE j \notin shrunk
    <3>1. alloc[j] \cap gone = {}
      BY <1>6, <2>2
    <3> QED  BY <1>11, <3>1
  <2> QED  BY <2>1, <2>2
<1>13. JobsInv'
  <2>1. \A j \in Jobs : alloc'[j] = {g \in GPUs : owner'[g] = j}
    <3> SUFFICES ASSUME NEW j \in Jobs PROVE alloc'[j] = {g \in GPUs : owner'[g] = j}
      OBVIOUS
    <3>1. alloc[j] = {g \in GPUs : owner[g] = j} /\ j # None
      BY <1>3, <1>7 DEF JobsInv
    <3>2. \A g \in GPUs : owner'[g] = IF g \in gone \/ owner[g] \in lost THEN None ELSE owner[g]
      BY <1>2
    <3>3. CASE j \in lost
      BY <1>11, <3>1, <3>2, <3>3
    <3>4. CASE j \notin lost
      BY <1>11, <3>1, <3>2, <3>4
    <3> QED  BY <3>3, <3>4
  <2>2. \A j \in Jobs : status'[j] \in Active <=> alloc'[j] # {}
    BY <1>3, <1>11, <1>12 DEF JobsInv, Active
  <2>3. \A j \in Jobs : status'[j] # "checkpointing" /\ (lastStart'[j] \in Nat => lastStart'[j] <= now)
    BY <1>3, <1>7, <1>11 DEF JobsInv
  <2>4. \A j \in pending' : status'[j] = "pending"
    <3>1. \A j \in pending : status[j] = "pending" /\ j \in Jobs
      BY <1>3 DEF JobsInv, JobTypes
    <3> QED  BY <1>5, <1>6, <1>11, <3>1
  <2>5. now' = now
    BY <1>1 DEF Take
  <2> QED  BY <1>3, <1>4, <1>5, <2>1, <2>2, <2>3, <2>4, <2>5 DEF JobsInv
<1>14. GangsInv'
  <2> SUFFICES ASSUME NEW j \in Jobs, alloc'[j] # {}
               PROVE  /\ Cardinality(alloc'[j]) \in MinReplicas[j] .. GpuCount[j]
                      /\ Cardinality(Vendors(alloc'[j])) = 1 /\ RequirementMet(j, alloc'[j])
    BY DEF GangsInv
  <2>1. j \notin lost /\ alloc'[j] = alloc[j] \ gone
    BY <1>11
  <2>2. alloc[j] # {} /\ alloc[j] \in SUBSET GPUs
    BY <1>3, <1>12, <2>1 DEF JobTypes
  <2>3. /\ Cardinality(alloc[j]) \in MinReplicas[j] .. GpuCount[j]
        /\ Cardinality(Vendors(alloc[j])) = 1 /\ RequirementMet(j, alloc[j])
    BY <1>3, <2>2 DEF GangsInv
  <2>4. CASE j \in shrunk
    <3>1. /\ Cardinality(alloc'[j]) <= Cardinality(alloc[j]) /\ Cardinality(Vendors(alloc'[j])) = 1
          /\ RequirementMet(j, alloc'[j])
      BY <2>1, <2>2, <2>3, PartOfGang
    <3>2. Cardinality(alloc'[j]) >= MinReplicas[j] /\ Cardinality(alloc'[j]) \in Nat
      BY <1>6, <1>8, <2>1, <2>4
    <3> QED  BY <2>3, <3>1, <3>2, SizeFacts
  <2>5. CASE j \notin shrunk
    <3>1. alloc[j] \cap gone = {}
      BY <1>6, <2>1, <2>5
    <3>2. alloc'[j] = alloc[j]
      BY <2>1, <3>1
    <3> QED  BY <2>3, <3>2
  <2> QED  BY <2>4, <2>5
<1>15. \A j \in Jobs : status[j] = "pending" /\ j \notin pending => status'[j] = "pending" /\ j \notin pending'
  BY <1>5, <1>6, <1>7, <1>11 DEF Active
<1>16. /\ pending \subseteq pending'
       /\ \A f \in heap' : f \in heap \/ (EventOK(f) /\ f.kind \in TimerKinds /\ f.time >= now)
  BY <1>2, <1>5, <1>9
<1>17. ~Quiet
  BY <1>1, HandlerFacts
<1> QED  BY <1>1, <1>10, <1>13, <1>14, <1>15, <1>16, <1>17, HandlerStep

\* Every handler keeps the invariant: no job ever writes a checkpoint here.
LEMMA HandleStep ==
  ASSUME Inv, NEW e \in batch, Handle(e), UNCHANGED reservation
  PROVE  Inv'
<1>1. ~CompleteCheckpoint(e)
  <2> SUFFICES ASSUME CompleteCheckpoint(e) PROVE FALSE
    OBVIOUS
  <2>1. status[e.id] = "checkpointing" /\ e.kind = "JOB_CHECKPOINT_COMPLETE"
    BY DEF CompleteCheckpoint, IsLive, Awaited
  <2>2. EventOK(e)
    BY HandlerFacts
  <2> QED  BY <2>1, <2>2 DEF EventOK, TimerKinds, FleetKinds
<1> QED  BY <1>1, StaleTimerStep, CompleteStep, CompleteRestartStep, RestoreStep, DrainStep, FailStep
        DEF Handle

-----------------------------------------------------------------------------
(* The reservation.                                                        *)

\* An expected completion lies ahead, and in quiet runs the job has ended by then.
LEMMA ExpectedIs ==
  ASSUME Inv, NEW i \in ActiveJobs
  PROVE  /\ i \in Jobs /\ Expected(i) \in Nat /\ Expected(i) >= now
         /\ Quiet => Expected(i) >= End(i)
<1> DEFINE ran == IF lastStart[i] = None THEN 0 ELSE now - lastStart[i]
           left == Remaining(i) - ran
<1>1. /\ i \in Jobs /\ now \in Nat /\ work[i] \in Nat /\ lastStart[i] \in Nat \cup {None}
      /\ scenario.duration[i] \in Nat \ {0} /\ None \in Int /\ None \notin Nat
  BY ScenarioFacts, PlacementAssumption DEF Inv, TypeOK, LoopTypeOK, ActiveJobs
<1>2. left \in Int
  BY <1>1 DEF Remaining
<1>3. Expected(i) = now + Max({0, left})
  BY DEF Expected
<1>4. Max({0, left}) = IF left > 0 THEN left ELSE 0
  BY <1>2, MaxWithZero
<1>5. ASSUME Quiet PROVE Expected(i) >= End(i)
  <2>1. /\ work[i] = 0 /\ lastStart[i] \in Nat
        /\ Event(End(i), "JOB_COMPLETE", i, gen[i]) \in Queued
    BY <1>1, <1>5 DEF Inv, QuietInv, ActiveJobs, Active
  <2>2. Lasting(i) \in Nat /\ Lasting(i) <= scenario.duration[i] /\ End(i) = lastStart[i] + Lasting(i)
    BY <1>1, <1>5, LastingIs DEF Inv, TypeOK, LoopTypeOK, End, Quiet
  <2>3. left = scenario.duration[i] - (now - lastStart[i])
    BY <1>1, <2>1 DEF Remaining
  <2> HIDE DEF left, ran
  <2> QED  BY <1>1, <1>2, <1>3, <1>4, <2>1, <2>2, <2>3
<1> HIDE DEF left
<1> QED  BY <1>1, <1>2, <1>3, <1>4, <1>5

\* Where the topology scheduler finds a placement there is one, and only there.
LEMMA TopologyPlaceFinds ==
  ASSUME NEW j \in Jobs, NEW view
  PROVE  TopologyPlace(j, GpuCount[j], view) # {} <=> Feasible(j, GpuCount[j], view)
<1>1. GpuCount[j] \in Nat \ {0}
  BY SizeFacts
<1> QED  BY <1>1, TopologyPlaceExact, FeasibleIs DEF Exact

\* The estimates are times to come, and without fleet events the job fits at each.
LEMMA EstimatesAre ==
  ASSUME Inv, NEW h \in Jobs, NEW t \in Estimates(h)
  PROVE  /\ t \in Nat /\ t >= now
         /\ Quiet => Feasible(h, GpuCount[h], ViewAt(t))
<1>1. PICK i \in ActiveJobs : t = Expected(i) /\ TopologyPlace(h, GpuCount[h], ViewAfter(i)) # {}
  BY DEF Estimates
<1>2. Feasible(h, GpuCount[h], ViewAfter(i))
  BY <1>1, TopologyPlaceFinds
<1>3. t \in Nat /\ t >= now /\ i \in Jobs
  BY <1>1, ExpectedIs
<1>4. ASSUME Quiet PROVE Feasible(h, GpuCount[h], ViewAt(t))
  <2>1. ASSUME NEW k \in ActiveJobs, End(k) > t
        PROVE  Less(<<Expected(i), i>>, <<Expected(k), k>>)
    <3>1. Expected(k) >= End(k) /\ Expected(k) \in Nat /\ End(k) \in Nat
      BY <1>4, ExpectedIs, EndIs
    <3> DEFINE u == <<Expected(i), i>>
               v == <<Expected(k), k>>
    <3>2. u[1] = t /\ v[1] = Expected(k) /\ 1 \in DOMAIN u \cap DOMAIN v /\ 1 .. 1 - 1 = {}
      BY <1>1, <3>1
    <3> HIDE DEF u, v
    <3>3. u[1] < v[1]
      BY <1>3, <2>1, <3>1, <3>2
    <3>4. Less(u, v)
      BY <3>2, <3>3 DEF Less
    <3> QED  BY <3>4 DEF u, v
  <2>2. Hosts(h, ViewAfter(i)) \subseteq Hosts(h, ViewAt(t))
    BY <2>1 DEF Hosts, ViewAfter, ViewAt
  <2> QED  BY <1>2, <2>2, FeasibleIs, SizeFacts
<1> QED  BY <1>3, <1>4

\* What prepare leaves: at most one reservation, of the head of the queue, at a time to
\* come at which the head fits.
LEMMA PreparedIs ==
  ASSUME Inv
  PROVE  /\ \A q, r \in Prepared : q = r
         /\ \A r \in Prepared : r.job \in QueueHead /\ r.job \in pending /\ r.start \in Nat
         /\ Quiet =>
              \A r \in Prepared : now <= r.start /\ Feasible(r.job, GpuCount[r.job], ViewAt(r.start))
<1> DEFINE Of(h) ==
             LET kept == {r \in reservation : r.job = h}
                 starts == Estimates(h) \cup {r.start : r \in kept}
             IN  IF TopologyPlace(h, GpuCount[h], View) # {} THEN kept
                 ELSE IF Estimates(h) = {} THEN {}
                 ELSE {[job |-> h, start |-> Min(starts)]}
<1>1. Prepared = UNION {Of(h) : h \in QueueHead}
  BY DEF Prepared
<1>2. /\ QueueHead \subseteq pending /\ pending \subseteq Jobs
      /\ QueueHead # {} => \E h \in pending : QueueHead = {h}
  BY HeadFacts, QueueHeadIs DEF Inv, TypeOK, LoopTypeOK
<1>3. /\ \A q, r \in reservation : q = r
      /\ \A r \in reservation : r.start \in Nat
      /\ Quiet =>
           \A r \in reservation : now <= r.start /\ Feasible(r.job, GpuCount[r.job], ViewAt(r.start))
  BY DEF Inv, TypeOK, QuietInv
<1>4. ASSUME NEW h \in QueueHead
      PROVE  /\ \A q, r \in Of(h) : q = r
             /\ \A r \in Of(h) : r.job = h /\ r.start \in Nat
             /\ Quiet =>
                  \A r \in Of(h) : now <= r.start /\ Feasible(h, GpuCount[h], ViewAt(r.start))
  <2> DEFINE kept == {r \in reservation : r.job = h}
             starts == Estimates(h) \cup {r.start : r \in kept}
  <2>1. \/ Of(h) = kept
        \/ Of(h) = {}
        \/ Estimates(h) # {} /\ Of(h) = {[job |-> h, start |-> Min(starts)]}
    OBVIOUS
  <2>2. CASE Of(h) = kept
    <3> HIDE DEF Of
    <3> QED  BY <1>3, <2>2
  <2>3. CASE Of(h) = {}
    <3> HIDE DEF Of
    <3> QED  BY <2>3
  <2>4. CASE Estimates(h) # {} /\ Of(h) = {[job |-> h, start |-> Min(starts)]}
    <3>1. \A t \in starts : /\ t \in Nat
                            /\ Quiet => now <= t /\ Feasible(h, GpuCount[h], ViewAt(t))
      BY <1>2, <1>3, EstimatesAre DEF Inv, TypeOK, LoopTypeOK
    <3>2. starts \in SUBSET Nat /\ starts # {}
      BY <2>4, <3>1
    <3> HIDE DEF starts, Of
    <3>3. Min(starts) \in starts
      BY <3>2, MinIn
    <3> QED  BY <2>4, <3>1, <3>3
  <2> QED  BY <2>1, <2>2, <2>3, <2>4
<1> HIDE DEF Of
<1>5. CASE QueueHead = {}
  BY <1>1, <1>5
<1>6. CASE QueueHead # {}
  <2>1. PICK h \in pending : QueueHead = {h}
    BY <1>2, <1>6
  <2>2. Prepared = Of(h)
    BY <1>1, <2>1
  <2> QED  BY <1>4, <2>1, <2>2
<1> QED  BY <1>5, <1>6

-----------------------------------------------------------------------------
(* The pass.                                                               *)

\* Nothing fits a cluster without a free GPU.
LEMMA StuckInVain ==
  ASSUME Stuck, NEW j \in Jobs
  PROVE  Impossible(j)
<1>1. Hosts(j, Offered) = {}
  BY DEF Stuck, Hosts, Offered
<1>2. \A G : ~IsPlacement(j, GpuCount[j], Offered, G)
  <2> SUFFICES ASSUME NEW G, IsPlacement(j, GpuCount[j], Offered, G) PROVE FALSE
    OBVIOUS
  <2>1. G = {} /\ Cardinality(G) = GpuCount[j]
    BY <1>1 DEF IsPlacement
  <2> QED  BY <2>1, FS_EmptySet, SizeFacts
<1> QED  BY <1>2, FeasibleIs, SizeFacts DEF Impossible

\* Feasibility depends on the fleet, the owners and the policy.
LEMMA SameFeasible ==
  ASSUME UNCHANGED <<scenario, owner, nodeVars>>
  PROVE  \A j \in Jobs : Impossible(j)' <=> Impossible(j)
BY DEF Impossible, Feasible, IsPlacement, Hosts, Offered, PrefersVendor, UsableGpus, Usable,
       Occupied, nodeVars

\* The keys of a pass tell jobs apart, and backfill puts the head first.
LEMMA PendingKeys ==
  ASSUME Inv
  PROVE  LET key == [j \in pending |-> PendingKey(j)]
         IN  /\ Keys(pending, key)
             /\ Backfilling => Least(pending, key) \subseteq QueueHead
<1> DEFINE key == [j \in pending |-> PendingKey(j)]
           long(j) == <<1, Remaining(j), scenario.arrival[j], j>>
           short(j) == <<scenario.arrival[j], j>>
<1>1. /\ pending \subseteq Jobs /\ QueueHead \subseteq pending
      /\ pending # {} => \E h \in pending : QueueHead = {h}
  BY HeadFacts, QueueHeadIs DEF Inv, TypeOK, LoopTypeOK
<1>2. \A j \in pending : j \in Int /\ scenario.arrival[j] \in Int /\ Remaining(j) \in Int
  <2> SUFFICES ASSUME NEW j \in pending
               PROVE  j \in Int /\ scenario.arrival[j] \in Int /\ Remaining(j) \in Int
    OBVIOUS
  <2>1. scenario.duration[j] \in Nat \ {0} /\ scenario.arrival[j] \in Nat /\ work[j] \in Nat /\ j \in Nat
    BY <1>1, ScenarioFacts, SizeFacts DEF Inv, TypeOK, LoopTypeOK
  <2> QED  BY <2>1 DEF Remaining
<1>3. \A j \in pending :
        key[j] = IF Backfilling THEN IF j \in QueueHead THEN <<0>> ELSE long(j) ELSE short(j)
  BY DEF PendingKey
<1>4. /\ \A j \in pending : long(j) \in Seq(Int) /\ short(j) \in Seq(Int)
      /\ \A i, j \in pending : (long(i) = long(j) => i = j) /\ (short(i) = short(j) => i = j)
      /\ <<0>> \in Seq(Int) /\ \A i \in pending : <<0>> # long(i)
  <2>1. \A a, b, c \in Int : <<1, a, b, c>> \in Seq(Int) /\ <<a, b>> \in Seq(Int) /\ <<0>> # <<1, a, b, c>>
    OBVIOUS
  <2>2. \A j \in pending : long(j) \in Seq(Int) /\ short(j) \in Seq(Int) /\ <<0>> # long(j)
    BY <1>2, <2>1
  <2>3. \A i, j \in pending : (long(i) = long(j) => i = j) /\ (short(i) = short(j) => i = j)
    OBVIOUS
  <2>4. <<0>> \in Seq(Int)
    OBVIOUS
  <2> QED  BY <2>2, <2>3, <2>4
<1> HIDE DEF key, short
<1>5. Keys(pending, key)
  <2> HIDE DEF long
  <2>1. \A j \in pending : key[j] \in Seq(Int)
    BY <1>3, <1>4
  <2>2. \A i, j \in pending : key[i] = key[j] => i = j
    <3>1. \A i, j \in QueueHead : i = j
      BY <1>1
    <3> QED  BY <1>3, <1>4, <3>1
  <2> QED  BY <2>1, <2>2 DEF Keys
<1>6. ASSUME Backfilling, NEW x \in Least(pending, key) PROVE x \in QueueHead
  <2>1. x \in pending /\ \A y \in pending : ~Less(key[y], key[x])
    <3>1. IsFiniteSet(pending)
      BY <1>1, PlacementAssumption, FS_Subset
    <3>2. Least(pending, key) = {y \in pending : \A z \in pending : ~Less(key[z], key[y])}
      BY <3>1, LeastIs
    <3> QED  BY <1>6, <3>2
  <2> SUFFICES ASSUME x \notin QueueHead PROVE FALSE
    OBVIOUS
  <2>2. PICK h \in pending : QueueHead = {h}
    BY <1>1, <2>1
  <2>3. key[h] = <<0>> /\ key[x] = long(x)
    BY <1>3, <1>6, <2>1, <2>2
  <2>4. Less(<<0>>, long(x))
    <3> DEFINE s == <<0>>
               t == long(x)
    <3>1. s[1] = 0 /\ t[1] = 1 /\ 1 \in DOMAIN s \cap DOMAIN t /\ 1 .. 1 - 1 = {}
      OBVIOUS
    <3> HIDE DEF s, t
    <3>2. Less(s, t)
      BY <3>1 DEF Less
    <3> QED  BY <3>2 DEF s, t
  <2> QED  BY <2>1, <2>2, <2>3, <2>4
<1> QED  BY <1>5, <1>6 DEF key

\* Beginning a pass.
LEMMA BeginPassStep ==
  ASSUME Inv, BeginPass
  PROVE  Inv'
<1> DEFINE key == [j \in pending |-> PendingKey(j)]
           order == InOrder(pending, key)
<1>1. /\ pc = "handle" /\ batch = {}
      /\ reservation' = IF Backfilling THEN Prepared ELSE {}
      /\ pc' = IF Stuck THEN "pop" ELSE "dispatch"
      /\ todo' = IF Stuck THEN <<>> ELSE order
      /\ UNCHANGED <<scenario, now, heap, batch, initial, jobVars, queueVars, nodeVars>>
  BY DEF BeginPass
<1>2. pending \subseteq Jobs /\ IsFiniteSet(pending) /\ Cardinality(pending) \in Nat /\ (pending # {} => Cardinality(pending) # 0)
  BY PlacementAssumption, FS_Subset, FS_CardinalityType, FS_EmptySet DEF Inv, TypeOK, LoopTypeOK
<1>3. Keys(pending, key) /\ (Backfilling => Least(pending, key) \subseteq QueueHead)
  BY PendingKeys
<1> HIDE DEF key
<1>4. /\ order \in [1 .. Cardinality(pending) -> pending]
      /\ \A j \in pending : \E i \in 1 .. Cardinality(pending) : order[i] = j
      /\ pending # {} => order[1] \in Least(pending, key)
  BY <1>2, <1>3, InOrderLists
<1>5. order \in Seq(Jobs) /\ Len(order) = Cardinality(pending)
  <2> HIDE DEF order
  <2> QED  BY <1>2, <1>4
<1> HIDE DEF order
<1>6. QueueHead' = QueueHead /\ Backfilling' = Backfilling /\ View' = View
  BY <1>1 DEF QueueHead, Backfilling, View, queueVars, jobVars, nodeVars, UsableGpus, Usable, Occupied
<1>7. /\ \A q, r \in reservation' : q = r
      /\ \A r \in reservation' : Backfilling /\ r.job \in QueueHead /\ r.job \in pending /\ r.start \in Nat
      /\ Quiet =>
           \A r \in reservation' : now <= r.start /\ Feasible(r.job, GpuCount[r.job], ViewAt(r.start))
  BY <1>1, PreparedIs
<1>8. TypeOK'
  <2>1. todo' \in Seq(Jobs)
    <3>1. <<>> \in Seq(Jobs)
      OBVIOUS
    <3> QED  BY <1>1, <1>5, <3>1
  <2>2. Queued' = Queued
    BY <1>1 DEF Queued
  <2>3. LoopTypeOK'
    BY <1>1, <2>1, <2>2 DEF Inv, TypeOK, LoopTypeOK, jobVars, queueVars, nodeVars
  <2> QED  BY <1>1, <1>6, <1>7, <2>3 DEF Inv, TypeOK, queueVars
<1>9. JobsInv' /\ GangsInv'
  BY <1>1 DEF Inv, JobsInv, GangsInv, jobVars, queueVars
<1>10. EventsInv'
  BY <1>1 DEF Inv, EventsInv, EventOK, Queued, jobVars, queueVars
<1>11. \A j \in Jobs : Impossible(j)' <=> Impossible(j)
  BY <1>1, SameFeasible DEF jobVars
<1>12. PassInv'
  <2>1. CASE Stuck
    <3>1. \A j \in Jobs : Impossible(j)'
      BY <1>11, <2>1, StuckInVain
    <3>2. Owed' \subseteq Jobs
      BY <1>1, <1>2, <1>6, QueueHeadIs, HeadFacts DEF Owed, Inv, TypeOK, LoopTypeOK, queueVars
    <3> QED  BY <1>1, <1>6, <1>7, <2>1, <3>1, <3>2 DEF PassInv, OwedInVain
  <2>2. CASE ~Stuck
    <3>1. \A j \in pending' : Listed(j)'
      BY <1>1, <1>4, <1>5, <2>2 DEF Listed, queueVars
    <3>2. \A i \in 1 .. Len(todo') : todo'[i] \in pending'
      BY <1>1, <1>4, <1>5, <2>2 DEF queueVars
    <3>3. HeadIsNext' \/ AllAreTried'
      <4>1. CASE pending = {} \/ ~Backfilling
        <5>1. reservation' = {}
          BY <1>1, <1>7, <4>1
        <5> QED  BY <3>1, <5>1 DEF AllAreTried
      <4>2. CASE pending # {} /\ Backfilling
        <5>1. order # <<>> /\ Head(order) = order[1] /\ Head(order) \in QueueHead
          BY <1>2, <1>3, <1>4, <1>5, <4>2
        <5>2. \A i, j \in QueueHead : i = j
          <6>1. \E h \in pending : QueueHead = {h}
            BY <1>2, <4>2, QueueHeadIs, HeadFacts DEF Inv, TypeOK, LoopTypeOK
          <6> QED  BY <6>1
        <5>3. \A r \in reservation' : r.job = Head(order)
          BY <1>7, <5>1, <5>2
        <5> QED  BY <1>1, <1>6, <2>2, <3>1, <5>1, <5>3 DEF HeadIsNext
      <4> QED  BY <4>1, <4>2
    <3> QED  BY <1>1, <1>6, <1>7, <2>2, <3>2, <3>3 DEF PassInv
  <2> QED  BY <2>1, <2>2
<1>13. QuietInv'
  <2>1. \A t : ViewAt(t)' = ViewAt(t)
    <3>1. UNCHANGED <<scenario, status, alloc, lastStart, available, schedulable>>
      BY <1>1 DEF jobVars, nodeVars
    <3>2. ActiveJobs' = ActiveJobs /\ UsableGpus' = UsableGpus /\ \A k : End(k)' = End(k)
      BY <3>1, QuietStays DEF ActiveJobs, End, UsableGpus, Usable
    <3> QED  BY <3>1, <3>2 DEF ViewAt
  <2>2. \A r \in reservation' : Feasible(r.job, GpuCount[r.job], ViewAt(r.start)) => Feasible(r.job, GpuCount[r.job], ViewAt(r.start)')
    BY <2>1
  <2>3. Queued' = Queued /\ ActiveJobs' = ActiveJobs /\ \A j : End(j)' = End(j)
    BY <1>1, QuietStays DEF Queued, ActiveJobs, End, jobVars
  <2> QED  BY <1>1, <1>7, <2>2, <2>3, QuietStays DEF Inv, QuietInv, jobVars
<1> QED  BY <1>8, <1>9, <1>10, <1>12, <1>13 DEF Inv

\* Ending a pass.
LEMMA EndPassStep ==
  ASSUME Inv, EndPass
  PROVE  Inv'
<1>1. /\ pc = "dispatch" /\ pc' = "pop" /\ todo' = <<>> /\ (todo = <<>> \/ Stuck)
      /\ UNCHANGED <<scenario, now, heap, batch, initial, jobVars, queueVars, nodeVars, reservation>>
  BY DEF EndPass
<1> USE DEF jobVars, queueVars, nodeVars
<1>2. QueueHead' = QueueHead /\ Backfilling' = Backfilling /\ Queued' = Queued /\ Owed' = Owed
  BY <1>1 DEF QueueHead, Backfilling, Queued, Owed
<1>3. TypeOK'
  <2>1. todo' \in Seq(Jobs)
    BY <1>1
  <2> QED  BY <1>1, <1>2, <2>1 DEF Inv, TypeOK, LoopTypeOK
<1>4. JobsInv' /\ GangsInv'
  BY <1>1 DEF Inv, JobsInv, GangsInv
<1>5. EventsInv'
  BY <1>1 DEF Inv, EventsInv, EventOK, Queued
<1>6. PassInv'
  <2>1. Owed \subseteq pending /\ pending \subseteq Jobs
    BY QueueHeadIs, HeadFacts DEF Owed, Inv, TypeOK, LoopTypeOK
  <2>2. \A j \in Owed : Impossible(j)
    <3>1. CASE Stuck
      BY <2>1, <3>1, StuckInVain
    <3>2. CASE todo = <<>>
      <4>1. HeadIsNext \/ AllAreTried \/ OwedInVain
        BY <1>1 DEF Inv, PassInv
      <4>2. \A j : ~Listed(j)
        BY <3>2 DEF Listed
      <4> QED  BY <2>1, <3>2, <4>1, <4>2 DEF HeadIsNext, AllAreTried, OwedInVain
    <3> QED  BY <1>1, <3>1, <3>2
  <2>3. OwedInVain'
    <3>1. \A j \in Jobs : Impossible(j)' <=> Impossible(j)
      BY <1>1, SameFeasible
    <3> QED  BY <1>2, <2>1, <2>2, <3>1 DEF OwedInVain
  <2> QED  BY <1>1, <1>2, <2>3 DEF Inv, PassInv
<1>7. QuietInv'
  BY <1>1, QuietStays DEF Inv, QuietInv, ActiveJobs, End, ViewAt, UsableGpus, Usable, Queued
<1> QED  BY <1>3, <1>4, <1>5, <1>6, <1>7 DEF Inv

\* The priority a job runs with.
LEMMA PriorityType ==
  ASSUME TypeOK, NEW j \in Jobs, status[j] # "running"
  PROVE  EffectivePriority(j) \in 0 .. Critical
<1> DEFINE ran == IF j \in ElasticJobs THEN 0 ELSE work[j]
           past == now - scenario.arrival[j] - ran
           waited == Max({0, past})
           aged == scenario.priority[j] + (waited \div AgingInterval)
<1>1. /\ now \in Nat /\ work[j] \in Nat /\ scenario.arrival[j] \in Nat
      /\ scenario.priority[j] \in 0 .. 3 /\ AgingInterval \in Nat \ {0} /\ Critical = 3
  BY ScenarioFacts, LoopAssumption DEF TypeOK, LoopTypeOK, Critical
<1>2. EffectivePriority(j) = Min({3, aged})
  BY <1>1 DEF EffectivePriority
<1>3. past \in Int
  BY <1>1
<1>4. waited \in Nat
  <2> HIDE DEF past
  <2>1. waited = IF past > 0 THEN past ELSE 0
    BY <1>3, MaxWithZero
  <2> QED  BY <1>3, <2>1
<1> HIDE DEF waited
<1>5. waited \div AgingInterval \in Nat
  BY <1>1, <1>4
<1>6. aged \in Nat
  BY <1>1, <1>5
<1> HIDE DEF aged
<1>7. Min({3, aged}) = IF 3 <= aged THEN 3 ELSE aged
  BY <1>6, MinOfTwo
<1> QED  BY <1>1, <1>2, <1>6, <1>7

\* Starting a queued job on free GPUs.
LEMMA StartFacts ==
  ASSUME Inv, NEW j \in pending, NEW P, P # {}, P \subseteq UsableGpus \ Occupied,
         Cardinality(P) = GpuCount[j], StartJob(j, P)
  PROVE  \E timer :
           /\ EventOK(timer) /\ timer.kind \in TimerKinds /\ timer.time >= now
           /\ heap' = heap \cup {timer} /\ pending' = pending \ {j}
           /\ suspended' = {} /\ target' = target /\ reserved' = reserved
           /\ alloc' = [alloc EXCEPT ![j] = P]
           /\ owner' = [g \in GPUs |-> IF g \in P THEN j ELSE IF owner[g] = j THEN None ELSE owner[g]]
           /\ gen' = [gen EXCEPT ![j] = gen[j] + 1]
           /\ runningPriority' = [runningPriority EXCEPT ![j] = EffectivePriority(j)]
           /\ \E s \in {"running", "restarting"} :
                /\ status' = [status EXCEPT ![j] = s]
                /\ lastStart' = [lastStart EXCEPT ![j] = IF s = "restarting" THEN None ELSE now]
                /\ j \notin interrupted /\ work[j] = 0 =>
                     /\ s = "running"
                     /\ timer = Event(now + Lasting(j), "JOB_COMPLETE", j, gen[j] + 1)
           /\ UNCHANGED <<work, interrupted, nodeVars>>
<1> DEFINE back == ReturnedVictims({j})
           restarts == WasPreempted(j) /\ RestartCost[j] > 0
           timer == IF restarts
                    THEN Event(now + RestartCost[j], "JOB_RESTART_COMPLETE", j, gen[j] + 1)
                    ELSE Completion(j, work[j], Cardinality(P), gen[j] + 1)
           s == IF restarts THEN "restarting" ELSE "running"
<1>1. /\ alloc' = [alloc EXCEPT ![j] = P]
      /\ owner' = [g \in GPUs |-> IF g \in P THEN j ELSE IF owner[g] = j THEN None ELSE owner[g]]
      /\ gen' = [gen EXCEPT ![j] = gen[j] + 1]
      /\ runningPriority' = [runningPriority EXCEPT ![j] = EffectivePriority(j)]
      /\ status' = [status EXCEPT ![j] = s]
      /\ lastStart' = [lastStart EXCEPT ![j] = IF s = "restarting" THEN None ELSE now]
      /\ pending' = (pending \ {j}) \cup back
      /\ suspended' = suspended \ back
      /\ DropReservations({j})
      /\ heap' = heap \cup {timer}
      /\ UNCHANGED <<work, interrupted, nodeVars>>
  BY DEF StartJob, Allocate, Resize
<1>2. TypeOK /\ JobTypes /\ JobsInv /\ j \in Jobs /\ now \in Nat /\ work[j] \in Nat /\ gen[j] \in Nat
  BY DEF Inv, TypeOK, LoopTypeOK, JobTypes, JobsInv
<1>3. back = {} /\ reserved' = reserved /\ target' = target
  BY <1>1, <1>2, NobodyReturns
<1>4. suspended = {}
  BY <1>2 DEF JobsInv
<1>5. /\ GpuCount[j] \in Nat \ {0} /\ RestartCost[j] \in Nat
      /\ EventOK(Completion(j, work[j], Cardinality(P), gen[j] + 1))
      /\ Completion(j, work[j], Cardinality(P), gen[j] + 1).kind = "JOB_COMPLETE"
      /\ Completion(j, work[j], Cardinality(P), gen[j] + 1).time >= now
  BY <1>2, SizeFacts, LoopAssumption, CompletionOK
<1>6. EventOK(timer) /\ timer.kind \in TimerKinds /\ timer.time >= now
  <2>1. CASE restarts
    <3>1. timer = Event(now + RestartCost[j], "JOB_RESTART_COMPLETE", j, gen[j] + 1)
      BY <2>1
    <3> HIDE DEF timer
    <3> QED  BY <1>2, <1>5, <3>1 DEF Event, EventOK, TimerKinds
  <2>2. CASE ~restarts
    BY <1>5, <2>2 DEF TimerKinds
  <2> QED  BY <2>1, <2>2
<1>7. ASSUME j \notin interrupted, work[j] = 0
      PROVE  /\ s = "running"
             /\ timer = Event(now + Lasting(j), "JOB_COMPLETE", j, gen[j] + 1)
  <2>1. ~restarts
    BY <1>7 DEF WasPreempted
  <2>2. Completion(j, 0, GpuCount[j], gen[j] + 1).time = now + Lasting(j)
    BY <1>2, <1>5, CompletionOK
  <2>3. Completion(j, 0, GpuCount[j], gen[j] + 1) = Event(now + Lasting(j), "JOB_COMPLETE", j, gen[j] + 1)
    BY <2>2 DEF Completion, Event
  <2> QED  BY <1>7, <2>1, <2>3
<1> HIDE DEF back, restarts, timer
<1>8. s \in {"running", "restarting"}
  OBVIOUS
<1> HIDE DEF s
<1>9. pending' = pending \ {j} /\ suspended' = {}
  BY <1>1, <1>3, <1>4
<1> QED  BY <1>1, <1>3, <1>6, <1>7, <1>8, <1>9

\* A job that is tried and has no placement.
LEMMA TryInVain ==
  ASSUME Inv, pc = "dispatch", todo # <<>>,
         Permitted(Head(todo)) => PlaceOn(Head(todo), View) = {},
         todo' = Tail(todo),
         UNCHANGED <<scenario, now, pc, batch, initial, heap, jobVars, queueVars, nodeVars, reservation>>
  PROVE  Inv'
<1> DEFINE j == Head(todo)
<1> USE DEF jobVars, queueVars, nodeVars
<1>1. /\ todo \in Seq(Jobs) /\ j \in Jobs /\ j = todo[1] /\ todo' \in Seq(Jobs)
      /\ Len(todo') = Len(todo) - 1 /\ Len(todo) \in Nat
      /\ \A i \in 1 .. Len(todo') : todo'[i] = todo[i + 1]
  BY DEF Inv, TypeOK, LoopTypeOK
<1>2. QueueHead' = QueueHead /\ Backfilling' = Backfilling /\ Queued' = Queued /\ Owed' = Owed
  BY DEF QueueHead, Backfilling, Queued, Owed
<1>3. TypeOK'
  BY <1>1, <1>2 DEF Inv, TypeOK, LoopTypeOK
<1>4. JobsInv' /\ GangsInv'
  BY DEF Inv, JobsInv, GangsInv
<1>5. EventsInv'
  BY DEF Inv, EventsInv, EventOK, Queued
<1>6. QuietInv'
  BY QuietStays DEF Inv, QuietInv, ActiveJobs, End, ViewAt, UsableGpus, Usable, Queued
<1>7. PassInv'
  <2>1. \A k \in Jobs : Impossible(k)' <=> Impossible(k)
    BY SameFeasible
  <2>2. \A k : Listed(k) => k = j \/ Listed(k)'
    <3> SUFFICES ASSUME NEW k, NEW i \in 1 .. Len(todo), todo[i] = k, k # j PROVE Listed(k)'
      BY DEF Listed
    <3>1. i - 1 \in 1 .. Len(todo')
      BY <1>1
    <3>2. todo'[i - 1] = k
      BY <1>1, <3>1
    <3> QED  BY <3>1, <3>2 DEF Listed
  <2>3. \A i \in 1 .. Len(todo') : todo'[i] \in pending \/ alloc[todo'[i]] # {}
    BY <1>1 DEF Inv, PassInv
  <2>4. Permitted(j) => Impossible(j)
    BY <1>1, PlaceOnIs DEF Inv, TypeOK, LoopTypeOK
  <2>5. pending \subseteq Jobs /\ Owed \subseteq pending
    BY QueueHeadIs, HeadFacts DEF Owed, Inv, TypeOK, LoopTypeOK
  <2> HIDE DEF j
  <2>6. HeadIsNext' \/ AllAreTried' \/ OwedInVain'
    <3>1. CASE OwedInVain
      BY <1>2, <2>1, <2>5, <3>1 DEF OwedInVain
    <3>2. CASE AllAreTried
      <4>1. Impossible(j)
        BY <2>4, <3>2 DEF AllAreTried, Permitted
      <4> QED  BY <2>1, <2>2, <2>5, <3>2, <4>1 DEF AllAreTried
    <3>3. CASE HeadIsNext
      <4>1. Impossible(j) /\ j \in QueueHead
        BY <2>4, <3>3 DEF HeadIsNext, Permitted, j
      <4>2. CASE Backfilling
        <5>1. QueueHead = {j}
          <6>1. pending # {}
            BY <2>5, <4>1, <4>2 DEF Owed
          <6>2. \E h \in pending : QueueHead = {h}
            BY <2>5, <6>1, QueueHeadIs, HeadFacts DEF Inv, TypeOK, LoopTypeOK
          <6> QED  BY <4>1, <6>2
        <5> QED  BY <1>2, <2>1, <2>5, <4>1, <4>2, <5>1 DEF OwedInVain, Owed
      <4>3. CASE ~Backfilling
        <5>1. reservation' = {}
          BY <4>3 DEF Inv, TypeOK
        <5> QED  BY <2>1, <2>2, <2>5, <3>3, <4>1, <5>1 DEF AllAreTried, HeadIsNext
      <4> QED  BY <4>2, <4>3
    <3> QED  BY <3>1, <3>2, <3>3 DEF Inv, PassInv
  <2> QED  BY <1>2, <2>3, <2>6 DEF Inv, PassInv
<1> QED  BY <1>3, <1>4, <1>5, <1>6, <1>7 DEF Inv

\* A job that is tried and starts.
LEMMA TryStarts ==
  ASSUME Inv, pc = "dispatch", todo # <<>>, NEW j \in Jobs, j = Head(todo), NEW P, P # {},
         Permitted(j), P = PlaceOn(j, View), StartJob(j, P), reservation' = LeftBy(j),
         todo' = Tail(todo), UNCHANGED <<scenario, now, pc, batch, initial>>
  PROVE  Inv'
<1>1. /\ todo \in Seq(Jobs) /\ j = todo[1] /\ todo' \in Seq(Jobs)
      /\ Len(todo') = Len(todo) - 1 /\ Len(todo) \in Nat \ {0}
      /\ \A i \in 1 .. Len(todo') : todo'[i] = todo[i + 1]
  BY DEF Inv, TypeOK, LoopTypeOK
<1>2. JobTypes /\ JobsInv /\ GangsInv /\ TypeOK /\ now \in Nat
  BY DEF Inv, TypeOK, LoopTypeOK, JobTypes, JobsInv
<1>3. alloc[j] = {} /\ j \in pending /\ status[j] = "pending"
  <2>1. alloc[j] = {}
    BY DEF StartJob, Allocate
  <2>2. todo[1] \in pending \/ alloc[todo[1]] # {}
    BY <1>1 DEF Inv, PassInv
  <2> QED  BY <1>1, <1>2, <2>1, <2>2 DEF JobsInv
<1>4. /\ P \subseteq UsableGpus \ Occupied /\ Cardinality(P) = GpuCount[j]
      /\ Cardinality(Vendors(P)) = 1 /\ RequirementMet(j, P) /\ ~Impossible(j)
  BY <1>2, PlaceOnIs DEF TypeOK, LoopTypeOK
<1>5. PICK timer :
        /\ EventOK(timer) /\ timer.kind \in TimerKinds /\ timer.time >= now
        /\ heap' = heap \cup {timer} /\ pending' = pending \ {j}
        /\ suspended' = {} /\ target' = target /\ reserved' = reserved
        /\ alloc' = [alloc EXCEPT ![j] = P]
        /\ owner' = [g \in GPUs |-> IF g \in P THEN j ELSE IF owner[g] = j THEN None ELSE owner[g]]
        /\ gen' = [gen EXCEPT ![j] = gen[j] + 1]
        /\ runningPriority' = [runningPriority EXCEPT ![j] = EffectivePriority(j)]
        /\ \E s \in {"running", "restarting"} :
             /\ status' = [status EXCEPT ![j] = s]
             /\ lastStart' = [lastStart EXCEPT ![j] = IF s = "restarting" THEN None ELSE now]
             /\ j \notin interrupted /\ work[j] = 0 =>
                  /\ s = "running"
                  /\ timer = Event(now + Lasting(j), "JOB_COMPLETE", j, gen[j] + 1)
        /\ UNCHANGED <<work, interrupted, nodeVars>>
  BY <1>3, <1>4, StartFacts
<1>6. PICK s \in {"running", "restarting"} :
        /\ status' = [status EXCEPT ![j] = s]
        /\ lastStart' = [lastStart EXCEPT ![j] = IF s = "restarting" THEN None ELSE now]
        /\ j \notin interrupted /\ work[j] = 0 =>
             /\ s = "running"
             /\ timer = Event(now + Lasting(j), "JOB_COMPLETE", j, gen[j] + 1)
  BY <1>5
<1>7. EffectivePriority(j) \in 0 .. Critical /\ None \notin Jobs /\ None \notin Nat
  BY <1>2, <1>3, PriorityType, PlacementAssumption
<1>8. P \in SUBSET GPUs /\ \A g \in P : owner[g] = None
  BY <1>4 DEF UsableGpus, Occupied
<1>9. JobTypes'
  <2>1. status' \in [Jobs -> {"pending", "completed", "rejected"} \cup Active] /\ lastStart' \in [Jobs -> Nat \cup {None}]
    BY <1>2, <1>6 DEF JobTypes, Active
  <2>2. alloc' \in [Jobs -> SUBSET GPUs] /\ owner' \in [GPUs -> Jobs \cup {None}]
    BY <1>2, <1>5, <1>8 DEF JobTypes
  <2>3. gen' \in [Jobs -> Nat] /\ runningPriority' \in [Jobs -> 0 .. Critical \cup {None}]
    BY <1>2, <1>5, <1>7 DEF JobTypes
  <2>4. pending' \subseteq Jobs
    BY <1>2, <1>5 DEF JobTypes
  <2> QED  BY <1>2, <1>5, <2>1, <2>2, <2>3, <2>4 DEF JobTypes, nodeVars
<1>10. \A k \in Jobs :
         IF k = j THEN alloc'[k] = P /\ status'[k] = s /\ lastStart'[k] \in {None, now} /\ gen'[k] = gen[k] + 1
         ELSE alloc'[k] = alloc[k] /\ status'[k] = status[k] /\ lastStart'[k] = lastStart[k] /\ gen'[k] = gen[k]
  BY <1>2, <1>5, <1>6 DEF JobTypes
<1>11. \A r \in reservation' : r \in reservation /\ r.job # j
  BY DEF LeftBy
<1>12. \A f \in Queued' : EventOK(f) /\ EventOK(f)' /\ f.time >= now /\ (f \in Queued \/ f = timer)
  <2>1. \A f \in Queued' : f \in Queued \/ f = timer
    BY <1>5 DEF Queued
  <2>2. \A f \in Queued' : EventOK(f) /\ f.time >= now
    BY <1>5, <2>1 DEF Inv, EventsInv, TypeOK, LoopTypeOK
  <2> QED  BY <2>1, <2>2 DEF EventOK
<1>13. TypeOK'
  <2>1. \A f \in Queued' : f.time >= now' /\ Order(f.kind) \in 0 .. 5
    BY <1>12, EventFacts
  <2>2. LoopTypeOK'
    BY <1>1, <1>2, <1>5, <1>9, <2>1 DEF JobTypes, TypeOK, LoopTypeOK
  <2>3. \A r \in reservation' : Backfilling /\ r.job \in pending' /\ r.start \in Nat
    BY <1>2, <1>5, <1>11 DEF TypeOK
  <2> QED  BY <1>2, <1>11, <2>2, <2>3 DEF TypeOK, Backfilling
<1>14. JobsInv'
  <2>1. \A k \in Jobs : alloc'[k] = {g \in GPUs : owner'[g] = k}
    <3> SUFFICES ASSUME NEW k \in Jobs PROVE alloc'[k] = {g \in GPUs : owner'[g] = k}
      OBVIOUS
    <3>1. alloc[k] = {g \in GPUs : owner[g] = k} /\ {g \in GPUs : owner[g] = j} = {} /\ k # None
      BY <1>2, <1>3, <1>7 DEF JobsInv
    <3>2. \A g \in GPUs : owner'[g] = IF g \in P THEN j ELSE owner[g]
      BY <1>5, <3>1
    <3> QED  BY <1>8, <1>10, <3>1, <3>2
  <2>2. \A k \in Jobs : status'[k] \in Active <=> alloc'[k] # {}
    BY <1>2, <1>10 DEF JobsInv, Active
  <2>3. \A k \in Jobs : status'[k] # "checkpointing" /\ (lastStart'[k] \in Nat => lastStart'[k] <= now)
    BY <1>2, <1>7, <1>10 DEF JobsInv
  <2>4. \A k \in pending' : status'[k] = "pending"
    BY <1>2, <1>5, <1>10 DEF JobsInv, JobTypes
  <2> QED  BY <1>2, <1>5, <2>1, <2>2, <2>3, <2>4 DEF JobsInv
<1>15. GangsInv'
  <2>1. GpuCount[j] \in MinReplicas[j] .. GpuCount[j]
    BY SizeFacts
  <2> QED  BY <1>2, <1>4, <1>10, <2>1 DEF GangsInv
<1>16. EventsInv'
  <2>1. \A f \in Queued' : f.kind = "JOB_ARRIVAL" => status'[f.id] = "pending" /\ f.id \notin pending'
    <3> SUFFICES ASSUME NEW f \in Queued', f.kind = "JOB_ARRIVAL"
                 PROVE  status'[f.id] = "pending" /\ f.id \notin pending'
      OBVIOUS
    <3>1. f \in Queued /\ f.id \in Jobs
      BY <1>5, <1>12, EventFacts DEF TimerKinds
    <3>2. status[f.id] = "pending" /\ f.id \notin pending
      BY <3>1 DEF Inv, EventsInv
    <3> QED  BY <1>3, <1>5, <1>10, <3>1, <3>2
  <2> QED  BY <1>12, <2>1 DEF Inv, EventsInv
<1>17. PassInv'
  <2>1. \A k \in Jobs : Impossible(k) => Impossible(k)'
    <3> SUFFICES ASSUME NEW k \in Jobs, Impossible(k) PROVE Impossible(k)'
      OBVIOUS
    <3>1. Hosts(k, Offered') \subseteq Hosts(k, Offered)
      <4>1. Offered'.gpus = Offered.gpus
        BY <1>5 DEF Offered, PrefersVendor, UsableGpus, Usable, nodeVars
      <4>2. Occupied \subseteq Occupied'
        <5>1. \A g \in GPUs : owner[g] # None => owner'[g] # None
          BY <1>2, <1>3, <1>5, <1>7 DEF JobsInv
        <5> QED  BY <5>1 DEF Occupied
      <4>3. Offered.occupied = Occupied /\ Offered'.occupied = Occupied'
        BY DEF Offered
      <4> QED  BY <4>1, <4>2, <4>3 DEF Hosts
    <3>2. ~Feasible(k, GpuCount[k], Offered')
      BY <3>1, FeasibleIs, SizeFacts DEF Impossible
    <3> QED  BY <3>2 DEF Impossible
  <2>2. \A k : Listed(k) => k = j \/ Listed(k)'
    <3> SUFFICES ASSUME NEW k, NEW i \in 1 .. Len(todo), todo[i] = k, k # j PROVE Listed(k)'
      BY DEF Listed
    <3>1. i - 1 \in 1 .. Len(todo')
      BY <1>1
    <3>2. todo'[i - 1] = k
      BY <1>1, <3>1
    <3> QED  BY <3>1, <3>2 DEF Listed
  <2>3. \A i \in 1 .. Len(todo') : todo'[i] \in pending' \/ alloc'[todo'[i]] # {}
    <3> SUFFICES ASSUME NEW i \in 1 .. Len(todo') PROVE todo'[i] \in pending' \/ alloc'[todo'[i]] # {}
      OBVIOUS
    <3>1. todo'[i] = todo[i + 1] /\ i + 1 \in 1 .. Len(todo) /\ todo[i + 1] \in Jobs
      BY <1>1
    <3>2. todo[i + 1] \in pending \/ alloc[todo[i + 1]] # {}
      BY <3>1 DEF Inv, PassInv
    <3> QED  BY <1>4, <1>5, <1>10, <3>1, <3>2
  <2>4. /\ pending \subseteq Jobs /\ QueueHead \subseteq pending /\ QueueHead \cap pending' \subseteq QueueHead'
        /\ QueueHead' \subseteq pending' /\ Backfilling' = Backfilling
        /\ \A i, k \in QueueHead : i = k
        /\ \A i, k \in QueueHead' : i = k
    <3>1. pending \in SUBSET Jobs /\ pending' \in SUBSET pending /\ scenario \in Scenarios
      BY <1>2, <1>5 DEF JobTypes, TypeOK, LoopTypeOK
    <3>2. QueueHead = HeadOf(pending) /\ QueueHead' = HeadOf(pending')
      BY QueueHeadIs DEF HeadOf, HeadKey, QueueHead
    <3>3. \A S \in SUBSET Jobs : \A i, k \in HeadOf(S) : i = k
      <4> SUFFICES ASSUME NEW S \in SUBSET Jobs, NEW i \in HeadOf(S), NEW k \in HeadOf(S) PROVE i = k
        OBVIOUS
      <4>1. \E h \in S : HeadOf(S) = {h}
        BY <3>1, HeadFacts
      <4> QED  BY <4>1
    <3> QED  BY <3>1, <3>2, <3>3, HeadFacts DEF Backfilling
  <2>5. HeadIsNext' \/ AllAreTried' \/ OwedInVain'
    <3>1. CASE OwedInVain
      <4>1. j \notin Owed
        BY <1>4, <3>1 DEF OwedInVain
      <4>2. Owed' \subseteq Owed
        <5>1. CASE Backfilling
          <6>1. QueueHead \subseteq QueueHead'
            BY <1>5, <2>4, <4>1, <5>1 DEF Owed
          <6>2. pending # {}
            BY <1>3
          <6>3. QueueHead # {}
            BY <2>4, <6>2, QueueHeadIs, HeadFacts, <1>2 DEF TypeOK, LoopTypeOK
          <6> QED  BY <2>4, <5>1, <6>1, <6>3 DEF Owed
        <5>2. CASE ~Backfilling
          BY <1>3, <4>1, <5>2 DEF Owed
        <5> QED  BY <5>1, <5>2
      <4>3. Owed \subseteq Jobs
        BY <2>4 DEF Owed
      <4> QED  BY <2>1, <3>1, <4>2, <4>3 DEF OwedInVain
    <3>2. CASE AllAreTried
      <4>1. reservation' = {}
        BY <1>11, <3>2 DEF AllAreTried
      <4> QED  BY <1>5, <2>1, <2>2, <2>4, <3>2, <4>1 DEF AllAreTried
    <3>3. CASE HeadIsNext
      <4>1. reservation' = {}
        BY <1>11, <3>3 DEF HeadIsNext
      <4> QED  BY <1>5, <2>2, <3>3, <4>1 DEF AllAreTried, HeadIsNext
    <3> QED  BY <3>1, <3>2, <3>3 DEF Inv, PassInv
  <2>6. \A r \in reservation' : r.job \in QueueHead'
    BY <1>2, <1>5, <1>11, <2>4 DEF Inv, PassInv, TypeOK
  <2> QED  BY <2>3, <2>5, <2>6 DEF PassInv
<1>18. QuietInv'
  <2> SUFFICES ASSUME Quiet PROVE QuietInv'
    BY <1>5, QuietStays DEF QuietInv
  <2>1. QuietInv
    BY DEF Inv
  <2>2. interrupted' = {} /\ \A f \in Queued' : f.kind \notin FleetKinds
    BY <1>5, <1>12, <2>1 DEF QuietInv, TimerKinds, FleetKinds
  <2>3. work[j] = 0 /\ \A k \in Jobs : status'[k] # "completed" => work'[k] = 0
    BY <1>3, <1>5, <1>10, <2>1 DEF QuietInv
  <2>4. s = "running" /\ timer = Event(now + Lasting(j), "JOB_COMPLETE", j, gen[j] + 1)
    BY <1>6, <2>1, <2>3 DEF QuietInv
  <2>5. lastStart'[j] = now
    BY <1>2, <1>6, <2>4 DEF JobTypes
  <2>6. End(j)' = now + Lasting(j)
    BY <1>5, <2>5, QuietStays DEF End
  <2>7. \A k \in ActiveJobs' : k = j \/ (k \in ActiveJobs /\ End(k)' = End(k) /\ alloc'[k] = alloc[k])
    BY <1>5, <1>10, QuietStays DEF ActiveJobs, End
  <2>8. ASSUME NEW k \in ActiveJobs'
        PROVE  /\ status'[k] = "running" /\ lastStart'[k] \in Nat
               /\ Event(End(k)', "JOB_COMPLETE", k, gen'[k]) \in Queued'
    <3>1. CASE k = j
      <4>1. timer \in Queued'
        BY <1>5 DEF Queued
      <4> QED  BY <1>2, <1>10, <2>4, <2>5, <2>6, <3>1, <4>1
    <3>2. CASE k # j
      <4>1. k \in ActiveJobs /\ End(k)' = End(k) /\ k \in Jobs
        BY <2>7, <3>2 DEF ActiveJobs
      <4>2. status[k] = "running" /\ lastStart[k] \in Nat /\ Event(End(k), "JOB_COMPLETE", k, gen[k]) \in Queued
        BY <2>1, <4>1 DEF QuietInv
      <4>3. Queued \subseteq Queued'
        BY <1>5 DEF Queued
      <4> QED  BY <1>10, <3>2, <4>1, <4>2, <4>3
    <3> QED  BY <3>1, <3>2
  <2>9. ASSUME NEW r \in reservation'
        PROVE  now <= r.start /\ Feasible(r.job, GpuCount[r.job], ViewAt(r.start)')
    <3>1. /\ r \in reservation /\ r.job # j /\ r.job \in Jobs /\ r.start \in Nat
          /\ now <= r.start /\ Feasible(r.job, GpuCount[r.job], ViewAt(r.start))
      BY <1>2, <1>11, <2>1 DEF QuietInv, TypeOK, LoopTypeOK
    <3>2. now + Remaining(j) <= r.start
      BY <3>1 DEF Permitted
    <3>3. /\ Remaining(j) = scenario.duration[j] /\ scenario.duration[j] \in Nat
          /\ Lasting(j) \in Nat /\ Lasting(j) <= scenario.duration[j]
      BY <1>2, <2>3, ScenarioFacts, LastingIs DEF Remaining, TypeOK, LoopTypeOK, Quiet
    <3>4. ~(End(j)' > r.start)
      BY <1>2, <2>6, <3>1, <3>2, <3>3
    <3>5. ViewAt(r.start)'.occupied \subseteq ViewAt(r.start).occupied /\ ViewAt(r.start)'.gpus = ViewAt(r.start).gpus
      <4>1. ViewAt(r.start)'.gpus = ViewAt(r.start).gpus
        BY <1>5 DEF ViewAt, UsableGpus, Usable, nodeVars
      <4>2. \A k \in ActiveJobs' : End(k)' > r.start => k \in ActiveJobs /\ End(k) > r.start /\ alloc'[k] = alloc[k]
        BY <2>7, <3>4
      <4> QED  BY <4>1, <4>2 DEF ViewAt
    <3>6. Hosts(r.job, ViewAt(r.start)) \subseteq Hosts(r.job, ViewAt(r.start)')
      BY <3>5 DEF Hosts
    <3> QED  BY <3>1, <3>6, FeasibleIs, SizeFacts
  <2> QED  BY <2>2, <2>3, <2>8, <2>9 DEF QuietInv
<1> QED  BY <1>13, <1>14, <1>15, <1>16, <1>17, <1>18 DEF Inv

\* Trying a job.
LEMMA TryStep ==
  ASSUME Inv, Try
  PROVE  Inv'
<1> DEFINE j == Head(todo)
           P == IF Permitted(j) THEN PlaceOn(j, View) ELSE {}
<1>1. /\ pc = "dispatch" /\ todo # <<>> /\ todo' = Tail(todo)
      /\ UNCHANGED <<scenario, now, pc, batch, initial>>
      /\ IF P # {} THEN StartJob(j, P) /\ reservation' = LeftBy(j)
         ELSE UNCHANGED <<heap, jobVars, queueVars, nodeVars, reservation>>
  BY DEF Try
<1>2. j \in Jobs
  BY <1>1 DEF Inv, TypeOK, LoopTypeOK
<1>3. CASE P = {}
  BY <1>1, <1>3, TryInVain
<1>4. CASE P # {}
  <2>1. Permitted(j) /\ P = PlaceOn(j, View)
    BY <1>4
  <2> HIDE DEF j, P
  <2>2. j = Head(todo)
    BY DEF j
  <2> QED  BY <1>1, <1>2, <1>4, <2>1, <2>2, TryStarts
<1> QED  BY <1>3, <1>4

\* A step that changes nothing.
LEMMA StutterStep ==
  ASSUME Inv, UNCHANGED vars
  PROVE  Inv'
<1> USE DEF vars, loopVars, passVars, jobVars, queueVars, nodeVars
<1>1. TypeOK'
  BY DEF Inv, TypeOK, LoopTypeOK, Queued, Backfilling
<1>2. JobsInv' /\ GangsInv'
  BY DEF Inv, JobsInv, GangsInv
<1>3. EventsInv'
  BY DEF Inv, EventsInv, EventOK, Queued
<1>4. PassInv'
  <2>1. \A j \in Jobs : Impossible(j)' <=> Impossible(j)
    BY SameFeasible
  <2>2. QueueHead' = QueueHead /\ Owed' = Owed
    BY DEF QueueHead, Owed, Backfilling
  <2>3. Owed \subseteq Jobs /\ pending \subseteq Jobs
    BY QueueHeadIs, HeadFacts DEF Owed, Inv, TypeOK, LoopTypeOK
  <2>4. /\ OwedInVain => OwedInVain'
        /\ AllAreTried => AllAreTried'
        /\ HeadIsNext => HeadIsNext'
    BY <2>1, <2>2, <2>3 DEF OwedInVain, AllAreTried, HeadIsNext, Listed
  <2> QED  BY <2>2, <2>4 DEF Inv, PassInv
<1>5. QuietInv'
  BY QuietStays DEF Inv, QuietInv, ActiveJobs, End, ViewAt, UsableGpus, Usable, Queued
<1> QED  BY <1>1, <1>2, <1>3, <1>4, <1>5 DEF Inv

-----------------------------------------------------------------------------
(* The theorems.                                                           *)

\* The inductive invariant of the queue-driven loop, for any cluster, jobs, fleet events
\* and policy.
THEOREM Invariance == Spec => []Inv
<1>1. ASSUME Inv, [Next]_vars PROVE Inv'
  <2>1. CASE LoopEvent
    <3>1. /\ UNCHANGED reservation
          /\ \/ \E e \in heap : Discard(e) \/ Pop(e)
             \/ \E e \in batch : Handle(e)
             \/ Finish
      BY <2>1 DEF LoopEvent, LoopStep
    <3> QED  BY <1>1, <3>1, HeadOfLoop, HandleStep
  <2>2. CASE \E e \in batch : Submit(e)
    BY <1>1, <2>2, SubmitStep
  <2>3. CASE BeginPass
    BY <1>1, <2>3, BeginPassStep
  <2>4. CASE Try
    BY <1>1, <2>4, TryStep
  <2>5. CASE EndPass
    BY <1>1, <2>5, EndPassStep
  <2>6. CASE UNCHANGED vars
    BY <1>1, <2>6, StutterStep
  <2> QED  BY <1>1, <2>1, <2>2, <2>3, <2>4, <2>5, <2>6 DEF Next, Step, Terminated
<1> QED  BY <1>1, InitInv, PTL DEF Spec

\* Every variable keeps its type, no event is due in the past, and there is at most one
\* reservation, of a job in the queue.
THEOREM TypeCorrect == Spec => []TypeOK
<1>1. Inv => TypeOK
  BY DEF Inv
<1> QED  BY <1>1, Invariance, PTL

\* After every instant active jobs hold sound gangs, and no job that is owed GPUs has a
\* placement the scheduler has overlooked.
THEOREM PlacementIsExact == Spec => []PlacementExact
<1>1. Inv => PlacementExact
  <2> SUFFICES ASSUME Inv, pc = "pop" PROVE PlacementExact
    BY DEF PlacementExact
  <2>1. \A j \in ActiveJobs : j \in Jobs /\ alloc[j] # {}
    BY DEF Inv, JobsInv, ActiveJobs
  <2>2. OwedInVain
    BY DEF Inv, PassInv
  <2> QED  BY <2>1, <2>2 DEF Inv, GangsInv, PlacementExact, OwedInVain, Impossible
<1> QED  BY <1>1, Invariance, PTL

\* Without fleet events, and unless an elastic job asks for fewer GPUs than it prefers,
\* backfill starts the first job of the queue no later than the time reserved for it.
THEOREM ReservationIsHonoured == ASSUME FullGangs PROVE Spec => ReservationHonoured
<1>1. Inv => [scenario.fleet = {} => \A r \in reservation : r.job \notin pending' => now <= r.start]_vars
  BY DEF Inv, QuietInv, Quiet
<1> QED  BY <1>1, Invariance, PTL DEF Spec, ReservationHonoured
=============================================================================
