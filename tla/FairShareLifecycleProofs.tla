----------------------- MODULE FairShareLifecycleProofs -----------------------
(***************************************************************************)
(* The loop with fair-share scheduling implements the job lifecycle, for   *)
(* every fleet, tree of queues, set of jobs and scenario. From that follow *)
(* its types, what it leaves behind at its end, that admission rejects no  *)
(* job that could ever have run and, on fleets of one vendor, that reclaim *)
(* takes surplus only and gives its target the placement it was made for.  *)
(***************************************************************************)
EXTENDS FairShareEngineProofs

-----------------------------------------------------------------------------
(* The order of the jobs of a pass.                                        *)

\* A list of the jobs in S, each once.
Lists(s, S) == s \in Seq(S) /\ ToSet(s) = S /\ IsInjective(s)

\* Jobs are listed by SetToSeq, and by each of SetToSeqs.
LEMMA ListsOf ==
  ASSUME NEW S \in SUBSET Jobs
  PROVE  Lists(SetToSeq(S), S) /\ \A s \in SetToSeqs(S) : Lists(s, S)
<1> DEFINE n == Cardinality(S)
<1>1. IsFiniteSet(S) /\ n \in Nat
  BY PlacementAssumption, FS_Subset, FS_CardinalityType
<1>2. ASSUME NEW f \in [1 .. n -> S], IsInjective(f)
      PROVE  Lists(f, S)
  <2>1. f \in Seq(S) /\ DOMAIN f = 1 .. n
    BY <1>1
  <2>2. ToSet(f) \in SUBSET S
    BY DEF ToSet
  <2>3. f \in Bijection(1 .. n, ToSet(f))
    BY <1>2, <2>1 DEF Bijection, Injection, Surjection, IsInjective, ToSet
  <2>4. Cardinality(ToSet(f)) = n
    <3>1. ExistsBijection(1 .. n, ToSet(f))
      BY <2>3 DEF ExistsBijection
    <3> QED  BY <1>1, <3>1, FS_CountingElements
  <2>5. ToSet(f) = S
    BY <1>1, <2>2, <2>4, FS_Subset
  <2> QED  BY <1>2, <2>1, <2>5 DEF Lists
<1>3. \E f \in [1 .. n -> S] : IsInjective(f)
  <2>1. PICK f : f \in Bijection(1 .. n, S)
    <3>1. ExistsBijection(1 .. n, S)
      BY <1>1, FS_CardinalityType
    <3> QED  BY <3>1 DEF ExistsBijection
  <2> QED  BY <2>1 DEF Bijection, Injection, IsInjective
<1>4. SetToSeq(S) \in [1 .. n -> S] /\ IsInjective(SetToSeq(S))
  BY <1>3 DEF SetToSeq
<1>5. \A s \in SetToSeqs(S) : s \in [1 .. n -> S] /\ IsInjective(s)
  BY DEF SetToSeqs, IsInjective
<1> HIDE DEF n
<1> QED  BY <1>2, <1>4, <1>5

\* The first job of a list and the others.
LEMMA ListTail ==
  ASSUME NEW s \in Seq(Jobs), IsInjective(s), s # <<>>
  PROVE  /\ Head(s) \in ToSet(s) /\ Tail(s) \in Seq(Jobs) /\ IsInjective(Tail(s))
         /\ ToSet(Tail(s)) = ToSet(s) \ {Head(s)}
<1>1. Len(s) \in Nat \ {0} /\ DOMAIN s = 1 .. Len(s) /\ Head(s) = s[1]
  OBVIOUS
<1>2. /\ Tail(s) \in Seq(Jobs) /\ Len(Tail(s)) = Len(s) - 1
      /\ DOMAIN Tail(s) = 1 .. Len(s) - 1 /\ \A i \in 1 .. Len(s) - 1 : Tail(s)[i] = s[i + 1]
  BY HeadTailProperties
<1>3. \A i \in 1 .. Len(s) - 1 : i + 1 \in 1 .. Len(s) /\ i + 1 # 1
  BY <1>1
<1>4. IsInjective(Tail(s))
  BY <1>1, <1>2, <1>3 DEF IsInjective
<1>5. ASSUME NEW x PROVE x \in ToSet(Tail(s)) <=> x \in ToSet(s) \ {Head(s)}
  <2>1. ASSUME x \in ToSet(Tail(s)) PROVE x \in ToSet(s) \ {Head(s)}
    <3>1. PICK i \in 1 .. Len(s) - 1 : x = s[i + 1]
      BY <1>2, <2>1 DEF ToSet
    <3> QED  BY <1>1, <1>3, <3>1 DEF ToSet, IsInjective
  <2>2. ASSUME x \in ToSet(s) \ {Head(s)} PROVE x \in ToSet(Tail(s))
    <3>1. PICK i \in 1 .. Len(s) : x = s[i]
      BY <1>1, <2>2 DEF ToSet
    <3>2. i - 1 \in 1 .. Len(s) - 1 /\ i - 1 + 1 = i
      BY <1>1, <2>2, <3>1
    <3>3. Tail(s)[i - 1] = x
      BY <1>2, <3>1, <3>2
    <3> QED  BY <1>2, <3>2, <3>3 DEF ToSet
  <2> QED  BY <2>1, <2>2
<1>6. ToSet(Tail(s)) = ToSet(s) \ {Head(s)}
  BY <1>5
<1>7. Head(s) \in ToSet(s)
  <2>1. 1 \in DOMAIN s
    BY <1>1
  <2> QED  BY <1>1, <2>1 DEF ToSet
<1> QED  BY <1>2, <1>4, <1>6, <1>7

-----------------------------------------------------------------------------
(* The invariant.                                                          *)

\* The numbers of replicas a job may have.
Sizes == [j \in Jobs |-> MinReplicas[j] .. PreferredReplicas[j]]

\* A reclaim plan that is being committed, or none.
Plannings ==
  [target : Jobs \cup {None}, alloc : Holdings, victims : SUBSET Jobs, queues : SUBSET Queues,
   placement : SUBSET GPUs, shrink : SUBSET Jobs]

\* The types of the variables the lifecycle depends on, beside those of Types.
LoopTypes ==
  /\ now \in Nat
  /\ pc \in {"pop", "handle", "guarantee", "dispatch", "commit", "retry", "resume", "resize",
             "done", "crashed"}
  /\ todo \in Seq(Jobs) /\ initial \subseteq Jobs
  /\ status \in [Jobs -> {"pending", "completed", "rejected"} \cup Active]
  /\ gen \in [Jobs -> Nat]
  /\ work \in [Jobs -> Nat]
  /\ lastStart \in [Jobs -> Nat \cup {None}]
  /\ interrupted \subseteq Jobs /\ pending \subseteq Jobs /\ suspended \subseteq Jobs
  /\ target \in [Jobs -> Jobs \cup {None}]
  /\ reserved \in [Jobs -> SUBSET GPUs]
  /\ available \in [Nodes -> BOOLEAN] /\ schedulable \in [Nodes -> BOOLEAN]
  /\ plan \in Plannings
  /\ grown \in [Jobs -> SUBSET GPUs]

\* Jobs whose arrival is still queued.
Waiting == {j \in Jobs : \E e \in Queued : e.kind = "JOB_ARRIVAL" /\ e.id = j}

\* The events of a job that carry its generation, and all the events of a job.
Timers == {"JOB_COMPLETE", "JOB_CHECKPOINT_COMPLETE", "JOB_RESTART_COMPLETE"}
JobKinds == Timers \cup {"JOB_ARRIVAL"}

\* Queued events are due now or later, and those of this instant are due now. Between
\* the instants nothing is left of the last one.
EventsTyped ==
  /\ \A e \in Queued :
       /\ e.time \in Nat /\ now <= e.time
       /\ e.kind \in JobKinds \cup FleetKinds
       /\ e.kind \in JobKinds => e.id \in Jobs
       /\ e.kind \in FleetKinds => e.id \in Nodes
       /\ e.kind \in Timers => e.gen \in Nat
  /\ \A e \in batch : e.time = now
  /\ pc # "handle" => batch = {}

\* A job has one arrival, and one timer of a kind in a generation.
EventsDistinct ==
  /\ \A e, f \in Queued : e.kind = f.kind /\ e.id = f.id =>
       /\ e.kind = "JOB_ARRIVAL" => e = f
       /\ e.kind \in Timers /\ e.gen = f.gen => e = f
  /\ \A e \in heap \cap batch : e.kind \notin JobKinds

\* A job that has not arrived has not started.
ArrivalsWait == \A j \in Waiting : status[j] = "pending"

\* GPUs of one vendor, as many as the job may have.
SameVendor(P) == \A g, h \in P : VendorOf[g] = VendorOf[h]
Fits(j, P) == P \subseteq Compatible[j] /\ Cardinality(P) \in Sizes[j] /\ SameVendor(P)

\* A job that holds GPUs holds a gang.
Gangs == \A j \in Jobs : status[j] \in Active => Fits(j, alloc[j])

\* A job has progress or was interrupted only if it has started once; a job that waits
\* again was interrupted.
History ==
  \A j \in Jobs :
    /\ gen[j] = 0 => work[j] = 0 /\ j \notin interrupted
    /\ status[j] = "pending" /\ gen[j] > 0 => j \in interrupted
    /\ status[j] \in Active => gen[j] > 0
    /\ status[j] = "checkpointing" => j \in interrupted

\* No start lies in the future.
Clock == \A j \in Jobs : lastStart[j] # None => lastStart[j] <= now

\* Only running jobs grow, at the end of an instant, by GPUs that nobody else may have.
Growth ==
  \A j \in Jobs : grown[j] # {} =>
    /\ pc = "resize" /\ status[j] = "running"
    /\ grown[j] \subseteq alloc[j] /\ grown[j] # alloc[j]
    /\ \A g \in alloc[j] \ grown[j] : Usable(NodeOf[g]) /\ g \notin ReservedElsewhere(j)

\* The jobs the pass has still to try are queued, and each is tried once.
Pass ==
  /\ IsInjective(todo) /\ ToSet(todo) \subseteq pending
  /\ pc \notin {"guarantee", "dispatch", "commit", "retry", "resume", "crashed"} => todo = <<>>

\* A shrink that is planned leaves an elastic job enough of its GPUs.
Shrinks(v) ==
  /\ status[v] = "running" /\ v \notin plan.victims
  /\ plan.alloc[v] \subseteq alloc[v] /\ plan.alloc[v] # alloc[v] /\ Fits(v, plan.alloc[v])

\* A plan that is being committed gives a queued job a gang of GPUs that are free, or will be
\* when all its shrinks and evictions are done.
Planned ==
  /\ pc \notin {"commit", "retry"} => plan = NoPlan
  /\ pc \in {"commit", "retry"} => plan.target \in pending \ ToSet(todo)
  /\ pc = "commit" =>
       /\ \A v \in plan.victims : status[v] = "running"
       /\ \A v \in plan.shrink : Shrinks(v)
       /\ Fits(plan.target, plan.placement)
       /\ \A g \in plan.placement :
            /\ Usable(NodeOf[g]) /\ g \notin ReservedElsewhere(plan.target)
            /\ owner[g] \in plan.victims \cup plan.shrink \cup {None}
            /\ \A v \in plan.shrink : g \notin plan.alloc[v]

\* The invariant of the loop and its pass.
Core ==
  /\ LoopTypes /\ EventsTyped /\ EventsDistinct /\ ArrivalsWait /\ Gangs /\ History /\ Clock
  /\ Growth /\ Pass /\ Planned

\* The theorems of the lifecycle specification, for this engine.
Proved == INSTANCE JobLifecycleProofs WITH
  Replicas <- [j \in Jobs |-> MinReplicas[j] .. PreferredReplicas[j]],
  CheckpointJobs <- {j \in Jobs : CheckpointCost[j] > 0},
  RestartJobs <- {j \in Jobs : RestartCost[j] > 0},
  RunGenerations <- Nat,
  status <- Submitted,
  alloc <- Settled,
  owner <- SettledOwner,
  completeEvents <- Generations("JOB_COMPLETE"),
  checkpointEvents <- Generations("JOB_CHECKPOINT_COMPLETE"),
  restartEvents <- Generations("JOB_RESTART_COMPLETE")

\* The invariant of the engine: what its quotas need, that of the loop, and that of the
\* lifecycle specification in the states the engine maps to. The last part gives the
\* queues and the fencing of timers without proving them a second time.
LifeInv == Inv /\ Core /\ Proved!IInv

\* None is no job, no time.
LEMMA NoneIsNot == None \notin Jobs /\ None \notin Nat
BY PlacementAssumption

\* What the lifecycle specification assumes of its constants.
LEMMA Constants ==
  /\ NodeOf \in [GPUs -> Nodes]
  /\ Compatible \in [Jobs -> SUBSET GPUs]
  /\ [j \in Jobs |-> MinReplicas[j] .. PreferredReplicas[j]] \in [Jobs -> SUBSET (Nat \ {0})]
  /\ {j \in Jobs : CheckpointCost[j] > 0} \subseteq Jobs
  /\ {j \in Jobs : RestartCost[j] > 0} \subseteq Jobs
  /\ Nat \subseteq Nat
  /\ None \notin Jobs
<1>1. ASSUME NEW j \in Jobs PROVE MinReplicas[j] .. PreferredReplicas[j] \in SUBSET (Nat \ {0})
  <2>1. MinReplicas[j] \in Nat \ {0} /\ PreferredReplicas[j] \in Nat \ {0}
    BY LoopAssumption
  <2> QED  BY <2>1
<1> QED  BY <1>1, PlacementAssumption, GpuFacts DEF Compatible

\* A step of the lifecycle specification keeps what is proved of it.
LEMMA LifecycleKeeps == Proved!IInv /\ [Proved!Next]_(Proved!vars) => Proved!IInv'
BY Constants, Proved!NextIInv

\* The generations of the events of one kind and job in a set.
GensIn(Q, kind, j) == {e.gen : e \in {f \in Q : f.kind = kind /\ f.id = j}}

\* The mapping in terms of the jobs that wait for their arrival and the generations of
\* the queued timers.
LEMMA MappingIs ==
  /\ Submitted = [j \in Jobs |-> IF j \in Waiting THEN "unsubmitted" ELSE status[j]]
  /\ \A kind : Generations(kind) = [j \in Jobs |-> GensIn(Queued, kind, j)]
  /\ Submitted' = [j \in Jobs |-> IF j \in Waiting' THEN "unsubmitted" ELSE status'[j]]
  /\ \A kind : Generations(kind)' = [j \in Jobs |-> GensIn(Queued, kind, j)']
BY DEF Submitted, Waiting, Generations, GensIn

\* While no job grows, the lifecycle sees the GPUs as they are.
LEMMA NoneGrown ==
  /\ (\A j \in Jobs : grown[j] = {}) /\ Types => Settled = alloc /\ SettledOwner = owner
  /\ ((\A j \in Jobs : grown[j] = {}) /\ Types => Settled = alloc /\ SettledOwner = owner)'
<1>1. (\A j \in Jobs : grown[j] = {}) /\ Types => Settled = alloc /\ SettledOwner = owner
  BY DEF Types, Holdings, Settled, SettledOwner
<1>2. ((\A j \in Jobs : grown[j] = {}) /\ Types => Settled = alloc /\ SettledOwner = owner)'
  BY DEF Types, Holdings, Settled, SettledOwner
<1> QED  BY <1>1, <1>2

\* What the invariants of the lifecycle specification say of the engine: a job holds GPUs
\* while it is active.
Holding == \A j \in Jobs : alloc[j] # {} <=> status[j] \in Active

\* A job waits in one queue if it has arrived and is pending.
InOneQueue ==
  /\ pending \cap suspended = {}
  /\ \A j \in Jobs : j \in pending \cup suspended <=> status[j] = "pending" /\ j \notin Waiting

\* A victim with a target is suspended or on its way, and its target holds a reservation.
VictimsAim ==
  \A v \in Jobs : /\ v \in suspended => target[v] # None
                  /\ target[v] # None => /\ status[v] = "checkpointing" \/ v \in suspended
                                         /\ target[v] \in pending
                                         /\ reserved[target[v]] # {}

\* A reservation belongs to a queued job, to no other job, and is free or being freed.
Reserving ==
  \A h \in Jobs : /\ reserved[h] # {} => h \in pending
                  /\ \A g \in reserved[h] :
                       /\ Usable(NodeOf[g])
                       /\ owner[g] # None => status[owner[g]] = "checkpointing"
                       /\ \A i \in Jobs \ {h} : g \notin reserved[i]

\* The timer of the present phase is queued.
Phases ==
  \A j \in Jobs :
    /\ status[j] = "running" => gen[j] \in GensIn(Queued, "JOB_COMPLETE", j)
    /\ status[j] = "checkpointing" => gen[j] \in GensIn(Queued, "JOB_CHECKPOINT_COMPLETE", j)
    /\ status[j] = "restarting" => gen[j] \in GensIn(Queued, "JOB_RESTART_COMPLETE", j)

\* No timer is ahead of its job, and none of another phase is live.
Fenced ==
  \A j \in Jobs :
    /\ \A kind \in Timers : \A k \in GensIn(Queued, kind, j) : k <= gen[j]
    /\ status[j] = "running" => gen[j] \notin GensIn(Queued, "JOB_CHECKPOINT_COMPLETE", j)
    /\ status[j] = "restarting" =>
         gen[j] \notin GensIn(Queued, "JOB_COMPLETE", j) \cup GensIn(Queued, "JOB_CHECKPOINT_COMPLETE", j)

\* The invariant of the lifecycle specification says all that of the engine.
LEMMA Plain ==
  ASSUME LifeInv
  PROVE  Holding /\ InOneQueue /\ VictimsAim /\ Reserving /\ Phases /\ Fenced
<1> DEFINE sub == [j \in Jobs |-> IF j \in Waiting THEN "unsubmitted" ELSE status[j]]
<1>1. Submitted = sub
  BY MappingIs
<1>2. \A j \in Waiting : status[j] = "pending"
  BY DEF LifeInv, Core, ArrivalsWait, Waiting
<1>3. \A kind : \A j \in Jobs : Generations(kind)[j] = GensIn(Queued, kind, j)
  BY MappingIs
<1>4. Proved!OwnershipAgrees /\ Proved!NoJobLost /\ Proved!VictimsReturn /\ Proved!ReservationsSound
      /\ Proved!ActiveJobHasEvent /\ Proved!EventsFenced
  BY DEF LifeInv, Proved!IInv
<1>5. \A j \in Jobs : /\ sub[j] \in Active <=> status[j] \in Active
                      /\ sub[j] = "pending" <=> status[j] = "pending" /\ j \notin Waiting
                      /\ sub[j] = "running" <=> status[j] = "running"
                      /\ sub[j] = "restarting" <=> status[j] = "restarting"
                      /\ sub[j] = "checkpointing" <=> status[j] = "checkpointing"
  BY <1>2 DEF Active
<1>6. LoopTypes /\ Types /\ Owned /\ Growth
  BY DEF LifeInv, Inv, Core
<1> HIDE DEF sub
<1>7. Holding
  <2>1. \A j \in Jobs : Settled[j] # {} <=> status[j] \in Active
    BY <1>1, <1>4, <1>5 DEF Proved!OwnershipAgrees, Proved!Active, Active
  <2>2. \A j \in Jobs : Settled[j] # {} <=> alloc[j] # {}
    BY <1>6 DEF Settled, Growth
  <2> QED  BY <2>1, <2>2 DEF Holding
<1>8. InOneQueue
  BY <1>1, <1>4, <1>5 DEF Proved!NoJobLost, InOneQueue
<1>9. VictimsAim
  BY <1>1, <1>4, <1>5 DEF Proved!VictimsReturn, VictimsAim
<1>10. Reserving
  <2> SUFFICES ASSUME NEW h \in Jobs
               PROVE  /\ reserved[h] # {} => h \in pending
                      /\ \A g \in reserved[h] :
                           /\ Usable(NodeOf[g])
                           /\ owner[g] # None => status[owner[g]] = "checkpointing"
                           /\ \A i \in Jobs \ {h} : g \notin reserved[i]
    BY DEF Reserving
  <2>1. /\ reserved[h] # {} => h \in pending
        /\ \A g \in reserved[h] :
             /\ Usable(NodeOf[g])
             /\ SettledOwner[g] # None => sub[SettledOwner[g]] = "checkpointing"
             /\ \A i \in Jobs \ {h} : g \notin reserved[i]
    BY <1>1, <1>4 DEF Proved!ReservationsSound, Proved!Usable, Usable
  <2>2. ASSUME NEW g \in reserved[h], owner[g] # None
        PROVE  status[owner[g]] = "checkpointing"
    <3>1. g \in GPUs /\ owner[g] \in Jobs /\ g \in alloc[owner[g]]
      BY <1>6, <2>2 DEF LoopTypes, Types, Owned
    <3>2. CASE grown[owner[g]] # {} /\ g \notin grown[owner[g]]
      <4>1. g \notin ReservedElsewhere(owner[g]) /\ status[owner[g]] = "running"
        BY <1>6, <3>1, <3>2 DEF Growth
      <4>2. h = owner[g]
        BY <4>1 DEF ReservedElsewhere
      <4>3. h \in pending
        BY <2>1, <2>2
      <4> QED  BY <1>8, <4>1, <4>2, <4>3 DEF InOneQueue
    <3>3. CASE ~(grown[owner[g]] # {} /\ g \notin grown[owner[g]])
      <4>1. SettledOwner[g] = owner[g]
        BY <3>1, <3>3 DEF SettledOwner
      <4> QED  BY <1>5, <2>1, <2>2, <3>1, <4>1
    <3> QED  BY <3>2, <3>3
  <2> QED  BY <2>1, <2>2
<1>11. Phases
  BY <1>1, <1>3, <1>4, <1>5 DEF Proved!ActiveJobHasEvent, Phases
<1>12. Fenced
  BY <1>1, <1>3, <1>4, <1>5 DEF Proved!EventsFenced, Timers, Fenced
<1> QED  BY <1>7, <1>8, <1>9, <1>10, <1>11, <1>12

-----------------------------------------------------------------------------
(* The queue of events.                                                    *)

\* The kinds that are timers.
LEMMA TimerKinds ==
  /\ \A e : IsTimer(e) <=> e.kind \in Timers
  /\ \A e : IsTimer(e) => Awaited(e.kind) \in Active
BY DEF IsTimer, Awaited, Timers, Active

\* Events a handler may push: timers under a generation that is not queued.
NewEvents(N) ==
  \A n \in N :
    /\ n.time \in Nat /\ now <= n.time
    /\ n.kind \in Timers /\ n.id \in Jobs /\ n.gen \in Nat \ GensIn(Queued, n.kind, n.id)
    /\ \A m \in N : m.kind = n.kind /\ m.id = n.id => m = n

\* The loop takes the events in D out of the batch and pushes those in N.
Moves(D, N) ==
  /\ D \subseteq batch /\ batch' = batch \ D
  /\ heap' = heap \cup N
  /\ now' = now /\ (pc' # "handle" => batch' = {})

\* What that does to the queue.
LEMMA QueueMoves ==
  ASSUME EventsTyped, EventsDistinct, NEW D, NEW N, NewEvents(N), Moves(D, N)
  PROVE  /\ EventsTyped' /\ EventsDistinct'
         /\ \A kind \in Timers : \A j \in Jobs :
              GensIn(Queued, kind, j)' = (GensIn(Queued, kind, j) \ GensIn(D, kind, j)) \cup GensIn(N, kind, j)
         /\ Waiting' = Waiting \ {e.id : e \in {d \in D : d.kind = "JOB_ARRIVAL"}}
<1>1. /\ Queued' \subseteq Queued \cup N
      /\ \A e : e.kind \in JobKinds => (e \in Queued' <=> (e \in Queued /\ e \notin D) \/ e \in N)
  <2>1. \A e \in D : e.kind \in JobKinds => e \notin heap
    BY DEF Moves, EventsDistinct
  <2>2. D \cap N = {}
    BY DEF Moves, NewEvents, GensIn, Queued
  <2> QED  BY <2>1, <2>2 DEF Moves, Queued
<1>2. EventsTyped'
  <2>1. \A e \in Queued' : /\ e.time \in Nat /\ now <= e.time
                           /\ e.kind \in JobKinds \cup FleetKinds
                           /\ e.kind \in JobKinds => e.id \in Jobs
                           /\ e.kind \in FleetKinds => e.id \in Nodes
                           /\ e.kind \in Timers => e.gen \in Nat
    BY <1>1 DEF EventsTyped, NewEvents, JobKinds, Timers, FleetKinds
  <2> QED  BY <2>1 DEF EventsTyped, Moves
<1>3. EventsDistinct'
  <2>1. ASSUME NEW e \in Queued', NEW f \in Queued', e.kind = f.kind, e.id = f.id
        PROVE  /\ e.kind = "JOB_ARRIVAL" => e = f
               /\ e.kind \in Timers /\ e.gen = f.gen => e = f
    BY <1>1, <2>1 DEF EventsDistinct, NewEvents, GensIn, Timers
  <2>2. ASSUME NEW e \in heap' \cap batch' PROVE e.kind \notin JobKinds
    BY DEF Moves, EventsDistinct, NewEvents, GensIn, Queued, Timers, JobKinds
  <2> QED  BY <2>1, <2>2 DEF EventsDistinct
<1>4. ASSUME NEW kind \in Timers, NEW j \in Jobs
      PROVE  GensIn(Queued, kind, j)' = (GensIn(Queued, kind, j) \ GensIn(D, kind, j)) \cup GensIn(N, kind, j)
  <2>1. \A k : k \in GensIn(Queued, kind, j)' <=> \E e \in Queued' : e.kind = kind /\ e.id = j /\ e.gen = k
    BY DEF GensIn
  <2>2. \A k : k \in GensIn(Queued, kind, j) /\ k \notin GensIn(D, kind, j) <=>
              \E e \in Queued \ D : e.kind = kind /\ e.id = j /\ e.gen = k
    BY DEF GensIn, EventsDistinct, Moves, Queued
  <2>3. \A k : k \in GensIn(N, kind, j) <=> \E e \in N : e.kind = kind /\ e.id = j /\ e.gen = k
    BY DEF GensIn
  <2>4. kind \in JobKinds
    BY DEF JobKinds
  <2> QED  BY <1>1, <2>1, <2>2, <2>3, <2>4
<1>5. Waiting' = Waiting \ {e.id : e \in {d \in D : d.kind = "JOB_ARRIVAL"}}
  <2>1. \A e : e.kind = "JOB_ARRIVAL" => (e \in Queued' <=> e \in Queued /\ e \notin D)
    BY <1>1 DEF NewEvents, Timers, JobKinds
  <2> QED  BY <2>1 DEF Waiting, EventsDistinct, Moves, Queued
<1> QED  BY <1>2, <1>3, <1>4, <1>5

\* Generations in small sets of events.
LEMMA GensSimple ==
  /\ \A kind, j : GensIn({}, kind, j) = {}
  /\ \A e, kind, j : GensIn({e}, kind, j) = IF e.kind = kind /\ e.id = j THEN {e.gen} ELSE {}
  /\ \A M, N, kind, j : GensIn(M \cup N, kind, j) = GensIn(M, kind, j) \cup GensIn(N, kind, j)
BY DEF GensIn

\* A handler takes one event out of the batch.
LEMMA Taking ==
  ASSUME LifeInv, NEW e, Take(e), NEW N, NewEvents(N), heap' = heap \cup N
  PROVE  /\ e \in Queued /\ pc = "handle" /\ pc' = "handle" /\ e.time = now
         /\ EventsTyped' /\ EventsDistinct'
         /\ \A kind \in Timers : \A i \in Jobs :
              GensIn(Queued, kind, i)' =
                (IF e.kind = kind /\ e.id = i THEN GensIn(Queued, kind, i) \ {e.gen}
                 ELSE GensIn(Queued, kind, i)) \cup GensIn(N, kind, i)
         /\ Waiting' = IF e.kind = "JOB_ARRIVAL" THEN Waiting \ {e.id} ELSE Waiting
<1>1. e \in batch /\ pc = "handle" /\ pc' = "handle" /\ Moves({e}, N)
  BY DEF Take, Moves
<1>2. e \in Queued /\ e.time = now
  BY <1>1 DEF Queued, LifeInv, Core, EventsTyped
<1> DEFINE D == {e}
<1>3. /\ \A kind, i : GensIn(D, kind, i) = IF e.kind = kind /\ e.id = i THEN {e.gen} ELSE {}
      /\ {d.id : d \in {f \in D : f.kind = "JOB_ARRIVAL"}} = IF e.kind = "JOB_ARRIVAL" THEN {e.id} ELSE {}
  <2>1. {f \in D : f.kind = "JOB_ARRIVAL"} = IF e.kind = "JOB_ARRIVAL" THEN {e} ELSE {}
    OBVIOUS
  <2> HIDE DEF D
  <2>2. {d.id : d \in {f \in D : f.kind = "JOB_ARRIVAL"}} = IF e.kind = "JOB_ARRIVAL" THEN {e.id} ELSE {}
    BY <2>1
  <2> QED  BY <2>2, GensSimple DEF D
<1>4. Moves(D, N) /\ EventsTyped /\ EventsDistinct
  BY <1>1 DEF LifeInv, Core
<1> HIDE DEF D
<1>5. /\ EventsTyped' /\ EventsDistinct'
      /\ \A kind \in Timers : \A j \in Jobs :
              GensIn(Queued, kind, j)' = (GensIn(Queued, kind, j) \ GensIn(D, kind, j)) \cup GensIn(N, kind, j)
      /\ Waiting' = Waiting \ {f.id : f \in {d \in D : d.kind = "JOB_ARRIVAL"}}
  BY <1>4, QueueMoves
<1>6. /\ \A kind \in Timers : \A i \in Jobs :
              GensIn(Queued, kind, i)' =
                (IF e.kind = kind /\ e.id = i THEN GensIn(Queued, kind, i) \ {e.gen}
                 ELSE GensIn(Queued, kind, i)) \cup GensIn(N, kind, i)
  BY <1>3, <1>5
<1>7. Waiting' = IF e.kind = "JOB_ARRIVAL" THEN Waiting \ {e.id} ELSE Waiting
  BY <1>3, <1>5
<1> QED  BY <1>1, <1>2, <1>5, <1>6, <1>7

\* A handler that pushes nothing.
LEMMA TakingOnly ==
  ASSUME LifeInv, NEW e, Take(e), heap' = heap
  PROVE  /\ EventsTyped' /\ EventsDistinct'
         /\ Waiting' = IF e.kind = "JOB_ARRIVAL" THEN Waiting \ {e.id} ELSE Waiting
         /\ \A kind \in Timers : \A i \in Jobs :
              GensIn(Queued, kind, i)' = IF e.kind = kind /\ e.id = i THEN GensIn(Queued, kind, i) \ {e.gen}
                                         ELSE GensIn(Queued, kind, i)
<1> DEFINE N == {}
<1>1. NewEvents(N) /\ heap' = heap \cup N /\ \A kind, i : GensIn(N, kind, i) = {}
  BY GensSimple DEF NewEvents
<1> HIDE DEF N
<1>2. ASSUME NEW kind \in Timers, NEW i \in Jobs
      PROVE  GensIn(Queued, kind, i)' = IF e.kind = kind /\ e.id = i THEN GensIn(Queued, kind, i) \ {e.gen}
                                        ELSE GensIn(Queued, kind, i)
  <2>1. GensIn(Queued, kind, i)' =
                (IF e.kind = kind /\ e.id = i THEN GensIn(Queued, kind, i) \ {e.gen}
                 ELSE GensIn(Queued, kind, i)) \cup GensIn(N, kind, i)
    BY <1>1, Taking
  <2> QED  BY <1>1, <2>1
<1> QED  BY <1>1, <1>2, Taking

\* When no timer and no arrival comes or goes, the lifecycle sees the same events.
LEMMA SameEvents ==
  ASSUME \A kind \in Timers : \A i \in Jobs : GensIn(Queued, kind, i)' = GensIn(Queued, kind, i)
  PROVE  /\ Generations("JOB_COMPLETE")' = Generations("JOB_COMPLETE")
         /\ Generations("JOB_CHECKPOINT_COMPLETE")' = Generations("JOB_CHECKPOINT_COMPLETE")
         /\ Generations("JOB_RESTART_COMPLETE")' = Generations("JOB_RESTART_COMPLETE")
BY MappingIs DEF Timers

-----------------------------------------------------------------------------
(* The handlers.                                                           *)

\* What the scenario says.
LEMMA ScenarioIs ==
  ASSUME Types
  PROVE  /\ scenario.arrival \in [Jobs -> Nat] /\ scenario.duration \in [Jobs -> Nat \ {0}]
         /\ scenario.priority \in [Jobs -> 0 .. Critical]
BY ScenarioAssumption DEF Types, Accepted

\* The rate of a number of replicas, and the work of a job.
LEMMA WorkIs ==
  ASSUME Types, NEW j \in Jobs
  PROVE  /\ TotalWork(j) \in Nat \ {0}
         /\ \A n \in Nat : RateOf(j, n) \in Nat
         /\ \A n \in Nat \ {0} : RateOf(j, n) \in Nat \ {0}
         /\ Rate(j) \in Nat
<1>1. scenario.duration[j] \in Nat \ {0} /\ PreferredReplicas[j] \in Nat \ {0}
  BY ScenarioIs, LoopAssumption
<1>2. TotalWork(j) \in Nat \ {0}
  <2>1. \A x, y \in Nat \ {0} : x * y \in Nat \ {0}
    OBVIOUS
  <2> QED  BY <1>1, <2>1 DEF TotalWork
<1>3. Cardinality(alloc[j]) \in Nat
  BY GpuSetsFinite DEF Types, Holdings
<1> QED  BY <1>2, <1>3 DEF RateOf, Rate

\* Progress is a number.
LEMMA AccruedIs ==
  ASSUME Types, LoopTypes, Clock, NEW j \in Jobs
  PROVE  Accrued(j) \in Nat
<1>1. work[j] \in Nat /\ now \in Nat /\ lastStart[j] \in Nat \cup {None}
  BY DEF LoopTypes
<1>2. TotalWork(j) \in Nat /\ Rate(j) \in Nat
  BY WorkIs
<1>3. CASE lastStart[j] = None
  BY <1>1, <1>3 DEF Accrued
<1>4. CASE lastStart[j] # None
  <2>1. now - lastStart[j] \in Nat
    BY <1>1, <1>4 DEF Clock
  <2>2. (now - lastStart[j]) * Rate(j) \in Nat
    <3>1. \A x, y \in Nat : x * y \in Nat
      OBVIOUS
    <3> QED  BY <1>2, <2>1, <3>1
  <2> DEFINE y == work[j] + (now - lastStart[j]) * Rate(j)
  <2>3. y \in Nat
    BY <1>1, <2>2
  <2>4. Accrued(j) = Min({TotalWork(j), y})
    BY <1>4 DEF Accrued
  <2> HIDE DEF y
  <2> QED  BY <1>2, <2>3, <2>4, MinOfTwo
<1> QED  BY <1>3, <1>4

\* The completion of a job that starts or resumes now on some replicas.
LEMMA CompletionIs ==
  ASSUME Types, LoopTypes, NEW j \in Jobs, NEW w \in Nat, NEW n \in Nat \ {0}, NEW g
  PROVE  /\ Completion(j, w, n, g).time \in Nat /\ now <= Completion(j, w, n, g).time
         /\ Completion(j, w, n, g).kind = "JOB_COMPLETE" /\ Completion(j, w, n, g).id = j
         /\ Completion(j, w, n, g).gen = g
<1>1. now \in Nat /\ TotalWork(j) - w \in Int /\ RateOf(j, n) \in Nat \ {0}
  <2>1. TotalWork(j) \in Nat /\ RateOf(j, n) \in Nat \ {0}
    BY WorkIs
  <2> QED  BY <2>1 DEF LoopTypes
<1> DEFINE m == Max({0, TotalWork(j) - w})
           r == RateOf(j, n)
<1>2. m \in Nat
  BY <1>1, MaxWithZero
<1>3. Completion(j, w, n, g) = Event(now + m \div r, "JOB_COMPLETE", j, g)
  BY DEF Completion
<1> HIDE DEF m
<1>4. m \div r \in Nat
  BY <1>1, <1>2
<1> QED  BY <1>1, <1>3, <1>4 DEF Event

\* While events are handled no plan is under way, no job grows and no pass is open.
LEMMA Handling ==
  ASSUME LifeInv, Types', pc = "handle", pc' = "handle", UNCHANGED <<todo, plan, grown>>
  PROVE  /\ Types /\ Core /\ LoopTypes
         /\ Settled = alloc /\ SettledOwner = owner /\ Settled' = alloc' /\ SettledOwner' = owner'
         /\ Growth' /\ Pass' /\ Planned'
<1>1. Types /\ Core /\ LoopTypes
  BY DEF LifeInv, Inv, Core
<1>2. \A j \in Jobs : grown[j] = {} /\ grown'[j] = {}
  BY <1>1 DEF Core, Growth
<1>3. todo' = <<>> /\ plan' = NoPlan
  BY <1>1 DEF Core, Pass, Planned
<1>4. Growth'
  BY <1>2 DEF Growth
<1>5. Pass' /\ Planned'
  BY <1>3 DEF Pass, Planned, IsInjective, ToSet
<1> QED  BY <1>1, <1>2, <1>4, <1>5, NoneGrown

\* An arrival queues its job, or rejects it.
LEMMA ArriveStep ==
  ASSUME LifeInv, Types', NEW e, Submit(e)
  PROVE  [Proved!Next]_(Proved!vars) /\ Core'
<1> DEFINE j == e.id
<1>1. PICK admitted : Arrive(e, admitted)
  BY DEF Submit
<1>2. e \in Queued /\ pc = "handle" /\ pc' = "handle" /\ e.kind = "JOB_ARRIVAL" /\ Take(e) /\ heap' = heap
      /\ UNCHANGED <<plan, grown, todo>>
  BY <1>1 DEF Submit, Arrive, Take, Queued, passVars, stepVars
<1>3. /\ Types /\ Core /\ LoopTypes
      /\ Settled = alloc /\ SettledOwner = owner /\ Settled' = alloc' /\ SettledOwner' = owner'
      /\ Growth' /\ Pass' /\ Planned'
  BY <1>2, Handling
<1>4. j \in Jobs /\ j \in Waiting /\ status[j] = "pending"
  BY <1>2, <1>3 DEF Core, EventsTyped, JobKinds, ArrivalsWait, Waiting
<1>5. /\ EventsTyped' /\ EventsDistinct' /\ Waiting' = Waiting \ {j}
      /\ \A kind \in Timers : \A i \in Jobs : GensIn(Queued, kind, i)' = GensIn(Queued, kind, i)
  <2>1. e.kind \notin Timers
    BY <1>2 DEF Timers
  <2> QED  BY <1>2, <2>1, TakingOnly
<1>7. /\ UNCHANGED <<scenario, now, pc, passVars, alloc, owner, gen, work, lastStart, interrupted,
                     suspended, target, reserved, nodeVars>>
      /\ pending' = IF admitted THEN pending \cup {j} ELSE pending
      /\ status' = IF admitted THEN status ELSE [status EXCEPT ![j] = "rejected"]
  BY <1>1 DEF Arrive, Take
<1>8. Proved!Arrive(j)
  <2>1. Submitted[j] = "unsubmitted"
    BY <1>4, MappingIs
  <2>2. Submitted' = [Submitted EXCEPT ![j] = IF admitted THEN "pending" ELSE "rejected"]
    BY <1>3, <1>4, <1>5, <1>7, MappingIs DEF LoopTypes
  <2> QED  BY <1>3, <1>5, <1>7, <2>1, <2>2, SameEvents
         DEF Proved!Arrive, Proved!eventVars, Proved!nodeVars, nodeVars
<1>9. [Proved!Next]_(Proved!vars)
  BY <1>4, <1>8 DEF Proved!Next
<1>10. LoopTypes'
  BY <1>2, <1>3, <1>4, <1>7 DEF LoopTypes, nodeVars, passVars
<1>11. ArrivalsWait' /\ Gangs' /\ History' /\ Clock'
  <2>1. ArrivalsWait' /\ History' /\ Clock'
    BY <1>3, <1>4, <1>5, <1>7 DEF Core, LoopTypes, ArrivalsWait, History, Clock, Active
  <2>2. Gangs'
    BY <1>3, <1>4, <1>7 DEF Core, LoopTypes, Gangs, Active
  <2> QED  BY <2>1, <2>2
<1> QED  BY <1>3, <1>5, <1>9, <1>10, <1>11 DEF Core

\* A timer of an earlier phase leaves the queue.
LEMMA DropMaps ==
  ASSUME LifeInv, NEW e \in Queued, IsTimer(e), ~IsLive(e),
         UNCHANGED <<status, alloc, owner, gen, queueVars, nodeVars>>,
         UNCHANGED <<Settled, SettledOwner>>, Waiting' = Waiting,
         \A kind \in Timers : \A i \in Jobs :
           GensIn(Queued, kind, i)' = IF e.kind = kind /\ e.id = i THEN GensIn(Queued, kind, i) \ {e.gen}
                                      ELSE GensIn(Queued, kind, i)
  PROVE  [Proved!Next]_(Proved!vars)
<1> DEFINE j == e.id
           Lost(kind) == Generations(kind)' = [Generations(kind) EXCEPT ![j] = @ \ {e.gen}]
           Same(kind) == Generations(kind)' = Generations(kind)
<1>1. e.kind \in Timers /\ j \in Jobs /\ e.gen \in GensIn(Queued, e.kind, j)
  BY TimerKinds DEF LifeInv, Core, EventsTyped, JobKinds, GensIn
<1>2. Submitted' = Submitted
  BY MappingIs
<1>3. \A kind \in Timers : kind # e.kind => Same(kind)
  BY MappingIs
<1>4. Lost(e.kind)
  BY <1>1, MappingIs
<1>5. e.gen \in Generations(e.kind)[j]
  BY <1>1, MappingIs
<1>6. ~(e.gen = gen[j] /\ Submitted[j] = Awaited(e.kind))
  <2>1. Submitted[j] = Awaited(e.kind) => status[j] = Awaited(e.kind)
    BY <1>1, MappingIs, TimerKinds DEF Active
  <2> QED  BY <2>1 DEF IsLive
<1>7. Proved!DropStale(j)
  <2>0. /\ UNCHANGED <<Settled, SettledOwner, gen, pending, suspended, target, reserved, available, schedulable>>
        /\ UNCHANGED Submitted
    BY <1>2 DEF queueVars, nodeVars
  <2> HIDE DEF Lost, Same
  <2>1. CASE e.kind = "JOB_COMPLETE"
    <3>1. Lost("JOB_COMPLETE") /\ Same("JOB_CHECKPOINT_COMPLETE") /\ Same("JOB_RESTART_COMPLETE")
          /\ Awaited(e.kind) = "running"
      BY <1>3, <1>4, <2>1 DEF Timers, Awaited
    <3> QED  BY <1>5, <1>6, <2>0, <2>1, <3>1
        DEF Lost, Same, Proved!DropStale, Proved!jobVars, Proved!queueVars, Proved!nodeVars
  <2>2. CASE e.kind = "JOB_CHECKPOINT_COMPLETE"
    <3>1. Same("JOB_COMPLETE") /\ Lost("JOB_CHECKPOINT_COMPLETE") /\ Same("JOB_RESTART_COMPLETE")
          /\ Awaited(e.kind) = "checkpointing"
      BY <1>3, <1>4, <2>2 DEF Timers, Awaited
    <3> QED  BY <1>5, <1>6, <2>0, <2>2, <3>1
        DEF Lost, Same, Proved!DropStale, Proved!jobVars, Proved!queueVars, Proved!nodeVars
  <2>3. CASE e.kind = "JOB_RESTART_COMPLETE"
    <3>1. Same("JOB_COMPLETE") /\ Same("JOB_CHECKPOINT_COMPLETE") /\ Lost("JOB_RESTART_COMPLETE")
          /\ Awaited(e.kind) = "restarting"
      BY <1>3, <1>4, <2>3 DEF Timers, Awaited
    <3> QED  BY <1>5, <1>6, <2>0, <2>3, <3>1
        DEF Lost, Same, Proved!DropStale, Proved!jobVars, Proved!queueVars, Proved!nodeVars
  <2> QED  BY <1>1, <2>1, <2>2, <2>3 DEF Timers
<1> QED  BY <1>1, <1>7 DEF Proved!Next

\* A gang is a finite set of GPUs, and not empty.
LEMMA FitsIs ==
  ASSUME NEW j \in Jobs, NEW P, Fits(j, P)
  PROVE  /\ P \in SUBSET GPUs /\ P # {} /\ IsFiniteSet(P) /\ Cardinality(P) \in Nat \ {0}
         /\ MinReplicas[j] <= Cardinality(P) /\ Cardinality(P) <= PreferredReplicas[j]
<1>1. P \in SUBSET GPUs
  BY DEF Fits, Compatible
<1>2. MinReplicas[j] \in Nat \ {0} /\ PreferredReplicas[j] \in Nat \ {0}
  BY LoopAssumption
<1>3. Cardinality(P) \in Nat /\ IsFiniteSet(P)
  BY <1>1, GpuSetsFinite
<1>4. Cardinality(P) \in MinReplicas[j] .. PreferredReplicas[j]
  BY DEF Fits, Sizes
<1> QED  BY <1>1, <1>2, <1>3, <1>4, FS_EmptySet

\* A stale timer changes nothing but the queue of events.
LEMMA StaleTimerStep ==
  ASSUME LifeInv, Types', NEW e, StaleTimer(e), UNCHANGED <<plan, grown>>
  PROVE  [Proved!Next]_(Proved!vars) /\ Core'
<1>2. e \in Queued /\ pc = "handle" /\ pc' = "handle" /\ e.kind \in Timers /\ Take(e) /\ heap' = heap
      /\ IsTimer(e) /\ ~IsLive(e) /\ todo' = todo
  BY TimerKinds DEF StaleTimer, Take, Queued, passVars
<1>3. /\ Types /\ Core /\ LoopTypes
      /\ Settled = alloc /\ SettledOwner = owner /\ Settled' = alloc' /\ SettledOwner' = owner'
      /\ Growth' /\ Pass' /\ Planned'
  BY <1>2, Handling
<1>4. /\ EventsTyped' /\ EventsDistinct' /\ Waiting' = Waiting
      /\ \A kind \in Timers : \A i \in Jobs :
           GensIn(Queued, kind, i)' = IF e.kind = kind /\ e.id = i THEN GensIn(Queued, kind, i) \ {e.gen}
                                      ELSE GensIn(Queued, kind, i)
  <2>1. e.kind # "JOB_ARRIVAL"
    BY <1>2 DEF Timers
  <2> QED  BY <1>2, <2>1, TakingOnly
<1>5. UNCHANGED <<scenario, now, pc, passVars, jobVars, queueVars, nodeVars>>
  BY DEF StaleTimer, Take
<1>6. [Proved!Next]_(Proved!vars)
  BY <1>2, <1>3, <1>4, <1>5, DropMaps DEF jobVars
<1>7. LoopTypes'
  BY <1>3, <1>5 DEF LoopTypes, jobVars, queueVars, nodeVars, passVars
<1>8. ArrivalsWait' /\ Gangs' /\ History' /\ Clock'
  BY <1>3, <1>4, <1>5 DEF Core, ArrivalsWait, Gangs, History, Clock, jobVars
<1> QED  BY <1>3, <1>4, <1>6, <1>7, <1>8 DEF Core

\* A completion releases the job's GPUs.
LEMMA CompleteStep ==
  ASSUME LifeInv, Types', NEW e, Complete(e), UNCHANGED <<plan, grown>>
  PROVE  [Proved!Next]_(Proved!vars) /\ Core'
<1> DEFINE j == e.id
<1>2. e \in Queued /\ pc = "handle" /\ pc' = "handle" /\ e.kind = "JOB_COMPLETE" /\ Take(e) /\ heap' = heap
      /\ status[j] = "running" /\ e.gen = gen[j] /\ todo' = todo
  BY DEF Complete, Take, Queued, IsLive, Awaited, passVars
<1>1. /\ Types /\ Core /\ LoopTypes
      /\ Settled = alloc /\ SettledOwner = owner /\ Settled' = alloc' /\ SettledOwner' = owner'
      /\ Growth' /\ Pass' /\ Planned'
  BY <1>2, Handling
<1>3. j \in Jobs /\ j \notin Waiting
  BY <1>1, <1>2 DEF Core, EventsTyped, JobKinds, Timers, ArrivalsWait
<1>5. /\ EventsTyped' /\ EventsDistinct' /\ Waiting' = Waiting
      /\ \A kind \in Timers : \A i \in Jobs :
           GensIn(Queued, kind, i)' = IF e.kind = kind /\ e.id = i THEN GensIn(Queued, kind, i) \ {gen[j]}
                                      ELSE GensIn(Queued, kind, i)
  BY <1>2, TakingOnly
<1>6. /\ UNCHANGED <<scenario, now, pc, passVars, gen, interrupted, queueVars, nodeVars>>
      /\ work' = [work EXCEPT ![j] = Accrued(j)]
      /\ Release({j})
      /\ status' = [status EXCEPT ![j] = "completed"]
      /\ lastStart' = [lastStart EXCEPT ![j] = None]
  BY DEF Complete, Take
<1>7. Proved!Complete(j)
  <2>1. Submitted[j] = "running" /\ Submitted' = [Submitted EXCEPT ![j] = "completed"]
    BY <1>1, <1>2, <1>3, <1>5, <1>6, MappingIs DEF LoopTypes
  <2>2. gen[j] \in Generations("JOB_COMPLETE")[j]
    BY <1>2, <1>3, MappingIs DEF GensIn
  <2>3. /\ Generations("JOB_COMPLETE")' = [Generations("JOB_COMPLETE") EXCEPT ![j] = @ \ {gen[j]}]
        /\ UNCHANGED <<Generations("JOB_CHECKPOINT_COMPLETE"), Generations("JOB_RESTART_COMPLETE")>>
    BY <1>2, <1>3, <1>5, MappingIs DEF Timers
  <2> QED  BY <1>1, <1>6, <2>1, <2>2, <2>3
      DEF Proved!Complete, Proved!Release, Release, Proved!queueVars, queueVars, Proved!nodeVars,
          nodeVars
<1>8. [Proved!Next]_(Proved!vars)
  BY <1>3, <1>7 DEF Proved!Next
<1>9. LoopTypes'
  <2>1. Accrued(j) \in Nat
    BY <1>1, <1>3, AccruedIs DEF Core
  <2>2. work' \in [Jobs -> Nat]
    BY <1>1, <1>6, <2>1 DEF LoopTypes
  <2> QED  BY <1>1, <1>2, <1>3, <1>6, <2>2 DEF LoopTypes, queueVars, nodeVars, passVars
<1>10. ArrivalsWait' /\ Gangs' /\ History' /\ Clock'
  <2>0. /\ \A i \in Jobs \ {j} : UNCHANGED <<status[i], work[i], lastStart[i]>>
        /\ status'[j] = "completed" /\ lastStart'[j] = None /\ gen[j] > 0
    BY <1>1, <1>2, <1>3, <1>6 DEF Core, LoopTypes, History, Active
  <2>1. ArrivalsWait' /\ History'
    BY <1>1, <1>3, <1>5, <1>6, <2>0 DEF Core, ArrivalsWait, History, Active, Waiting
  <2>4. Clock'
    BY <1>1, <1>6, <2>0 DEF Core, Clock
  <2>2. \A i \in Jobs : status'[i] \in Active => i # j /\ status[i] \in Active /\ alloc'[i] = alloc[i]
    BY <1>1, <1>3, <1>6 DEF LoopTypes, Release, Active
  <2>3. Gangs'
    BY <1>1, <2>2 DEF Core, Gangs, Fits, SameVendor
  <2> QED  BY <2>1, <2>3, <2>4
<1> QED  BY <1>1, <1>5, <1>8, <1>9, <1>10 DEF Core

\* After its checkpoint a victim is queued again, or parked for its target.
LEMMA CompleteCheckpointStep ==
  ASSUME LifeInv, Types', NEW e, CompleteCheckpoint(e), UNCHANGED <<plan, grown>>
  PROVE  [Proved!Next]_(Proved!vars) /\ Core'
<1> DEFINE j == e.id
           parks == target[j] # None
<1>2. e \in Queued /\ pc = "handle" /\ pc' = "handle" /\ e.kind = "JOB_CHECKPOINT_COMPLETE" /\ Take(e)
      /\ heap' = heap /\ status[j] = "checkpointing" /\ e.gen = gen[j] /\ todo' = todo
  BY DEF CompleteCheckpoint, Take, Queued, IsLive, Awaited, passVars
<1>1. /\ Types /\ Core /\ LoopTypes
      /\ Settled = alloc /\ SettledOwner = owner /\ Settled' = alloc' /\ SettledOwner' = owner'
      /\ Growth' /\ Pass' /\ Planned'
  BY <1>2, Handling
<1>3. j \in Jobs /\ j \notin Waiting
  BY <1>1, <1>2 DEF Core, EventsTyped, JobKinds, Timers, ArrivalsWait
<1>5. /\ EventsTyped' /\ EventsDistinct' /\ Waiting' = Waiting
      /\ \A kind \in Timers : \A i \in Jobs :
           GensIn(Queued, kind, i)' = IF e.kind = kind /\ e.id = i THEN GensIn(Queued, kind, i) \ {gen[j]}
                                      ELSE GensIn(Queued, kind, i)
  BY <1>2, TakingOnly
<1>6. /\ UNCHANGED <<scenario, now, pc, passVars, gen, work, lastStart, interrupted, target, reserved, nodeVars>>
      /\ Release({j})
      /\ status' = [status EXCEPT ![j] = "pending"]
      /\ suspended' = IF parks THEN suspended \cup {j} ELSE suspended
      /\ pending' = IF parks THEN pending ELSE pending \cup {j}
  BY DEF CompleteCheckpoint, Take
<1>7. Proved!CompleteCheckpoint(j)
  <2>1. Submitted[j] = "checkpointing" /\ Submitted' = [Submitted EXCEPT ![j] = "pending"]
    BY <1>1, <1>2, <1>3, <1>5, <1>6, MappingIs DEF LoopTypes
  <2>2. gen[j] \in Generations("JOB_CHECKPOINT_COMPLETE")[j]
    BY <1>2, <1>3, MappingIs DEF GensIn
  <2>3. /\ Generations("JOB_CHECKPOINT_COMPLETE")' = [Generations("JOB_CHECKPOINT_COMPLETE") EXCEPT ![j] = @ \ {gen[j]}]
        /\ UNCHANGED <<Generations("JOB_COMPLETE"), Generations("JOB_RESTART_COMPLETE")>>
    BY <1>2, <1>3, <1>5, MappingIs DEF Timers
  <2> QED  BY <1>1, <1>6, <2>1, <2>2, <2>3
      DEF Proved!CompleteCheckpoint, Proved!Release, Release, Proved!nodeVars, nodeVars
<1>8. [Proved!Next]_(Proved!vars)
  BY <1>3, <1>7 DEF Proved!Next
<1>9. LoopTypes'
  BY <1>1, <1>2, <1>3, <1>6 DEF LoopTypes, nodeVars, passVars
<1>10. ArrivalsWait' /\ Gangs' /\ History' /\ Clock'
  BY <1>1, <1>2, <1>3, <1>5, <1>6
     DEF Core, LoopTypes, ArrivalsWait, Gangs, History, Clock, Release, Active
<1> QED  BY <1>1, <1>5, <1>8, <1>9, <1>10 DEF Core

\* After its restart a job runs, and its completion is queued.
LEMMA CompleteRestartStep ==
  ASSUME LifeInv, Types', NEW e, CompleteRestart(e), UNCHANGED <<plan, grown>>
  PROVE  [Proved!Next]_(Proved!vars) /\ Core'
<1> DEFINE j == e.id
           n == Completion(j, work[j], Cardinality(alloc[j]), gen[j])
           N == {n}
<1>2. e \in Queued /\ pc = "handle" /\ pc' = "handle" /\ e.kind = "JOB_RESTART_COMPLETE" /\ Take(e)
      /\ heap' = heap \cup N /\ status[j] = "restarting" /\ e.gen = gen[j] /\ todo' = todo
  BY DEF CompleteRestart, Take, Queued, IsLive, Awaited, passVars
<1>1. /\ Types /\ Core /\ LoopTypes
      /\ Settled = alloc /\ SettledOwner = owner /\ Settled' = alloc' /\ SettledOwner' = owner'
      /\ Growth' /\ Pass' /\ Planned'
  BY <1>2, Handling
<1>3. j \in Jobs /\ j \notin Waiting
  BY <1>1, <1>2 DEF Core, EventsTyped, JobKinds, Timers, ArrivalsWait
<1>4. /\ n.time \in Nat /\ now <= n.time /\ n.kind = "JOB_COMPLETE" /\ n.id = j /\ n.gen = gen[j]
      /\ gen[j] \in Nat /\ gen[j] \notin GensIn(Queued, "JOB_COMPLETE", j)
  <2>1. work[j] \in Nat /\ gen[j] \in Nat
    BY <1>1, <1>3 DEF LoopTypes
  <2>2. Cardinality(alloc[j]) \in Nat \ {0}
    <3>1. Fits(j, alloc[j])
      BY <1>1, <1>2, <1>3 DEF Core, Gangs, Active
    <3> QED  BY <1>3, <3>1, FitsIs
  <2>3. gen[j] \notin GensIn(Queued, "JOB_COMPLETE", j)
    BY <1>2, <1>3, Plain DEF Fenced
  <2> QED  BY <1>1, <1>3, <2>1, <2>2, <2>3, CompletionIs
<1> HIDE DEF n
<1>5. /\ EventsTyped' /\ EventsDistinct' /\ Waiting' = Waiting
      /\ \A i \in Jobs :
           /\ GensIn(Queued, "JOB_COMPLETE", i)' =
                IF i = j THEN GensIn(Queued, "JOB_COMPLETE", i) \cup {gen[j]} ELSE GensIn(Queued, "JOB_COMPLETE", i)
           /\ GensIn(Queued, "JOB_CHECKPOINT_COMPLETE", i)' = GensIn(Queued, "JOB_CHECKPOINT_COMPLETE", i)
           /\ GensIn(Queued, "JOB_RESTART_COMPLETE", i)' =
                IF i = j THEN GensIn(Queued, "JOB_RESTART_COMPLETE", i) \ {gen[j]} ELSE GensIn(Queued, "JOB_RESTART_COMPLETE", i)
  <2>1. NewEvents(N)
    BY <1>3, <1>4 DEF NewEvents, Timers
  <2>2. \A kind, i : GensIn(N, kind, i) = IF kind = "JOB_COMPLETE" /\ i = j THEN {gen[j]} ELSE {}
    BY <1>4, GensSimple
  <2> HIDE DEF N
  <2>3. \A kind \in Timers : \A i \in Jobs : GensIn(Queued, kind, i)' =
                (IF e.kind = kind /\ e.id = i THEN GensIn(Queued, kind, i) \ {e.gen}
                 ELSE GensIn(Queued, kind, i)) \cup GensIn(N, kind, i)
    BY <1>2, <2>1, Taking
  <2>4. EventsTyped' /\ EventsDistinct' /\ Waiting' = Waiting
    BY <1>2, <2>1, Taking
  <2>5. ASSUME NEW i \in Jobs
        PROVE  /\ GensIn(Queued, "JOB_COMPLETE", i)' =
                    IF i = j THEN GensIn(Queued, "JOB_COMPLETE", i) \cup {gen[j]} ELSE GensIn(Queued, "JOB_COMPLETE", i)
               /\ GensIn(Queued, "JOB_CHECKPOINT_COMPLETE", i)' = GensIn(Queued, "JOB_CHECKPOINT_COMPLETE", i)
               /\ GensIn(Queued, "JOB_RESTART_COMPLETE", i)' =
                    IF i = j THEN GensIn(Queued, "JOB_RESTART_COMPLETE", i) \ {gen[j]} ELSE GensIn(Queued, "JOB_RESTART_COMPLETE", i)
    <3>1. \A kind \in Timers : GensIn(Queued, kind, i)' =
            (IF e.kind = kind /\ j = i THEN GensIn(Queued, kind, i) \ {gen[j]} ELSE GensIn(Queued, kind, i))
              \cup (IF kind = "JOB_COMPLETE" /\ i = j THEN {gen[j]} ELSE {})
      BY <1>2, <2>2, <2>3
    <3>2. GensIn(Queued, "JOB_COMPLETE", i)' =
            GensIn(Queued, "JOB_COMPLETE", i) \cup (IF i = j THEN {gen[j]} ELSE {})
      BY <1>2, <3>1 DEF Timers
    <3>3. GensIn(Queued, "JOB_CHECKPOINT_COMPLETE", i)' = GensIn(Queued, "JOB_CHECKPOINT_COMPLETE", i) \cup {}
      BY <1>2, <3>1 DEF Timers
    <3>4. GensIn(Queued, "JOB_RESTART_COMPLETE", i)' =
            (IF i = j THEN GensIn(Queued, "JOB_RESTART_COMPLETE", i) \ {gen[j]}
             ELSE GensIn(Queued, "JOB_RESTART_COMPLETE", i)) \cup {}
      BY <1>2, <3>1 DEF Timers
    <3> QED  BY <3>2, <3>3, <3>4
  <2> QED  BY <2>4, <2>5
<1>6. /\ UNCHANGED <<scenario, now, pc, passVars, alloc, owner, gen, work, interrupted, queueVars, nodeVars>>
      /\ status' = [status EXCEPT ![j] = "running"]
      /\ lastStart' = [lastStart EXCEPT ![j] = now]
  BY DEF CompleteRestart, Take
<1>7. Proved!CompleteRestart(j)
  <2>1. Submitted[j] = "restarting" /\ Submitted' = [Submitted EXCEPT ![j] = "running"]
    BY <1>1, <1>2, <1>3, <1>5, <1>6, MappingIs DEF LoopTypes
  <2>2. gen[j] \in Generations("JOB_RESTART_COMPLETE")[j]
    BY <1>2, <1>3, MappingIs DEF GensIn
  <2>3. /\ Generations("JOB_COMPLETE")' = [Generations("JOB_COMPLETE") EXCEPT ![j] = @ \cup {gen[j]}]
        /\ Generations("JOB_RESTART_COMPLETE")' = [Generations("JOB_RESTART_COMPLETE") EXCEPT ![j] = @ \ {gen[j]}]
        /\ UNCHANGED Generations("JOB_CHECKPOINT_COMPLETE")
    BY <1>3, <1>5, MappingIs
  <2> QED  BY <1>1, <1>6, <2>1, <2>2, <2>3
      DEF Proved!CompleteRestart, Proved!queueVars, queueVars, Proved!nodeVars, nodeVars
<1>8. [Proved!Next]_(Proved!vars)
  BY <1>3, <1>7 DEF Proved!Next
<1>9. LoopTypes'
  BY <1>1, <1>2, <1>3, <1>6 DEF LoopTypes, queueVars, nodeVars, Active, passVars
<1>10. ArrivalsWait' /\ Gangs' /\ History' /\ Clock'
  BY <1>1, <1>2, <1>3, <1>5, <1>6
     DEF Core, LoopTypes, ArrivalsWait, Gangs, History, Clock, Active
<1> QED  BY <1>1, <1>5, <1>8, <1>9, <1>10 DEF Core

\* A node that comes back disturbs no job.
LEMMA RestoreStep ==
  ASSUME LifeInv, Types', NEW e, Restore(e), UNCHANGED <<plan, grown>>
  PROVE  [Proved!Next]_(Proved!vars) /\ Core'
<1>2. e \in Queued /\ pc = "handle" /\ pc' = "handle" /\ e.kind \in FleetKinds /\ Take(e) /\ heap' = heap
      /\ todo' = todo
  BY DEF Restore, Take, Queued, FleetKinds, passVars
<1>1. /\ Types /\ Core /\ LoopTypes
      /\ Settled = alloc /\ SettledOwner = owner /\ Settled' = alloc' /\ SettledOwner' = owner'
      /\ Growth' /\ Pass' /\ Planned'
  BY <1>2, Handling
<1>3. e.id \in Nodes
  BY <1>1, <1>2 DEF Core, EventsTyped
<1>5. /\ EventsTyped' /\ EventsDistinct' /\ Waiting' = Waiting
      /\ \A kind \in Timers : \A i \in Jobs : GensIn(Queued, kind, i)' = GensIn(Queued, kind, i)
  <2>1. e.kind \notin Timers /\ e.kind # "JOB_ARRIVAL"
    BY <1>2 DEF Timers, FleetKinds
  <2> QED  BY <1>2, <2>1, TakingOnly
<1>6. /\ UNCHANGED <<scenario, now, pc, passVars, jobVars, queueVars>>
      /\ available' = [available EXCEPT ![e.id] = TRUE]
      /\ schedulable' = [schedulable EXCEPT ![e.id] = TRUE]
  BY DEF Restore, Take
<1>7. Proved!Restore(e.id)
  <2>1. Submitted' = Submitted
    BY <1>5, <1>6, MappingIs DEF jobVars
  <2> QED  BY <1>1, <1>5, <1>6, <2>1, SameEvents
      DEF Proved!Restore, Proved!jobVars, Proved!queueVars, Proved!eventVars, jobVars, queueVars
<1>8. [Proved!Next]_(Proved!vars)
  BY <1>3, <1>7 DEF Proved!Next
<1>9. LoopTypes'
  BY <1>1, <1>2, <1>3, <1>6 DEF LoopTypes, queueVars, jobVars, passVars
<1>10. ArrivalsWait' /\ Gangs' /\ History' /\ Clock'
  BY <1>1, <1>5, <1>6 DEF Core, ArrivalsWait, Gangs, History, Clock, jobVars
<1> QED  BY <1>1, <1>5, <1>8, <1>9, <1>10 DEF Core

\* A drain drops the reservations on its node.
LEMMA DrainStep ==
  ASSUME LifeInv, Types', NEW e, Drain(e), UNCHANGED <<plan, grown>>
  PROVE  [Proved!Next]_(Proved!vars) /\ Core'
<1> DEFINE back == ReturnedVictims(Affected(e.id))
<1>2. e \in Queued /\ pc = "handle" /\ pc' = "handle" /\ e.kind \in FleetKinds /\ Take(e) /\ heap' = heap
      /\ todo' = todo
  BY DEF Drain, Take, Queued, FleetKinds, passVars
<1>1. /\ Types /\ Core /\ LoopTypes
      /\ Settled = alloc /\ SettledOwner = owner /\ Settled' = alloc' /\ SettledOwner' = owner'
      /\ Growth' /\ Pass' /\ Planned'
  BY <1>2, Handling
<1>3. e.id \in Nodes /\ back \subseteq Jobs
  BY <1>1, <1>2 DEF Core, LoopTypes, EventsTyped, ReturnedVictims
<1>5. /\ EventsTyped' /\ EventsDistinct' /\ Waiting' = Waiting
      /\ \A kind \in Timers : \A i \in Jobs : GensIn(Queued, kind, i)' = GensIn(Queued, kind, i)
  <2>1. e.kind \notin Timers /\ e.kind # "JOB_ARRIVAL"
    BY <1>2 DEF Timers, FleetKinds
  <2> QED  BY <1>2, <2>1, TakingOnly
<1>6. /\ UNCHANGED <<scenario, now, pc, passVars, jobVars, available>>
      /\ schedulable' = [schedulable EXCEPT ![e.id] = FALSE]
      /\ DropReservations(Affected(e.id))
      /\ pending' = pending \cup back
      /\ suspended' = suspended \ back
  BY DEF Drain, Take
<1>7. Proved!Drain(e.id)
  <2>1. Submitted' = Submitted
    BY <1>5, <1>6, MappingIs DEF jobVars
  <2> QED  BY <1>1, <1>5, <1>6, <2>1, SameEvents
      DEF Proved!Drain, Proved!DropReservations, Proved!TargetsWithout, Proved!Holders, Proved!Affected,
          Proved!OnNode, Proved!ReturnedVictims, Proved!jobVars, Proved!eventVars,
          DropReservations, TargetsWithout, Holders, Affected, OnNode, ReturnedVictims, jobVars
<1>8. [Proved!Next]_(Proved!vars)
  BY <1>3, <1>7 DEF Proved!Next
<1>9. LoopTypes'
  BY <1>1, <1>2, <1>3, <1>6 DEF LoopTypes, jobVars, DropReservations, TargetsWithout, passVars
<1>10. ArrivalsWait' /\ Gangs' /\ History' /\ Clock'
  BY <1>1, <1>5, <1>6 DEF Core, ArrivalsWait, Gangs, History, Clock, jobVars
<1> QED  BY <1>1, <1>5, <1>8, <1>9, <1>10 DEF Core

\* The lifecycle specification counts GPUs as the engine does.
LEMMA SameCardinality == \A S : Proved!Cardinality(S) = Cardinality(S)
BY DEF Cardinality, IsFiniteSet, Proved!Cardinality, Proved!IsFiniteSet

\* What it calls a gang.
LEMMA GangIs ==
  ASSUME NEW j \in Jobs, NEW P, Fits(j, P)
  PROVE  Proved!IsGang(j, P) /\ P \in SUBSET Compatible[j]
BY SameCardinality DEF Fits, Sizes, SameVendor, Proved!IsGang, Proved!SingleVendor

\* Fewer GPUs of a gang are a gang if they are enough, which they are for elastic jobs only.
LEMMA SmallerGang ==
  ASSUME NEW j \in Jobs, NEW P, Fits(j, P), NEW Q \in SUBSET P, Q # P
  PROVE  /\ Cardinality(Q) \in Nat /\ Cardinality(Q) < Cardinality(P)
         /\ Cardinality(Q) \in Sizes[j] <=> j \in ElasticJobs /\ Cardinality(Q) >= MinReplicas[j]
         /\ Cardinality(Q) \in Sizes[j] => Fits(j, Q)
<1>1. /\ P \in SUBSET GPUs /\ IsFiniteSet(P) /\ Cardinality(P) \in Nat /\ Cardinality(P) <= PreferredReplicas[j]
  BY FitsIs
<1>2. Cardinality(Q) \in Nat /\ Cardinality(Q) < Cardinality(P)
  <2>1. Cardinality(Q) <= Cardinality(P) /\ Cardinality(Q) # Cardinality(P)
    BY <1>1, FS_Subset
  <2>2. Cardinality(Q) \in Nat
    BY <1>1, GpuSetsFinite
  <2> QED  BY <1>1, <2>1, <2>2
<1>3. /\ MinReplicas[j] \in Nat /\ PreferredReplicas[j] \in Nat
      /\ j \notin ElasticJobs => MinReplicas[j] = PreferredReplicas[j]
  BY LoopAssumption
<1>4. Cardinality(Q) \in Sizes[j] <=> j \in ElasticJobs /\ Cardinality(Q) >= MinReplicas[j]
  BY <1>1, <1>2, <1>3 DEF Sizes
<1>5. Cardinality(Q) \in Sizes[j] => Fits(j, Q)
  BY DEF Fits, SameVendor
<1> QED  BY <1>2, <1>4, <1>5

\* A failure takes the GPUs of its node from all jobs: elastic ones that keep enough run on.
LEMMA FailStep ==
  ASSUME LifeInv, Types', NEW e, Fail(e), UNCHANGED <<plan, grown>>
  PROVE  [Proved!Next]_(Proved!vars) /\ Core'
<1> DEFINE n == e.id
           back == ReturnedVictims(Affected(n))
           impacted == {j \in Jobs : alloc[j] \cap OnNode(n) # {}}
           shrunk == {j \in impacted \cap ElasticJobs :
                        status[j] = "running" /\ Cardinality(alloc[j] \ OnNode(n)) >= MinReplicas[j]}
           lost == impacted \ shrunk
           parked == {j \in lost : TargetsWithout(Affected(n))[j] # None}
           timer(j) == Completion(j, Accrued(j), Cardinality(alloc[j] \ OnNode(n)), gen[j] + 1)
           N == {timer(j) : j \in shrunk}
<1>2. e \in Queued /\ pc = "handle" /\ pc' = "handle" /\ e.kind \in FleetKinds /\ Take(e) /\ heap' = heap \cup N
      /\ todo' = todo
  BY DEF Fail, Take, Queued, FleetKinds, passVars
<1>1. /\ Types /\ Core /\ LoopTypes
      /\ Settled = alloc /\ SettledOwner = owner /\ Settled' = alloc' /\ SettledOwner' = owner'
      /\ Growth' /\ Pass' /\ Planned'
  BY <1>2, Handling
<1>3. n \in Nodes /\ back \subseteq Jobs /\ e.kind \notin Timers /\ e.kind # "JOB_ARRIVAL"
  BY <1>1, <1>2 DEF Core, LoopTypes, EventsTyped, ReturnedVictims, FleetKinds, Timers
<1>6. /\ UNCHANGED <<scenario, now, pc, passVars>>
      /\ available' = [available EXCEPT ![n] = FALSE]
      /\ schedulable' = [schedulable EXCEPT ![n] = FALSE]
      /\ DropReservations(Affected(n))
      /\ owner' = [g \in GPUs |-> IF g \in OnNode(n) \/ owner[g] \in lost THEN None ELSE owner[g]]
      /\ alloc' = [j \in Jobs |-> IF j \in lost THEN {} ELSE alloc[j] \ OnNode(n)]
      /\ work' = [j \in Jobs |-> IF j \in impacted THEN Accrued(j) ELSE work[j]]
      /\ gen' = [j \in Jobs |-> IF j \in impacted THEN gen[j] + 1 ELSE gen[j]]
      /\ status' = [j \in Jobs |-> IF j \in lost THEN "pending" ELSE status[j]]
      /\ lastStart' = [j \in Jobs |-> IF j \in lost THEN None
                                      ELSE IF j \in shrunk THEN now ELSE lastStart[j]]
      /\ interrupted' = interrupted \cup lost
      /\ pending' = pending \cup back \cup (lost \ parked)
      /\ suspended' = (suspended \ back) \cup parked
  BY DEF Fail, Take
<1>7. \A j \in Jobs : gen[j] \in Nat /\ Accrued(j) \in Nat
  BY <1>1, AccruedIs DEF Core, LoopTypes
<1>8. \A j \in impacted : status[j] \in Active /\ j \notin Waiting /\ gen[j] > 0 /\ Fits(j, alloc[j])
  BY <1>1, Plain DEF Core, Holding, ArrivalsWait, History, Gangs, Active
<1>9. ASSUME NEW j \in impacted
      PROVE  /\ alloc[j] \ OnNode(n) \in SUBSET alloc[j] /\ alloc[j] \ OnNode(n) # alloc[j]
             /\ j \in shrunk <=> status[j] = "running" /\ Cardinality(alloc[j] \ OnNode(n)) \in Sizes[j]
             /\ j \in shrunk => Fits(j, alloc[j] \ OnNode(n))
  BY <1>8, SmallerGang
<1>10. ASSUME NEW j \in shrunk
       PROVE  /\ timer(j).time \in Nat /\ now <= timer(j).time /\ timer(j).kind = "JOB_COMPLETE"
              /\ timer(j).id = j /\ timer(j).gen = gen[j] + 1
              /\ gen[j] + 1 \in Nat \ GensIn(Queued, "JOB_COMPLETE", j)
  <2>1. Cardinality(alloc[j] \ OnNode(n)) \in Nat \ {0}
    BY <1>9, FitsIs
  <2>2. gen[j] + 1 \in Nat \ GensIn(Queued, "JOB_COMPLETE", j)
    <3>1. \A k \in GensIn(Queued, "JOB_COMPLETE", j) : k <= gen[j]
      BY Plain DEF Fenced, Timers
    <3> QED  BY <1>7, <3>1
  <2> QED  BY <1>1, <1>7, <2>1, <2>2, CompletionIs
<1> HIDE DEF timer, impacted, shrunk
<1>12. impacted \subseteq Jobs /\ shrunk \subseteq impacted
  BY DEF impacted, shrunk
<1>4. NewEvents(N)
  <2> SUFFICES ASSUME NEW m \in N
               PROVE  /\ m.time \in Nat /\ now <= m.time
                      /\ m.kind \in Timers /\ m.id \in Jobs /\ m.gen \in Nat \ GensIn(Queued, m.kind, m.id)
                      /\ \A o \in N : o.kind = m.kind /\ o.id = m.id => o = m
    BY DEF NewEvents
  <2>1. PICK j \in shrunk : m = timer(j)
    OBVIOUS
  <2>2. \A o \in N : o.id = j => o = m
    BY <1>10, <2>1
  <2> QED  BY <1>10, <1>12, <2>1, <2>2 DEF Timers
<1>11. \A kind, i : GensIn(N, kind, i) = IF kind = "JOB_COMPLETE" /\ i \in shrunk THEN {gen[i] + 1} ELSE {}
  <2> SUFFICES ASSUME NEW kind, NEW i
               PROVE  GensIn(N, kind, i) = IF kind = "JOB_COMPLETE" /\ i \in shrunk THEN {gen[i] + 1} ELSE {}
    OBVIOUS
  <2>1. {f \in N : f.kind = kind /\ f.id = i} = IF kind = "JOB_COMPLETE" /\ i \in shrunk THEN {timer(i)} ELSE {}
    BY <1>10
  <2> QED  BY <1>10, <2>1 DEF GensIn
<1> HIDE DEF N
<1>5. /\ EventsTyped' /\ EventsDistinct' /\ Waiting' = Waiting
      /\ \A kind \in Timers : \A i \in Jobs :
           GensIn(Queued, kind, i)' = GensIn(Queued, kind, i) \cup
             (IF kind = "JOB_COMPLETE" /\ i \in shrunk THEN {gen[i] + 1} ELSE {})
  <2>1. EventsTyped' /\ EventsDistinct' /\ Waiting' = Waiting
    BY <1>2, <1>3, <1>4, Taking
  <2>2. \A kind \in Timers : \A i \in Jobs :
              GensIn(Queued, kind, i)' =
                (IF e.kind = kind /\ e.id = i THEN GensIn(Queued, kind, i) \ {e.gen}
                 ELSE GensIn(Queued, kind, i)) \cup GensIn(N, kind, i)
    BY <1>2, <1>4, Taking
  <2> QED  BY <1>3, <1>11, <2>1, <2>2
<1>13. Proved!Fail(n)
  <2>1. Submitted' = [j \in Jobs |-> IF j \in lost THEN "pending" ELSE Submitted[j]]
    BY <1>5, <1>6, <1>8, <1>12, MappingIs
  <2>2. /\ Proved!Affected(n) = Affected(n) /\ Proved!TargetsWithout(Affected(n)) = TargetsWithout(Affected(n))
        /\ Proved!ReturnedVictims(Affected(n)) = back /\ Proved!OnNode(n) = OnNode(n)
        /\ (Proved!DropReservations(Affected(n)) <=> DropReservations(Affected(n)))
    BY DEF Proved!DropReservations, Proved!TargetsWithout, Proved!Holders, Proved!Affected,
          Proved!OnNode, Proved!ReturnedVictims,
          DropReservations, TargetsWithout, Holders, Affected, OnNode, ReturnedVictims
  <2> DEFINE hit == {j \in Jobs : \E g \in Proved!OnNode(n) : SettledOwner[g] = j}
             Keeps(j) == /\ Submitted[j] = "running"
                         /\ Proved!Cardinality(Settled[j] \ Proved!OnNode(n)) \in
                              [i \in Jobs |-> MinReplicas[i] .. PreferredReplicas[i]][j]
             kept == {j \in hit : Keeps(j)}
             gone == hit \ kept
             held == {j \in gone : Proved!TargetsWithout(Proved!Affected(n))[j] # None}
             NextGen(j) == Proved!NextGeneration(j)
  <2>3. hit = impacted
    <3>1. \A g \in GPUs : \A j \in Jobs : owner[g] = j <=> g \in alloc[j]
      BY DEF LifeInv, Inv, Owned
    <3>2. \A j \in Jobs : alloc[j] \in SUBSET GPUs
      BY <1>1 DEF Types, Holdings
    <3> QED  BY <1>1, <2>2, <3>1, <3>2 DEF impacted, OnNode
  <2>4. kept = shrunk
    <3>1. ASSUME NEW j \in impacted PROVE Keeps(j) <=> j \in shrunk
      <4>1. Submitted[j] = "running" <=> status[j] = "running"
        BY <1>8, <1>12, MappingIs
      <4>2. Cardinality(Settled[j] \ Proved!OnNode(n)) \in Sizes[j]
              <=> Cardinality(alloc[j] \ OnNode(n)) \in Sizes[j]
        BY <1>1, <2>2
      <4>3. Keeps(j) <=> /\ Submitted[j] = "running"
                         /\ Cardinality(Settled[j] \ Proved!OnNode(n)) \in Sizes[j]
        BY SameCardinality DEF Sizes
      <4> HIDE DEF Keeps
      <4> QED  BY <1>9, <4>1, <4>2, <4>3
    <3> HIDE DEF Keeps, hit
    <3> QED  BY <1>12, <2>3, <3>1
  <2>5. Proved!Fail(n) <=>
          /\ \A j \in hit : NextGen(j) \in Nat
          /\ available' = [available EXCEPT ![n] = FALSE]
          /\ schedulable' = [schedulable EXCEPT ![n] = FALSE]
          /\ Proved!DropReservations(Proved!Affected(n))
          /\ SettledOwner' = [g \in GPUs |-> IF g \in Proved!OnNode(n) \/ SettledOwner[g] \in gone THEN None ELSE SettledOwner[g]]
          /\ Settled' = [j \in Jobs |-> IF j \in gone THEN {}
                                     ELSE IF j \in kept THEN Settled[j] \ Proved!OnNode(n) ELSE Settled[j]]
          /\ gen' = [j \in Jobs |-> IF j \in hit THEN NextGen(j) ELSE gen[j]]
          /\ Submitted' = [j \in Jobs |-> IF j \in gone THEN "pending" ELSE Submitted[j]]
          /\ pending' = pending \cup Proved!ReturnedVictims(Proved!Affected(n)) \cup (gone \ held)
          /\ suspended' = (suspended \ Proved!ReturnedVictims(Proved!Affected(n))) \cup held
          /\ Generations("JOB_COMPLETE")' =
               [j \in Jobs |-> IF j \in kept THEN Generations("JOB_COMPLETE")[j] \cup {NextGen(j)}
                               ELSE Generations("JOB_COMPLETE")[j]]
          /\ UNCHANGED <<Generations("JOB_CHECKPOINT_COMPLETE"), Generations("JOB_RESTART_COMPLETE")>>
    BY DEF Proved!Fail
  <2> HIDE DEF hit, kept
  <2>6. gone = lost /\ held = parked
    BY <2>2, <2>3, <2>4
  <2>7. \A j \in Jobs : NextGen(j) = gen[j] + 1 /\ gen[j] + 1 \in Nat
    BY <1>7 DEF Proved!NextGeneration
  <2>8. UNCHANGED <<Generations("JOB_CHECKPOINT_COMPLETE"), Generations("JOB_RESTART_COMPLETE")>>
    BY <1>5, MappingIs DEF Timers
  <2>9. Generations("JOB_COMPLETE")' =
          [j \in Jobs |-> IF j \in shrunk THEN Generations("JOB_COMPLETE")[j] \cup {gen[j] + 1}
                          ELSE Generations("JOB_COMPLETE")[j]]
    <3>1. \A i \in Jobs : GensIn(Queued, "JOB_COMPLETE", i)' = GensIn(Queued, "JOB_COMPLETE", i) \cup
             (IF i \in shrunk THEN {gen[i] + 1} ELSE {})
      BY <1>5 DEF Timers
    <3> QED  BY <3>1, MappingIs
  <2>10. alloc' = [j \in Jobs |-> IF j \in lost THEN {}
                                     ELSE IF j \in shrunk THEN alloc[j] \ OnNode(n) ELSE alloc[j]]
    <3>1. \A j \in Jobs \ impacted : alloc[j] \ OnNode(n) = alloc[j]
      BY DEF impacted
    <3> QED  BY <1>6, <3>1
  <2> HIDE DEF lost, parked, back, gone, held, NextGen
  <2> QED  BY <1>1, <1>6, <1>12, <2>1, <2>2, <2>3, <2>4, <2>5, <2>6, <2>7, <2>8, <2>9, <2>10
<1>14. [Proved!Next]_(Proved!vars)
  BY <1>3, <1>13 DEF Proved!Next
<1>15. LoopTypes'
  <2>1. work' \in [Jobs -> Nat] /\ gen' \in [Jobs -> Nat]
    BY <1>1, <1>6, <1>7 DEF LoopTypes
  <2>2. /\ status' \in [Jobs -> {"pending", "completed", "rejected"} \cup Active]
        /\ lastStart' \in [Jobs -> Nat \cup {None}]
    BY <1>1, <1>6 DEF LoopTypes
  <2>3. /\ interrupted' \subseteq Jobs /\ pending' \subseteq Jobs /\ suspended' \subseteq Jobs
    BY <1>1, <1>3, <1>6, <1>12 DEF LoopTypes
  <2>4. /\ target' \in [Jobs -> Jobs \cup {None}]
        /\ reserved' \in [Jobs -> SUBSET GPUs]
        /\ available' \in [Nodes -> BOOLEAN] /\ schedulable' \in [Nodes -> BOOLEAN]
    BY <1>1, <1>6 DEF LoopTypes, DropReservations, TargetsWithout
  <2> QED  BY <1>1, <1>6, <2>1, <2>2, <2>3, <2>4 DEF LoopTypes, passVars
<1>16. ArrivalsWait' /\ Gangs'
  <2>1. \A j \in Jobs \ impacted : alloc'[j] = alloc[j] /\ status'[j] = status[j]
    BY <1>6, <1>12 DEF impacted
  <2>2. \A j \in lost : status'[j] = "pending"
    BY <1>6, <1>12
  <2>3. \A j \in shrunk : Fits(j, alloc'[j]) /\ status'[j] = status[j]
    BY <1>6, <1>9, <1>12
  <2>4. ArrivalsWait'
    BY <1>1, <1>5, <1>8, <2>1 DEF Core, ArrivalsWait, Waiting
  <2>5. ASSUME NEW j \in Jobs, status'[j] \in Active PROVE Fits(j, alloc'[j])
    BY <1>1, <1>12, <2>1, <2>2, <2>3, <2>5 DEF Core, Gangs, Active
  <2>6. Gangs'
    BY <2>5 DEF Gangs, Fits, SameVendor
  <2> QED  BY <2>4, <2>6
<1>17. History'
  <2>1. ASSUME NEW j \in Jobs \ impacted PROVE UNCHANGED <<gen[j], work[j], status[j]>> /\ (j \in interrupted' <=> j \in interrupted)
    BY <1>6, <1>12
  <2>2. ASSUME NEW j \in impacted
        PROVE  /\ gen'[j] > 0 /\ status'[j] = "pending" => j \in interrupted'
               /\ status'[j] = "checkpointing" => j \in interrupted'
    <3>1. gen[j] \in Nat /\ gen'[j] = gen[j] + 1
      BY <1>6, <1>7, <1>12
    <3>2. CASE j \in lost
      BY <1>6, <3>1, <3>2
    <3>3. CASE j \notin lost
      BY <1>6, <1>8, <1>9, <1>12, <3>1, <3>3 DEF Active
    <3> QED  BY <3>2, <3>3
  <2>3. \A j \in impacted : gen'[j] > 0 /\ gen'[j] # 0
    BY <1>6, <1>7, <1>12
  <2> QED  BY <1>1, <2>1, <2>2, <2>3 DEF Core, History, Active
<1>18. Clock'
  <2>1. \A j \in Jobs : lastStart'[j] \in {None, now, lastStart[j]}
    BY <1>6
  <2> QED  BY <1>1, <1>6, <2>1 DEF Core, LoopTypes, Clock
<1> QED  BY <1>1, <1>5, <1>14, <1>15, <1>16, <1>17, <1>18 DEF Core

-----------------------------------------------------------------------------
(* The head of the loop, and the steps that only move control.             *)

\* When jobs, queues, nodes and queued events stay, the lifecycle sees nothing.
LEMMA Unnoticed ==
  ASSUME Queued' = Queued, UNCHANGED <<jobVars, queueVars, nodeVars, grown>>
  PROVE  UNCHANGED Proved!vars /\ Waiting' = Waiting
<1>1. Waiting' = Waiting /\ \A kind, i : GensIn(Queued, kind, i)' = GensIn(Queued, kind, i)
  BY DEF Waiting, GensIn
<1>2. Submitted' = Submitted
  BY <1>1, MappingIs DEF jobVars
<1>3. Settled' = Settled /\ SettledOwner' = SettledOwner
  BY DEF Settled, SettledOwner, jobVars
<1>4. /\ Generations("JOB_COMPLETE")' = Generations("JOB_COMPLETE")
      /\ Generations("JOB_CHECKPOINT_COMPLETE")' = Generations("JOB_CHECKPOINT_COMPLETE")
      /\ Generations("JOB_RESTART_COMPLETE")' = Generations("JOB_RESTART_COMPLETE")
  BY <1>1, SameEvents
<1> QED  BY <1>1, <1>2, <1>3, <1>4
    DEF Proved!vars, Proved!jobVars, Proved!queueVars, Proved!eventVars, Proved!nodeVars, jobVars,
        queueVars, nodeVars

\* A timer of a phase that is over is popped without effect.
LEMMA DiscardStep ==
  ASSUME LifeInv, Types', NEW e \in heap, Discard(e), UNCHANGED <<plan, grown>>
  PROVE  [Proved!Next]_(Proved!vars) /\ Core'
<1>1. Core /\ LoopTypes /\ Types
  BY DEF LifeInv, Inv, Core
<1>2. /\ pc = "pop" /\ IsTimer(e) /\ ~IsLive(e) /\ heap' = heap \ {e}
      /\ UNCHANGED <<scenario, now, pc, batch, todo, initial, jobVars, queueVars, nodeVars>>
  BY DEF Discard, passVars
<1>3. batch = {} /\ e \in Queued /\ Queued' = Queued \ {e} /\ e.kind \in Timers
  <2>1. batch = {}
    BY <1>1, <1>2 DEF Core, EventsTyped
  <2> QED  BY <1>2, <2>1, TimerKinds DEF Queued
<1>4. EventsTyped' /\ EventsDistinct'
  <2>1. Queued' \subseteq Queued /\ batch' = {} /\ pc' = pc /\ now' = now
    BY <1>2, <1>3
  <2> QED  BY <1>1, <2>1 DEF Core, EventsTyped, EventsDistinct
<1>5. Waiting' = Waiting
  BY <1>3 DEF Waiting, Timers
<1>6. ASSUME NEW kind \in Timers, NEW i \in Jobs
      PROVE  GensIn(Queued, kind, i)' = IF e.kind = kind /\ e.id = i THEN GensIn(Queued, kind, i) \ {e.gen}
                                        ELSE GensIn(Queued, kind, i)
  <2>1. \A k : k \in GensIn(Queued, kind, i)' <=> \E f \in Queued \ {e} : f.kind = kind /\ f.id = i /\ f.gen = k
    BY <1>3 DEF GensIn
  <2>2. \A k : k \in GensIn(Queued, kind, i) <=> \E f \in Queued : f.kind = kind /\ f.id = i /\ f.gen = k
    BY DEF GensIn
  <2>3. \A f \in Queued : f.kind = e.kind /\ f.id = e.id /\ f.gen = e.gen => f = e
    BY <1>1, <1>3 DEF Core, EventsDistinct
  <2>4. CASE e.kind = kind /\ e.id = i
    <3>1. \A k : k \in GensIn(Queued, kind, i)' <=> k \in GensIn(Queued, kind, i) /\ k # e.gen
      BY <1>3, <2>1, <2>2, <2>3, <2>4
    <3>2. GensIn(Queued, kind, i)' = GensIn(Queued, kind, i) \ {e.gen}
      BY <3>1
    <3> QED  BY <2>4, <3>2
  <2>5. CASE ~(e.kind = kind /\ e.id = i)
    <3>1. GensIn(Queued, kind, i)' = GensIn(Queued, kind, i)
      BY <2>1, <2>2, <2>5
    <3> QED  BY <2>5, <3>1
  <2> QED  BY <2>4, <2>5
<1>7. [Proved!Next]_(Proved!vars)
  <2>1. Settled' = Settled /\ SettledOwner' = SettledOwner /\ UNCHANGED <<status, alloc, owner, gen>>
    BY <1>2 DEF Settled, SettledOwner, jobVars
  <2> QED  BY <1>2, <1>3, <1>5, <1>6, <2>1, DropMaps
<1>8. LoopTypes'
  BY <1>1, <1>2 DEF LoopTypes, jobVars, queueVars, nodeVars
<1>9. ArrivalsWait' /\ Gangs' /\ History' /\ Clock'
  BY <1>1, <1>2, <1>5 DEF Core, ArrivalsWait, Gangs, History, Clock, jobVars
<1>10. Growth' /\ Pass' /\ Planned'
  BY <1>1, <1>2 DEF Core, Growth, Pass, Planned, jobVars, queueVars, nodeVars, Usable,
                    ReservedElsewhere, Shrinks, Fits, SameVendor
<1> QED  BY <1>4, <1>7, <1>8, <1>9, <1>10 DEF Core

\* The head of the queue is due first.
LEMMA HeadIsFirst ==
  ASSUME LifeInv, NEW e \in heap, IsHead(e)
  PROVE  \A f \in heap : e.time <= f.time
<1> SUFFICES ASSUME NEW f \in heap PROVE e.time <= f.time
  OBVIOUS
<1>1. e.time \in Nat /\ f.time \in Nat
  BY DEF LifeInv, Core, EventsTyped, Queued
<1> DEFINE s == <<f.time, Order(f.kind)>>
           t == <<e.time, Order(e.kind)>>
<1>2. ~Less(s, t)
  BY DEF IsHead, Before
<1>3. DOMAIN s = 1 .. 2 /\ DOMAIN t = 1 .. 2 /\ s[1] = f.time /\ t[1] = e.time
  OBVIOUS
<1> HIDE DEF s, t
<1>4. ~(f.time < e.time)
  <2>1. 1 \in DOMAIN s \cap DOMAIN t /\ 1 .. 1 - 1 = {}
    BY <1>3
  <2> QED  BY <1>2, <1>3, <2>1 DEF Less
<1> QED  BY <1>1, <1>4

\* The clock moves to the next instant.
LEMMA PopStep ==
  ASSUME LifeInv, Types', NEW e \in heap, Pop(e), UNCHANGED <<plan, grown>>
  PROVE  [Proved!Next]_(Proved!vars) /\ Core'
<1>1. Core /\ LoopTypes /\ Types
  BY DEF LifeInv, Inv, Core
<1>2. /\ pc = "pop" /\ IsHead(e) /\ now' = e.time
      /\ batch' = {f \in heap : f.time = e.time} /\ heap' = heap \ batch' /\ pc' = "handle"
      /\ UNCHANGED <<scenario, todo, initial, jobVars, queueVars, nodeVars>>
  BY DEF Pop, passVars
<1>3. batch = {} /\ Queued = heap /\ Queued' = Queued
  <2>1. batch = {}
    BY <1>1, <1>2 DEF Core, EventsTyped
  <2> QED  BY <1>2, <2>1 DEF Queued
<1>4. UNCHANGED Proved!vars /\ Waiting' = Waiting
  BY <1>2, <1>3, Unnoticed
<1>5. now \in Nat /\ e.time \in Nat /\ now <= e.time
  BY <1>1, <1>3 DEF LoopTypes, Core, EventsTyped
<1>6. EventsTyped' /\ EventsDistinct'
  <2>1. \A f \in Queued' : e.time <= f.time
    BY <1>2, <1>3, HeadIsFirst
  <2>2. \A f \in batch' : f.time = e.time
    BY <1>2
  <2>3. heap' \cap batch' = {}
    BY <1>2
  <2>4. now' = e.time /\ pc' = "handle" /\ Queued' = Queued
    BY <1>2, <1>3
  <2>5. EventsTyped'
    BY <1>1, <2>1, <2>2, <2>4 DEF Core, EventsTyped
  <2>6. EventsDistinct'
    BY <1>1, <2>3, <2>4 DEF Core, EventsDistinct
  <2> QED  BY <2>5, <2>6
<1>7. LoopTypes'
  BY <1>1, <1>2, <1>5 DEF LoopTypes, jobVars, queueVars, nodeVars
<1>8. ArrivalsWait' /\ Gangs' /\ History'
  BY <1>1, <1>2, <1>4 DEF Core, ArrivalsWait, Gangs, History, jobVars
<1>9. Clock'
  <2> SUFFICES ASSUME NEW j \in Jobs, lastStart[j] # None PROVE lastStart[j] <= e.time
    BY <1>2 DEF Clock, jobVars
  <2>1. lastStart[j] \in Nat /\ lastStart[j] <= now
    BY <1>1 DEF LoopTypes, Core, Clock
  <2> QED  BY <1>5, <2>1
<1>10. Growth' /\ Pass' /\ Planned'
  BY <1>1, <1>2 DEF Core, Growth, Pass, Planned, queueVars
<1> QED  BY <1>4, <1>6, <1>7, <1>8, <1>9, <1>10 DEF Core

\* A step that moves control, and nothing the lifecycle sees.
LEMMA QuietStep ==
  ASSUME LifeInv, UNCHANGED <<scenario, now, heap, batch, jobVars, queueVars, nodeVars, grown>>,
         pc' # "handle" => batch = {},
         pc' \in {"pop", "handle", "guarantee", "dispatch", "commit", "retry", "resume", "resize",
                  "done", "crashed"},
         todo' \in Seq(Jobs), initial' \subseteq Jobs, plan' \in Plannings,
         Growth', Pass', Planned'
  PROVE  [Proved!Next]_(Proved!vars) /\ Core'
<1>1. Core /\ LoopTypes
  BY DEF LifeInv, Core
<1>2. Queued' = Queued
  BY DEF Queued
<1>3. UNCHANGED Proved!vars /\ Waiting' = Waiting
  BY <1>2, Unnoticed
<1>4. EventsTyped' /\ EventsDistinct'
  BY <1>1, <1>2 DEF Core, EventsTyped, EventsDistinct
<1>5. LoopTypes'
  BY <1>1 DEF LoopTypes, jobVars, queueVars, nodeVars
<1>6. ArrivalsWait' /\ Gangs' /\ History' /\ Clock'
  BY <1>1, <1>3 DEF Core, ArrivalsWait, Gangs, History, Clock, jobVars
<1> QED  BY <1>3, <1>4, <1>5, <1>6 DEF Core

\* The steps between the parts of an instant, which are quiet.
LEMMA ControlStep ==
  ASSUME LifeInv, Types',
         \/ Finish /\ UNCHANGED stepVars
         \/ BeginPass \/ BeginBorrowing \/ BeginResume \/ EndPass \/ EndInstant
         \/ UNCHANGED vars
  PROVE  [Proved!Next]_(Proved!vars) /\ Core'
<1>1. Core /\ LoopTypes /\ Types /\ pending \in SUBSET Jobs /\ pending \ initial \in SUBSET Jobs
  BY DEF LifeInv, Inv, Core, LoopTypes
<1>2. UNCHANGED <<scenario, now, heap, batch, jobVars, queueVars, nodeVars, grown>> /\ plan' = plan
  BY DEF Finish, BeginPass, BeginBorrowing, BeginResume, EndPass, EndInstant, vars, loopVars, stepVars
<1>3. \A S \in SUBSET pending : \A s : Lists(s, S) =>
         s \in Seq(Jobs) /\ IsInjective(s) /\ ToSet(s) \subseteq pending
  <2>1. \A S \in SUBSET Jobs : \A s \in Seq(S) : s \in Seq(Jobs)
    OBVIOUS
  <2> QED  BY <1>1, <2>1 DEF Lists
<1>4. Lists(<<>>, {})
  BY DEF Lists, ToSet, IsInjective
<1>5. /\ pc' # "handle" => batch = {}
      /\ pc' \in {"pop", "handle", "guarantee", "dispatch", "commit", "retry", "resume", "resize",
                  "done", "crashed"}
      /\ initial' \subseteq Jobs
  BY <1>1 DEF Core, EventsTyped, LoopTypes,
       Finish, BeginPass, BeginBorrowing, BeginResume, EndPass, EndInstant, vars, loopVars, passVars
<1>6. todo' \in Seq(Jobs) /\ Pass'
  <2>1. CASE todo' = todo /\ (pc' = pc \/ (pc' \in {"pop", "done"} /\ pc \in {"pop", "resize"}))
    BY <1>1, <1>2, <2>1 DEF Core, Pass, LoopTypes, queueVars
  <2>2. CASE \E S \in SUBSET pending : Lists(todo', S) /\ (pc' = "resize" => S = {})
             /\ pc' \in {"guarantee", "dispatch", "resume", "resize"}
    <3>1. PICK S \in SUBSET pending : Lists(todo', S) /\ (pc' = "resize" => S = {})
      BY <2>2
    <3>2. S = {} => todo' = <<>>
      BY <3>1 DEF Lists
    <3> QED  BY <1>2, <1>3, <2>2, <3>1, <3>2 DEF Pass, queueVars
  <2>3. CASE BeginPass
    <3>1. Lists(SetToSeq(pending), pending)
      BY <1>1, ListsOf
    <3> QED  BY <1>4, <2>2, <2>3, <3>1 DEF BeginPass
  <2>4. CASE BeginBorrowing
    <3>1. Lists(SetToSeq(pending), pending)
      BY <1>1, ListsOf
    <3> QED  BY <2>2, <2>4, <3>1 DEF BeginBorrowing
  <2>5. CASE BeginResume
    <3>1. Lists(todo', pending \ initial) /\ pc' = "resume"
      BY <1>1, <2>5, ListsOf DEF BeginResume
    <3> QED  BY <2>2, <3>1
  <2>6. CASE EndPass
    BY <1>4, <2>2, <2>6 DEF EndPass
  <2>7. CASE Finish \/ EndInstant \/ UNCHANGED vars
    <3>1. todo' = todo
      BY <2>7 DEF Finish, EndInstant, vars, loopVars, passVars
    <3>2. pc' = pc \/ (pc' \in {"pop", "done"} /\ pc \in {"pop", "resize"})
      BY <2>7 DEF Finish, EndInstant, vars, loopVars
    <3> QED  BY <2>1, <3>1, <3>2
  <2>8. \/ BeginPass \/ BeginBorrowing \/ BeginResume \/ EndPass
        \/ (Finish \/ EndInstant \/ UNCHANGED vars)
    OBVIOUS
  <2> HIDE DEF Pass
  <2> QED  BY <2>3, <2>4, <2>5, <2>6, <2>7, <2>8
<1>7. Planned'
  <2>1. CASE UNCHANGED vars
    <3>1. UNCHANGED <<pc, todo, owner>>
      BY <2>1 DEF vars, loopVars, passVars, jobVars
    <3> QED  BY <1>1, <1>2, <3>1 DEF Core, Planned, jobVars, queueVars, nodeVars, Usable,
                    ReservedElsewhere, Shrinks, Fits, SameVendor
  <2>2. CASE pc \notin {"commit", "retry"} /\ pc' \notin {"commit", "retry"}
    BY <1>1, <1>2, <2>2 DEF Core, Planned
  <2> QED  BY <2>1, <2>2 DEF Finish, BeginPass, BeginBorrowing, BeginResume, EndPass, EndInstant
<1>8. Growth'
  <2>1. CASE UNCHANGED vars
    <3>1. UNCHANGED pc
      BY <2>1 DEF vars, loopVars
    <3> QED  BY <1>1, <1>2, <3>1 DEF Core, Growth, jobVars, queueVars, nodeVars, Usable,
                    ReservedElsewhere
  <2>2. CASE \A j \in Jobs : grown[j] = {}
    BY <1>2, <2>2 DEF Growth
  <2>3. pc # "resize" => \A j \in Jobs : grown[j] = {}
    BY <1>1 DEF Core, Growth
  <2> QED  BY <2>1, <2>2, <2>3 DEF Finish, BeginPass, BeginBorrowing, BeginResume, EndPass, EndInstant, Grown
<1> QED  BY <1>1, <1>2, <1>5, <1>6, <1>7, <1>8, QuietStep DEF LoopTypes

\* An iteration of the loop, up to its pass.
LEMMA LoopEventStep ==
  ASSUME LifeInv, Types', LoopEvent
  PROVE  [Proved!Next]_(Proved!vars) /\ Core'
<1>1. LoopStep /\ UNCHANGED stepVars /\ UNCHANGED <<plan, grown>>
  BY DEF LoopEvent, stepVars
<1> QED  BY <1>1, DiscardStep, PopStep, ControlStep, StaleTimerStep, CompleteStep,
            CompleteCheckpointStep, CompleteRestartStep, RestoreStep, DrainStep, FailStep
         DEF LoopStep, Handle

-----------------------------------------------------------------------------
(* Starts.                                                                 *)

\* What the topology scheduler finds for a job is a gang of GPUs of the view.
LEMMA PlaceIs ==
  ASSUME NEW j \in Jobs, NEW view, NEW P, P = TopologyPlace(j, MinReplicas[j], view), P # {}
  PROVE  P \subseteq Hosts(j, view) /\ Fits(j, P)
<1>1. MinReplicas[j] \in Nat \ {0} /\ PreferredReplicas[j] \in Nat /\ MinReplicas[j] <= PreferredReplicas[j]
  BY LoopAssumption DEF SizesInOrder
<1>2. IsPlacement(j, MinReplicas[j], view, P)
  BY <1>1, TopologyPlaceExact DEF Exact
<1>3. P \subseteq Hosts(j, view) /\ Cardinality(P) = MinReplicas[j] /\ Cardinality(Vendors(P)) = 1
  BY <1>2 DEF IsPlacement
<1>4. P \in SUBSET Compatible[j] /\ P \in SUBSET GPUs
  BY <1>3, HostsAre DEF Hosts
<1>5. SameVendor(P)
  BY <1>3, <1>4, OneVendor DEF OfVendor, SameVendor
<1> QED  BY <1>1, <1>3, <1>4, <1>5 DEF Fits, Sizes

\* So is what the quotas let through, and what a job gets during the pass.
LEMMA FoundIs ==
  ASSUME NEW j \in Jobs, NEW view, NEW usage, NEW borrowing,
         NEW P, P = QuotaPlace(j, view, usage, borrowing), P # {}
  PROVE  P \subseteq Hosts(j, view) /\ Fits(j, P)
<1> DEFINE X == TopologyPlace(j, MinReplicas[j], view)
           C(R) == CanAllocate(QueueOf(j), Allocation(j, R), usage, borrowing)
<1>1. P = UNION {R \in {X} : C(R)}
  BY DEF QuotaPlace
<1>2. P = X
  <2> HIDE DEF X, C
  <2> QED  BY <1>1
<1> QED  BY <1>2, PlaceIs

\* The placement a pass finds, the reservation of the job counted, is a gang on hosts of the view.
LEMMA FoundNowIs ==
  ASSUME NEW j \in Jobs, NEW borrowing, NEW P, P = PlaceNow(j, borrowing), P # {}
  PROVE  P \subseteq Hosts(j, ViewFor(j)) /\ Fits(j, P)
<1> DEFINE X == QuotaPlace(j, ViewFor(j), Usage, borrowing)
           C(R) == reserved[j] # {} => Covered(j, R, Usage, entitled[j])
<1>1. P = UNION {R \in {X} : C(R)}
  BY DEF PlaceNow
<1>2. P = X
  <2> HIDE DEF X, C
  <2> QED  BY <1>1
<1> QED  BY <1>2, FoundIs

\* Where the loop is.
Control ==
  /\ pc \in {"pop", "handle", "guarantee", "dispatch", "commit", "retry", "resume", "resize",
             "done", "crashed"}
  /\ todo \in Seq(Jobs) /\ initial \subseteq Jobs /\ plan \in Plannings

\* The part of the invariant that does not depend on it.
Steady == LoopTypes /\ EventsTyped /\ EventsDistinct /\ ArrivalsWait /\ Gangs /\ History /\ Clock

\* The pass pushes events, but handles none.
LEMMA Pushing ==
  ASSUME LifeInv, pc # "handle", pc' # "handle", UNCHANGED <<now, batch>>,
         NEW N, NewEvents(N), heap' = heap \cup N
  PROVE  /\ EventsTyped' /\ EventsDistinct' /\ Waiting' = Waiting
         /\ \A kind \in Timers : \A i \in Jobs :
              GensIn(Queued, kind, i)' = GensIn(Queued, kind, i) \cup GensIn(N, kind, i)
<1> DEFINE D == {}
<1>1. Moves(D, N) /\ EventsTyped /\ EventsDistinct /\ batch = {}
  BY DEF LifeInv, Core, EventsTyped, Moves
<1>2. (\A kind, i : GensIn(D, kind, i) = {}) /\ {f.id : f \in {d \in D : d.kind = "JOB_ARRIVAL"}} = {}
  BY GensSimple
<1> HIDE DEF D
<1>3. /\ EventsTyped' /\ EventsDistinct'
      /\ \A kind \in Timers : \A j \in Jobs :
           GensIn(Queued, kind, j)' = (GensIn(Queued, kind, j) \ GensIn(D, kind, j)) \cup GensIn(N, kind, j)
      /\ Waiting' = Waiting \ {f.id : f \in {d \in D : d.kind = "JOB_ARRIVAL"}}
  BY <1>1, QueueMoves
<1> QED  BY <1>2, <1>3

\* One new timer.
LEMMA PushingOne ==
  ASSUME LifeInv, pc # "handle", pc' # "handle", UNCHANGED <<now, batch>>,
         NEW n, heap' = heap \cup {n}, n.time \in Nat, now <= n.time,
         n.kind \in Timers, n.id \in Jobs, n.gen \in Nat \ GensIn(Queued, n.kind, n.id)
  PROVE  /\ EventsTyped' /\ EventsDistinct' /\ Waiting' = Waiting
         /\ \A kind \in Timers : \A i \in Jobs :
              GensIn(Queued, kind, i)' = IF kind = n.kind /\ i = n.id THEN GensIn(Queued, kind, i) \cup {n.gen}
                                         ELSE GensIn(Queued, kind, i)
<1> DEFINE N == {n}
<1>1. NewEvents(N) /\ heap' = heap \cup N
  BY DEF NewEvents
<1>2. \A kind, i : GensIn(N, kind, i) = IF n.kind = kind /\ n.id = i THEN {n.gen} ELSE {}
  BY GensSimple
<1> HIDE DEF N
<1>3. ASSUME NEW kind \in Timers, NEW i \in Jobs
      PROVE  GensIn(Queued, kind, i)' = IF kind = n.kind /\ i = n.id THEN GensIn(Queued, kind, i) \cup {n.gen}
                                        ELSE GensIn(Queued, kind, i)
  <2>1. GensIn(Queued, kind, i)' = GensIn(Queued, kind, i) \cup GensIn(N, kind, i)
    BY <1>1, Pushing
  <2> QED  BY <1>2, <2>1
<1> QED  BY <1>1, <1>3, Pushing

\* A new generation is not queued yet.
LEMMA NextIsNew ==
  ASSUME LifeInv, NEW j \in Jobs
  PROVE  gen[j] \in Nat /\ \A kind \in Timers : gen[j] + 1 \in Nat \ GensIn(Queued, kind, j)
<1>1. gen[j] \in Nat
  BY DEF LifeInv, Core, LoopTypes
<1>2. \A kind \in Timers : \A k \in GensIn(Queued, kind, j) : k <= gen[j]
  BY Plain DEF Fenced
<1>3. ~(gen[j] + 1 <= gen[j]) /\ gen[j] + 1 \in Nat
  BY <1>1
<1> QED  BY <1>1, <1>2, <1>3

\* A queued job starts on a gang of hosts.
LEMMA StartStep ==
  ASSUME LifeInv, Types', Control', pc # "handle", pc' # "handle", UNCHANGED <<scenario, now, batch, grown>>,
         \A i \in Jobs : grown[i] = {},
         NEW j \in pending, NEW P, P \subseteq Hosts(j, ViewFor(j)), Fits(j, P), StartJob(j, P)
  PROVE  [Proved!Next]_(Proved!vars) /\ Steady' /\ pending \ {j} \subseteq pending'
<1> DEFINE back == ReturnedVictims({j})
           restarts == WasPreempted(j) /\ RestartCost[j] > 0
           timer == IF restarts
                    THEN Event(now + RestartCost[j], "JOB_RESTART_COMPLETE", j, gen[j] + 1)
                    ELSE Completion(j, work[j], Cardinality(P), gen[j] + 1)
           kindOf == IF restarts THEN "JOB_RESTART_COMPLETE" ELSE "JOB_COMPLETE"
<1>1. Core /\ LoopTypes /\ Types /\ j \in Jobs
  BY DEF LifeInv, Inv, Core, LoopTypes
<1>2. /\ Resize(j, P)
      /\ gen' = [gen EXCEPT ![j] = @ + 1]
      /\ status' = [status EXCEPT ![j] = IF restarts THEN "restarting" ELSE "running"]
      /\ lastStart' = [lastStart EXCEPT ![j] = IF restarts THEN None ELSE now]
      /\ pending' = (pending \ {j}) \cup back
      /\ suspended' = suspended \ back
      /\ DropReservations({j})
      /\ heap' = heap \cup {timer}
      /\ UNCHANGED <<work, interrupted, nodeVars>>
  BY DEF StartJob, Allocate
<1>3. status[j] = "pending" /\ j \notin Waiting
  BY <1>1, Plain DEF InOneQueue
<1>4. back \subseteq Jobs
  BY <1>1 DEF LoopTypes, ReturnedVictims
<1>5. gen[j] \in Nat /\ work[j] \in Nat /\ RestartCost[j] \in Nat /\ now \in Nat
  BY <1>1, LoopAssumption DEF LoopTypes
<1>6. restarts <=> gen[j] > 0 /\ j \in {i \in Jobs : RestartCost[i] > 0}
  BY <1>1, <1>3, <1>5 DEF Core, History, WasPreempted
<1>7. P \in SUBSET GPUs /\ Cardinality(P) \in Nat \ {0}
  BY <1>1, FitsIs
<1>8. /\ timer.time \in Nat /\ now <= timer.time /\ timer.id = j /\ timer.gen = gen[j] + 1
      /\ timer.kind = kindOf
  BY <1>1, <1>5, <1>7, CompletionIs DEF Event
<1>9. /\ EventsTyped' /\ EventsDistinct' /\ Waiting' = Waiting
      /\ \A kind \in Timers : \A i \in Jobs :
           GensIn(Queued, kind, i)' = IF kind = kindOf /\ i = j THEN GensIn(Queued, kind, i) \cup {gen[j] + 1}
                                      ELSE GensIn(Queued, kind, i)
  <2> HIDE DEF timer
  <2>1. kindOf \in Timers
    BY DEF Timers
  <2> HIDE DEF kindOf
  <2> QED  BY <1>1, <1>2, <1>8, <2>1, NextIsNew, PushingOne
<1>10. \A g \in P : /\ g \in GPUs /\ g \in Compatible[j] /\ owner[g] = None
                    /\ Usable(NodeOf[g]) /\ g \notin ReservedElsewhere(j)
  BY <1>7 DEF Hosts, ViewFor, UsableGpus, Occupied
<1>11. Settled = alloc /\ SettledOwner = owner /\ Settled' = alloc' /\ SettledOwner' = owner'
  BY <1>1, NoneGrown
<1> HIDE DEF timer, back, restarts, kindOf
<1>12. Proved!Start(j, P)
  <2>1. Submitted' = [Submitted EXCEPT ![j] = IF restarts THEN "restarting" ELSE "running"]
    BY <1>1, <1>2, <1>3, <1>9, MappingIs DEF LoopTypes
  <2>2. P \subseteq Proved!PlaceableAfter(j, {})
    BY <1>10, <1>11 DEF Proved!PlaceableAfter, Proved!Usable, Usable, Proved!ReservedElsewhere, ReservedElsewhere
  <2>3. Proved!IsGang(j, P)
    BY <1>1, GangIs
  <2>4. Proved!NextGeneration(j) = gen[j] + 1 /\ gen[j] + 1 \in Nat
    BY <1>5 DEF Proved!NextGeneration
  <2>5. gen' = [gen EXCEPT ![j] = Proved!NextGeneration(j)]
    BY <1>2, <2>4
  <2>6. Proved!ReturnedVictims({j}) = back /\ Proved!DropReservations({j})
    BY <1>2 DEF Proved!DropReservations, Proved!TargetsWithout, Proved!Holders, Proved!ReturnedVictims,
          DropReservations, TargetsWithout, Holders, ReturnedVictims, back
  <2>7. UNCHANGED Generations("JOB_CHECKPOINT_COMPLETE")
    BY <1>9, MappingIs DEF kindOf, Timers
  <2>8. owner' = [g \in GPUs |-> IF g \in P THEN j ELSE owner[g]] /\ alloc' = [alloc EXCEPT ![j] = P]
    <3>1. \A g \in GPUs : owner[g] # j
      <4>1. alloc[j] = {}
        BY DEF StartJob, Allocate
      <4> QED  BY <1>1, <4>1 DEF LifeInv, Inv, Owned
    <3> QED  BY <1>2, <3>1 DEF Resize
  <2>9. CASE restarts
    <3>1. /\ Generations("JOB_RESTART_COMPLETE")' =
               [Generations("JOB_RESTART_COMPLETE") EXCEPT ![j] = @ \cup {Proved!NextGeneration(j)}]
          /\ UNCHANGED Generations("JOB_COMPLETE")
      BY <1>1, <1>9, <2>4, <2>9, MappingIs DEF kindOf, Timers
    <3> QED  BY <1>2, <1>6, <1>11, <2>1, <2>2, <2>3, <2>4, <2>5, <2>6, <2>7, <2>8, <2>9, <3>1
        DEF Proved!Start, Proved!nodeVars, nodeVars
  <2>10. CASE ~restarts
    <3>1. /\ Generations("JOB_COMPLETE")' =
               [Generations("JOB_COMPLETE") EXCEPT ![j] = @ \cup {Proved!NextGeneration(j)}]
          /\ UNCHANGED Generations("JOB_RESTART_COMPLETE")
      BY <1>1, <1>9, <2>4, <2>10, MappingIs DEF kindOf, Timers
    <3> QED  BY <1>2, <1>6, <1>11, <2>1, <2>2, <2>3, <2>4, <2>5, <2>6, <2>7, <2>8, <2>10, <3>1
        DEF Proved!Start, Proved!nodeVars, nodeVars
  <2> QED  BY <2>9, <2>10
<1>13. [Proved!Next]_(Proved!vars)
  <2>1. P \in SUBSET Proved!PlaceableAfter(j, {})
    BY <1>12 DEF Proved!Start
  <2> QED  BY <1>12, <2>1 DEF Proved!Next
<1>14. LoopTypes'
  <2>1. /\ status' \in [Jobs -> {"pending", "completed", "rejected"} \cup Active]
        /\ gen' \in [Jobs -> Nat]
        /\ lastStart' \in [Jobs -> Nat \cup {None}]
    BY <1>1, <1>2, <1>5 DEF LoopTypes, Active
  <2>2. /\ now' \in Nat /\ work' \in [Jobs -> Nat] /\ grown' \in [Jobs -> SUBSET GPUs]
        /\ interrupted' \subseteq Jobs /\ pending' \subseteq Jobs /\ suspended' \subseteq Jobs
        /\ target' \in [Jobs -> Jobs \cup {None}]
        /\ reserved' \in [Jobs -> SUBSET GPUs]
        /\ available' \in [Nodes -> BOOLEAN] /\ schedulable' \in [Nodes -> BOOLEAN]
    BY <1>1, <1>2, <1>4 DEF LoopTypes, DropReservations, TargetsWithout, nodeVars
  <2> QED  BY <2>1, <2>2 DEF LoopTypes, Control
<1>15. ArrivalsWait' /\ Gangs'
  <2>1. \A i \in Jobs \ {j} : UNCHANGED <<status[i], alloc[i]>>
    BY <1>1, <1>2 DEF LoopTypes, Types, Holdings, Resize
  <2>2. alloc'[j] = P
    BY <1>1, <1>2 DEF Types, Holdings, Resize
  <2>3. ArrivalsWait'
    BY <1>1, <1>3, <1>9, <2>1 DEF Core, ArrivalsWait, Waiting
  <2>4. Gangs'
    BY <1>1, <2>1, <2>2 DEF Core, Gangs, Fits, SameVendor
  <2> QED  BY <2>3, <2>4
<1>16. History' /\ Clock'
  BY <1>1, <1>2, <1>5 DEF Core, LoopTypes, History, Clock
<1>17. pending \ {j} \subseteq pending'
  BY <1>2
<1> QED  BY <1>9, <1>13, <1>14, <1>15, <1>16, <1>17 DEF Steady

\* A step that moves queued jobs and reservations at most.
LEMMA SteadyKept ==
  ASSUME LifeInv, Control', pc' # "handle" => batch = {},
         UNCHANGED <<scenario, now, heap, batch, jobVars, nodeVars, grown>>,
         pending' \subseteq Jobs, suspended' \subseteq Jobs,
         target' \in [Jobs -> Jobs \cup {None}], reserved' \in [Jobs -> SUBSET GPUs]
  PROVE  Steady'
<1>1. Core /\ LoopTypes
  BY DEF LifeInv, Core
<1>2. Queued' = Queued /\ Waiting' = Waiting
  BY DEF Queued, Waiting
<1>3. EventsTyped' /\ EventsDistinct'
  BY <1>1, <1>2 DEF Core, EventsTyped, EventsDistinct
<1>4. LoopTypes'
  BY <1>1 DEF LoopTypes, jobVars, nodeVars, Control
<1>5. ArrivalsWait' /\ Gangs' /\ History' /\ Clock'
  BY <1>1, <1>2 DEF Core, ArrivalsWait, Gangs, History, Clock, jobVars
<1> QED  BY <1>3, <1>4, <1>5 DEF Steady

\* One attempt of the pass: the job starts, gives its reservation up, or waits.
LEMMA AttemptStep ==
  ASSUME LifeInv, Types', Control', pc # "handle", pc' # "handle", UNCHANGED <<scenario, now, batch, grown>>,
         \A i \in Jobs : grown[i] = {},
         NEW j \in pending, NEW borrowing, NEW P, P = PlaceNow(j, borrowing), StartOrWait(j, P)
  PROVE  [Proved!Next]_(Proved!vars) /\ Steady' /\ pending \ {j} \subseteq pending'
<1>1. Core /\ LoopTypes /\ Types /\ j \in Jobs /\ batch = {}
  BY DEF LifeInv, Inv, Core, LoopTypes, EventsTyped
<1>2. CASE P # {}
  <2>1. StartJob(j, P)
    BY <1>2 DEF StartOrWait, Start
  <2>2. P \subseteq Hosts(j, ViewFor(j)) /\ Fits(j, P)
    BY <1>1, <1>2, FoundNowIs
  <2> QED  BY <2>1, <2>2, StartStep
<1>3. CASE P = {} /\ GivesUp(j)
  <2> DEFINE back == ReturnedVictims({j})
  <2>1. /\ DropReservations({j})
        /\ pending' = pending \cup back
        /\ suspended' = suspended \ back
        /\ UNCHANGED <<heap, jobVars, nodeVars>>
    BY <1>3 DEF StartOrWait, GiveUp
  <2>2. back \subseteq Jobs
    BY <1>1 DEF LoopTypes, ReturnedVictims
  <2>3. Queued' = Queued /\ Waiting' = Waiting
    BY <2>1 DEF Queued, Waiting
  <2>4. Proved!GiveUpReservation(j)
    <3>1. Submitted' = Submitted
      BY <2>1, <2>3, MappingIs DEF jobVars
    <3>2. \A kind \in Timers : \A i \in Jobs : GensIn(Queued, kind, i)' = GensIn(Queued, kind, i)
      BY <2>3 DEF GensIn
    <3>3. Settled = alloc /\ SettledOwner = owner /\ Settled' = alloc' /\ SettledOwner' = owner'
      BY <1>1, NoneGrown
    <3>4. reserved[j] # {} /\ \A g \in reserved[j] : SettledOwner[g] = None
      BY <1>3, <3>3 DEF GivesUp
    <3> QED  BY <2>1, <3>1, <3>2, <3>3, <3>4, SameEvents
      DEF Proved!GiveUpReservation, Proved!DropReservations, Proved!TargetsWithout, Proved!Holders,
          Proved!ReturnedVictims, Proved!jobVars, Proved!eventVars, Proved!nodeVars,
          DropReservations, TargetsWithout, Holders, ReturnedVictims, jobVars, nodeVars
  <2>5. [Proved!Next]_(Proved!vars)
    BY <1>1, <2>4 DEF Proved!Next
  <2>6. /\ pending' \subseteq Jobs /\ suspended' \subseteq Jobs
        /\ target' \in [Jobs -> Jobs \cup {None}] /\ reserved' \in [Jobs -> SUBSET GPUs]
    BY <1>1, <2>1, <2>2 DEF LoopTypes, DropReservations, TargetsWithout
  <2>7. Steady'
    BY <1>1, <2>1, <2>6, SteadyKept
  <2> QED  BY <2>1, <2>5, <2>7
<1>4. CASE P = {} /\ ~GivesUp(j)
  <2>1. UNCHANGED <<heap, jobVars, queueVars, nodeVars>>
    BY <1>4 DEF StartOrWait, NoChange
  <2>2. Queued' = Queued
    BY <2>1 DEF Queued
  <2>3. UNCHANGED Proved!vars
    BY <2>1, <2>2, Unnoticed
  <2>4. /\ pending' \subseteq Jobs /\ suspended' \subseteq Jobs
        /\ target' \in [Jobs -> Jobs \cup {None}] /\ reserved' \in [Jobs -> SUBSET GPUs]
    BY <1>1, <2>1 DEF LoopTypes, queueVars
  <2>5. Steady'
    BY <1>1, <2>1, <2>4, SteadyKept
  <2> QED  BY <2>1, <2>3, <2>5 DEF queueVars
<1> QED  BY <1>2, <1>3, <1>4

\* The invariant is made of the part that does not depend on where the loop is, and the rest.
LEMMA CoreIs == /\ Core <=> Steady /\ Growth /\ Pass /\ Planned
                /\ Core' <=> Steady' /\ Growth' /\ Pass' /\ Planned'
BY DEF Core, Steady

\* The job that is next, and the jobs after it.
LEMMA NextJob ==
  ASSUME LifeInv, NEW j \in Jobs, Next1(j)
  PROVE  /\ j \in pending /\ todo' \in Seq(Jobs) /\ IsInjective(todo') /\ ToSet(todo') = ToSet(todo) \ {j}
         /\ ToSet(todo) \subseteq pending
<1>1. todo \in Seq(Jobs) /\ ToSet(todo) \subseteq pending /\ pending \subseteq Jobs
  BY DEF LifeInv, Core, LoopTypes, Pass
<1>2. j \in ToSet(todo) /\ todo' = SetToSeq(ToSet(todo) \ {j})
  BY DEF Next1, Foremost
<1>3. Lists(todo', ToSet(todo) \ {j})
  <2>1. ToSet(todo) \ {j} \in SUBSET Jobs
    BY <1>1
  <2> QED  BY <1>2, <2>1, ListsOf
<1>4. \A S \in SUBSET Jobs : \A s \in Seq(S) : s \in Seq(Jobs)
  OBVIOUS
<1>5. todo' \in Seq(Jobs)
  <2>1. ToSet(todo) \ {j} \in SUBSET Jobs /\ todo' \in Seq(ToSet(todo) \ {j})
    BY <1>1, <1>3 DEF Lists
  <2> QED  BY <1>4, <2>1
<1> QED  BY <1>1, <1>2, <1>3, <1>5 DEF Lists

\* While a pass is under way no job grows, and no event waits to be handled.
LEMMA Passing ==
  ASSUME LifeInv, pc \in {"guarantee", "dispatch", "commit", "retry", "resume"}
  PROVE  /\ Core /\ LoopTypes /\ Types /\ batch = {} /\ pc # "handle"
         /\ \A i \in Jobs : grown[i] = {}
         /\ grown' = grown => Growth'
<1>1. Core /\ LoopTypes /\ Types
  BY DEF LifeInv, Inv, Core
<1>2. batch = {} /\ \A i \in Jobs : grown[i] = {}
  BY <1>1 DEF Core, EventsTyped, Growth
<1>3. grown' = grown => Growth'
  BY <1>2 DEF Growth
<1> QED  BY <1>1, <1>2, <1>3

\* The guarantee pass, and the attempts of the jobs that were queued during the pass.
LEMMA TryStep ==
  ASSUME LifeInv, Types', TryGuaranteed \/ Resume
  PROVE  [Proved!Next]_(Proved!vars) /\ Core'
<1>1. /\ pc \in {"guarantee", "resume"} /\ UNCHANGED <<scenario, now, pc, batch, initial, plan, grown>>
      /\ \E j \in Jobs : \E borrowing \in {FALSE, Borrowing} : \E P \in {PlaceNow(j, borrowing)} : StartOrWait(j, P)
           /\ (Next1(j) \/ (j = Head(todo) /\ todo # <<>> /\ todo' = Tail(todo)))
  BY DEF TryGuaranteed, Resume, stepVars
<1>2. /\ Core /\ LoopTypes /\ Types /\ batch = {} /\ pc # "handle"
      /\ \A i \in Jobs : grown[i] = {}
      /\ Growth'
  BY <1>1, Passing
<1>3. PICK j \in Jobs, borrowing \in {FALSE, Borrowing} :
        /\ StartOrWait(j, PlaceNow(j, borrowing))
        /\ (Next1(j) \/ (j = Head(todo) /\ todo # <<>> /\ todo' = Tail(todo)))
  BY <1>1
<1>4. /\ j \in pending /\ todo' \in Seq(Jobs) /\ IsInjective(todo') /\ ToSet(todo') = ToSet(todo) \ {j}
      /\ ToSet(todo) \subseteq pending
  <2>1. CASE Next1(j)
    BY <2>1, NextJob
  <2>2. CASE j = Head(todo) /\ todo # <<>> /\ todo' = Tail(todo)
    <3>1. todo \in Seq(Jobs) /\ IsInjective(todo) /\ ToSet(todo) \subseteq pending
      BY <1>2 DEF Core, LoopTypes, Pass
    <3> QED  BY <2>2, <3>1, ListTail
  <2> QED  BY <1>3, <2>1, <2>2
<1>5. Control'
  BY <1>1, <1>2, <1>4 DEF LoopTypes, Control
<1> DEFINE P == PlaceNow(j, borrowing)
<1>6. P = PlaceNow(j, borrowing) /\ StartOrWait(j, P)
  BY <1>3
<1> HIDE DEF P
<1>7. pc # "handle" /\ pc' # "handle" /\ UNCHANGED <<scenario, now, batch, grown>>
  BY <1>1
<1>8. [Proved!Next]_(Proved!vars) /\ Steady' /\ pending \ {j} \subseteq pending'
  BY <1>2, <1>4, <1>5, <1>6, <1>7, AttemptStep
<1>9. Pass'
  BY <1>1, <1>4, <1>8 DEF Pass
<1>10. Planned'
  BY <1>1, <1>2 DEF Core, Planned
<1> QED  BY <1>2, <1>8, <1>9, <1>10, CoreIs

-----------------------------------------------------------------------------
(* Plans.                                                                  *)

\* The queues above a queue, and those a reclaim is made for, are queues.
LEMMA ClaimIs ==
  ASSUME Types, NEW j \in Jobs, NEW h \in Jobs
  PROVE  ClaimOf(j, h) \subseteq Queues
<1>1. QueueOf(h) \in Queues
  BY ScenarioAssumption DEF Types, QueueOf
<1>2. Ancestors(QueueOf(h)) \subseteq Queues
  <2>1. Path[QueueOf(h)] \in Seq(Queues)
    BY <1>1, HierarchyAssumption
  <2> QED  BY <2>1 DEF Ancestors
<1>3. \A b \in Boundary(QueueOf(j), QueueOf(h)) : b[2] \in Ancestors(QueueOf(h))
  BY DEF Boundary
<1> QED  BY <1>2, <1>3 DEF ClaimOf

\* A plan takes whole jobs from its victims, and from the others GPUs of one vendor only,
\* running elastic ones that keep enough of them. Its placement is what the incoming job
\* would find then.
Drafted(h, w, p) ==
  /\ p.alloc \in Holdings /\ p.victims \subseteq Jobs /\ p.queues \subseteq Queues
  /\ \A v \in p.victims : status[v] = "running" /\ p.alloc[v] = {}
  /\ \A v \in Jobs \ p.victims :
       /\ p.alloc[v] \subseteq OfVendor(alloc[v], w)
       /\ p.alloc[v] # OfVendor(alloc[v], w) =>
            v \in ElasticJobs /\ status[v] = "running" /\ Cardinality(p.alloc[v]) >= MinReplicas[v]
  /\ \E usage : p.placement = TargetPlacement(h, w, p.alloc, usage, p.queues)

\* A shrink keeps a plan so.
LEMMA ShrinkDrafts ==
  ASSUME Types, NEW h \in Jobs, NEW w, NEW p, Drafted(h, w, p)
  PROVE  Drafted(h, w, Shrink(h, w, p))
<1> DEFINE best == Least(DOMAIN ShrinkKeys(h, p), ShrinkKeys(h, p))
           keys(j, g) == Append(p.keys, <<j, <<runningPriority[j], 0, RemainingTime(j),
                                            Disruption(j), j, g>>>>)
           After(j, g) ==
             Projection(h, w, [p.alloc EXCEPT ![j] = @ \ {g}], p.victims,
                        p.queues \cup ClaimOf(j, h), keys(j, g))
<1>1. Shrink(h, w, p) = IF p.placement # {} \/ best = {} THEN p
                        ELSE CHOOSE q \in {After(a[1], a[2]) : a \in best} : TRUE
  BY DEF Shrink
<1>2. \A j, g : /\ After(j, g).alloc = [p.alloc EXCEPT ![j] = @ \ {g}]
                /\ After(j, g).victims = p.victims /\ After(j, g).queues = p.queues \cup ClaimOf(j, h)
                /\ \E usage : After(j, g).placement =
                                TargetPlacement(h, w, After(j, g).alloc, usage, After(j, g).queues)
  BY DEF Projection
<1>3. best \subseteq ShrinkActions(h, p)
  BY DEF Least, First, ShrinkKeys
<1>4. ASSUME NEW a \in ShrinkActions(h, p) PROVE Drafted(h, w, After(a[1], a[2]))
  <2> DEFINE j == a[1]
             g == a[2]
             q == After(j, g)
  <2>1. /\ j \in ElasticJobs /\ j \in Jobs /\ status[j] = "running" /\ g \in p.alloc[j]
        /\ Cardinality(p.alloc[j]) > MinReplicas[j]
    BY LoopAssumption DEF ShrinkActions
  <2>2. /\ q.alloc = [p.alloc EXCEPT ![j] = @ \ {g}] /\ q.victims = p.victims
        /\ q.queues = p.queues \cup ClaimOf(j, h)
        /\ \E usage : q.placement = TargetPlacement(h, w, q.alloc, usage, q.queues)
    BY <1>2
  <2> HIDE DEF q, After
  <2>3. p.alloc[j] \in SUBSET GPUs /\ j \notin p.victims
    BY <2>1 DEF Drafted, Holdings
  <2>4. Cardinality(p.alloc[j] \ {g}) >= MinReplicas[j]
    <3>1. MinReplicas[j] \in Nat /\ Cardinality(p.alloc[j]) \in Nat
      BY <2>1, <2>3, LoopAssumption, GpuSetsFinite
    <3>2. Cardinality(p.alloc[j] \ {g}) = Cardinality(p.alloc[j]) - 1
      BY <2>1, <2>3, GpuSetsFinite, FS_RemoveElement
    <3> QED  BY <2>1, <3>1, <3>2
  <2>5. q.alloc \in Holdings /\ q.queues \subseteq Queues /\ q.victims \subseteq Jobs
    BY <2>1, <2>2, ClaimIs DEF Drafted, Holdings
  <2>6. q.alloc[j] = p.alloc[j] \ {g} /\ \A v \in Jobs \ {j} : q.alloc[v] = p.alloc[v]
    BY <2>1, <2>2 DEF Drafted, Holdings
  <2>7. \A v \in q.victims : status[v] = "running" /\ q.alloc[v] = {}
    BY <2>2, <2>3, <2>6 DEF Drafted
  <2>8. ASSUME NEW v \in Jobs \ q.victims
        PROVE  /\ q.alloc[v] \subseteq OfVendor(alloc[v], w)
               /\ q.alloc[v] # OfVendor(alloc[v], w) =>
                    v \in ElasticJobs /\ status[v] = "running" /\ Cardinality(q.alloc[v]) >= MinReplicas[v]
    <3>1. CASE v = j
      BY <2>1, <2>2, <2>4, <2>6, <3>1 DEF Drafted
    <3>2. CASE v # j
      BY <2>2, <2>6, <3>2 DEF Drafted
    <3> QED  BY <3>1, <3>2
  <2>9. Drafted(h, w, q)
    BY <2>2, <2>5, <2>7, <2>8 DEF Drafted
  <2> QED  BY <2>9 DEF q
<1> HIDE DEF After, best
<1> QED  BY <1>1, <1>3, <1>4

\* So does an eviction.
LEMMA EvictDrafts ==
  ASSUME Types, NEW h \in Jobs, NEW w, NEW p, Drafted(h, w, p)
  PROVE  Drafted(h, w, Evict(h, w, p))
<1> DEFINE best == Least(DOMAIN EvictKeys(h, p), EvictKeys(h, p))
           keys(j) == Append(SelectSeq(p.keys, LAMBDA k : k[1] # j),
                             <<j, <<runningPriority[j], 1, RemainingTime(j), Disruption(j), j>>>>)
           After(j) ==
             Projection(h, w, [p.alloc EXCEPT ![j] = {}], p.victims \cup {j},
                        p.queues \cup ClaimOf(j, h), keys(j))
<1>1. Evict(h, w, p) = IF p.placement # {} \/ best = {} THEN p
                       ELSE CHOOSE q \in {After(j) : j \in best} : TRUE
  BY DEF Evict
<1>2. \A j : /\ After(j).alloc = [p.alloc EXCEPT ![j] = {}]
             /\ After(j).victims = p.victims \cup {j} /\ After(j).queues = p.queues \cup ClaimOf(j, h)
             /\ \E usage : After(j).placement = TargetPlacement(h, w, After(j).alloc, usage, After(j).queues)
  BY DEF Projection
<1>3. best \subseteq EvictActions(h, p)
  BY DEF Least, First, EvictKeys
<1>4. ASSUME NEW j \in EvictActions(h, p) PROVE Drafted(h, w, After(j))
  <2> DEFINE q == After(j)
  <2>1. j \in Jobs /\ status[j] = "running"
    BY DEF EvictActions
  <2>2. /\ q.alloc = [p.alloc EXCEPT ![j] = {}] /\ q.victims = p.victims \cup {j}
        /\ q.queues = p.queues \cup ClaimOf(j, h)
        /\ \E usage : q.placement = TargetPlacement(h, w, q.alloc, usage, q.queues)
    BY <1>2
  <2> HIDE DEF q, After
  <2>3. q.alloc \in Holdings /\ q.queues \subseteq Queues /\ q.victims \subseteq Jobs
    BY <2>1, <2>2, ClaimIs DEF Drafted, Holdings
  <2>4. q.alloc[j] = {} /\ \A v \in Jobs \ {j} : q.alloc[v] = p.alloc[v]
    BY <2>1, <2>2 DEF Drafted, Holdings
  <2>5. \A v \in q.victims : status[v] = "running" /\ q.alloc[v] = {}
    BY <2>1, <2>2, <2>4 DEF Drafted
  <2>6. \A v \in Jobs \ q.victims : v \in Jobs \ p.victims /\ q.alloc[v] = p.alloc[v]
    BY <2>2, <2>4
  <2>7. Drafted(h, w, q)
    BY <2>2, <2>3, <2>5, <2>6 DEF Drafted
  <2> QED  BY <2>7 DEF q
<1> HIDE DEF After, best
<1> QED  BY <1>1, <1>3, <1>4

\* And any number of actions.
LEMMA ActsDraft ==
  ASSUME Types, NEW shrinking \in BOOLEAN, NEW h \in Jobs, NEW w, NEW p, Drafted(h, w, p),
         NEW f, Acts(f, Nat, shrinking, h, w, p), NEW n \in Nat
  PROVE  Drafted(h, w, f[n])
<1> DEFINE B == {i \in Nat : ~Drafted(h, w, f[i])}
<1> SUFFICES ASSUME B # {} PROVE FALSE
  OBVIOUS
<1>1. PICK i \in B : \A l \in B : i <= l
  <2>1. B \in SUBSET Nat
    OBVIOUS
  <2> HIDE DEF B
  <2> QED  BY <2>1, LeastNumber
<1>2. f[i] = IF i = 0 THEN p ELSE Act(shrinking, h, w, f[i - 1])
  BY ActsAt
<1>3. i # 0
  BY <1>1, <1>2
<1>4. i - 1 \in Nat /\ ~ i <= i - 1
  BY <1>3
<1>5. Drafted(h, w, f[i - 1])
  BY <1>1, <1>4
<1>6. Drafted(h, w, Act(shrinking, h, w, f[i - 1]))
  BY <1>5, ShrinkDrafts, EvictDrafts DEF Act
<1> QED  BY <1>1, <1>2, <1>3, <1>6

\* Every plan is so.
LEMMA PlanDrafts ==
  ASSUME Types, NEW h \in Jobs, NEW w
  PROVE  Drafted(h, w, PlanOf(h, w))
<1> DEFINE p == Projection(h, w, [j \in Jobs |-> OfVendor(alloc[j], w)], {}, {}, <<>>)
           S == CHOOSE f : Acts(f, Nat, TRUE, h, w, p)
           q == S[Cardinality(GPUs)]
           E == CHOOSE f : Acts(f, Nat, FALSE, h, w, q)
<1>1. Drafted(h, w, p)
  <2>1. /\ p.alloc = [j \in Jobs |-> OfVendor(alloc[j], w)] /\ p.victims = {} /\ p.queues = {}
        /\ \E usage : p.placement = TargetPlacement(h, w, p.alloc, usage, p.queues)
    BY DEF Projection
  <2> HIDE DEF p
  <2> QED  BY <2>1 DEF Drafted, Types, Holdings, OfVendor
<1>2. Cardinality(GPUs) \in Nat /\ Cardinality(Jobs) \in Nat
  BY PlacementAssumption, FS_CardinalityType
<1>3. PlanOf(h, w) = E[Cardinality(Jobs)]
  BY DEF PlanOf, Acts, Act
<1> HIDE DEF p
<1>4. Acts(S, Nat, TRUE, h, w, p)
  BY ActsExist
<1> HIDE DEF S
<1>5. Drafted(h, w, q)
  BY <1>1, <1>2, <1>4, ActsDraft
<1> HIDE DEF q
<1>6. Acts(E, Nat, FALSE, h, w, q)
  BY ActsExist
<1> HIDE DEF E
<1>7. Drafted(h, w, E[Cardinality(Jobs)])
  BY <1>2, <1>5, <1>6, ActsDraft
<1> QED  BY <1>3, <1>7

\* The placement of a plan is a gang of GPUs of the plan's vendor that no job would hold.
LEMMA TargetPlacementIs ==
  ASSUME NEW h \in Jobs, NEW w, NEW a, NEW usage, NEW queues,
         NEW P, P = TargetPlacement(h, w, a, usage, queues), P # {}
  PROVE  /\ Fits(h, P)
         /\ \A g \in P : /\ g \in UsableGpus /\ VendorOf[g] = w
                         /\ g \notin ReservedElsewhere(h) /\ \A j \in Jobs : g \notin a[j]
<1> DEFINE held == UNION {a[j] : j \in Jobs}
           view == [gpus |-> OfVendor(UsableGpus, w), occupied |-> OfVendor(held \cup ReservedElsewhere(h), w)]
           X == QuotaPlace(h, view, usage, Borrowing)
           C(R) == Covered(h, R, usage, queues)
<1>1. P = UNION {R \in {QuotaPlace(h, v, usage, Borrowing) : v \in {view}} : C(R)}
  BY DEF TargetPlacement
<1>2. P = X
  <2>1. {QuotaPlace(h, v, usage, Borrowing) : v \in {view}} = {X}
    OBVIOUS
  <2>2. P = UNION {R \in {X} : C(R)}
    BY <1>1, <2>1
  <2> HIDE DEF X, C
  <2> QED  BY <2>2
<1> HIDE DEF view, held
<1>3. P \subseteq Hosts(h, view) /\ Fits(h, P)
  BY <1>2, FoundIs
<1>4. Hosts(h, view) \subseteq {g \in OfVendor(UsableGpus, w) : g \notin OfVendor(held \cup ReservedElsewhere(h), w)}
  BY DEF Hosts, view
<1> QED  BY <1>3, <1>4 DEF OfVendor, held

\* What is committed to of a plan: shrinks that leave gangs, victims that run, and a gang for
\* the incoming job of GPUs that are free or held by those.
LEMMA CommitmentIs ==
  ASSUME LifeInv, NEW h \in Jobs, NEW p \in Best(Plans(h)), NEW c, c = Commitment(h, p)
  PROVE  /\ c \in Plannings /\ c.target = h
         /\ \A v \in c.victims : status[v] = "running"
         /\ \A v \in c.shrink :
              /\ status[v] = "running" /\ v \notin c.victims
              /\ c.alloc[v] \subseteq alloc[v] /\ c.alloc[v] # alloc[v] /\ Fits(v, c.alloc[v])
         /\ Fits(h, c.placement)
         /\ \A g \in c.placement :
              /\ Usable(NodeOf[g]) /\ g \notin ReservedElsewhere(h)
              /\ owner[g] \in c.victims \cup c.shrink \cup {None}
              /\ \A v \in c.shrink : g \notin c.alloc[v]
<1>1. Core /\ LoopTypes /\ Types /\ Owned
  BY DEF LifeInv, Inv, Core
<1>2. p \in Plans(h)
  BY DEF Best, Least, First
<1>3. PICK w : p = PlanOf(h, w)
  BY <1>2 DEF Plans
<1>4. p.placement # {} /\ Drafted(h, w, p)
  BY <1>1, <1>2, <1>3, PlanDrafts DEF Plans
<1>5. /\ c.target = h /\ c.alloc = p.alloc /\ c.victims = p.victims /\ c.queues = p.queues
      /\ c.placement = p.placement
      /\ c.shrink = {v \in Jobs \ p.victims : p.alloc[v] \notin {{}, alloc[v]}}
      /\ c = [target |-> c.target, alloc |-> c.alloc, victims |-> c.victims, queues |-> c.queues,
              placement |-> c.placement, shrink |-> c.shrink]
  BY DEF Commitment
<1>6. /\ Fits(h, p.placement)
      /\ \A g \in p.placement : /\ g \in UsableGpus /\ VendorOf[g] = w
                                /\ g \notin ReservedElsewhere(h) /\ \A j \in Jobs : g \notin p.alloc[j]
  <2>1. PICK usage : p.placement = TargetPlacement(h, w, p.alloc, usage, p.queues)
    BY <1>4 DEF Drafted
  <2> DEFINE P == p.placement
  <2>2. P = TargetPlacement(h, w, p.alloc, usage, p.queues) /\ P # {}
    BY <1>4, <2>1
  <2> HIDE DEF P
  <2>3. /\ Fits(h, P)
        /\ \A g \in P : /\ g \in UsableGpus /\ VendorOf[g] = w
                        /\ g \notin ReservedElsewhere(h) /\ \A j \in Jobs : g \notin p.alloc[j]
    BY <2>2, TargetPlacementIs
  <2> QED  BY <2>3 DEF P
<1>7. c \in Plannings
  <2>1. c.placement \in SUBSET GPUs
    BY <1>5, <1>6, FitsIs
  <2>2. c.shrink \in SUBSET Jobs /\ c.target \in Jobs \cup {None}
    BY <1>5
  <2>3. c.alloc \in Holdings /\ c.victims \in SUBSET Jobs /\ c.queues \in SUBSET Queues
    BY <1>4, <1>5 DEF Drafted
  <2> QED  BY <1>5, <2>1, <2>2, <2>3 DEF Plannings
<1>8. ASSUME NEW v \in c.shrink
      PROVE  /\ status[v] = "running" /\ v \notin c.victims
             /\ c.alloc[v] \subseteq alloc[v] /\ c.alloc[v] # alloc[v] /\ Fits(v, c.alloc[v])
  <2>1. v \in Jobs \ p.victims /\ p.alloc[v] # {} /\ p.alloc[v] # alloc[v]
    BY <1>5, <1>8
  <2>2. /\ p.alloc[v] \subseteq OfVendor(alloc[v], w)
        /\ p.alloc[v] # OfVendor(alloc[v], w) =>
             v \in ElasticJobs /\ status[v] = "running" /\ Cardinality(p.alloc[v]) >= MinReplicas[v]
    BY <1>4, <2>1 DEF Drafted
  <2>3. status[v] \in Active /\ Fits(v, alloc[v])
    BY <1>1, <2>1, <2>2, Plain DEF Holding, OfVendor, Core, Gangs
  <2>4. OfVendor(alloc[v], w) = alloc[v]
    BY <2>1, <2>2, <2>3 DEF OfVendor, Fits, SameVendor
  <2>5. Fits(v, p.alloc[v])
    <3>1. p.alloc[v] \in SUBSET alloc[v]
      BY <2>2, <2>4
    <3> QED  BY <2>1, <2>2, <2>3, <2>4, <3>1, SmallerGang
  <2> QED  BY <1>5, <2>1, <2>2, <2>4, <2>5
<1>9. ASSUME NEW g \in c.placement
      PROVE  /\ Usable(NodeOf[g]) /\ g \notin ReservedElsewhere(h)
             /\ owner[g] \in c.victims \cup c.shrink \cup {None}
             /\ \A v \in c.shrink : g \notin c.alloc[v]
  <2>1. /\ g \in UsableGpus /\ VendorOf[g] = w /\ g \notin ReservedElsewhere(h)
        /\ \A j \in Jobs : g \notin p.alloc[j]
    BY <1>5, <1>6, <1>9
  <2>2. g \in GPUs /\ Usable(NodeOf[g])
    BY <2>1 DEF UsableGpus
  <2>3. ASSUME owner[g] # None, owner[g] \notin p.victims
        PROVE  owner[g] \in c.shrink
    <3> DEFINE v == owner[g]
    <3>1. v \in Jobs \ p.victims /\ g \in alloc[v]
      BY <1>1, <2>2, <2>3 DEF Types, Owned
    <3> HIDE DEF v
    <3>2. g \in OfVendor(alloc[v], w) /\ g \notin p.alloc[v]
      BY <2>1, <3>1 DEF OfVendor
    <3>3. Cardinality(p.alloc[v]) >= MinReplicas[v] /\ p.alloc[v] \in SUBSET GPUs
      BY <1>4, <3>1, <3>2 DEF Drafted, Holdings
    <3>4. p.alloc[v] # {}
      <4>1. Cardinality({}) = 0 /\ MinReplicas[v] \in Nat \ {0}
        BY <3>1, LoopAssumption, FS_EmptySet
      <4> QED  BY <3>3, <4>1
    <3>5. v \in c.shrink
      BY <1>5, <3>1, <3>2, <3>4
    <3> QED  BY <3>5 DEF v
  <2> QED  BY <1>5, <2>1, <2>2, <2>3
<1>10. \A v \in c.victims : status[v] = "running"
  BY <1>4, <1>5 DEF Drafted
<1>11. Fits(h, c.placement)
  BY <1>5, <1>6
<1> HIDE DEF Plannings
<1> QED  BY <1>5, <1>7, <1>8, <1>9, <1>10, <1>11

\* A job has its attempt in the borrowing pass, or a reclaim is planned for it.
LEMMA BorrowStep ==
  ASSUME LifeInv, Types', TryBorrowing
  PROVE  [Proved!Next]_(Proved!vars) /\ Core'
<1>1. PICK j \in Jobs :
        /\ Next1(j)
        /\ \E P \in {PlaceNow(j, Borrowing)} :
             \/ /\ P # {} \/ ~MayReclaim(j)
                /\ StartOrWait(j, P)
                /\ UNCHANGED <<pc, plan>>
             \/ /\ P = {} /\ MayReclaim(j)
                /\ Prepare(alloc)
                /\ \E plans \in {Plans(j)} :
                     \/ plans = {} /\ UNCHANGED <<pc, plan>>
                     \/ /\ \E p \in Best(plans) : plan' = Commitment(j, p)
                        /\ pc' = "commit"
                /\ UNCHANGED <<heap, jobVars, queueVars, nodeVars, entitled>>
  BY DEF TryBorrowing
<1>2. pc = "dispatch" /\ UNCHANGED <<scenario, now, batch, initial, lastResize, grown>>
  BY DEF TryBorrowing
<1>3. /\ Core /\ LoopTypes /\ Types /\ batch = {} /\ pc # "handle"
      /\ \A i \in Jobs : grown[i] = {}
      /\ Growth'
  BY <1>2, Passing
<1>4. /\ j \in pending /\ todo' \in Seq(Jobs) /\ IsInjective(todo') /\ ToSet(todo') = ToSet(todo) \ {j}
      /\ ToSet(todo) \subseteq pending
  BY <1>1, NextJob
<1>5. ASSUME NEW P, P = PlaceNow(j, Borrowing), StartOrWait(j, P), UNCHANGED <<pc, plan>>
      PROVE  [Proved!Next]_(Proved!vars) /\ Core'
  <2>1. Control' /\ pc' # "handle"
    BY <1>2, <1>3, <1>4, <1>5 DEF LoopTypes, Control
  <2>2. [Proved!Next]_(Proved!vars) /\ Steady' /\ pending \ {j} \subseteq pending'
    BY <1>2, <1>3, <1>4, <1>5, <2>1, AttemptStep
  <2>3. Pass'
    BY <1>2, <1>4, <1>5, <2>2 DEF Pass
  <2>4. Planned'
    BY <1>2, <1>3, <1>5 DEF Core, Planned
  <2> QED  BY <1>3, <2>2, <2>3, <2>4, CoreIs
<1>6. ASSUME UNCHANGED <<heap, jobVars, queueVars, nodeVars>>, pc' \in {"dispatch", "commit"},
             plan' \in Plannings, Planned'
      PROVE  [Proved!Next]_(Proved!vars) /\ Core'
  <2>1. Pass'
    BY <1>2, <1>4, <1>6 DEF Pass, queueVars
  <2>2. pc' # "handle" => batch = {}
    BY <1>3
  <2>3. initial' \subseteq Jobs
    BY <1>2, <1>3 DEF LoopTypes
  <2> QED  BY <1>2, <1>3, <1>4, <1>6, <2>1, <2>2, <2>3, QuietStep
<1>7. ASSUME UNCHANGED <<heap, jobVars, queueVars, nodeVars>>, UNCHANGED <<pc, plan>>
      PROVE  [Proved!Next]_(Proved!vars) /\ Core'
  <2>1. plan' \in Plannings /\ Planned'
    BY <1>2, <1>3, <1>7 DEF LoopTypes, Core, Planned
  <2> QED  BY <1>2, <1>6, <1>7, <2>1
<1>8. ASSUME UNCHANGED <<heap, jobVars, queueVars, nodeVars>>, pc' = "commit",
             NEW p \in Best(Plans(j)), plan' = Commitment(j, p)
      PROVE  [Proved!Next]_(Proved!vars) /\ Core'
  <2>1. /\ plan' \in Plannings /\ plan'.target = j
        /\ \A v \in plan'.victims : status[v] = "running"
        /\ \A v \in plan'.shrink :
             /\ status[v] = "running" /\ v \notin plan'.victims
             /\ plan'.alloc[v] \subseteq alloc[v] /\ plan'.alloc[v] # alloc[v] /\ Fits(v, plan'.alloc[v])
        /\ Fits(j, plan'.placement)
        /\ \A g \in plan'.placement :
             /\ Usable(NodeOf[g]) /\ g \notin ReservedElsewhere(j)
             /\ owner[g] \in plan'.victims \cup plan'.shrink \cup {None}
             /\ \A v \in plan'.shrink : g \notin plan'.alloc[v]
    BY <1>8, CommitmentIs
  <2>2. UNCHANGED <<status, alloc, owner, available, schedulable, reserved, pending>>
    BY <1>8 DEF jobVars, queueVars, nodeVars
  <2>3. plan'.target \in pending' \ ToSet(todo')
    BY <1>4, <2>1, <2>2
  <2>4. \A v \in plan'.shrink : Shrinks(v)'
    BY <2>1, <2>2 DEF Shrinks, Fits, SameVendor
  <2>5. Fits(plan.target, plan.placement)'
    BY <2>1 DEF Fits, SameVendor
  <2>6. \A g \in plan'.placement :
             /\ Usable(NodeOf[g])' /\ g \notin ReservedElsewhere(plan.target)'
             /\ owner'[g] \in plan'.victims \cup plan'.shrink \cup {None}
             /\ \A v \in plan'.shrink : g \notin plan'.alloc[v]
    BY <2>1, <2>2 DEF Usable, ReservedElsewhere
  <2>7. Planned'
    BY <1>8, <2>1, <2>2, <2>3, <2>4, <2>5, <2>6 DEF Planned
  <2> QED  BY <1>6, <1>8, <2>1, <2>7
<1> QED  BY <1>1, <1>5, <1>7, <1>8

\* A running job gets other GPUs, in the eyes of the lifecycle, and a new generation.
LEMMA ResizeStep ==
  ASSUME LifeInv, Types', Control', pc # "handle", pc' # "handle",
         UNCHANGED <<scenario, now, batch, status, interrupted, queueVars, nodeVars>>,
         grown' \in [Jobs -> SUBSET GPUs],
         NEW j \in Jobs, status[j] = "running", NEW P, Fits(j, P), NEW w \in Nat,
         Reschedule(j, P, w),
         alloc'[j] = P, \A i \in Jobs \ {j} : alloc'[i] = alloc[i],
         P # Settled[j], P \subseteq Settled[j] \/ Settled[j] \subseteq P,
         \A g \in P \ Settled[j] :
           SettledOwner[g] = None /\ Usable(NodeOf[g]) /\ g \notin ReservedElsewhere(j),
         Settled' = [Settled EXCEPT ![j] = P],
         SettledOwner' = [g \in GPUs |-> IF g \in P THEN j
                                         ELSE IF g \in Settled[j] THEN None ELSE SettledOwner[g]]
  PROVE  [Proved!Next]_(Proved!vars) /\ Steady'
<1> DEFINE timer == Completion(j, w, Cardinality(P), gen[j] + 1)
<1>1. Core /\ LoopTypes /\ Types
  BY DEF LifeInv, Inv, Core
<1>2. /\ work' = [work EXCEPT ![j] = w]
      /\ lastStart' = [lastStart EXCEPT ![j] = now]
      /\ gen' = [gen EXCEPT ![j] = @ + 1]
      /\ heap' = heap \cup {timer}
  BY DEF Reschedule
<1>3. j \notin Waiting
  BY <1>1 DEF Core, ArrivalsWait
<1>4. gen[j] \in Nat /\ now \in Nat /\ P \in SUBSET GPUs /\ Cardinality(P) \in Nat \ {0}
  BY <1>1, FitsIs DEF LoopTypes
<1>5. /\ timer.time \in Nat /\ now <= timer.time /\ timer.id = j /\ timer.gen = gen[j] + 1
      /\ timer.kind = "JOB_COMPLETE"
  BY <1>1, <1>4, CompletionIs
<1>6. /\ EventsTyped' /\ EventsDistinct' /\ Waiting' = Waiting
      /\ \A kind \in Timers : \A i \in Jobs :
           GensIn(Queued, kind, i)' = IF kind = "JOB_COMPLETE" /\ i = j THEN GensIn(Queued, kind, i) \cup {gen[j] + 1}
                                      ELSE GensIn(Queued, kind, i)
  <2> HIDE DEF timer
  <2>1. "JOB_COMPLETE" \in Timers
    BY DEF Timers
  <2> QED  BY <1>1, <1>2, <1>5, <2>1, NextIsNew, PushingOne
<1> HIDE DEF timer
<1>7. Proved!Resize(j, P)
  <2>1. Submitted' = Submitted /\ Submitted[j] = "running"
    BY <1>3, <1>6, MappingIs
  <2>2. P \ Settled[j] \subseteq Proved!PlaceableAfter(j, {})
    BY DEF Proved!PlaceableAfter, Proved!Usable, Usable, Proved!ReservedElsewhere, ReservedElsewhere, Fits
  <2>3. Proved!IsGang(j, P)
    BY GangIs
  <2>4. Proved!NextGeneration(j) = gen[j] + 1 /\ gen[j] + 1 \in Nat
    BY <1>4 DEF Proved!NextGeneration
  <2>5. gen' = [gen EXCEPT ![j] = Proved!NextGeneration(j)]
    BY <1>2, <2>4
  <2>6. UNCHANGED <<Generations("JOB_CHECKPOINT_COMPLETE"), Generations("JOB_RESTART_COMPLETE")>>
    BY <1>6, MappingIs DEF Timers
  <2>7. Generations("JOB_COMPLETE")' =
          [Generations("JOB_COMPLETE") EXCEPT ![j] = @ \cup {Proved!NextGeneration(j)}]
    BY <1>6, <2>4, MappingIs DEF Timers
  <2> QED  BY <2>1, <2>2, <2>3, <2>4, <2>5, <2>6, <2>7
        DEF Proved!Resize, Proved!nodeVars, nodeVars, Proved!queueVars, queueVars
<1>8. [Proved!Next]_(Proved!vars)
  BY <1>7 DEF Proved!Next, Proved!Resize, Fits, Compatible
<1>9. LoopTypes'
  <2>1. /\ gen' \in [Jobs -> Nat] /\ work' \in [Jobs -> Nat]
        /\ lastStart' \in [Jobs -> Nat \cup {None}]
    BY <1>1, <1>2, <1>4 DEF LoopTypes
  <2> QED  BY <1>1, <2>1 DEF LoopTypes, Control, queueVars, nodeVars
<1>10. ArrivalsWait' /\ Gangs'
  BY <1>1, <1>6 DEF Core, ArrivalsWait, Gangs, Fits, SameVendor
<1>11. History' /\ Clock'
  BY <1>1, <1>2, <1>4 DEF Core, LoopTypes, History, Clock
<1> QED  BY <1>6, <1>8, <1>9, <1>10, <1>11 DEF Steady

\* A shrink of the plan is committed.
LEMMA ShrinkStep ==
  ASSUME LifeInv, Types', CommitShrink
  PROVE  [Proved!Next]_(Proved!vars) /\ Core'
<1> DEFINE j == Min(plan.shrink)
           P == plan.alloc[j]
<1>1. /\ pc = "commit" /\ plan.shrink # {}
      /\ Resize(j, P) /\ Reschedule(j, P, Accrued(j))
      /\ plan' = [plan EXCEPT !.shrink = @ \ {j}]
      /\ UNCHANGED <<scenario, now, pc, batch, passVars, status, runningPriority, interrupted,
                     queueVars, nodeVars, shareVars, grown>>
  BY DEF CommitShrink
<1>2. /\ Core /\ LoopTypes /\ Types /\ batch = {} /\ pc # "handle"
      /\ \A i \in Jobs : grown[i] = {}
      /\ Growth'
  BY <1>1, Passing
<1>3. plan \in Plannings /\ Planned
  BY <1>2 DEF LoopTypes, Core
<1>4. j \in plan.shrink /\ j \in Jobs
  <2>1. plan.shrink \in SUBSET Jobs
    BY <1>3 DEF Plannings
  <2>2. plan.shrink \in SUBSET Nat
    BY <2>1, PlacementAssumption
  <2> QED  BY <1>1, <2>1, <2>2, MinIn
<1>5. /\ status[j] = "running" /\ j \notin plan.victims
      /\ P \subseteq alloc[j] /\ P # alloc[j] /\ Fits(j, P)
  BY <1>1, <1>3, <1>4 DEF Planned, Shrinks
<1>6. /\ plan' = [target |-> plan.target, alloc |-> plan.alloc, victims |-> plan.victims, queues |-> plan.queues,
                  placement |-> plan.placement, shrink |-> plan.shrink \ {j}]
      /\ plan' \in Plannings
  <2> HIDE DEF j
  <2> QED  BY <1>1, <1>3 DEF Plannings
<1>7. Control' /\ todo' = todo
  BY <1>1, <1>2, <1>6 DEF LoopTypes, Control, passVars
<1> HIDE DEF j, P
<1>8. Settled = alloc /\ SettledOwner = owner /\ Settled' = alloc' /\ SettledOwner' = owner'
  BY <1>1, <1>2, NoneGrown
<1>9. /\ alloc' = [alloc EXCEPT ![j] = P]
      /\ owner' = [g \in GPUs |-> IF g \in P THEN j ELSE IF g \in alloc[j] THEN None ELSE owner[g]]
  BY <1>1, <1>4 DEF Resize, LifeInv, Inv, Owned
<1>10. alloc'[j] = P /\ \A i \in Jobs \ {j} : alloc'[i] = alloc[i]
  BY <1>2, <1>4, <1>9 DEF Types, Holdings
<1>11. [Proved!Next]_(Proved!vars) /\ Steady'
  <2>1. Accrued(j) \in Nat
    BY <1>2, <1>4, AccruedIs DEF Core
  <2>2. pc' # "handle" /\ grown' \in [Jobs -> SUBSET GPUs]
    BY <1>1, <1>2 DEF LoopTypes
  <2>3. UNCHANGED <<scenario, now, batch, status, interrupted, queueVars, nodeVars>>
    BY <1>1
  <2>4. P \ Settled[j] = {}
    BY <1>5, <1>8
  <2> QED  BY <1>1, <1>2, <1>4, <1>5, <1>7, <1>8, <1>9, <1>10, <2>1, <2>2, <2>3, <2>4, ResizeStep
<1>12. Pass'
  BY <1>1, <1>2, <1>7 DEF Core, Pass, queueVars
<1>13. Planned'
  <2>1. /\ plan'.target = plan.target /\ plan'.alloc = plan.alloc /\ plan'.victims = plan.victims
        /\ plan'.placement = plan.placement /\ plan'.shrink = plan.shrink \ {j}
    BY <1>6
  <2>2. UNCHANGED <<pc, pending, todo, status, reserved, available, schedulable>>
    BY <1>1, <1>7 DEF queueVars, nodeVars
  <2>3. plan'.target \in pending' \ ToSet(todo')
    BY <1>1, <1>3, <2>1, <2>2 DEF Planned
  <2>4. \A v \in plan'.victims : status'[v] = "running"
    BY <1>1, <1>3, <2>1, <2>2 DEF Planned
  <2>5. \A v \in plan'.shrink : Shrinks(v)'
    <3>1. \A v \in plan'.shrink : v \in Jobs \ {j} /\ Shrinks(v)
      BY <1>1, <1>3, <2>1 DEF Planned, Plannings
    <3> QED  BY <1>10, <2>1, <2>2, <3>1 DEF Shrinks, Fits, SameVendor
  <2>6. Fits(plan.target, plan.placement)'
    BY <1>1, <1>3, <2>1 DEF Planned, Fits, SameVendor
  <2>7. ASSUME NEW g \in plan'.placement
        PROVE  /\ Usable(NodeOf[g])' /\ g \notin ReservedElsewhere(plan.target)'
               /\ owner'[g] \in plan'.victims \cup plan'.shrink \cup {None}
               /\ \A v \in plan'.shrink : g \notin plan'.alloc[v]
    <3>1. /\ Usable(NodeOf[g]) /\ g \notin ReservedElsewhere(plan.target)
          /\ owner[g] \in plan.victims \cup plan.shrink \cup {None}
          /\ \A v \in plan.shrink : g \notin plan.alloc[v]
          /\ g \in GPUs
      BY <1>1, <1>3, <2>1, <2>7 DEF Planned, Plannings
    <3>2. g \notin P
      BY <1>4, <3>1 DEF P
    <3>3. owner[g] = j <=> g \in alloc[j]
      BY <1>4, <3>1 DEF LifeInv, Inv, Owned
    <3>4. owner'[g] \in plan.victims \cup (plan.shrink \ {j}) \cup {None}
      BY <1>9, <3>1, <3>2, <3>3
    <3> QED  BY <2>1, <2>2, <3>1, <3>4 DEF Usable, ReservedElsewhere
  <2>8. pc' = "commit"
    BY <1>1
  <2> QED  BY <2>3, <2>4, <2>5, <2>6, <2>7, <2>8 DEF Planned
<1> QED  BY <1>2, <1>11, <1>12, <1>13, CoreIs

\* The evictions of a plan are committed, all at once.
LEMMA EvictStep ==
  ASSUME LifeInv, Types', CommitEvict
  PROVE  [Proved!Next]_(Proved!vars) /\ Core'
<1> DEFINE h == plan.target
           V == plan.victims
           CJ == {v \in Jobs : CheckpointCost[v] > 0}
           deferred == \E v \in V : CheckpointCost[v] > 0
           freed == {v \in V : CheckpointCost[v] = 0}
           parked == IF deferred THEN freed ELSE {}
           written == V \ freed
           aims == [v \in Jobs |-> IF deferred /\ v \in V THEN h ELSE target[v]]
           M == {Event(now + CheckpointCost[v], "JOB_CHECKPOINT_COMPLETE", v, gen[v]) : v \in written}
<1>1. /\ pc = "commit" /\ plan.shrink = {}
      /\ reserved' = IF deferred THEN [reserved EXCEPT ![h] = plan.placement] ELSE reserved
      /\ target' = aims
      /\ Release(freed)
      /\ work' = [v \in Jobs |-> IF v \in V THEN Accrued(v) ELSE work[v]]
      /\ status' = [v \in Jobs |-> IF v \in freed THEN "pending"
                                   ELSE IF v \in V THEN "checkpointing" ELSE status[v]]
      /\ lastStart' = [v \in Jobs |-> IF v \in V THEN None ELSE lastStart[v]]
      /\ interrupted' = interrupted \cup V
      /\ suspended' = suspended \cup parked
      /\ pending' = pending \cup (freed \ parked)
      /\ heap' = heap \cup M
      /\ pc' = IF deferred THEN "dispatch" ELSE "retry"
      /\ plan' = IF deferred THEN NoPlan ELSE plan
      /\ UNCHANGED <<scenario, now, batch, passVars, gen, nodeVars, lastResize, grown>>
  BY DEF CommitEvict
<1>2. /\ Core /\ LoopTypes /\ Types /\ batch = {} /\ pc # "handle"
      /\ \A i \in Jobs : grown[i] = {}
      /\ Growth'
  BY <1>1, Passing
<1>3. plan \in Plannings /\ Planned
  BY <1>2 DEF LoopTypes, Core
<1>4. /\ h \in pending \ ToSet(todo) /\ h \in Jobs /\ h # None /\ V \subseteq Jobs
      /\ \A v \in V : status[v] = "running"
      /\ Fits(h, plan.placement)
      /\ \A g \in plan.placement : /\ g \in GPUs /\ Usable(NodeOf[g]) /\ g \notin ReservedElsewhere(h)
                                   /\ owner[g] \in V \cup {None}
  BY <1>1, <1>2, <1>3, NoneIsNot DEF Planned, Plannings, LoopTypes
<1>5. \A v \in V : /\ v \in Jobs /\ v \notin Waiting /\ status[v] = "running" /\ target[v] = None
                   /\ gen[v] \in Nat \ {0} /\ CheckpointCost[v] \in Nat /\ Accrued(v) \in Nat
                   /\ gen[v] \notin GensIn(Queued, "JOB_CHECKPOINT_COMPLETE", v)
  <2> SUFFICES ASSUME NEW v \in V
               PROVE  /\ v \in Jobs /\ v \notin Waiting /\ status[v] = "running" /\ target[v] = None
                      /\ gen[v] \in Nat \ {0} /\ CheckpointCost[v] \in Nat /\ Accrued(v) \in Nat
                      /\ gen[v] \notin GensIn(Queued, "JOB_CHECKPOINT_COMPLETE", v)
    OBVIOUS
  <2>1. v \in Jobs /\ status[v] = "running"
    BY <1>4
  <2> HIDE DEF V
  <2>2. v \notin Waiting
    BY <1>2, <2>1 DEF Core, ArrivalsWait
  <2>3. Accrued(v) \in Nat
    BY <1>2, <2>1, AccruedIs DEF Core
  <2>4. gen[v] \in Nat \ {0} /\ CheckpointCost[v] \in Nat
    BY <1>2, <2>1, LoopAssumption DEF LoopTypes, Core, History, Active
  <2>5. gen[v] \notin GensIn(Queued, "JOB_CHECKPOINT_COMPLETE", v)
    BY <2>1, Plain DEF Fenced
  <2>6. target[v] = None
    BY <2>1, Plain DEF VictimsAim, InOneQueue
  <2> QED  BY <2>1, <2>2, <2>3, <2>4, <2>5, <2>6
<1>6. now \in Nat /\ NoPlan \in Plannings
  BY <1>2 DEF LoopTypes, NoPlan, Plannings, Holdings
<1>7. \A n \in M : /\ n.time \in Nat /\ now <= n.time /\ n.kind = "JOB_CHECKPOINT_COMPLETE"
                   /\ n.id \in written /\ n.gen = gen[n.id]
                   /\ n = Event(now + CheckpointCost[n.id], "JOB_CHECKPOINT_COMPLETE", n.id, gen[n.id])
  <2> SUFFICES ASSUME NEW v \in written, NEW n, n = Event(now + CheckpointCost[v], "JOB_CHECKPOINT_COMPLETE", v, gen[v])
               PROVE  /\ n.time \in Nat /\ now <= n.time /\ n.kind = "JOB_CHECKPOINT_COMPLETE"
                      /\ n.id \in written /\ n.gen = gen[n.id]
                      /\ n = Event(now + CheckpointCost[n.id], "JOB_CHECKPOINT_COMPLETE", n.id, gen[n.id])
    OBVIOUS
  <2>1. CheckpointCost[v] \in Nat
    BY <1>5
  <2>2. n.time = now + CheckpointCost[v] /\ n.kind = "JOB_CHECKPOINT_COMPLETE" /\ n.id = v /\ n.gen = gen[v]
    BY DEF Event
  <2> HIDE DEF written
  <2> QED  BY <1>6, <2>1, <2>2
<1>8. NewEvents(M)
  <2>1. \A n \in M : /\ n.time \in Nat /\ now <= n.time /\ n.id \in Jobs /\ n.kind = "JOB_CHECKPOINT_COMPLETE"
                     /\ n.gen \in Nat \ GensIn(Queued, n.kind, n.id)
    BY <1>5, <1>7
  <2>2. \A n, m \in M : n.id = m.id => n = m
    BY <1>7
  <2> HIDE DEF M
  <2> QED  BY <2>1, <2>2 DEF NewEvents, Timers
<1>9. \A kind \in Timers : \A i \in Jobs :
        GensIn(M, kind, i) = IF kind = "JOB_CHECKPOINT_COMPLETE" /\ i \in written THEN {gen[i]} ELSE {}
  <2> SUFFICES ASSUME NEW kind \in Timers, NEW i \in Jobs
               PROVE  GensIn(M, kind, i) = IF kind = "JOB_CHECKPOINT_COMPLETE" /\ i \in written THEN {gen[i]} ELSE {}
    OBVIOUS
  <2>1. kind = "JOB_CHECKPOINT_COMPLETE" /\ i \in written => gen[i] \in GensIn(M, kind, i)
    <3> SUFFICES ASSUME kind = "JOB_CHECKPOINT_COMPLETE", i \in written PROVE gen[i] \in GensIn(M, kind, i)
      OBVIOUS
    <3> DEFINE n == Event(now + CheckpointCost[i], "JOB_CHECKPOINT_COMPLETE", i, gen[i])
    <3>1. n \in M
      OBVIOUS
    <3>2. n.kind = "JOB_CHECKPOINT_COMPLETE" /\ n.id = i /\ n.gen = gen[i]
      BY DEF Event
    <3> HIDE DEF n, M
    <3> QED  BY <3>1, <3>2 DEF GensIn
  <2>2. \A k \in GensIn(M, kind, i) : kind = "JOB_CHECKPOINT_COMPLETE" /\ i \in written /\ k = gen[i]
    <3> HIDE DEF M, written
    <3> QED  BY <1>7 DEF GensIn
  <2> HIDE DEF M, written
  <2> QED  BY <2>1, <2>2
<1>10. pc' # "handle" /\ UNCHANGED <<now, batch>>
  BY <1>1
<1>11. /\ EventsTyped' /\ EventsDistinct' /\ Waiting' = Waiting
       /\ \A kind \in Timers : \A i \in Jobs :
            GensIn(Queued, kind, i)' = GensIn(Queued, kind, i) \cup GensIn(M, kind, i)
  <2>1. heap' = heap \cup M
    BY <1>1
  <2> HIDE DEF M
  <2> QED  BY <1>2, <1>8, <1>10, <2>1, Pushing
<1> HIDE DEF M
<1>12. /\ Generations("JOB_COMPLETE")' = Generations("JOB_COMPLETE")
       /\ Generations("JOB_RESTART_COMPLETE")' = Generations("JOB_RESTART_COMPLETE")
       /\ Generations("JOB_CHECKPOINT_COMPLETE")' =
            [i \in Jobs |-> IF i \in written THEN Generations("JOB_CHECKPOINT_COMPLETE")[i] \cup {gen[i]}
                            ELSE Generations("JOB_CHECKPOINT_COMPLETE")[i]]
  <2> HIDE DEF written
  <2>1. ASSUME NEW i \in Jobs
        PROVE  /\ GensIn(Queued, "JOB_COMPLETE", i)' = GensIn(Queued, "JOB_COMPLETE", i)
               /\ GensIn(Queued, "JOB_RESTART_COMPLETE", i)' = GensIn(Queued, "JOB_RESTART_COMPLETE", i)
               /\ GensIn(Queued, "JOB_CHECKPOINT_COMPLETE", i)' =
                    IF i \in written THEN GensIn(Queued, "JOB_CHECKPOINT_COMPLETE", i) \cup {gen[i]}
                    ELSE GensIn(Queued, "JOB_CHECKPOINT_COMPLETE", i)
    <3>1. GensIn(Queued, "JOB_COMPLETE", i)' = GensIn(Queued, "JOB_COMPLETE", i) \cup {}
      BY <1>9, <1>11 DEF Timers
    <3>2. GensIn(Queued, "JOB_RESTART_COMPLETE", i)' = GensIn(Queued, "JOB_RESTART_COMPLETE", i) \cup {}
      BY <1>9, <1>11 DEF Timers
    <3>3. GensIn(Queued, "JOB_CHECKPOINT_COMPLETE", i)' =
            GensIn(Queued, "JOB_CHECKPOINT_COMPLETE", i) \cup (IF i \in written THEN {gen[i]} ELSE {})
      BY <1>9, <1>11 DEF Timers
    <3> QED  BY <3>1, <3>2, <3>3
  <2> QED  BY <2>1, MappingIs
<1>13. /\ freed = V \ CJ /\ written = V \cap CJ
       /\ (deferred <=> V \cap CJ # {})
  BY <1>5
<1>14. Submitted' = [i \in Jobs |-> IF i \in freed THEN "pending"
                                    ELSE IF i \in V THEN "checkpointing" ELSE Submitted[i]]
  <2>1. \A i \in freed : i \in V
    OBVIOUS
  <2>2. \A i \in V : i \notin Waiting
    BY <1>5
  <2>3. status' = [v \in Jobs |-> IF v \in freed THEN "pending"
                                   ELSE IF v \in V THEN "checkpointing" ELSE status[v]]
    BY <1>1
  <2> HIDE DEF freed, V
  <2> QED  BY <1>11, <2>1, <2>2, <2>3, MappingIs
<1>15. Settled = alloc /\ SettledOwner = owner /\ Settled' = alloc' /\ SettledOwner' = owner'
  BY <1>1, <1>2, NoneGrown
<1>16. ASSUME V # {}
       PROVE  [Proved!Next]_(Proved!vars)
  <2> DEFINE deferred2 == V \cap CJ # {}
             freed2 == V \ CJ
             aims2 == [v \in Jobs |-> IF deferred2 /\ v \in V THEN h ELSE target[v]]
             parked2 == {v \in freed2 : aims2[v] # None}
             G == Generations("JOB_CHECKPOINT_COMPLETE")
  <2>1. Proved!Preempt(h, V, plan.placement) <=>
          /\ h \in pending
          /\ V # {}
          /\ \A v \in V : Submitted[v] = "running"
          /\ plan.placement \subseteq Proved!PlaceableAfter(h, V)
          /\ Proved!IsGang(h, plan.placement)
          /\ reserved' = IF deferred2 THEN [reserved EXCEPT ![h] = plan.placement] ELSE reserved
          /\ target' = aims2
          /\ Proved!Release(freed2)
          /\ Submitted' = [i \in Jobs |-> IF i \in freed2 THEN "pending"
                                    ELSE IF i \in V THEN "checkpointing" ELSE Submitted[i]]
          /\ suspended' = suspended \cup parked2
          /\ pending' = pending \cup (freed2 \ parked2)
          /\ G' = [i \in Jobs |-> IF i \in V \cap CJ THEN G[i] \cup {gen[i]} ELSE G[i]]
          /\ UNCHANGED <<gen, Generations("JOB_COMPLETE"), Generations("JOB_RESTART_COMPLETE"), Proved!nodeVars>>
    BY DEF Proved!Preempt
  <2>2. /\ (deferred2 <=> deferred) /\ freed2 = freed /\ aims2 = aims
    <3>1. (deferred2 <=> deferred) /\ freed2 = freed
      BY <1>13
    <3> HIDE DEF deferred2, freed2, deferred, freed
    <3> QED  BY <3>1
  <2>3. parked2 = parked
    <3>1. parked2 = {v \in freed : aims[v] # None}
      BY <2>2
    <3>2. \A v \in freed : v \in V /\ v \in Jobs /\ target[v] = None
      BY <1>5
    <3>3. \A v \in freed : aims[v] # None <=> deferred
      <4> HIDE DEF freed, deferred, V, h
      <4> QED  BY <1>4, <3>2
    <3> HIDE DEF parked2, freed, deferred, aims
    <3> QED  BY <3>1, <3>3
  <2>4. plan.placement \subseteq Proved!PlaceableAfter(h, V)
    BY <1>4, <1>15 DEF Proved!PlaceableAfter, Proved!Usable, Usable, Proved!ReservedElsewhere, ReservedElsewhere, Fits
  <2>5. Proved!IsGang(h, plan.placement)
    <3> DEFINE P == plan.placement
    <3>1. h \in Jobs /\ Fits(h, P)
      BY <1>4
    <3> HIDE DEF P, h
    <3>2. Proved!IsGang(h, P)
      BY <3>1, GangIs
    <3> QED  BY <3>2 DEF P
  <2>6. \A v \in V : Submitted[v] = "running"
    BY <1>5, MappingIs
  <2>7. Proved!Release(freed) <=> Release(freed)
    BY <1>15 DEF Proved!Release, Release
  <2>8. V \cap CJ = written
    BY <1>13
  <2>9. h \in pending
    BY <1>4
  <2>10. Proved!Preempt(h, V, plan.placement)
    <3> HIDE DEF deferred2, freed2, aims2, parked2, deferred, freed, aims, parked, CJ, V, written, h
    <3> QED  BY <1>1, <1>12, <1>14, <1>16, <2>1, <2>2, <2>3, <2>4, <2>5, <2>6, <2>7, <2>8, <2>9
           DEF Proved!nodeVars, nodeVars
  <2>11. V \in SUBSET {v \in Jobs : Submitted[v] = "running"}
    BY <1>4, <2>6
  <2>12. plan.placement \in SUBSET Proved!PlaceableAfter(h, V) /\ h \in Jobs
    BY <1>4, <2>4
  <2> HIDE DEF V, h
  <2> QED  BY <2>9, <2>10, <2>11, <2>12 DEF Proved!Next
<1>17. ASSUME V = {}
       PROVE  UNCHANGED Proved!vars
  <2>1. ~deferred /\ freed = {} /\ parked = {} /\ written = {}
    BY <1>17
  <2> HIDE DEF deferred, freed, parked, written
  <2>2. alloc' = alloc /\ owner' = owner
    BY <1>1, <1>2, <2>1 DEF Release, Types, Holdings
  <2>3. target' = target /\ reserved' = reserved /\ suspended' = suspended /\ pending' = pending
    BY <1>1, <1>2, <2>1 DEF LoopTypes
  <2>4. Submitted' = Submitted
    BY <1>14, <1>17, <2>1, MappingIs
  <2>5. Generations("JOB_CHECKPOINT_COMPLETE")' = Generations("JOB_CHECKPOINT_COMPLETE")
    BY <1>12, <2>1, MappingIs
  <2> QED  BY <1>1, <1>12, <1>15, <2>2, <2>3, <2>4, <2>5
        DEF Proved!vars, Proved!jobVars, Proved!queueVars, Proved!eventVars, Proved!nodeVars, nodeVars
<1>18. [Proved!Next]_(Proved!vars)
  BY <1>16, <1>17
<1>19. freed \subseteq V /\ parked \subseteq freed /\ V = freed \cup written /\ freed \cap written = {}
  OBVIOUS
<1>20. plan' \in Plannings /\ plan.placement \subseteq GPUs
  BY <1>1, <1>3, <1>6 DEF Plannings
<1> HIDE DEF aims, CJ
<1>21. LoopTypes'
  <2>1. \A v \in V : Accrued(v) \in Nat
    BY <1>5
  <2>2. V \subseteq Jobs /\ h \in Jobs
    BY <1>4
  <2> HIDE DEF freed, written, V, parked, deferred, h
  <2>3. /\ status' \in [Jobs -> {"pending", "completed", "rejected"} \cup Active]
        /\ gen' \in [Jobs -> Nat]
        /\ lastStart' \in [Jobs -> Nat \cup {None}]
    BY <1>1, <1>2 DEF LoopTypes, Active
  <2>4. work' \in [Jobs -> Nat]
    BY <1>1, <1>2, <2>1 DEF LoopTypes
  <2>5. target' \in [Jobs -> Jobs \cup {None}] /\ reserved' \in [Jobs -> SUBSET GPUs]
    BY <1>1, <1>2, <1>20, <2>2 DEF LoopTypes, aims
  <2>6. /\ interrupted' \subseteq Jobs /\ pending' \subseteq Jobs /\ suspended' \subseteq Jobs
        /\ available' \in [Nodes -> BOOLEAN] /\ schedulable' \in [Nodes -> BOOLEAN]
    BY <1>1, <1>2, <1>19, <2>2 DEF LoopTypes, nodeVars
  <2>7. /\ now' \in Nat /\ todo' \in Seq(Jobs) /\ initial' \subseteq Jobs
        /\ grown' \in [Jobs -> SUBSET GPUs]
        /\ pc' \in {"pop", "handle", "guarantee", "dispatch", "commit", "retry", "resume", "resize",
                    "done", "crashed"}
    BY <1>1, <1>2 DEF LoopTypes, passVars
  <2> QED  BY <1>20, <2>3, <2>4, <2>5, <2>6, <2>7 DEF LoopTypes
<1>22. ArrivalsWait' /\ Gangs' /\ History' /\ Clock'
  <2>1. \A v \in V : v \in Jobs /\ status[v] = "running" /\ v \notin Waiting /\ gen[v] # 0
    BY <1>5
  <2>2. Waiting \subseteq Jobs
    BY DEF Waiting
  <2> HIDE DEF freed, written, V, parked, deferred, h
  <2>3. ArrivalsWait'
    BY <1>1, <1>2, <1>11, <1>19, <2>1, <2>2 DEF Core, ArrivalsWait
  <2>4. Gangs'
    <3>1. ASSUME NEW i \in Jobs, status'[i] \in Active
          PROVE  status[i] \in Active /\ alloc'[i] = alloc[i]
      BY <1>1, <1>19, <2>1, <3>1 DEF Release, Active
    <3> QED  BY <1>2, <3>1 DEF Core, Gangs, Fits, SameVendor
  <2>5. History'
    BY <1>1, <1>2, <1>19, <2>1 DEF Core, History, LoopTypes, Active
  <2>6. Clock'
    BY <1>1, <1>2 DEF Core, Clock, LoopTypes
  <2> QED  BY <2>3, <2>4, <2>5, <2>6
<1>23. pending \subseteq pending' /\ todo' = todo /\ pc' \in {"dispatch", "retry"}
  BY <1>1 DEF passVars
<1>24. Pass'
  BY <1>2, <1>23 DEF Core, Pass
<1>25. Planned'
  <2>1. CASE deferred
    BY <1>1, <2>1 DEF Planned
  <2>2. CASE ~deferred
    <3>1. pc' = "retry" /\ plan' = plan
      BY <1>1, <2>2
    <3> QED  BY <1>4, <1>23, <3>1 DEF Planned
  <2> QED  BY <2>1, <2>2
<1>26. Steady'
  BY <1>11, <1>21, <1>22 DEF Steady
<1> QED  BY <1>2, <1>18, <1>24, <1>25, <1>26, CoreIs

\* The target of a plan starts, or the program stops.
LEMMA RetryStep ==
  ASSUME LifeInv, Types', Retry
  PROVE  [Proved!Next]_(Proved!vars) /\ Core'
<1> DEFINE h == plan.target
           P == QuotaPlace(h, ViewFor(h), Usage, Borrowing)
           fits == P # {} /\ Covered(h, P, Usage, plan.queues)
<1>1. /\ pc = "retry" /\ plan' = NoPlan
      /\ pc' = IF fits THEN "dispatch" ELSE "crashed"
      /\ IF fits THEN Start(h, P) ELSE NoChange
      /\ UNCHANGED <<scenario, now, batch, passVars, lastResize, grown>>
  BY DEF Retry
<1>2. /\ Core /\ LoopTypes /\ Types /\ batch = {} /\ pc # "handle"
      /\ \A i \in Jobs : grown[i] = {}
      /\ Growth'
  BY <1>1, Passing
<1>3. h \in pending \ ToSet(todo) /\ h \in Jobs
  BY <1>1, <1>2, NoneIsNot DEF Core, LoopTypes, Planned
<1>4. NoPlan \in Plannings
  BY DEF NoPlan, Plannings, Holdings
<1>5. Control' /\ pc' # "handle" /\ pc' \in {"dispatch", "crashed"}
  BY <1>1, <1>2, <1>4 DEF LoopTypes, Control, passVars
<1>6. Planned'
  BY <1>1, <1>5 DEF Planned
<1>7. CASE fits
  <2>1. StartJob(h, P) /\ P # {}
    BY <1>1, <1>7 DEF Start
  <2>2. P = QuotaPlace(h, ViewFor(h), Usage, Borrowing)
    OBVIOUS
  <2> HIDE DEF P, h
  <2>3. P \subseteq Hosts(h, ViewFor(h)) /\ Fits(h, P)
    BY <1>3, <2>1, <2>2, FoundIs
  <2>4. [Proved!Next]_(Proved!vars) /\ Steady' /\ pending \ {h} \subseteq pending'
    BY <1>1, <1>2, <1>3, <1>5, <2>1, <2>3, StartStep
  <2>5. Pass'
    BY <1>1, <1>2, <1>3, <1>5, <2>4 DEF Core, Pass, passVars
  <2> QED  BY <1>2, <1>6, <2>4, <2>5, CoreIs
<1>8. CASE ~fits
  <2>1. UNCHANGED <<heap, jobVars, queueVars, nodeVars>>
    BY <1>1, <1>8 DEF NoChange
  <2>2. Pass'
    BY <1>1, <1>2, <1>5, <2>1 DEF Core, Pass, passVars, queueVars
  <2>3. /\ pc' # "handle" => batch = {}
        /\ pc' \in {"pop", "handle", "guarantee", "dispatch", "commit", "retry", "resume", "resize",
                    "done", "crashed"}
        /\ todo' \in Seq(Jobs) /\ initial' \subseteq Jobs /\ plan' \in Plannings
    BY <1>2, <1>5 DEF Control
  <2>4. UNCHANGED <<scenario, now, heap, batch, jobVars, queueVars, nodeVars, grown>>
    BY <1>1, <2>1
  <2> QED  BY <1>2, <1>6, <2>2, <2>3, <2>4, QuietStep
<1> QED  BY <1>7, <1>8

-----------------------------------------------------------------------------
(* Growth.                                                                 *)

\* The GPU an elastic job grows by is a free host of the vendor it has.
LEMMA GrowthIs ==
  ASSUME LifeInv, NEW j \in Jobs, BelowPreferred(j), GrowthOf(j) # {}
  PROVE  \E g \in Hosts(j, ViewFor(j)) :
           GrowthOf(j) = {g} /\ g \notin alloc[j] /\ Fits(j, alloc[j] \cup {g})
<1> DEFINE free == {g \in Hosts(j, ViewFor(j)) :
                      VendorOf[g] \in Vendors(alloc[j]) /\ RequirementMet(j, alloc[j] \cup {g})}
           key == [g \in free |-> <<Units[g], NodeOf[g], g>>]
<1>1. GrowthOf(j) = Least(free, key)
  BY DEF GrowthOf
<1>2. Core /\ LoopTypes /\ Types /\ Owned
  BY DEF LifeInv, Inv, Core
<1>3. /\ free \subseteq GPUs
      /\ \A g \in free : /\ g \in Hosts(j, ViewFor(j)) /\ g \in Compatible[j] /\ owner[g] = None
                         /\ VendorOf[g] \in Vendors(alloc[j])
  BY DEF Hosts, ViewFor, UsableGpus, Occupied
<1>4. \E g \in free : GrowthOf(j) = {g}
  <2> HIDE DEF free
  <2>1. \A g \in free : g \in GPUs /\ key[g] = <<Units[g], NodeOf[g], g>>
    BY <1>3
  <2>2. \A a, b, c \in Int : <<a, b, c>> \in Seq(Int) /\ <<a, b, c>>[3] = c
    OBVIOUS
  <2>3. ASSUME NEW g \in free PROVE g \in Int /\ Units[g] \in Int /\ NodeOf[g] \in Int
    <3>1. g \in GPUs
      BY <2>1
    <3>2. g \in Nat /\ NodeOf[g] \in Nat
      BY <3>1, GpuFacts
    <3>3. Units[g] \in Nat \ {0}
      BY <3>1, FairShareAssumption
    <3> QED  BY <3>2, <3>3
  <2>4. \A g \in free : key[g] \in Seq(Int) /\ key[g][3] = g
    BY <2>1, <2>2, <2>3
  <2>5. Keys(free, key)
    BY <2>4 DEF Keys
  <2>6. IsFiniteSet(free) /\ free # {}
    <3>1. free # {}
      BY <1>1 DEF Least, First
    <3> QED  BY <1>3, <3>1, GpuSetsFinite
  <2> HIDE DEF key
  <2> QED  BY <1>1, <2>5, <2>6, LeastOne
<1>5. PICK g \in free : GrowthOf(j) = {g}
  BY <1>4
<1> HIDE DEF free, key
<1>6. /\ j \in ElasticJobs /\ status[j] = "running" /\ Cardinality(alloc[j]) < PreferredReplicas[j]
  BY DEF BelowPreferred
<1>7. Fits(j, alloc[j]) /\ alloc[j] \subseteq GPUs
  BY <1>2, <1>6 DEF Core, Gangs, Active, Types, Holdings
<1>8. g \notin alloc[j] /\ g \in GPUs
  BY <1>2, <1>3, NoneIsNot DEF Owned
<1>9. Cardinality(alloc[j] \cup {g}) = Cardinality(alloc[j]) + 1
  BY <1>7, <1>8, GpuSetsFinite, FS_AddElement
<1>10. Cardinality(alloc[j] \cup {g}) \in Sizes[j]
  <2>1. /\ MinReplicas[j] \in Nat /\ PreferredReplicas[j] \in Nat /\ Cardinality(alloc[j]) \in Nat
        /\ MinReplicas[j] <= Cardinality(alloc[j])
    BY <1>7, FitsIs, LoopAssumption
  <2> QED  BY <1>6, <1>9, <2>1 DEF Sizes
<1>11. SameVendor(alloc[j] \cup {g})
  <2>1. PICK h \in alloc[j] : VendorOf[g] = VendorOf[h]
    BY <1>3 DEF Vendors
  <2> QED  BY <1>7, <2>1 DEF Fits, SameVendor
<1> QED  BY <1>3, <1>5, <1>7, <1>8, <1>10, <1>11 DEF Fits

\* A growing job takes one GPU, which the lifecycle sees when it gets its new generation.
LEMMA GrowStep ==
  ASSUME LifeInv, Types', Grow
  PROVE  [Proved!Next]_(Proved!vars) /\ Core'
<1>1. PICK j \in Jobs :
        /\ MayGrow(j)
        /\ Resize(j, alloc[j] \cup GrowthOf(j))
        /\ work' = IF grown[j] = {} THEN [work EXCEPT ![j] = Accrued(j)] ELSE work
        /\ lastStart' = [lastStart EXCEPT ![j] = now]
        /\ grown' = IF grown[j] = {} THEN [grown EXCEPT ![j] = alloc[j]] ELSE grown
  BY DEF Grow, Foremost
<1>2. /\ pc = "resize"
      /\ UNCHANGED <<scenario, now, pc, heap, batch, passVars, status, gen, runningPriority,
                     interrupted, queueVars, nodeVars, entitled, plan, lastResize>>
  BY DEF Grow
<1>3. Core /\ LoopTypes /\ Types /\ Owned
  BY DEF LifeInv, Inv, Core
<1>4. BelowPreferred(j) /\ GrowthOf(j) # {} /\ status[j] = "running"
  BY <1>1 DEF MayGrow, BelowPreferred
<1>5. PICK g \in Hosts(j, ViewFor(j)) :
        GrowthOf(j) = {g} /\ g \notin alloc[j] /\ Fits(j, alloc[j] \cup {g})
  BY <1>4, GrowthIs
<1>6. /\ g \in GPUs /\ owner[g] = None /\ Usable(NodeOf[g]) /\ g \notin ReservedElsewhere(j)
  BY DEF Hosts, ViewFor, UsableGpus, Occupied, Compatible
<1>7. /\ alloc'[j] = alloc[j] \cup {g} /\ \A i \in Jobs \ {j} : alloc'[i] = alloc[i]
      /\ owner'[g] = j /\ \A x \in GPUs \ {g} : owner'[x] = owner[x]
  BY <1>1, <1>3, <1>5, <1>6 DEF Resize, Types, Holdings, Owned
<1>8. /\ grown'[j] = IF grown[j] = {} THEN alloc[j] ELSE grown[j]
      /\ \A i \in Jobs \ {j} : grown'[i] = grown[i]
      /\ grown' \in [Jobs -> SUBSET GPUs]
  BY <1>1, <1>3 DEF LoopTypes, Types, Holdings
<1>9. alloc[j] # {} /\ alloc[j] \subseteq GPUs
  BY <1>3, <1>4, Plain DEF Holding, Active, Types, Holdings
<1>10. grown[j] \subseteq alloc[j] /\ grown'[j] # {} /\ grown'[j] \subseteq alloc[j]
  BY <1>3, <1>8, <1>9 DEF Core, Growth
<1>11. Queued' = Queued /\ Waiting' = Waiting
  BY <1>2 DEF Queued, Waiting
<1>12. Settled' = Settled
  BY <1>7, <1>8, <1>9 DEF Settled
<1>13. SettledOwner' = SettledOwner
  <2>1. ASSUME NEW x \in GPUs
        PROVE  (IF owner'[x] # None /\ grown'[owner'[x]] # {} /\ x \notin grown'[owner'[x]]
                THEN None ELSE owner'[x])
               = (IF owner[x] # None /\ grown[owner[x]] # {} /\ x \notin grown[owner[x]]
                  THEN None ELSE owner[x])
    <3>1. CASE x = g
      BY <1>5, <1>6, <1>7, <1>10, <3>1
    <3>2. CASE x # g /\ owner[x] = j
      <4>1. x \in alloc[j] /\ owner'[x] = j
        BY <1>3, <1>7, <3>2 DEF Owned
      <4> QED  BY <1>8, <3>2, <4>1
    <3>3. CASE x # g /\ owner[x] # j
      <4>1. owner'[x] = owner[x] /\ owner[x] \in Jobs \cup {None}
        BY <1>3, <1>7, <3>3 DEF Types
      <4> QED  BY <1>8, <3>3, <4>1
    <3> QED  BY <3>1, <3>2, <3>3
  <2> QED  BY <2>1 DEF SettledOwner
<1>14. UNCHANGED Proved!vars
  <2>1. Submitted' = Submitted
    BY <1>2, <1>11, MappingIs
  <2>2. \A kind \in Timers : \A i \in Jobs : GensIn(Queued, kind, i)' = GensIn(Queued, kind, i)
    BY <1>11 DEF GensIn
  <2> QED  BY <1>2, <1>12, <1>13, <2>1, <2>2, SameEvents
      DEF Proved!vars, Proved!jobVars, Proved!queueVars, Proved!eventVars, Proved!nodeVars, queueVars, nodeVars
<1>15. LoopTypes'
  <2>1. Accrued(j) \in Nat /\ now \in Nat
    BY <1>3, AccruedIs DEF Core, LoopTypes
  <2>2. work' \in [Jobs -> Nat] /\ lastStart' \in [Jobs -> Nat \cup {None}]
    BY <1>1, <1>3, <2>1 DEF LoopTypes
  <2> QED  BY <1>2, <1>3, <1>8, <2>2 DEF LoopTypes, passVars, queueVars, nodeVars
<1>16. EventsTyped' /\ EventsDistinct'
  BY <1>2, <1>3, <1>11 DEF Core, EventsTyped, EventsDistinct
<1>17. ArrivalsWait' /\ Gangs'
  <2>1. ArrivalsWait'
    BY <1>2, <1>3, <1>11 DEF Core, ArrivalsWait
  <2>2. Fits(j, alloc'[j])
    BY <1>5, <1>7
  <2>3. \A i \in Jobs \ {j} : status[i] \in Active => Fits(i, alloc'[i])
    BY <1>3, <1>7 DEF Core, Gangs
  <2>4. Gangs'
    BY <1>2, <2>2, <2>3 DEF Gangs, Fits, SameVendor
  <2> QED  BY <2>1, <2>4
<1>18. History' /\ Clock'
  <2>1. gen[j] > 0
    BY <1>3, <1>4 DEF Core, History, Active
  <2>2. \A i \in Jobs \ {j} : work'[i] = work[i] /\ lastStart'[i] = lastStart[i]
    BY <1>1, <1>3 DEF LoopTypes
  <2>3. lastStart'[j] = now /\ now \in Nat /\ gen[j] \in Nat
    BY <1>1, <1>3 DEF LoopTypes
  <2>4. History'
    BY <1>2, <1>3, <2>1, <2>2, <2>3 DEF Core, History
  <2>5. Clock'
    BY <1>2, <1>3, <2>2, <2>3 DEF Core, Clock
  <2> QED  BY <2>4, <2>5
<1>19. Growth'
  <2>1. \A x : Usable(NodeOf[x])' = Usable(NodeOf[x])
    BY <1>2 DEF Usable, nodeVars
  <2>2. \A i \in Jobs : ReservedElsewhere(i)' = ReservedElsewhere(i)
    BY <1>2 DEF ReservedElsewhere, queueVars
  <2>3. ASSUME NEW i \in Jobs, grown'[i] # {}
        PROVE  /\ pc' = "resize" /\ status'[i] = "running"
               /\ grown'[i] \subseteq alloc'[i] /\ grown'[i] # alloc'[i]
               /\ \A x \in alloc'[i] \ grown'[i] : Usable(NodeOf[x]) /\ x \notin ReservedElsewhere(i)
    <3>1. CASE i = j
      <4>1. \A x \in alloc[j] \ grown'[j] : Usable(NodeOf[x]) /\ x \notin ReservedElsewhere(j)
        BY <1>3, <1>8 DEF Core, Growth
      <4> QED  BY <1>2, <1>4, <1>5, <1>6, <1>7, <1>10, <3>1, <4>1
    <3>2. CASE i # j
      BY <1>2, <1>3, <1>7, <1>8, <2>3, <3>2 DEF Core, Growth
    <3> QED  BY <3>1, <3>2
  <2> QED  BY <2>1, <2>2, <2>3 DEF Growth
<1>20. Pass' /\ Planned'
  BY <1>2, <1>3 DEF Core, Pass, Planned, passVars, queueVars
<1> QED  BY <1>14, <1>15, <1>16, <1>17, <1>18, <1>19, <1>20 DEF Core

\* A job that grew gets its new generation.
LEMMA RegenerateStep ==
  ASSUME LifeInv, Types', Regenerate
  PROVE  [Proved!Next]_(Proved!vars) /\ Core'
<1> DEFINE j == Min(Grown)
           P == alloc[j]
<1>1. /\ pc = "resize" /\ Grown # {}
      /\ Reschedule(j, P, work[j])
      /\ grown' = [grown EXCEPT ![j] = {}]
      /\ UNCHANGED <<scenario, now, pc, batch, passVars, status, alloc, owner, runningPriority,
                     interrupted, queueVars, nodeVars, shareVars, plan>>
  BY DEF Regenerate
<1>2. Core /\ LoopTypes /\ Types /\ Owned /\ batch = {}
  BY <1>1 DEF LifeInv, Inv, Core, EventsTyped
<1>3. j \in Jobs /\ grown[j] # {}
  <2>1. Grown \in SUBSET Jobs
    BY DEF Grown
  <2>2. Grown \in SUBSET Nat
    BY <2>1, PlacementAssumption
  <2>3. j \in Grown
    BY <1>1, <2>2, MinIn
  <2> HIDE DEF j
  <2> QED  BY <2>3 DEF Grown
<1> HIDE DEF j
<1>4. /\ status[j] = "running" /\ grown[j] \subseteq P /\ grown[j] # P
      /\ \A g \in P \ grown[j] : Usable(NodeOf[g]) /\ g \notin ReservedElsewhere(j)
  BY <1>2, <1>3 DEF Core, Growth
<1>5. Fits(j, P) /\ P \subseteq GPUs
  BY <1>2, <1>3, <1>4 DEF Core, Gangs, Active, Types, Holdings
<1>6. \A g \in GPUs : owner[g] = j <=> g \in P
  BY <1>2, <1>3 DEF Owned
<1>7. /\ grown' \in [Jobs -> SUBSET GPUs] /\ grown'[j] = {}
      /\ \A i \in Jobs \ {j} : grown'[i] = grown[i]
  BY <1>1, <1>2, <1>3 DEF LoopTypes
<1>8. Settled[j] = grown[j] /\ Settled \in [Jobs -> SUBSET GPUs]
  BY <1>2, <1>3 DEF Settled, Types, Holdings, LoopTypes
<1>9. Settled' = [Settled EXCEPT ![j] = P]
  <2>1. \A i \in Jobs : Settled'[i] = IF i = j THEN P ELSE Settled[i]
    BY <1>1, <1>3, <1>7 DEF Settled
  <2>2. Settled' = [i \in Jobs |-> Settled'[i]]
    BY DEF Settled
  <2> HIDE DEF P
  <2> QED  BY <1>8, <2>1, <2>2
<1>10. \A g \in P \ Settled[j] : SettledOwner[g] = None
  BY <1>3, <1>5, <1>6, <1>8 DEF SettledOwner
<1>11. SettledOwner' = [g \in GPUs |-> IF g \in P THEN j
                                       ELSE IF g \in Settled[j] THEN None ELSE SettledOwner[g]]
  <2>1. ASSUME NEW g \in GPUs
        PROVE  SettledOwner'[g] = IF g \in P THEN j ELSE IF g \in Settled[j] THEN None ELSE SettledOwner[g]
    <3>1. SettledOwner'[g] = IF owner[g] # None /\ grown'[owner[g]] # {} /\ g \notin grown'[owner[g]]
                             THEN None ELSE owner[g]
      BY <1>1 DEF SettledOwner
    <3>2. SettledOwner[g] = IF owner[g] # None /\ grown[owner[g]] # {} /\ g \notin grown[owner[g]]
                            THEN None ELSE owner[g]
      BY DEF SettledOwner
    <3>3. CASE g \in P
      BY <1>6, <1>7, <3>1, <3>3
    <3>4. CASE g \notin P
      <4>1. owner[g] # j /\ owner[g] \in Jobs \cup {None} /\ g \notin Settled[j]
        BY <1>2, <1>4, <1>6, <1>8, <3>4 DEF Types
      <4> HIDE DEF P
      <4> QED  BY <1>7, <3>1, <3>2, <3>4, <4>1
    <3> QED  BY <3>3, <3>4
  <2>2. SettledOwner' = [g \in GPUs |-> SettledOwner'[g]]
    BY DEF SettledOwner
  <2> HIDE DEF P
  <2> QED  BY <2>1, <2>2
<1>12. Control' /\ pc # "handle" /\ pc' # "handle"
  BY <1>1, <1>2 DEF LoopTypes, Control, passVars
<1>13. [Proved!Next]_(Proved!vars) /\ Steady'
  <2>1. work[j] \in Nat
    BY <1>2, <1>3 DEF LoopTypes
  <2>2. UNCHANGED <<scenario, now, batch, status, interrupted, queueVars, nodeVars>>
    BY <1>1
  <2>3. P # Settled[j] /\ Settled[j] \subseteq P
    BY <1>4, <1>8
  <2>4. alloc'[j] = P /\ \A i \in Jobs \ {j} : alloc'[i] = alloc[i]
    BY <1>1
  <2>5. \A g \in P \ Settled[j] :
          SettledOwner[g] = None /\ Usable(NodeOf[g]) /\ g \notin ReservedElsewhere(j)
    BY <1>4, <1>8, <1>10
  <2>6. Reschedule(j, P, work[j])
    BY <1>1
  <2> HIDE DEF P
  <2> QED  BY <1>3, <1>4, <1>5, <1>7, <1>9, <1>11, <1>12, <2>1, <2>2, <2>3, <2>4, <2>5, <2>6, ResizeStep
<1>14. Growth'
  <2>1. \A x : Usable(NodeOf[x])' = Usable(NodeOf[x])
    BY <1>1 DEF Usable, nodeVars
  <2>2. \A i \in Jobs : ReservedElsewhere(i)' = ReservedElsewhere(i)
    BY <1>1 DEF ReservedElsewhere, queueVars
  <2> QED  BY <1>1, <1>2, <1>7, <2>1, <2>2 DEF Core, Growth
<1>15. Pass' /\ Planned'
  BY <1>1, <1>2 DEF Core, Pass, Planned, passVars, queueVars
<1> QED  BY <1>13, <1>14, <1>15, CoreIs

-----------------------------------------------------------------------------
(* The refinement.                                                         *)

\* The simulation starts as the lifecycle specification does.
LEMMA InitMaps == Init => Proved!Init /\ Core
<1> SUFFICES ASSUME Init PROVE Proved!Init /\ Core
  OBVIOUS
<1> USE DEF LoopInit
<1>1. Types /\ scenario.arrival \in [Jobs -> Nat]
      /\ \A f \in scenario.fleet : f.time \in Nat /\ f.kind \in FleetKinds /\ f.id \in Nodes
  BY InitInv, ScenarioAssumption DEF Init, Inv, Accepted
<1> DEFINE A == {Event(scenario.arrival[j], "JOB_ARRIVAL", j, 0) : j \in Jobs}
<1>2. \A f \in A : /\ f.time \in Nat /\ f.kind = "JOB_ARRIVAL" /\ f.id \in Jobs
                   /\ f = Event(scenario.arrival[f.id], "JOB_ARRIVAL", f.id, 0)
  BY <1>1 DEF Event
<1>3. \A j \in Jobs : \E f \in A : f.kind = "JOB_ARRIVAL" /\ f.id = j
  <2> SUFFICES ASSUME NEW j \in Jobs PROVE \E f \in A : f.kind = "JOB_ARRIVAL" /\ f.id = j
    OBVIOUS
  <2>1. Event(scenario.arrival[j], "JOB_ARRIVAL", j, 0) \in A
    OBVIOUS
  <2> HIDE DEF A
  <2> QED  BY <2>1 DEF Event
<1>4. Queued = A \cup scenario.fleet /\ batch = {} /\ heap = A \cup scenario.fleet
  BY DEF Init, Queued
<1> HIDE DEF A
<1>5. Waiting = Jobs
  BY <1>3, <1>4 DEF Waiting
<1>6. \A kind \in Timers : \A j : GensIn(Queued, kind, j) = {}
  BY <1>1, <1>2, <1>4 DEF GensIn, Timers, FleetKinds
<1>7. LoopTypes
  <2>1. plan \in Plannings
    BY DEF Init, NoPlan, Plannings, Holdings
  <2>2. /\ status \in [Jobs -> {"pending", "completed", "rejected"} \cup Active]
        /\ gen \in [Jobs -> Nat] /\ work \in [Jobs -> Nat] /\ lastStart \in [Jobs -> Nat \cup {None}]
        /\ target \in [Jobs -> Jobs \cup {None}] /\ reserved \in [Jobs -> SUBSET GPUs]
        /\ available \in [Nodes -> BOOLEAN] /\ schedulable \in [Nodes -> BOOLEAN]
        /\ grown \in [Jobs -> SUBSET GPUs]
    BY DEF Init
  <2>3. /\ now \in Nat /\ pc = "pop" /\ todo \in Seq(Jobs) /\ initial \subseteq Jobs
        /\ interrupted \subseteq Jobs /\ pending \subseteq Jobs /\ suspended \subseteq Jobs
    BY DEF Init
  <2> QED  BY <2>1, <2>2, <2>3 DEF LoopTypes
<1>8. EventsTyped
  <2>1. now = 0
    BY DEF Init
  <2>2. \A f \in Queued : f.time \in Nat /\ now <= f.time
    BY <1>1, <1>2, <1>4, <2>1
  <2>3. \A f \in Queued : \/ f.kind = "JOB_ARRIVAL" /\ f.id \in Jobs
                          \/ f.kind \in FleetKinds /\ f.id \in Nodes
    BY <1>1, <1>2, <1>4
  <2> QED  BY <1>4, <2>2, <2>3 DEF EventsTyped, JobKinds, Timers, FleetKinds
<1>9. EventsDistinct
  <2>1. \A f \in Queued : f.kind = "JOB_ARRIVAL" => f \in A
    BY <1>1, <1>4 DEF FleetKinds
  <2>2. \A f \in Queued : f.kind \notin Timers
    BY <1>1, <1>2, <1>4 DEF FleetKinds, Timers
  <2> QED  BY <1>2, <1>4, <2>1, <2>2 DEF EventsDistinct
<1>10. ArrivalsWait /\ Gangs /\ History /\ Clock /\ Growth
  BY <1>5, NoneIsNot DEF Init, ArrivalsWait, Gangs, History, Clock, Growth, Active
<1>11. Pass /\ Planned
  <2>1. todo = <<>> /\ pc = "pop" /\ plan = NoPlan /\ IsInjective(todo) /\ ToSet(todo) = {}
    BY DEF Init, IsInjective, ToSet
  <2> QED  BY <2>1 DEF Pass, Planned
<1>12. Proved!Init
  <2>1. Submitted = [j \in Jobs |-> "unsubmitted"]
    BY <1>5, MappingIs
  <2>2. /\ Generations("JOB_COMPLETE") = [j \in Jobs |-> {}]
        /\ Generations("JOB_CHECKPOINT_COMPLETE") = [j \in Jobs |-> {}]
        /\ Generations("JOB_RESTART_COMPLETE") = [j \in Jobs |-> {}]
    BY <1>6, MappingIs DEF Timers
  <2>3. Settled = alloc /\ SettledOwner = owner
    BY <1>1, NoneGrown DEF Init
  <2>4. available \in [Nodes -> BOOLEAN] /\ schedulable \in [Nodes -> BOOLEAN]
    BY <1>7 DEF LoopTypes
  <2> QED  BY <2>1, <2>2, <2>3, <2>4 DEF Init, Proved!Init
<1> QED  BY <1>7, <1>8, <1>9, <1>10, <1>11, <1>12 DEF Core

\* The invariant holds when the simulation starts.
LEMMA InitLife == Init => LifeInv
BY InitInv, InitMaps, Constants, Proved!InitIInv DEF LifeInv

\* Every step of the loop is a step of the lifecycle specification, or changes nothing that
\* it sees.
LEMMA NextMaps ==
  ASSUME LifeInv, [Next]_vars
  PROVE  [Proved!Next]_(Proved!vars) /\ Core'
<1>1. Types'
  BY StepEffect DEF LifeInv, Inv
<1>2. CASE UNCHANGED vars
  BY <1>1, <1>2, ControlStep
<1>3. ASSUME NEW e \in batch, Submit(e)
      PROVE  [Proved!Next]_(Proved!vars) /\ Core'
  BY <1>1, <1>3, ArriveStep
<1>4. CASE LoopEvent
  BY <1>1, <1>4, LoopEventStep
<1>5. CASE BeginPass \/ BeginBorrowing \/ BeginResume \/ EndPass \/ EndInstant
  BY <1>1, <1>5, ControlStep
<1>6. CASE TryGuaranteed \/ Resume
  BY <1>1, <1>6, TryStep
<1>7. CASE TryBorrowing
  BY <1>1, <1>7, BorrowStep
<1>8. CASE CommitShrink
  BY <1>1, <1>8, ShrinkStep
<1>9. CASE CommitEvict
  BY <1>1, <1>9, EvictStep
<1>10. CASE Retry
  BY <1>1, <1>10, RetryStep
<1>11. CASE Grow
  BY <1>1, <1>11, GrowStep
<1>12. CASE Regenerate
  BY <1>1, <1>12, RegenerateStep
<1> QED
  BY <1>2, <1>3, <1>4, <1>5, <1>6, <1>7, <1>8, <1>9, <1>10, <1>11, <1>12 DEF Next, Step, Terminated

\* The invariant of the loop is inductive.
THEOREM LifeInvariance == Spec => []LifeInv
<1>1. LifeInv /\ [Next]_vars => LifeInv'
  BY NextMaps, LifecycleKeeps, StepEffect DEF LifeInv
<1> QED  BY <1>1, InitLife, PTL DEF Spec

\* The specification instantiated in FairShareEngine and the one instantiated here
\* with its theorems are the same, action by action.
LEMMA SameOperators ==
  /\ \A S : Lifecycle!Cardinality(S) = Proved!Cardinality(S)
  /\ \A j, V : Lifecycle!PlaceableAfter(j, V) = Proved!PlaceableAfter(j, V)
  /\ \A j, P : Lifecycle!IsGang(j, P) <=> Proved!IsGang(j, P)
  /\ \A T : Lifecycle!ReturnedVictims(T) = Proved!ReturnedVictims(T)
  /\ \A T : Lifecycle!TargetsWithout(T) = Proved!TargetsWithout(T)
  /\ \A T : Lifecycle!DropReservations(T) <=> Proved!DropReservations(T)
  /\ \A R : Lifecycle!Release(R) <=> Proved!Release(R)
  /\ \A n : Lifecycle!Affected(n) = Proved!Affected(n)
  /\ \A n : Lifecycle!OnNode(n) = Proved!OnNode(n)
  /\ \A j : Lifecycle!NextGeneration(j) = Proved!NextGeneration(j)
<1>1. \A S : Lifecycle!Cardinality(S) = Proved!Cardinality(S)
  BY DEF Lifecycle!Cardinality, Lifecycle!IsFiniteSet, Proved!Cardinality, Proved!IsFiniteSet
<1>2. \A j, V : Lifecycle!PlaceableAfter(j, V) = Proved!PlaceableAfter(j, V)
  BY DEF Lifecycle!PlaceableAfter, Lifecycle!Usable, Lifecycle!ReservedElsewhere,
         Proved!PlaceableAfter, Proved!Usable, Proved!ReservedElsewhere
<1>3. \A j, P : Lifecycle!IsGang(j, P) <=> Proved!IsGang(j, P)
  BY <1>1 DEF Lifecycle!IsGang, Lifecycle!SingleVendor, Proved!IsGang, Proved!SingleVendor
<1>4. /\ \A T : Lifecycle!ReturnedVictims(T) = Proved!ReturnedVictims(T)
      /\ \A T : Lifecycle!TargetsWithout(T) = Proved!TargetsWithout(T)
      /\ \A T : Lifecycle!DropReservations(T) <=> Proved!DropReservations(T)
  BY DEF Lifecycle!Holders, Lifecycle!ReturnedVictims, Lifecycle!TargetsWithout,
       Lifecycle!DropReservations,
         Proved!Holders, Proved!ReturnedVictims, Proved!TargetsWithout, Proved!DropReservations
<1>5. /\ \A R : Lifecycle!Release(R) <=> Proved!Release(R)
      /\ \A n : Lifecycle!Affected(n) = Proved!Affected(n)
      /\ \A n : Lifecycle!OnNode(n) = Proved!OnNode(n)
      /\ \A j : Lifecycle!NextGeneration(j) = Proved!NextGeneration(j)
  BY DEF Lifecycle!Release, Lifecycle!Affected, Lifecycle!OnNode, Lifecycle!NextGeneration,
         Proved!Release, Proved!Affected, Proved!OnNode, Proved!NextGeneration
<1> QED  BY <1>1, <1>2, <1>3, <1>4, <1>5

\* Steps that change nothing of the one copy of the lifecycle specification change
\* nothing of the other.
LEMMA SameStutter == UNCHANGED Proved!vars => UNCHANGED Lifecycle!vars
BY DEF Lifecycle!jobVars, Lifecycle!queueVars, Lifecycle!eventVars, Lifecycle!nodeVars, Lifecycle!vars,
       Proved!jobVars, Proved!queueVars, Proved!eventVars, Proved!nodeVars, Proved!vars

\* Steps of the one copy are steps of the other.
LEMMA SameLifecycle ==
  /\ Proved!Init => Lifecycle!Init
  /\ [Proved!Next]_(Proved!vars) => [Lifecycle!Next]_(Lifecycle!vars)
<1>1. Proved!Init => Lifecycle!Init
  BY DEF Lifecycle!Init, Proved!Init
<1>2. \A j : Proved!Arrive(j) => Lifecycle!Arrive(j)
  BY DEF Lifecycle!Arrive, Proved!Arrive, Lifecycle!eventVars, Proved!eventVars, Lifecycle!nodeVars,
       Proved!nodeVars
<1>3. \A j, P : Proved!Start(j, P) => Lifecycle!Start(j, P)
  BY SameOperators DEF Lifecycle!Start, Proved!Start, Lifecycle!nodeVars, Proved!nodeVars
<1>4. \A j : Proved!CompleteRestart(j) => Lifecycle!CompleteRestart(j)
  BY DEF Lifecycle!CompleteRestart, Proved!CompleteRestart, Lifecycle!queueVars, Proved!queueVars,
         Lifecycle!nodeVars, Proved!nodeVars
<1>5. \A j : Proved!Complete(j) => Lifecycle!Complete(j)
  BY SameOperators DEF Lifecycle!Complete, Proved!Complete, Lifecycle!queueVars, Proved!queueVars,
         Lifecycle!nodeVars, Proved!nodeVars
<1>6. \A j : Proved!CompleteCheckpoint(j) => Lifecycle!CompleteCheckpoint(j)
  BY SameOperators
       DEF Lifecycle!CompleteCheckpoint, Proved!CompleteCheckpoint, Lifecycle!nodeVars, Proved!nodeVars
<1>7. \A j : Proved!DropStale(j) => Lifecycle!DropStale(j)
  BY DEF Lifecycle!DropStale, Proved!DropStale, Lifecycle!jobVars, Lifecycle!queueVars,
       Lifecycle!eventVars, Lifecycle!nodeVars, Proved!jobVars, Proved!queueVars, Proved!eventVars,
       Proved!nodeVars
<1>8. \A h, V, P : Proved!Preempt(h, V, P) => Lifecycle!Preempt(h, V, P)
  BY SameOperators DEF Lifecycle!Preempt, Proved!Preempt, Lifecycle!nodeVars, Proved!nodeVars
<1>9. \A h : Proved!GiveUpReservation(h) => Lifecycle!GiveUpReservation(h)
  BY SameOperators
       DEF Lifecycle!GiveUpReservation, Proved!GiveUpReservation, Lifecycle!jobVars, Lifecycle!queueVars,
           Lifecycle!eventVars, Lifecycle!nodeVars, Proved!jobVars, Proved!queueVars, Proved!eventVars,
           Proved!nodeVars
<1>10. \A j, P : Proved!Resize(j, P) => Lifecycle!Resize(j, P)
  BY SameOperators DEF Lifecycle!Resize, Proved!Resize, Lifecycle!queueVars, Proved!queueVars,
                       Lifecycle!nodeVars, Proved!nodeVars
<1>11. \A n : Proved!Restore(n) => Lifecycle!Restore(n)
  BY DEF Lifecycle!Restore, Proved!Restore, Lifecycle!jobVars, Lifecycle!queueVars, Lifecycle!eventVars,
       Lifecycle!nodeVars, Proved!jobVars, Proved!queueVars, Proved!eventVars, Proved!nodeVars
<1>12. \A n : Proved!Drain(n) => Lifecycle!Drain(n)
  BY SameOperators
       DEF Lifecycle!Drain, Proved!Drain, Lifecycle!jobVars, Lifecycle!queueVars, Lifecycle!eventVars,
           Lifecycle!nodeVars, Proved!jobVars, Proved!queueVars, Proved!eventVars, Proved!nodeVars
<1>13. \A n : Proved!Fail(n) => Lifecycle!Fail(n)
  BY DEF Lifecycle!Fail, Proved!Fail, Lifecycle!Cardinality, Lifecycle!IsFiniteSet, Proved!Cardinality,
         Proved!IsFiniteSet, Lifecycle!Holders, Lifecycle!ReturnedVictims, Lifecycle!TargetsWithout,
         Lifecycle!DropReservations, Proved!Holders, Proved!ReturnedVictims, Proved!TargetsWithout,
         Proved!DropReservations, Lifecycle!Affected, Lifecycle!OnNode, Lifecycle!NextGeneration,
         Proved!Affected, Proved!OnNode, Proved!NextGeneration
<1>14. Proved!Next => Lifecycle!Next
  BY <1>2, <1>3, <1>4, <1>5, <1>6, <1>7, <1>8, <1>9, <1>10, <1>11, <1>12, <1>13, SameOperators
     DEF Lifecycle!Next, Proved!Next
<1> QED  BY <1>1, <1>14, SameStutter

\* The engine implements the lifecycle specification: reclaim, growth and the reservations of
\* the fair-share pass are nothing but starts, resizes and preemptions it allows
\* (engine.py:249-509, 719-819, 968-1071, 1236-1336).
THEOREM LifecycleRefinement == Spec => ImplementsLifecycle
<1>1. Init => Lifecycle!Init
  BY InitMaps, SameLifecycle
<1>2. LifeInv /\ [Next]_vars => [Lifecycle!Next]_(Lifecycle!vars)
  BY NextMaps, SameLifecycle
<1> QED  BY <1>1, <1>2, LifeInvariance, PTL DEF Spec, ImplementsLifecycle, Lifecycle!Spec

-----------------------------------------------------------------------------
(* Types of what the scheduler keeps beside usage.                         *)

\* The powers of two up to n.
Powers(f, n) == \A k \in 0 .. n : f[k] = IF k = 0 THEN 1 ELSE 2 * f[k - 1]

\* There is a function with the powers of two up to n.
LEMMA PowersUpTo ==
  ASSUME NEW n \in Nat
  PROVE  \E f \in [0 .. n -> Nat \ {0}] : Powers(f, n)
<1> DEFINE B == {i \in Nat : ~ \E f \in [0 .. i -> Nat \ {0}] : Powers(f, i)}
<1> SUFFICES ASSUME B # {} PROVE FALSE
  OBVIOUS
<1>1. PICK i \in B : \A l \in B : i <= l
  <2>1. B \in SUBSET Nat
    OBVIOUS
  <2> HIDE DEF B
  <2> QED  BY <2>1, LeastNumber
<1>2. i # 0
  <2>1. [k \in 0 .. 0 |-> 1] \in [0 .. 0 -> Nat \ {0}] /\ Powers([k \in 0 .. 0 |-> 1], 0)
    BY DEF Powers
  <2> QED  BY <2>1
<1>3. PICK g \in [0 .. i - 1 -> Nat \ {0}] : Powers(g, i - 1)
  <2>1. i - 1 \in Nat /\ ~ i <= i - 1
    BY <1>2
  <2> QED  BY <1>1, <2>1
<1> DEFINE f == [k \in 0 .. i |-> IF k = i THEN 2 * g[i - 1] ELSE g[k]]
<1>4. g[i - 1] \in Nat \ {0}
  BY <1>2, <1>3
<1>5. f \in [0 .. i -> Nat \ {0}]
  BY <1>3, <1>4
<1>6. ASSUME NEW k \in 0 .. i
      PROVE  f[k] = IF k = 0 THEN 1 ELSE 2 * f[k - 1]
  <2>1. CASE k = i
    <3>1. k # 0 /\ k - 1 \in 0 .. i /\ k - 1 # i
      BY <1>2, <2>1
    <3> QED  BY <2>1, <3>1
  <2>2. CASE k # i
    <3>1. k \in 0 .. i - 1
      BY <2>2
    <3>2. g[k] = IF k = 0 THEN 1 ELSE 2 * g[k - 1]
      BY <1>3, <3>1 DEF Powers
    <3>3. f[k] = g[k] /\ (k # 0 => f[k - 1] = g[k - 1])
      BY <2>2
    <3> QED  BY <3>2, <3>3
  <2> QED  BY <2>1, <2>2
<1>7. Powers(f, i)
  BY <1>6 DEF Powers
<1> HIDE DEF f
<1> QED  BY <1>1, <1>5, <1>7

\* Two such functions agree where both are defined.
LEMMA PowersUnique ==
  ASSUME NEW m \in Nat, NEW n \in Nat, NEW f, NEW g, Powers(f, m), Powers(g, n),
         NEW k \in Nat, k <= m, k <= n
  PROVE  f[k] = g[k]
<1> DEFINE B == {i \in Nat : i <= m /\ i <= n /\ f[i] # g[i]}
<1> SUFFICES ASSUME B # {} PROVE FALSE
  OBVIOUS
<1>1. PICK i \in B : \A l \in B : i <= l
  <2>1. B \in SUBSET Nat
    OBVIOUS
  <2> HIDE DEF B
  <2> QED  BY <2>1, LeastNumber
<1>2. i \in 0 .. m /\ i \in 0 .. n
  OBVIOUS
<1>3. i # 0
  BY <1>1, <1>2 DEF Powers
<1>4. f[i - 1] = g[i - 1]
  <2>1. i - 1 \in Nat /\ i - 1 <= m /\ i - 1 <= n /\ ~ i <= i - 1
    BY <1>3
  <2> QED  BY <1>1, <2>1
<1> QED  BY <1>1, <1>2, <1>3, <1>4 DEF Powers

\* The recursion in PowerOfTwo is well defined.
LEMMA PowerIs ==
  /\ PowerOfTwo \in [Nat -> Nat \ {0}]
  /\ \A k \in Nat : PowerOfTwo[k] = IF k = 0 THEN 1 ELSE 2 * PowerOfTwo[k - 1]
<1> DEFINE UpTo(n) == CHOOSE f : f \in [0 .. n -> Nat \ {0}] /\ Powers(f, n)
           f == [k \in Nat |-> UpTo(k)[k]]
           Recurses(g) == g = [k \in Nat |-> IF k = 0 THEN 1 ELSE 2 * g[k - 1]]
<1>1. \A n \in Nat : UpTo(n) \in [0 .. n -> Nat \ {0}] /\ Powers(UpTo(n), n)
  BY PowersUpTo
<1> HIDE DEF UpTo
<1>2. ASSUME NEW k \in Nat
      PROVE  f[k] \in Nat \ {0} /\ f[k] = IF k = 0 THEN 1 ELSE 2 * f[k - 1]
  <2>1. k \in 0 .. k
    OBVIOUS
  <2>2. UpTo(k)[k] \in Nat \ {0} /\ UpTo(k)[k] = IF k = 0 THEN 1 ELSE 2 * UpTo(k)[k - 1]
    BY <1>1, <2>1 DEF Powers
  <2>3. k # 0 => UpTo(k)[k - 1] = UpTo(k - 1)[k - 1]
    <3> SUFFICES ASSUME k # 0 PROVE UpTo(k)[k - 1] = UpTo(k - 1)[k - 1]
      OBVIOUS
    <3>1. k - 1 \in Nat /\ k - 1 <= k /\ k - 1 <= k - 1
      OBVIOUS
    <3> QED  BY <1>1, <3>1, PowersUnique
  <2>4. k # 0 => k - 1 \in Nat
    OBVIOUS
  <2> QED  BY <2>2, <2>3, <2>4
<1>3. f \in [Nat -> Nat \ {0}] /\ Recurses(f)
  <2>1. f = [k \in Nat |-> f[k]]
    OBVIOUS
  <2> HIDE DEF f
  <2> QED  BY <1>2, <2>1
<1> HIDE DEF f
<1>4. PowerOfTwo = CHOOSE g : Recurses(g)
  BY DEF PowerOfTwo
<1>5. Recurses(PowerOfTwo)
  BY <1>3, <1>4
<1>6. \A k \in Nat : PowerOfTwo[k] = IF k = 0 THEN 1 ELSE 2 * PowerOfTwo[k - 1]
  BY <1>5
<1> HIDE DEF Recurses
<1>7. \A k \in Nat : PowerOfTwo[k] = f[k]
  <2>1. \A n \in Nat : Powers(f, n) /\ Powers(PowerOfTwo, n)
    BY <1>2, <1>6 DEF Powers
  <2> QED  BY <2>1, PowersUnique
<1>8. PowerOfTwo = [k \in Nat |-> PowerOfTwo[k]]
  BY <1>5 DEF Recurses
<1> QED  BY <1>3, <1>6, <1>7, <1>8

\* Powers of two grow with the exponent.
LEMMA PowerMonotone ==
  ASSUME NEW m \in Nat, NEW n \in Nat, m <= n
  PROVE  PowerOfTwo[m] <= PowerOfTwo[n]
<1> DEFINE B == {i \in Nat : m <= i /\ ~ PowerOfTwo[m] <= PowerOfTwo[i]}
<1> SUFFICES ASSUME B # {} PROVE FALSE
  OBVIOUS
<1>1. PICK i \in B : \A l \in B : i <= l
  <2>1. B \in SUBSET Nat
    OBVIOUS
  <2> HIDE DEF B
  <2> QED  BY <2>1, LeastNumber
<1>2. PowerOfTwo[m] \in Nat \ {0} /\ PowerOfTwo[i] \in Nat \ {0}
  BY PowerIs
<1>3. i # m /\ i \in Nat /\ m <= i
  BY <1>2
<1>4. i - 1 \in Nat /\ m <= i - 1 /\ ~ i <= i - 1 /\ i # 0
  BY <1>3
<1>5. PowerOfTwo[i - 1] \in Nat \ {0} /\ PowerOfTwo[i] = 2 * PowerOfTwo[i - 1]
  BY <1>4, PowerIs
<1>6. PowerOfTwo[m] <= PowerOfTwo[i - 1]
  BY <1>1, <1>4
<1>7. PowerOfTwo[m] <= PowerOfTwo[i]
  BY <1>2, <1>5, <1>6
<1> QED  BY <1>7

\* The service of a queue over an interval is a number.
LEMMA ServedIs ==
  ASSUME NEW usage \in [Queues -> Vectors], NEW q \in Queues, NEW s \in Nat, NEW t \in Nat, s <= t
  PROVE  Served(q, usage, s, t) \in Nat
<1>1. HalfLife \in Nat \ {0}
  BY FairShareAssumption
<1> DEFINE a == s \div HalfLife
           b == t \div HalfLife
<1>2. a \in Nat /\ b \in Nat /\ a <= b
  BY <1>1
<1>3. PowerOfTwo[a] \in Nat /\ PowerOfTwo[b] \in Nat /\ PowerOfTwo[a] <= PowerOfTwo[b]
  <2> HIDE DEF a, b
  <2> QED  BY <1>2, PowerIs, PowerMonotone
<1>4. usage[q]["gpu_units"] \in Nat
  BY DEF Vectors, Dims
<1>5. Served(q, usage, s, t) = usage[q]["gpu_units"] * (PowerOfTwo[b] - PowerOfTwo[a])
  BY DEF Served
<1> HIDE DEF a, b
<1>6. PowerOfTwo[b] - PowerOfTwo[a] \in Nat
  BY <1>3
<1>7. \A x, y \in Nat : x * y \in Nat
  OBVIOUS
<1> QED  BY <1>4, <1>5, <1>6, <1>7

\* A guarantee is a number.
LEMMA GuaranteedIs == \A q \in Queues : GuaranteedUnits(q) \in Nat
BY HierarchyAssumption DEF GuaranteedUnits, Floor, IsQuota

\* What a job borrows is a number, at its start and whenever usage is refreshed.
LEMMA BorrowedIs ==
  ASSUME Types, NEW a \in Holdings
  PROVE  BorrowedOf(a) \in [Jobs -> Nat]
<1>1. DirectOf(a) \in [Queues -> Vectors]
  BY DirectIs, DirectType, QueueTypes
<1>2. ASSUME NEW j \in Jobs PROVE BorrowedOf(a)[j] \in Nat
  <2> DEFINE q == QueueOf(j)
             Ahead(i) == Less(<<scenario.priority[i], i>>, <<scenario.priority[j], j>>)
             earlier == {i \in Jobs : QueueOf(i) = q /\ Ahead(i)}
             surplus == DirectOf(a)[q]["gpu_units"] - GuaranteedUnits(q)
             held == SumFunctionOnSet([i \in Jobs |-> UnitsIn(a[i])], earlier)
             excess == Max({0, surplus})
             left == Max({0, excess - held})
  <2>1. BorrowedOf(a)[j] = Min({UnitsIn(a[j]), left})
    BY DEF BorrowedOf
  <2>2. surplus \in Int
    <3>1. DirectOf(a)[q] \in Vectors /\ q \in Queues
      BY <1>1, QueueTypes
    <3>2. DirectOf(a)[q]["gpu_units"] \in Nat
      BY <3>1 DEF Vectors, Dims
    <3> QED  BY <3>1, <3>2, GuaranteedIs
  <2>3. excess \in Nat
    <3> HIDE DEF surplus
    <3> QED  BY <2>2, MaxWithZero
  <2>4. \A i \in Jobs : UnitsIn(a[i]) \in Nat
    BY UnitsType DEF Holdings
  <2>5. held \in Nat
    <3>1. IsFiniteSet(earlier)
      <4>1. earlier \subseteq Jobs
        OBVIOUS
      <4> HIDE DEF earlier
      <4> QED  BY <4>1, PlacementAssumption, FS_Subset
    <3> HIDE DEF Ahead
    <3> QED  BY <2>4, <3>1, SumType
  <2>6. left \in Nat
    <3> HIDE DEF excess, held
    <3>1. excess - held \in Int
      BY <2>3, <2>5
    <3> QED  BY <3>1, MaxWithZero
  <2> HIDE DEF left
  <2> QED  BY <2>1, <2>4, <2>6, MinOfTwo
<1>3. BorrowedOf(a) = [j \in Jobs |-> BorrowedOf(a)[j]]
  BY DEF BorrowedOf
<1> QED  BY <1>2, <1>3

\* What a start makes a job borrow is a number.
LEMMA ChargeIs ==
  ASSUME Inv, NEW j \in Jobs, NEW P \in SUBSET GPUs, Charge(j, P), borrowed \in [Jobs -> Nat]
  PROVE  borrowed' \in [Jobs -> Nat]
<1> DEFINE x == GuaranteedUnits(QueueOf(j)) - Usage[QueueOf(j)]["gpu_units"]
           left == Max({0, x})
<1>1. borrowed' = [borrowed EXCEPT ![j] = Max({0, UnitsIn(P) - left})]
  BY DEF Charge
<1>2. QueueOf(j) \in Queues /\ Usage \in [Queues -> Vectors]
  BY QueueTypes, CachedUsage DEF Inv
<1>3. Usage[QueueOf(j)]["gpu_units"] \in Nat
  BY <1>2 DEF Vectors, Dims
<1>4. x \in Int
  BY <1>2, <1>3, GuaranteedIs
<1>5. left \in Nat
  <2> HIDE DEF x
  <2> QED  BY <1>4, MaxWithZero
<1> HIDE DEF left
<1>6. UnitsIn(P) - left \in Int
  BY <1>5, UnitsType
<1>7. Max({0, UnitsIn(P) - left}) \in Nat
  BY <1>6, MaxWithZero
<1> QED  BY <1>1, <1>7

\* A job that does not run has a priority with aging, which is a priority.
LEMMA AgedIs ==
  ASSUME Types, LoopTypes, NEW j \in Jobs, status[j] # "running"
  PROVE  EffectivePriority(j) \in 0 .. Critical
<1> DEFINE ran == IF j \in ElasticJobs THEN 0 ELSE work[j]
           x == now - scenario.arrival[j] - ran
           waited == Max({0, x})
           q == scenario.priority[j] + (waited \div AgingInterval)
<1>0. now \in Nat /\ scenario.arrival[j] \in Nat /\ ran \in Nat
  BY ScenarioIs DEF LoopTypes
<1>1. x \in Int /\ scenario.priority[j] \in Nat /\ AgingInterval \in Nat \ {0} /\ Critical = 3
  <2>1. scenario.priority[j] \in 0 .. Critical /\ Critical = 3
    BY ScenarioIs DEF Critical
  <2> HIDE DEF ran
  <2> QED  BY <1>0, <2>1, LoopAssumption
<1>2. waited \in Nat
  <2> HIDE DEF x
  <2> QED  BY <1>1, MaxWithZero
<1>3. EffectivePriority(j) = Min({Critical, q})
  BY DEF EffectivePriority
<1> HIDE DEF waited, x
<1>4. waited \div AgingInterval \in Nat
  BY <1>1, <1>2
<1>5. q \in Nat
  BY <1>1, <1>4
<1> HIDE DEF q
<1> QED  BY <1>1, <1>3, <1>5, MinOfTwo

\* The variables that decide nothing in the lifecycle have their types.
Booked ==
  /\ runningPriority \in [Jobs -> 0 .. Critical \cup {None}]
  /\ service \in [Queues -> Nat]
  /\ borrowed \in [Jobs -> Nat]
  /\ entitled \in [Jobs -> SUBSET Queues]
  /\ lastResize \in [Jobs -> Nat \cup {None}]

\* Events only make a job stop running; time passes forward.
LEMMA LoopEventBooks ==
  ASSUME LifeInv, LifeInv', Booked, LoopEvent
  PROVE  Booked'
<1>1. runningPriority' \in [Jobs -> 0 .. Critical \cup {None}]
  <2>1. CASE \E e \in batch : Fail(e)
    BY <2>1 DEF Booked, Fail
  <2>2. CASE \E e \in batch : Complete(e)
    BY <2>2 DEF Booked, Complete
  <2>3. CASE ~(\E e \in batch : Fail(e)) /\ ~(\E e \in batch : Complete(e))
    <3>1. runningPriority' = runningPriority
      BY <2>3 DEF LoopEvent, LoopStep, Handle, Discard, Pop, Finish, StaleTimer, CompleteCheckpoint,
                  CompleteRestart, Restore, Drain, jobVars
    <3> QED  BY <3>1 DEF Booked
  <2> QED  BY <2>1, <2>2, <2>3
<1>2. now \in Nat /\ now' \in Nat /\ now <= now'
  <2>1. now \in Nat /\ now' \in Nat
    BY DEF LifeInv, Core, LoopTypes
  <2>2. ASSUME NEW e \in heap, Pop(e) PROVE now <= now'
    BY <2>2 DEF LifeInv, Core, EventsTyped, Queued, Pop
  <2>3. CASE ~ \E e \in heap : Pop(e)
    <3>1. now' = now
      BY <2>3 DEF LoopEvent, LoopStep, Handle, Discard, Finish, StaleTimer, Complete, CompleteCheckpoint,
                  CompleteRestart, Restore, Drain, Fail, Take
    <3> QED  BY <2>1, <3>1
  <2> QED  BY <2>1, <2>2, <2>3
<1>3. \A q \in Queues : Served(q, Usage, now, now') \in Nat
  BY <1>2, CachedUsage, ServedIs DEF LifeInv
<1>4. service' \in [Queues -> Nat]
  BY <1>3 DEF LoopEvent, Booked
<1>5. /\ entitled' \in [Jobs -> SUBSET Queues]
      /\ borrowed' = borrowed /\ lastResize' = lastResize
  BY DEF LoopEvent, DropEntitlements, stepVars, Booked
<1> QED  BY <1>1, <1>4, <1>5 DEF Booked

\* A start fixes the priority a job runs with, and what it borrows.
LEMMA AttemptBooks ==
  ASSUME LifeInv, Booked, NEW j \in Jobs, status[j] = "pending", NEW P \in SUBSET GPUs,
         StartOrWait(j, P), lastResize' = lastResize
  PROVE  Booked'
<1>1. CASE P # {}
  <2>1. Start(j, P)
    BY <1>1 DEF StartOrWait
  <2>2. EffectivePriority(j) \in 0 .. Critical
    BY AgedIs DEF LifeInv, Inv, Core
  <2>3. runningPriority' \in [Jobs -> 0 .. Critical \cup {None}]
    <3>1. runningPriority' = [runningPriority EXCEPT ![j] = EffectivePriority(j)]
      BY <2>1 DEF Start, StartJob
    <3> QED  BY <2>2, <3>1 DEF Booked
  <2>4. borrowed' \in [Jobs -> Nat]
    BY <2>1, ChargeIs DEF Start, LifeInv, Booked
  <2>5. service' = service /\ entitled' \in [Jobs -> SUBSET Queues]
    BY <2>1 DEF Start, Charge, DropEntitlements, Booked
  <2> QED  BY <2>3, <2>4, <2>5 DEF Booked
<1>2. CASE P = {} /\ GivesUp(j)
  BY <1>2 DEF StartOrWait, GiveUp, DropEntitlements, jobVars, Booked
<1>3. CASE P = {} /\ ~GivesUp(j)
  BY <1>3 DEF StartOrWait, NoChange, jobVars, shareVars, Booked
<1> QED  BY <1>1, <1>2, <1>3

\* Refreshing the usage.
LEMMA PrepareBooks ==
  ASSUME Types, Booked, NEW a \in Holdings, Prepare(a),
         UNCHANGED <<runningPriority, entitled, lastResize>>
  PROVE  Booked'
<1>1. borrowed' \in [Jobs -> Nat]
  BY BorrowedIs DEF Prepare
<1> QED  BY <1>1 DEF Prepare, Booked

\* What a job finds is a set of GPUs.
LEMMA FoundGpus ==
  ASSUME NEW j \in Jobs
  PROVE  /\ \A borrowing : PlaceNow(j, borrowing) \in SUBSET GPUs
         /\ \A view, usage, borrowing : QuotaPlace(j, view, usage, borrowing) \in SUBSET GPUs
<1>1. Compatible[j] \subseteq GPUs
  BY Constants
<1>2. ASSUME NEW borrowing PROVE PlaceNow(j, borrowing) \in SUBSET GPUs
  <2>1. PlaceNow(j, borrowing) # {} => PlaceNow(j, borrowing) \subseteq Compatible[j]
    BY FoundNowIs DEF Fits
  <2> QED  BY <1>1, <2>1
<1>3. ASSUME NEW view, NEW usage, NEW borrowing PROVE QuotaPlace(j, view, usage, borrowing) \in SUBSET GPUs
  <2>1. QuotaPlace(j, view, usage, borrowing) # {} => QuotaPlace(j, view, usage, borrowing) \subseteq Compatible[j]
    BY FoundIs DEF Fits
  <2> QED  BY <1>1, <2>1
<1> QED  BY <1>2, <1>3

\* The steps of the pass and of growth.
LEMMA StepBooks ==
  ASSUME LifeInv, LifeInv', Booked, Step
  PROVE  Booked'
<1>0. Types /\ alloc \in Holdings /\ alloc' \in Holdings /\ now \in Nat /\ now' \in Nat
  BY DEF LifeInv, Inv, Types, Core, LoopTypes
<1>1. CASE LoopEvent
  BY <1>1, LoopEventBooks
<1>2. ASSUME NEW e \in batch, Submit(e) PROVE Booked'
  BY <1>2 DEF Submit, Arrive, shareVars, stepVars, Booked
<1>3. CASE BeginPass \/ BeginBorrowing \/ EndInstant
  <2>1. Prepare(alloc) /\ UNCHANGED <<runningPriority, entitled, lastResize>>
    BY <1>3 DEF BeginPass, BeginBorrowing, EndInstant, jobVars, stepVars
  <2> QED  BY <1>0, <2>1, PrepareBooks
<1>4. CASE BeginResume \/ EndPass
  BY <1>4 DEF BeginResume, EndPass, jobVars, shareVars, stepVars, Booked
<1>5. CASE TryGuaranteed
  <2>1. PICK j \in Jobs : Next1(j) /\ \E P \in {PlaceNow(j, FALSE)} : StartOrWait(j, P)
    BY <1>5 DEF TryGuaranteed
  <2> QED  BY <1>5, <2>1, FoundGpus, AttemptBooks DEF Next1, TryGuaranteed, stepVars
<1>6. CASE TryBorrowing
  <2>1. lastResize' = lastResize
    BY <1>6 DEF TryBorrowing
  <2>2. PICK j \in Jobs : Next1(j) /\ \E P \in {PlaceNow(j, Borrowing)} :
          \/ StartOrWait(j, P)
          \/ Prepare(alloc) /\ UNCHANGED <<jobVars, entitled>>
    BY <1>6 DEF TryBorrowing
  <2>3. CASE StartOrWait(j, PlaceNow(j, Borrowing))
    BY <2>1, <2>2, <2>3, FoundGpus, AttemptBooks DEF Next1
  <2>4. CASE Prepare(alloc) /\ UNCHANGED <<jobVars, entitled>>
    BY <1>0, <2>1, <2>4, PrepareBooks DEF jobVars
  <2> QED  BY <2>2, <2>3, <2>4
<1>7. CASE CommitShrink
  BY <1>0, <1>7 DEF CommitShrink, shareVars, Booked
<1>8. CASE CommitEvict
  <2>1. plan.queues \in SUBSET Queues /\ plan.victims \in SUBSET Jobs
    BY DEF LifeInv, Core, LoopTypes, Plannings
  <2>2. entitled' \in [Jobs -> SUBSET Queues] /\ runningPriority' \in [Jobs -> 0 .. Critical \cup {None}]
        /\ lastResize' = lastResize
    BY <1>8, <2>1 DEF CommitEvict, Booked
  <2>3. UNCHANGED <<direct, service, borrowed>> \/ Prepare(alloc')
    BY <1>8 DEF CommitEvict
  <2>4. borrowed' \in [Jobs -> Nat] /\ service' = service
    <3>1. CASE Prepare(alloc')
      <4>1. BorrowedOf(alloc') \in [Jobs -> Nat]
        BY <1>0, BorrowedIs
      <4> QED  BY <3>1, <4>1 DEF Prepare
    <3> QED  BY <2>3, <3>1 DEF Booked
  <2> QED  BY <2>2, <2>4 DEF Booked
<1>9. CASE Retry
  <2>1. plan.target \in Jobs /\ status[plan.target] = "pending"
    <3>1. plan.target \in pending
      BY <1>9 DEF LifeInv, Core, Planned, Retry
    <3> QED  BY <3>1, Plain DEF LifeInv, Core, LoopTypes, InOneQueue
  <2>2. PICK P \in {QuotaPlace(plan.target, ViewFor(plan.target), Usage, Borrowing)} :
          (P # {} /\ Start(plan.target, P)) \/ NoChange
    BY <1>9 DEF Retry
  <2>3. P \in SUBSET GPUs
    BY <2>1, <2>2, FoundGpus
  <2>4. lastResize' = lastResize
    BY <1>9 DEF Retry
  <2>5. CASE P # {} /\ Start(plan.target, P)
    BY <2>1, <2>3, <2>4, <2>5, AttemptBooks DEF StartOrWait
  <2>6. CASE NoChange
    BY <2>4, <2>6 DEF NoChange, jobVars, shareVars, Booked
  <2> QED  BY <2>2, <2>5, <2>6
<1>10. CASE Resume
  <2>1. PICK j \in Jobs : status[j] = "pending" /\ \E P \in {PlaceNow(j, Borrowing)} : StartOrWait(j, P)
    BY <1>10 DEF Resume
  <2> QED  BY <1>10, <2>1, FoundGpus, AttemptBooks DEF Resume, stepVars
<1>11. CASE Grow
  <2>1. Prepare(alloc') /\ UNCHANGED <<runningPriority, entitled, lastResize>>
    BY <1>11 DEF Grow
  <2> QED  BY <1>0, <2>1, PrepareBooks
<1>12. CASE Regenerate
  BY <1>0, <1>12 DEF Regenerate, shareVars, Booked
<1> QED  BY <1>1, <1>2, <1>3, <1>4, <1>5, <1>6, <1>7, <1>8, <1>9, <1>10, <1>11, <1>12 DEF Step

\* Every variable of the fair-share loop keeps its type, and no event is due in the past.
THEOREM TypeCorrect == Spec => []TypeOK
<1>1. Init => Booked
  BY DEF Init, LoopInit, Booked
<1>2. LifeInv /\ LifeInv' /\ Booked /\ [Next]_vars => Booked'
  <2>1. CASE UNCHANGED vars
    BY <2>1 DEF Booked, vars, loopVars, jobVars, shareVars, stepVars
  <2> QED  BY <2>1, StepBooks DEF Next, Terminated
<1>3. LifeInv /\ Booked => TypeOK
  <2> SUFFICES ASSUME LifeInv, Booked PROVE TypeOK
    OBVIOUS
  <2>1. Types /\ LoopTypes /\ EventsTyped /\ Planned
    BY DEF LifeInv, Inv, Core
  <2>2. ASSUME NEW e \in Queued PROVE e.time >= now /\ Order(e.kind) \in 0 .. 5
    <3>1. e.time \in Nat /\ now <= e.time /\ now \in Nat /\ e.kind \in JobKinds \cup FleetKinds
      BY <2>1 DEF EventsTyped, LoopTypes
    <3> QED  BY <3>1 DEF Order, JobKinds, Timers, FleetKinds
  <2>3. LoopTypeOK
    BY <2>1, <2>2 DEF LoopTypeOK, Types, LoopTypes, Booked, Holdings
  <2>4. plan # NoPlan => pc \in {"commit", "retry"} /\ plan.target \in pending
    BY <2>1 DEF Planned
  <2> QED  BY <2>1, <2>3, <2>4 DEF TypeOK, Types, LoopTypes, Booked
<1> QED  BY <1>1, <1>2, <1>3, LifeInvariance, PTL DEF Spec

-----------------------------------------------------------------------------
(* The end of a run.                                                       *)

\* No job holds GPUs.
Quiet == \A j \in Jobs : status[j] \notin Active
NoUsage == [q \in Queues |-> Zero]

\* The job could not be placed within its quotas if the cluster were empty.
NoFit(j) == QuotaPlace(j, EmptyView, NoUsage, Borrowing) = {}

\* If no job holds GPUs, a pass leaves no reservation, and no job waits that it could have
\* placed. Only holders of a reservation whose victims are done come before the borrowing
\* pass, and they have had their attempt by then.
Idle ==
  /\ pc = "done" => heap = {}
  /\ Quiet =>
       /\ pc = "guarantee" => \A h \in Jobs : reserved[h] # {} => h \in ToSet(todo)
       /\ pc \in {"dispatch", "resume", "resize", "pop", "done"} =>
            /\ \A h \in Jobs : reserved[h] = {}
            /\ \A j \in pending \ ToSet(todo) : NoFit(j)
       /\ pc \in {"dispatch", "resume"} => direct = NoUsage

\* An idle cluster has no owners and no usage.
LEMMA IdleCluster ==
  ASSUME LifeInv, Quiet
  PROVE  Occupied = {} /\ DirectOf(alloc) = NoUsage /\ \A g \in GPUs : owner[g] = None
<1>1. \A j \in Jobs : alloc[j] = {}
  BY Plain DEF Holding, Quiet
<1>2. \A g \in GPUs : owner[g] = None
  BY <1>1 DEF LifeInv, Inv, Types, Owned
<1>3. ASSUME NEW q \in Queues, NEW d \in Dims
      PROVE  DirectOf(alloc)[q][d] = 0
  <2> DEFINE here == {j \in Jobs : QueueOf(j) = q}
             f == [j \in Jobs |-> Allocation(j, alloc[j])[d]]
  <2>1. DirectOf(alloc)[q][d] = SumFunctionOnSet(f, here)
    BY DEF DirectOf
  <2>2. \A j \in here : f[j] = 0
    BY <1>1, AllocationEmpty DEF Zero
  <2>3. IsFiniteSet(here)
    <3>1. here \subseteq Jobs
      OBVIOUS
    <3> HIDE DEF here
    <3> QED  BY <3>1, PlacementAssumption, FS_Subset
  <2> HIDE DEF f, here
  <2> QED  BY <2>1, <2>2, <2>3, SumZero
<1>4. DirectOf(alloc) = NoUsage
  BY <1>3 DEF DirectOf, NoUsage, Zero
<1> QED  BY <1>2, <1>4 DEF Occupied

\* No usage adds up to no usage.
LEMMA NothingAddsUp == Aggregate(NoUsage) = NoUsage
<1>1. ASSUME NEW q \in Queues, NEW d \in Dims
      PROVE  Aggregate(NoUsage)[q][d] = 0
  <2> DEFINE below == {c \in Queues : q \in Ancestors(c)}
             f == [c \in Queues |-> NoUsage[c][d]]
  <2>1. Aggregate(NoUsage)[q][d] = SumFunctionOnSet(f, below)
    BY DEF Aggregate
  <2>2. \A c \in below : f[c] = 0
    BY DEF NoUsage, Zero
  <2>3. IsFiniteSet(below)
    <3>1. below \subseteq Queues
      OBVIOUS
    <3> HIDE DEF below
    <3> QED  BY <3>1, HierarchyAssumption, FS_Subset
  <2> HIDE DEF f, below
  <2> QED  BY <2>1, <2>2, <2>3, SumZero
<1> QED  BY <1>1 DEF Aggregate, NoUsage, Zero

\* Whether a job fits the empty cluster depends on the scenario and the nodes.
LEMMA SameFit ==
  ASSUME UNCHANGED <<scenario, nodeVars>>, NEW j
  PROVE  NoFit(j)' <=> NoFit(j)
BY DEF NoFit, QuotaPlace, QueueOf, EmptyView, UsableGpus, Usable, Borrowing, NoUsage, nodeVars

\* On a cluster without usable GPUs nothing fits and nothing is reserved.
LEMMA StuckIdle ==
  ASSUME LifeInv, Quiet, Stuck
  PROVE  (\A h \in Jobs : reserved[h] = {}) /\ \A j \in Jobs : NoFit(j)
<1>1. UsableGpus = {}
  BY IdleCluster DEF Stuck
<1>2. \A h \in Jobs : reserved[h] = {}
  <2>1. \A h \in Jobs : reserved[h] \subseteq GPUs /\ \A g \in reserved[h] : Usable(NodeOf[g])
    BY Plain DEF Reserving, LifeInv, Core, LoopTypes
  <2> QED  BY <1>1, <2>1 DEF UsableGpus
<1>3. ASSUME NEW j \in Jobs PROVE NoFit(j)
  <2> DEFINE P == QuotaPlace(j, EmptyView, NoUsage, Borrowing)
  <2>1. P # {} => P \subseteq Hosts(j, EmptyView)
    BY FoundIs
  <2>2. Hosts(j, EmptyView) = {}
    BY <1>1 DEF Hosts, EmptyView
  <2> QED  BY <2>1, <2>2 DEF NoFit
<1> QED  BY <1>2, <1>3

\* A job that gets nothing on an idle cluster without reservations does not fit it.
LEMMA TriedInVain ==
  ASSUME LifeInv, Quiet, direct = NoUsage, \A h \in Jobs : reserved[h] = {},
         NEW j \in Jobs, PlaceNow(j, Borrowing) = {}
  PROVE  NoFit(j)
<1> DEFINE X == QuotaPlace(j, ViewFor(j), Usage, Borrowing)
           C(P) == reserved[j] # {} => Covered(j, P, Usage, entitled[j])
<1>1. PlaceNow(j, Borrowing) = UNION {P \in {X} : C(P)}
  BY DEF PlaceNow
<1>2. C(X)
  OBVIOUS
<1>3. X = {}
  <2> HIDE DEF X, C
  <2> QED  BY <1>1, <1>2
<1>4. ViewFor(j) = EmptyView
  <2>1. ReservedElsewhere(j) = {}
    BY DEF ReservedElsewhere
  <2> QED  BY <2>1, IdleCluster DEF ViewFor, EmptyView
<1>5. Usage = NoUsage
  BY NothingAddsUp DEF Usage
<1> QED  BY <1>3, <1>4, <1>5 DEF NoFit

\* A job that starts is active.
LEMMA StartsActive ==
  ASSUME LifeInv, NEW j \in Jobs, NEW P, Start(j, P)
  PROVE  ~Quiet'
<1>1. status' = [status EXCEPT ![j] = status'[j]] /\ status'[j] \in Active
  BY DEF Start, StartJob, LifeInv, Core, LoopTypes, Active
<1> QED  BY <1>1 DEF Quiet, LifeInv, Core, LoopTypes

\* An attempt on an idle cluster that starts nothing leaves the job without reservation.
LEMMA AttemptIdles ==
  ASSUME LifeInv, NEW j \in Jobs, NEW P, StartOrWait(j, P), Quiet'
  PROVE  /\ P = {} /\ Quiet /\ reserved' = [reserved EXCEPT ![j] = {}]
         /\ UNCHANGED <<nodeVars, direct>>
         /\ reserved[j] = {} => pending' = pending
<1>1. P = {}
  BY StartsActive DEF StartOrWait
<1>2. GiveUp(j) \/ (~GivesUp(j) /\ NoChange)
  BY <1>1 DEF StartOrWait
<1>3. status' = status /\ UNCHANGED <<nodeVars, direct>>
  BY <1>2 DEF GiveUp, NoChange, jobVars, shareVars
<1>4. Quiet
  BY <1>3 DEF Quiet
<1>5. reserved \in [Jobs -> SUBSET GPUs]
  BY DEF LifeInv, Core, LoopTypes
<1>6. CASE GiveUp(j)
  <2>1. reserved' = [reserved EXCEPT ![j] = {}]
    BY <1>5, <1>6 DEF GiveUp, DropReservations
  <2>2. reserved[j] = {} => pending' = pending
    BY <1>6 DEF GiveUp, ReturnedVictims, Holders, LifeInv, Core, LoopTypes
  <2> QED  BY <1>1, <1>3, <1>4, <2>1, <2>2
<1>7. CASE ~GivesUp(j) /\ NoChange
  <2>1. reserved[j] = {}
    BY <1>4, <1>5, <1>7, IdleCluster DEF GivesUp
  <2> QED  BY <1>1, <1>3, <1>4, <1>5, <1>7, <2>1 DEF NoChange, queueVars
<1> QED  BY <1>2, <1>6, <1>7

\* The jobs still to try, after one of them was.
LEMMA TodoShrinks ==
  ASSUME LifeInv
  PROVE  /\ \A j \in Jobs : Next1(j) => j \in ToSet(todo) /\ ToSet(todo') = ToSet(todo) \ {j}
         /\ ToSet(<<>>) = {}
<1>1. todo \in Seq(Jobs)
  BY DEF LifeInv, Core, LoopTypes
<1>2. ToSet(todo) \in SUBSET Jobs
  BY <1>1 DEF ToSet
<1>3. ASSUME NEW j \in Jobs, Next1(j) PROVE j \in ToSet(todo) /\ ToSet(todo') = ToSet(todo) \ {j}
  <2>1. todo' = SetToSeq(ToSet(todo) \ {j}) /\ j \in ToSet(todo)
    BY <1>3 DEF Next1, Foremost
  <2>2. ToSet(todo) \ {j} \in SUBSET Jobs
    BY <1>2
  <2>3. Lists(SetToSeq(ToSet(todo) \ {j}), ToSet(todo) \ {j})
    BY <2>2, ListsOf
  <2> QED  BY <2>1, <2>3 DEF Lists
<1>4. ToSet(<<>>) = {}
  BY DEF ToSet
<1> QED  BY <1>3, <1>4

\* The steps of the pass.
LEMMA StepIdles ==
  ASSUME LifeInv, LifeInv', Idle, Step, Quiet'
  PROVE  Idle'
<1>0. /\ pending \subseteq Jobs /\ pending' \subseteq Jobs /\ reserved \in [Jobs -> SUBSET GPUs]
      /\ \A h \in Jobs : reserved[h] # {} => h \in pending
  BY Plain DEF LifeInv, Core, LoopTypes, Reserving
<1>1. CASE LoopEvent
  <2>1. CASE pc' = "handle"
    BY <2>1 DEF Idle
  <2>2. CASE pc' # "handle"
    <3>1. UNCHANGED <<scenario, status, todo, pending, reserved, nodeVars>> /\ pc = "pop"
          /\ (pc' = "pop" \/ (pc' = "done" /\ heap = {} /\ heap' = heap))
      BY <1>1, <2>2 DEF LoopEvent, LoopStep, Discard, Pop, Finish, Handle, StaleTimer, Complete,
           CompleteCheckpoint, CompleteRestart, Restore, Drain, Fail, Take, jobVars, queueVars, passVars
    <3>2. Quiet
      BY <3>1 DEF Quiet
    <3> QED  BY <3>1, <3>2, SameFit DEF Idle
  <2> QED  BY <2>1, <2>2
<1>2. ASSUME NEW e \in batch, Submit(e) PROVE Idle'
  BY <1>2 DEF Submit, Arrive, Take, Idle
<1>3. CASE BeginPass
  <2>1. /\ UNCHANGED <<scenario, status, pending, reserved, nodeVars>>
        /\ pc' = IF Stuck THEN "resize" ELSE "guarantee"
        /\ todo' = IF Stuck THEN <<>> ELSE SetToSeq(pending)
    BY <1>3 DEF BeginPass, jobVars, queueVars
  <2>2. Quiet
    BY <2>1 DEF Quiet
  <2>3. CASE Stuck
    BY <1>0, <2>1, <2>2, <2>3, StuckIdle, SameFit DEF Idle
  <2>4. CASE ~Stuck
    <3>1. ToSet(todo') = pending
      BY <1>0, <2>1, <2>4, ListsOf DEF Lists
    <3> QED  BY <1>0, <2>1, <2>4, <3>1 DEF Idle
  <2> QED  BY <2>3, <2>4
<1>4. CASE TryGuaranteed
  <2>1. PICK j \in Jobs : Next1(j) /\ StartOrWait(j, PlaceNow(j, FALSE))
    BY <1>4 DEF TryGuaranteed
  <2>2. pc = "guarantee" /\ pc' = pc
    BY <1>4 DEF TryGuaranteed
  <2>3. Quiet /\ reserved' = [reserved EXCEPT ![j] = {}]
    BY <2>1, AttemptIdles
  <2>4. ToSet(todo') = ToSet(todo) \ {j}
    BY <2>1, TodoShrinks
  <2> QED  BY <1>0, <2>2, <2>3, <2>4 DEF Idle
<1>5. CASE BeginBorrowing
  <2>1. /\ UNCHANGED <<scenario, status, pending, reserved, nodeVars>>
        /\ pc = "guarantee" /\ pc' = "dispatch" /\ todo' = SetToSeq(pending)
        /\ todo = <<>> \/ Stuck
        /\ direct' = DirectOf(alloc)
    BY <1>5 DEF BeginBorrowing, jobVars, queueVars, Prepare
  <2>2. Quiet
    BY <2>1 DEF Quiet
  <2>3. ToSet(todo') = pending
    BY <1>0, <2>1, ListsOf DEF Lists
  <2>4. \A h \in Jobs : reserved[h] = {}
    BY <2>1, <2>2, StuckIdle, TodoShrinks DEF Idle
  <2>5. direct' = NoUsage
    BY <2>1, <2>2, IdleCluster
  <2> QED  BY <2>1, <2>3, <2>4, <2>5 DEF Idle, NoUsage
<1>6. CASE TryBorrowing
  <2>1. CASE pc' = "commit"
    BY <2>1 DEF Idle
  <2>2. CASE pc' # "commit"
    <3>1. pc = "dispatch" /\ pc' = "dispatch" /\ scenario' = scenario
      BY <1>6, <2>2 DEF TryBorrowing
    <3>2. PICK j \in Jobs : /\ Next1(j)
                            /\ \/ StartOrWait(j, PlaceNow(j, Borrowing))
                               \/ /\ PlaceNow(j, Borrowing) = {} /\ Prepare(alloc)
                                  /\ UNCHANGED <<jobVars, queueVars, nodeVars>>
      BY <1>6 DEF TryBorrowing
    <3>3. ToSet(todo') = ToSet(todo) \ {j}
      BY <3>2, TodoShrinks
    <3>4. CASE StartOrWait(j, PlaceNow(j, Borrowing))
      <4>1. /\ PlaceNow(j, Borrowing) = {} /\ Quiet
            /\ reserved' = [reserved EXCEPT ![j] = {}]
            /\ UNCHANGED <<nodeVars, direct>>
            /\ reserved[j] = {} => pending' = pending
        BY <3>4, AttemptIdles
      <4>2. direct = NoUsage /\ \A h \in Jobs : reserved[h] = {}
        BY <3>1, <4>1 DEF Idle
      <4>3. NoFit(j)
        BY <4>1, <4>2, TriedInVain
      <4>4. \A i \in pending' \ ToSet(todo') : NoFit(i)
        BY <3>1, <3>3, <4>1, <4>2, <4>3 DEF Idle
      <4>5. \A i \in pending' \ ToSet(todo') : NoFit(i)'
        BY <3>1, <4>1, <4>4, SameFit
      <4> QED  BY <1>0, <3>1, <4>1, <4>2, <4>5 DEF Idle, NoUsage
    <3>5. CASE PlaceNow(j, Borrowing) = {} /\ Prepare(alloc) /\ UNCHANGED <<jobVars, queueVars, nodeVars>>
      <4>1. UNCHANGED <<status, pending, reserved>> /\ direct' = DirectOf(alloc)
        BY <3>5 DEF jobVars, queueVars, Prepare
      <4>2. Quiet
        BY <4>1 DEF Quiet
      <4>3. direct = NoUsage /\ \A h \in Jobs : reserved[h] = {}
        BY <3>1, <4>2 DEF Idle
      <4>4. NoFit(j)
        BY <3>5, <4>2, <4>3, TriedInVain
      <4>5. \A i \in pending' \ ToSet(todo') : NoFit(i)
        BY <3>1, <3>3, <4>1, <4>2, <4>4 DEF Idle
      <4>6. \A i \in pending' \ ToSet(todo') : NoFit(i)'
        BY <3>1, <3>5, <4>5, SameFit
      <4>7. direct' = NoUsage
        BY <4>1, <4>2, IdleCluster
      <4> QED  BY <3>1, <4>1, <4>3, <4>6, <4>7 DEF Idle, NoUsage
    <3> QED  BY <3>2, <3>4, <3>5
  <2> QED  BY <2>1, <2>2
<1>7. CASE CommitShrink
  BY <1>7 DEF CommitShrink, Idle
<1>8. CASE CommitEvict
  <2>1. CASE \E v \in plan.victims : CheckpointCost[v] > 0
    <3>1. PICK v \in plan.victims : CheckpointCost[v] > 0
      BY <2>1
    <3>2. v \in Jobs /\ CheckpointCost[v] # 0
      BY <3>1 DEF LifeInv, Core, LoopTypes, Plannings
    <3>3. status'[v] = "checkpointing"
      BY <1>8, <3>1, <3>2 DEF CommitEvict
    <3> QED  BY <3>2, <3>3 DEF Quiet, Active
  <2>2. CASE ~ \E v \in plan.victims : CheckpointCost[v] > 0
    <3>1. pc' = "retry"
      BY <1>8, <2>2 DEF CommitEvict
    <3> QED  BY <3>1 DEF Idle
  <2> QED  BY <2>1, <2>2
<1>9. CASE Retry
  <2>1. pc' = "crashed" \/ (pc' = "dispatch" /\ \E P : Start(plan.target, P))
    BY <1>9 DEF Retry
  <2>2. plan.target \in Jobs
    BY <1>0, <1>9 DEF Retry, LifeInv, Core, Planned
  <2> QED  BY <2>1, <2>2, StartsActive DEF Idle
<1>10. CASE BeginResume
  <2>1. /\ UNCHANGED <<scenario, status, pending, reserved, nodeVars, direct>>
        /\ pc = "dispatch" /\ pc' = "resume"
        /\ todo = <<>> \/ Stuck
    BY <1>10 DEF BeginResume, jobVars, queueVars, shareVars
  <2>2. Quiet
    BY <2>1 DEF Quiet
  <2>3. \A j \in pending : NoFit(j)
    BY <1>0, <2>1, <2>2, StuckIdle, TodoShrinks DEF Idle
  <2>4. \A j \in pending : NoFit(j)'
    BY <2>1, <2>3, SameFit
  <2> QED  BY <2>1, <2>2, <2>4 DEF Idle, NoUsage
<1>11. CASE Resume
  <2>1. pc = "resume" /\ pc' = "resume" /\ scenario' = scenario /\ todo # <<>> /\ todo' = Tail(todo)
    BY <1>11 DEF Resume
  <2>2. PICK j \in Jobs : j = Head(todo) /\ StartOrWait(j, PlaceNow(j, Borrowing))
    BY <1>11 DEF Resume
  <2>3. ToSet(todo') = ToSet(todo) \ {j}
    <3>1. todo \in Seq(Jobs) /\ IsInjective(todo)
      BY DEF LifeInv, Core, LoopTypes, Pass
    <3> QED  BY <2>1, <2>2, <3>1, ListTail
  <2>4. /\ PlaceNow(j, Borrowing) = {} /\ Quiet
        /\ reserved' = [reserved EXCEPT ![j] = {}]
        /\ UNCHANGED <<nodeVars, direct>>
        /\ reserved[j] = {} => pending' = pending
    BY <2>2, AttemptIdles
  <2>5. direct = NoUsage /\ \A h \in Jobs : reserved[h] = {}
    BY <2>1, <2>4 DEF Idle
  <2>6. NoFit(j)
    BY <2>4, <2>5, TriedInVain
  <2>7. \A i \in pending' \ ToSet(todo') : NoFit(i)
    BY <2>1, <2>3, <2>4, <2>5, <2>6 DEF Idle
  <2>8. \A i \in pending' \ ToSet(todo') : NoFit(i)'
    BY <2>1, <2>4, <2>7, SameFit
  <2> QED  BY <1>0, <2>1, <2>4, <2>5, <2>8 DEF Idle, NoUsage
<1>12. CASE EndPass
  <2>1. /\ UNCHANGED <<scenario, status, pending, reserved, nodeVars>>
        /\ pc = "resume" /\ pc' = "resize" /\ todo' = <<>>
        /\ todo = <<>> \/ Stuck
    BY <1>12 DEF EndPass, jobVars, queueVars
  <2>2. Quiet
    BY <2>1 DEF Quiet
  <2>3. \A j \in pending : NoFit(j)
    BY <1>0, <2>1, <2>2, StuckIdle, TodoShrinks DEF Idle
  <2>4. \A j \in pending : NoFit(j)'
    BY <2>1, <2>3, SameFit
  <2> QED  BY <2>1, <2>2, <2>4 DEF Idle
<1>13. CASE Grow
  <2>1. PICK j \in Jobs : MayGrow(j)
    BY <1>13 DEF Grow, Foremost
  <2>2. status[j] = "running" /\ status' = status
    BY <1>13, <2>1 DEF Grow, MayGrow, BelowPreferred
  <2> QED  BY <2>2 DEF Quiet, Active
<1>14. CASE Regenerate
  <2>1. PICK j \in Jobs : grown[j] # {}
    BY <1>14 DEF Regenerate, Grown
  <2>2. status[j] = "running" /\ status' = status
    BY <1>14, <2>1 DEF Regenerate, LifeInv, Core, Growth
  <2> QED  BY <2>2 DEF Quiet, Active
<1>15. CASE EndInstant
  <2>1. /\ UNCHANGED <<scenario, status, todo, pending, reserved, nodeVars>>
        /\ pc = "resize" /\ pc' = "pop"
    BY <1>15 DEF EndInstant, jobVars, queueVars, passVars
  <2>2. Quiet
    BY <2>1 DEF Quiet
  <2> QED  BY <1>0, <2>1, <2>2, SameFit DEF Idle
<1> QED
  BY <1>1, <1>2, <1>3, <1>4, <1>5, <1>6, <1>7, <1>8, <1>9, <1>10, <1>11, <1>12, <1>13, <1>14, <1>15 DEF Step

\* The event heap runs dry only in states without anything half-way: no job holds or
\* reserves a GPU, and a job still queued could not be placed on the empty cluster.
THEOREM NothingIsLeftBehind == Spec => []NothingLeftBehind
<1>1. Init => Idle
  BY DEF Init, LoopInit, Idle
<1>2. LifeInv /\ LifeInv' /\ Idle /\ [Next]_vars => Idle'
  <2> SUFFICES ASSUME LifeInv, LifeInv', Idle, [Next]_vars PROVE Idle'
    OBVIOUS
  <2>1. CASE UNCHANGED vars
    <3>1. UNCHANGED <<scenario, status, pc, heap, todo, pending, reserved, nodeVars, direct>>
      BY <2>1 DEF vars, loopVars, jobVars, queueVars, passVars, shareVars
    <3>2. Quiet' <=> Quiet
      BY <3>1 DEF Quiet
    <3> QED  BY <3>1, <3>2, SameFit DEF Idle, NoUsage
  <2>2. CASE Step /\ Quiet'
    BY <2>2, StepIdles
  <2>3. CASE Step /\ ~Quiet'
    <3>1. pc' = "done" => heap' = {}
      BY <2>3 DEF Idle, Step, LoopEvent, LoopStep, Discard, Pop, Finish, Handle, StaleTimer, Complete,
           CompleteCheckpoint, CompleteRestart, Restore, Drain, Fail, Take, Submit, Arrive, BeginPass,
           TryGuaranteed, BeginBorrowing, TryBorrowing, CommitShrink, CommitEvict, Retry, BeginResume,
           Resume, EndPass, Grow, Regenerate, EndInstant
    <3> QED  BY <2>3, <3>1 DEF Idle
  <2> QED  BY <2>1, <2>2, <2>3 DEF Next, Terminated
<1>3. LifeInv /\ Idle => NothingLeftBehind
  <2> SUFFICES ASSUME LifeInv, Idle, pc = "done" PROVE NothingLeftBehind
    BY DEF NothingLeftBehind
  <2>1. Queued = {}
    BY DEF Idle, LifeInv, Core, EventsTyped, Queued
  <2>2. Quiet
    <3>1. \A kind : \A j \in Jobs : GensIn(Queued, kind, j) = {}
      BY <2>1 DEF GensIn
    <3>2. \A j \in Jobs : status[j] \notin Active
      BY <3>1, Plain DEF Phases, Active
    <3> QED  BY <3>2 DEF Quiet
  <2>3. /\ \A h \in Jobs : reserved[h] = {}
        /\ \A j \in pending : NoFit(j)
    <3>1. ToSet(todo) = {}
      BY TodoShrinks DEF LifeInv, Core, Pass
    <3> QED  BY <2>2, <3>1 DEF Idle
  <2>4. \A j \in Jobs : status[j] \in {"pending", "completed", "rejected"}
    BY <2>2 DEF Quiet, LifeInv, Core, LoopTypes
  <2>5. suspended = {}
    <3>1. \A v \in suspended : v \in Jobs /\ target[v] \in Jobs
      BY Plain, NoneIsNot DEF VictimsAim, LifeInv, Core, LoopTypes
    <3> QED  BY <2>3, <3>1, Plain DEF VictimsAim
  <2>6. plan = NoPlan /\ Grown = {}
    BY DEF LifeInv, Core, Planned, Growth, Grown
  <2> QED  BY <2>3, <2>4, <2>5, <2>6 DEF NothingLeftBehind, NoFit, NoUsage
<1> QED  BY <1>1, <1>2, <1>3, LifeInvariance, PTL DEF Spec

-----------------------------------------------------------------------------
(* Admission.                                                              *)

\* If no summand of S is above one of T, and S has as many, its sum is not above that of T.
LEMMA SumDominated ==
  ASSUME NEW f, NEW S, NEW T, IsFiniteSet(S), IsFiniteSet(T), Cardinality(S) = Cardinality(T),
         \A x \in S \cup T : f[x] \in Nat, \A x \in S : \A y \in T : f[x] <= f[y]
  PROVE  SumFunctionOnSet(f, S) <= SumFunctionOnSet(f, T)
<1> DEFINE Sum(s) == SumFunctionOnSet(f, s)
           Bad(s, t) == Cardinality(s) = Cardinality(t) /\ ~ Sum(s) <= Sum(t)
           B == {s \in SUBSET S : \E t \in SUBSET T : Bad(s, t)}
<1> SUFFICES ASSUME B # {} PROVE FALSE
  OBVIOUS
<1>1. PICK s \in B : \A u \in B : u \subseteq s => u = s
  <2>1. B \in SUBSET (SUBSET S)
    OBVIOUS
  <2> HIDE DEF B
  <2> QED  BY <2>1, MinimalSubset
<1>2. PICK t \in SUBSET T : Bad(s, t)
  OBVIOUS
<1>3. IsFiniteSet(s) /\ IsFiniteSet(t) /\ Cardinality(s) \in Nat /\ Cardinality(t) \in Nat
  BY FS_Subset, FS_CardinalityType
<1>4. s # {}
  <2> SUFFICES ASSUME s = {} PROVE FALSE
    OBVIOUS
  <2>1. t = {}
    BY <1>2, <1>3, FS_EmptySet
  <2> QED  BY <1>2, <2>1, SumEmpty
<1>5. t # {}
  BY <1>2, <1>3, <1>4, FS_EmptySet
<1>6. PICK x \in s, y \in t : TRUE
  BY <1>4, <1>5
<1>7. /\ Sum(s) = f[x] + Sum(s \ {x}) /\ Sum(t) = f[y] + Sum(t \ {y})
      /\ f[x] \in Nat /\ f[y] \in Nat /\ f[x] <= f[y]
  BY <1>3, SumTakeOut
<1>8. Sum(s \ {x}) \in Nat /\ Sum(t \ {y}) \in Nat
  BY <1>3, FS_Subset, SumType
<1>9. Cardinality(s \ {x}) = Cardinality(t \ {y})
  <2>1. Cardinality(s \ {x}) = Cardinality(s) - 1 /\ Cardinality(t \ {y}) = Cardinality(t) - 1
    BY <1>3, FS_RemoveElement
  <2>2. Cardinality(s) = Cardinality(t)
    BY <1>2
  <2> QED  BY <2>1, <2>2
<1>10. Bad(s \ {x}, t \ {y})
  <2>1. ~ Sum(s) <= Sum(t)
    BY <1>2
  <2> HIDE DEF Sum
  <2> QED  BY <1>7, <1>8, <1>9, <2>1
<1>11. s \ {x} \in B
  <2>1. s \ {x} \in SUBSET S /\ t \ {y} \in SUBSET T
    OBVIOUS
  <2> HIDE DEF Bad
  <2> QED  BY <1>10, <2>1
<1> HIDE DEF B
<1> QED  BY <1>1, <1>6, <1>11

\* No n GPUs of a set weigh less than its n lightest.
LEMMA LightestIs ==
  ASSUME NEW P \in SUBSET GPUs, NEW S \in SUBSET P, NEW G \in SUBSET S,
         NEW n \in Nat, Cardinality(G) = n,
         NEW L, L = First(S, n, [g \in P |-> <<Units[g], g>>])
  PROVE  L \in SUBSET S /\ Cardinality(L) = n /\ UnitsIn(L) <= UnitsIn(G)
<1> DEFINE key == [g \in P |-> <<Units[g], g>>]
           before(g) == {h \in S : Less(key[h], key[g])}
<1>0. \A g \in P : Units[g] \in Nat /\ g \in Nat /\ g \in GPUs
  BY FairShareAssumption, GpuFacts
<1>1. /\ \A g \in P : key[g] \in Seq(Int) /\ DOMAIN key[g] = 1 .. 2 /\ key[g][1] = Units[g]
                      /\ key[g][2] = g
  <2>1. \A a, b \in Int : <<a, b>> \in Seq(Int)
    OBVIOUS
  <2> QED  BY <1>0, <2>1
<1>2. \A g \in P : key[g] = <<Units[g], g>>
  OBVIOUS
<1>3. L = {g \in S : Cardinality(before(g)) < n}
  BY DEF First
<1>4. \A g : IsFiniteSet(before(g)) /\ Cardinality(before(g)) \in Nat
  <2>1. \A g : before(g) \in SUBSET GPUs
    OBVIOUS
  <2> HIDE DEF before
  <2> QED  BY <2>1, GpusFinite
<1> HIDE DEF key
<1>5. Keys(S, key)
  BY <1>1 DEF Keys
<1>6. L \in SUBSET S
  BY <1>3
<1>7. IsFiniteSet(S) /\ IsFiniteSet(G) /\ IsFiniteSet(L) /\ Cardinality(S) \in Nat /\ n <= Cardinality(S)
  <2>1. S \in SUBSET GPUs /\ G \in SUBSET GPUs /\ L \in SUBSET GPUs
    BY <1>6
  <2> QED  BY <2>1, GpusFinite, FS_Subset
<1>8. Cardinality(L) = n
  BY <1>5, <1>7, FirstCount DEF key
<1>9. ASSUME NEW x \in L, NEW y \in S \ L
      PROVE  Units[x] <= Units[y]
  <2> SUFFICES ASSUME Units[y] < Units[x] PROVE FALSE
    BY <1>0, <1>6
  <2>1. x \in S /\ y \in S /\ x \in P /\ y \in P /\ Cardinality(before(x)) < n
    BY <1>3
  <2>2. Less(key[y], key[x])
    <3>1. 1 \in DOMAIN key[y] \cap DOMAIN key[x] /\ 1 .. 1 - 1 = {}
      BY <1>1, <2>1
    <3>2. key[y][1] < key[x][1]
      BY <1>1, <2>1
    <3> QED  BY <3>1, <3>2 DEF Less
  <2>3. before(y) \subseteq before(x)
    <3> SUFFICES ASSUME NEW h \in before(y) PROVE Less(key[h], key[x])
      OBVIOUS
    <3>1. key[h] \in Seq(Int) /\ key[y] \in Seq(Int) /\ key[x] \in Seq(Int) /\ Less(key[h], key[y])
      BY <1>1, <2>1
    <3> QED  BY <2>2, <3>1, LessOrder
  <2>4. Cardinality(before(y)) <= Cardinality(before(x))
    <3> HIDE DEF before
    <3> QED  BY <1>4, <2>3, FS_Subset
  <2>5. Cardinality(before(y)) < n
    <3> HIDE DEF before
    <3> QED  BY <1>4, <2>1, <2>4
  <2> QED  BY <1>3, <2>1, <2>5
<1> DEFINE both == L \cap G
           lighter == L \ G
           heavier == G \ L
<1>10. /\ IsFiniteSet(lighter) /\ IsFiniteSet(heavier) /\ IsFiniteSet(both)
       /\ Cardinality(lighter) = Cardinality(heavier)
  <2>1. L \cap G = G \cap L /\ Cardinality(L \cap G) \in Nat
    BY <1>7, FS_Intersection, FS_CardinalityType
  <2> QED  BY <1>7, <1>8, <2>1, FS_Difference, FS_Intersection
<1>11. \A x \in lighter : \A y \in heavier : Units[x] <= Units[y]
  BY <1>9
<1>12. \A x \in lighter \cup heavier : Units[x] \in Nat
  BY <1>0, <1>6
<1>13. UnitsIn(lighter) <= UnitsIn(heavier)
  <2> HIDE DEF lighter, heavier
  <2> QED  BY <1>10, <1>11, <1>12, SumDominated DEF UnitsIn
<1>14. L = lighter \cup both /\ G = heavier \cup both /\ lighter \cap both = {} /\ heavier \cap both = {}
  OBVIOUS
<1>15. lighter \in SUBSET GPUs /\ heavier \in SUBSET GPUs /\ both \in SUBSET GPUs
  BY <1>6
<1>16. /\ UnitsIn(L) = UnitsIn(lighter) + UnitsIn(both)
       /\ UnitsIn(G) = UnitsIn(heavier) + UnitsIn(both)
  <2> HIDE DEF lighter, heavier, both
  <2> QED  BY <1>14, <1>15, UnitsJoin
<1>17. UnitsIn(lighter) \in Nat /\ UnitsIn(heavier) \in Nat /\ UnitsIn(both) \in Nat
  BY <1>15, UnitsType
<1>18. UnitsIn(L) <= UnitsIn(G)
  <2> HIDE DEF lighter, heavier, both
  <2> QED  BY <1>13, <1>16, <1>17
<1> QED  BY <1>6, <1>8, <1>18

\* The minimum demand of a job is that of n GPUs, and no gang of its GPUs demands less.
LEMMA DemandIs ==
  ASSUME NEW j \in Jobs, NEW n \in Nat \ {0}, NEW S \in SUBSET Compatible[j]
  PROVE  /\ \A d \in MinimumDemand(j, n, S) : \E m \in Nat : d = Vector(m, n * JobMemory[j])
         /\ \A G \in SUBSET S : Cardinality(G) = n /\ SameVendor(G) =>
              \E m \in Nat : /\ MinimumDemand(j, n, S) = {Vector(m, n * JobMemory[j])}
                             /\ m <= UnitsIn(G)
<1> DEFINE P == S \cap Compatible[j]
           Lightest(w) == First(OfVendor(P, w), n, [g \in P |-> <<Units[g], g>>])
           enough == {w \in Vendors(P) : Cardinality(Lightest(w)) = n}
           weights == {UnitsIn(Lightest(w)) : w \in enough}
           vector == Vector(Min(weights), n * JobMemory[j])
<1>1. MinimumDemand(j, n, S) = IF enough = {} THEN {} ELSE {vector}
  BY DEF MinimumDemand
<1>2. P = S /\ P \in SUBSET GPUs
  BY DEF Compatible
<1>3. \A w : OfVendor(P, w) \in SUBSET P /\ Lightest(w) \in SUBSET GPUs
  <2>1. \A w : Lightest(w) \in SUBSET OfVendor(P, w) /\ OfVendor(P, w) \in SUBSET P
    BY DEF First, OfVendor
  <2> QED  BY <1>2, <2>1
<1>4. weights \in SUBSET Nat
  <2> HIDE DEF Lightest, enough
  <2> QED  BY <1>3, UnitsType
<1>5. enough # {} => Min(weights) \in Nat /\ \A w \in enough : Min(weights) <= UnitsIn(Lightest(w))
  <2>1. enough # {} => weights # {}
    OBVIOUS
  <2>2. \A w \in enough : UnitsIn(Lightest(w)) \in weights
    OBVIOUS
  <2> HIDE DEF weights, enough, Lightest
  <2> QED  BY <1>4, <2>1, <2>2, MinIn
<1>6. ASSUME NEW G \in SUBSET S, Cardinality(G) = n, SameVendor(G)
      PROVE  enough # {} /\ Min(weights) <= UnitsIn(G)
  <2>1. PICK g \in G : TRUE
    BY <1>6, FS_EmptySet
  <2> DEFINE w == VendorOf[g]
  <2>2. G \in SUBSET OfVendor(P, w)
    BY <1>2, <1>6 DEF OfVendor, SameVendor
  <2>3. Cardinality(Lightest(w)) = n /\ UnitsIn(Lightest(w)) <= UnitsIn(G)
    <3>1. OfVendor(P, w) \in SUBSET P
      BY <1>3
    <3> DEFINE O == OfVendor(P, w)
    <3>2. Lightest(w) = First(O, n, [h \in P |-> <<Units[h], h>>])
      OBVIOUS
    <3> HIDE DEF P, O, Lightest, w
    <3> QED  BY <1>2, <1>6, <2>2, <3>1, <3>2, LightestIs DEF O
  <2>4. w \in enough
    <3>1. w \in Vendors(P)
      BY <1>2 DEF Vendors
    <3> HIDE DEF Lightest, P
    <3> QED  BY <2>3, <3>1
  <2>5. /\ UnitsIn(Lightest(w)) \in Nat /\ UnitsIn(G) \in Nat
    <3>1. G \in SUBSET GPUs
      BY <1>2
    <3> HIDE DEF Lightest
    <3> QED  BY <1>3, <3>1, UnitsType
  <2> HIDE DEF Lightest, enough, weights, w
  <2> QED  BY <1>5, <2>3, <2>4, <2>5
<1> HIDE DEF enough, weights, Lightest, P
<1>7. \A d \in MinimumDemand(j, n, S) : \E m \in Nat : d = Vector(m, n * JobMemory[j])
  BY <1>1, <1>5
<1>8. ASSUME NEW G \in SUBSET S, Cardinality(G) = n /\ SameVendor(G)
      PROVE  \E m \in Nat : /\ MinimumDemand(j, n, S) = {Vector(m, n * JobMemory[j])}
                            /\ m <= UnitsIn(G)
  BY <1>1, <1>5, <1>6, <1>8
<1> QED  BY <1>7, <1>8

\* The fleet when the nodes N are schedulable, with nothing on it.
FleetView(N) == [gpus |-> {g \in GPUs : NodeOf[g] \in N}, occupied |-> {}]

\* Two elements of a set that has at most one.
LEMMA AtMostOne ==
  ASSUME NEW S, IsFiniteSet(S), Cardinality(S) <= 1, NEW x \in S, NEW y \in S
  PROVE  x = y
<1>1. Cardinality(S) \in Nat /\ Cardinality(S) # 0
  BY FS_CardinalityType, FS_EmptySet
<1>2. \E z : S = {z}
  BY <1>1, FS_Singleton
<1> QED  BY <1>2

\* A placement on the empty fleet lies in one of the sets admission looks at.
LEMMA FeasibleIs ==
  ASSUME NEW j \in Jobs, NEW n \in Nat \ {0}, NEW N
  PROVE  /\ \A S \in FeasibleSets(j, n, N) : S \in SUBSET Compatible[j]
         /\ \A G : IsPlacement(j, n, FleetView(N), G) =>
              /\ G \in SUBSET GPUs /\ Cardinality(G) = n /\ SameVendor(G)
              /\ \E S \in FeasibleSets(j, n, N) : G \subseteq S
<1> DEFINE hosts == {g \in Compatible[j] : NodeOf[g] \in N}
           Where(m) == CASE TopologyMode[j] = "require_same_node" -> <<m>>
                         [] TopologyMode[j] = "require_same_rack" -> RackDomain(m)
                         [] OTHER -> <<>>
           Group(g) == {h \in hosts : Where(NodeOf[h]) = Where(NodeOf[g])
                                        /\ VendorOf[h] = VendorOf[g]}
<1>1. FeasibleSets(j, n, N) = {S \in {Group(g) : g \in hosts} : Cardinality(S) >= n}
  BY DEF FeasibleSets
<1>2. hosts \in SUBSET GPUs /\ hosts \in SUBSET Compatible[j] /\ Hosts(j, FleetView(N)) = hosts
  BY DEF Hosts, FleetView, Compatible
<1>3. \A g : Group(g) \in SUBSET hosts
  OBVIOUS
<1>4. ASSUME NEW S \in FeasibleSets(j, n, N) PROVE S \in SUBSET Compatible[j]
  <2> HIDE DEF hosts, Group
  <2> QED  BY <1>1, <1>2, <1>3
<1>5. ASSUME NEW G, IsPlacement(j, n, FleetView(N), G)
      PROVE  /\ G \in SUBSET GPUs /\ Cardinality(G) = n /\ SameVendor(G)
             /\ \E S \in FeasibleSets(j, n, N) : G \subseteq S
  <2>1. G \in SUBSET hosts /\ Cardinality(G) = n /\ Cardinality(Vendors(G)) = 1 /\ RequirementMet(j, G)
    BY <1>2, <1>5 DEF IsPlacement
  <2>2. G \in SUBSET GPUs
    BY <1>2, <2>1
  <2>3. SameVendor(G)
    BY <2>1, <2>2, OneVendor DEF OfVendor, SameVendor
  <2>4. PICK g \in G : TRUE
    BY <2>1, FS_EmptySet
  <2>5. ASSUME NEW h \in G PROVE Where(NodeOf[h]) = Where(NodeOf[g])
    <3>1. NodeOf[h] \in NodesOf(G) /\ NodeOf[g] \in NodesOf(G)
      BY DEF NodesOf
    <3>2. ASSUME TopologyMode[j] = "require_same_node" PROVE NodeOf[h] = NodeOf[g]
      <4>1. Cardinality(NodesOf(G)) <= 1
        BY <2>1, <3>2 DEF RequirementMet
      <4> QED  BY <2>2, <3>1, <4>1, NodesFinite, AtMostOne
    <3>3. ASSUME TopologyMode[j] = "require_same_rack"
          PROVE  RackDomain(NodeOf[h]) = RackDomain(NodeOf[g])
      <4> DEFINE racks == {RackDomain(m) : m \in NodesOf(G)}
      <4>1. Cardinality(racks) <= 1
        BY <2>1, <3>3 DEF RequirementMet
      <4>2. IsFiniteSet(racks)
        BY <2>2, NodesFinite
      <4>3. RackDomain(NodeOf[h]) \in racks /\ RackDomain(NodeOf[g]) \in racks
        BY <3>1
      <4> HIDE DEF racks
      <4> QED  BY <4>1, <4>2, <4>3, AtMostOne
    <3> QED  BY <3>2, <3>3
  <2>6. \A h \in G : VendorOf[h] = VendorOf[g]
    BY <2>3, <2>4 DEF SameVendor
  <2>7. G \subseteq Group(g)
    <3> HIDE DEF Where, hosts
    <3> QED  BY <2>1, <2>5, <2>6
  <2>8. Cardinality(Group(g)) >= n
    <3>1. IsFiniteSet(Group(g)) /\ Cardinality(Group(g)) \in Nat
      <4>1. Group(g) \in SUBSET GPUs
        BY <1>2, <1>3
      <4> HIDE DEF Group
      <4> QED  BY <4>1, GpusFinite
    <3> HIDE DEF Group
    <3> QED  BY <2>1, <2>7, <3>1, FS_Subset
  <2>9. Group(g) \in FeasibleSets(j, n, N)
    <3>1. g \in hosts
      BY <2>1, <2>4
    <3> HIDE DEF Group, hosts
    <3> QED  BY <1>1, <2>8, <3>1
  <2> QED  BY <2>1, <2>2, <2>3, <2>7, <2>9
<1> QED  BY <1>4, <1>5

\* The job could not be placed within its quotas if the nodes N were all there is.
Hopeless(j, N) == QuotaPlace(j, FleetView(N), NoUsage, TRUE) = {}

\* Admission rejects a job only if that is so of all the nodes it looks at.
LEMMA RejectedIs ==
  ASSUME Types, NEW j \in Jobs, NEW snapshots, NEW aware,
         ~Admits(j, QueueOf(j), MinReplicas[j], snapshots, aware), NEW N \in snapshots
  PROVE  Hopeless(j, N)
<1> DEFINE n == MinReplicas[j]
           q == QueueOf(j)
           P == QuotaPlace(j, FleetView(N), NoUsage, TRUE)
           sets == UNION {FeasibleSets(j, n, nodes) : nodes \in snapshots}
           demands == UNION {MinimumDemand(j, n, S) : S \in sets}
           cheapest == {d \in demands : \A e \in demands : d["gpu_units"] <= e["gpu_units"]}
<1> SUFFICES ASSUME P # {} PROVE FALSE
  BY DEF Hopeless
<1>1. n \in Nat \ {0}
  BY LoopAssumption
<1>2. P = TopologyPlace(j, n, FleetView(N)) /\ CanAllocate(q, Allocation(j, P), NoUsage, TRUE)
  <2> DEFINE X == TopologyPlace(j, n, FleetView(N))
             C(R) == CanAllocate(q, Allocation(j, R), NoUsage, TRUE)
  <2>1. P = UNION {R \in {X} : C(R)}
    BY DEF QuotaPlace
  <2> HIDE DEF X, C, P
  <2>2. P = X /\ C(P)
    BY <2>1
  <2> QED  BY <2>2 DEF X, C
<1> HIDE DEF P
<1>3. IsPlacement(j, n, FleetView(N), P)
  BY <1>1, <1>2, TopologyPlaceExact DEF Exact
<1>4. PICK S \in FeasibleSets(j, n, N) :
        P \subseteq S /\ P \in SUBSET GPUs /\ Cardinality(P) = n /\ SameVendor(P)
  BY <1>1, <1>3, FeasibleIs
<1>5. S \in sets
  OBVIOUS
<1>6. ASSUME NEW R \in sets PROVE R \in SUBSET Compatible[j]
  <2>1. PICK nodes \in snapshots : R \in FeasibleSets(j, n, nodes)
    OBVIOUS
  <2> QED  BY <1>1, <2>1, FeasibleIs
<1>7. PICK a \in Ancestors(q), d \in cheapest : ~FitsLimit(a, d)
  <2>1. ~(/\ sets # {}
          /\ aware => \A d \in cheapest : \A a \in Ancestors(q) : FitsLimit(a, d))
    BY DEF Admits
  <2> HIDE DEF sets, cheapest
  <2> QED  BY <1>5, <2>1
<1>8. PICK m \in Nat : MinimumDemand(j, n, S) = {Vector(m, n * JobMemory[j])} /\ m <= UnitsIn(P)
  <2>1. S \in SUBSET Compatible[j] /\ P \in SUBSET S
    BY <1>4, <1>5, <1>6
  <2> HIDE DEF n, sets
  <2> QED  BY <1>1, <1>4, <2>1, DemandIs
<1>9. PICK k \in Nat : d = Vector(k, n * JobMemory[j])
  <2>1. PICK R \in sets : d \in MinimumDemand(j, n, R)
    OBVIOUS
  <2>2. R \in SUBSET Compatible[j]
    BY <1>6
  <2> HIDE DEF n, sets
  <2> QED  BY <1>1, <2>1, <2>2, DemandIs
<1>10. k <= m
  <2>1. Vector(m, n * JobMemory[j]) \in demands
    <3> HIDE DEF sets, n
    <3> QED  BY <1>5, <1>8
  <2>2. d["gpu_units"] <= Vector(m, n * JobMemory[j])["gpu_units"]
    BY <2>1
  <2> HIDE DEF demands, cheapest, sets, n
  <2> QED  BY <1>9, <2>2 DEF Vector, Dims
<1> HIDE DEF cheapest, demands, sets
<1>11. JobMemory[j] \in Nat /\ n * JobMemory[j] \in Nat /\ UnitsIn(P) \in Nat
  <2>1. JobMemory[j] \in Nat
    BY PlacementAssumption
  <2> HIDE DEF n
  <2> QED  BY <1>1, <1>4, <2>1, UnitsType
<1>12. Allocation(j, P) \in Vectors /\ d \in Vectors
  <2>1. Vector(k, n * JobMemory[j]) \in Vectors
    BY <1>11 DEF Vector, Vectors
  <2> HIDE DEF n
  <2> QED  BY <1>4, <1>9, <2>1, AllocationType
<1>13. ASSUME NEW x \in Dims PROVE d[x] <= Allocation(j, P)[x]
  <2>1. d[x] = IF x = "gpu_units" THEN k ELSE n * JobMemory[j]
    BY <1>9 DEF Vector
  <2>2. Allocation(j, P)[x] = IF x = "gpu_units" THEN UnitsIn(P) ELSE JobMemory[j] * n
    BY <1>4 DEF Vector, Allocation
  <2>3. JobMemory[j] * n = n * JobMemory[j]
    BY <1>1, <1>11
  <2> HIDE DEF n
  <2> QED  BY <1>8, <1>10, <1>11, <2>1, <2>2, <2>3
<1>14. a \in Queues
  BY QueueTypes, HierarchyAssumption DEF Ancestors
<1>15. FitsLimit(a, Plus(NoUsage[a], Allocation(j, P)))
  BY <1>2 DEF CanAllocate
<1>16. Plus(NoUsage[a], Allocation(j, P)) = Allocation(j, P)
  <2>1. Plus(NoUsage[a], Allocation(j, P)) = [x \in Dims |-> 0 + Allocation(j, P)[x]]
    BY <1>14 DEF Plus, NoUsage, Zero
  <2>2. \A x \in Dims : Allocation(j, P)[x] \in Nat
    BY <1>12 DEF Vectors
  <2> QED  BY <1>12, <2>1, <2>2 DEF Vectors
<1> QED  BY <1>7, <1>12, <1>13, <1>14, <1>15, <1>16, SmallerFits

\* Pairs of numbers in their order.
LEMMA PairLess ==
  \A a, b, c, d \in Int : Less(<<a, b>>, <<c, d>>) <=> a < c \/ (a = c /\ b < d)
<1> TAKE a, b, c, d \in Int
<1> DEFINE s == <<a, b>>
           t == <<c, d>>
<1>1. /\ DOMAIN s = 1 .. 2 /\ s[1] = a /\ s[2] = b /\ Len(s) = 2
      /\ DOMAIN t = 1 .. 2 /\ t[1] = c /\ t[2] = d /\ Len(t) = 2
  OBVIOUS
<1> HIDE DEF s, t
<1>2. Less(s, t) <=> \E i \in 1 .. 2 : s[i] < t[i] /\ \A k \in 1 .. i - 1 : s[k] = t[k]
  BY <1>1 DEF Less
<1>3. 1 .. 1 - 1 = {} /\ 1 .. 2 - 1 = {1} /\ 1 .. 2 = {1, 2}
  OBVIOUS
<1>4. Less(s, t) <=> a < c \/ (a = c /\ b < d)
  <2>1. (\E i \in {1, 2} : s[i] < t[i] /\ \A k \in 1 .. i - 1 : s[k] = t[k])
          <=> s[1] < t[1] \/ (s[2] < t[2] /\ s[1] = t[1])
    BY <1>3
  <2> QED  BY <1>1, <1>2, <1>3, <2>1
<1> QED  BY <1>4 DEF s, t

\* The fleet events still to come, and the fleets they will make.
FleetAhead == {e \in Queued : e.kind \in FleetKinds}
Futures == {NodesAfter(ActiveNodes, FleetAhead, t) : t \in {x \in Nat : now <= x}}

\* The order in which the events of a node decide: gains come first.
Decides(e, f) == e.time < f.time \/ (e.time = f.time /\ e.kind \in Gains /\ f.kind \notin Gains)

\* The order of the fleet events that NodesAfter looks at.
LEMMA DecidesIs ==
  ASSUME NEW e, NEW f, e.time \in Nat, f.time \in Nat
  PROVE  Less(<<e.time, IF e.kind \in Gains THEN 0 ELSE 1>>,
              <<f.time, IF f.kind \in Gains THEN 0 ELSE 1>>) <=> Decides(e, f)
<1> DEFINE b == IF e.kind \in Gains THEN 0 ELSE 1
           d == IF f.kind \in Gains THEN 0 ELSE 1
<1>1. b \in Int /\ d \in Int /\ (b < d <=> e.kind \in Gains /\ f.kind \notin Gains)
  OBVIOUS
<1> HIDE DEF b, d
<1>2. Less(<<e.time, b>>, <<f.time, d>>) <=> Decides(e, f)
  BY <1>1, PairLess DEF Decides
<1> QED  BY <1>2 DEF b, d

\* Which nodes are schedulable after some events.
LEMMA NodesAfterIs ==
  ASSUME NEW active, NEW events, \A e \in events : e.time \in Nat, NEW t
  PROVE  NodesAfter(active, events, t) =
           {n \in Nodes :
              LET past == {e \in events : e.id = n /\ e.time <= t}
              IN  IF past = {} THEN n \in active
                  ELSE \E e \in past : e.kind \in Gains /\ \A f \in past : ~Decides(e, f)}
<1> DEFINE past(n) == {e \in events : e.id = n /\ e.time <= t}
           key(e) == <<e.time, IF e.kind \in Gains THEN 0 ELSE 1>>
           last(n) == {e \in past(n) : \A f \in past(n) : ~Less(key(e), key(f))}
<1>1. NodesAfter(active, events, t) =
        {n \in Nodes : IF past(n) = {} THEN n \in active ELSE \E e \in last(n) : e.kind \in Gains}
  BY DEF NodesAfter
<1>2. \A n : \A e, f \in past(n) : Less(key(e), key(f)) <=> Decides(e, f)
  BY DecidesIs
<1> HIDE DEF key
<1>3. \A n : last(n) = {e \in past(n) : \A f \in past(n) : ~Decides(e, f)}
  BY <1>2
<1> HIDE DEF last
<1> QED  BY <1>1, <1>3

\* An event that comes before all others ahead does not change what they will make of the
\* fleet.
LEMMA FutureKept ==
  ASSUME NEW active, NEW after, NEW events, \A f \in events : f.time \in Nat,
         NEW e \in events, e.id \in Nodes, \A f \in events : ~Decides(f, e),
         \A n \in Nodes : n \in after <=> IF n = e.id THEN e.kind \in Gains ELSE n \in active,
         NEW t, e.time <= t
  PROVE  NodesAfter(after, events \ {e}, t) = NodesAfter(active, events, t)
<1> DEFINE past(n) == {f \in events : f.id = n /\ f.time <= t}
           rest(n) == {f \in events \ {e} : f.id = n /\ f.time <= t}
           Up(s, on, n) == IF s = {} THEN n \in on
                           ELSE \E f \in s : f.kind \in Gains /\ \A g \in s : ~Decides(f, g)
<1>1. /\ NodesAfter(active, events, t) = {n \in Nodes : Up(past(n), active, n)}
      /\ NodesAfter(after, events \ {e}, t) = {n \in Nodes : Up(rest(n), after, n)}
  <2>1. NodesAfter(active, events, t) = {n \in Nodes : Up(past(n), active, n)}
    BY NodesAfterIs
  <2>2. NodesAfter(after, events \ {e}, t) = {n \in Nodes : Up(rest(n), after, n)}
    <3> DEFINE R == events \ {e}
    <3>1. \A f \in R : f.time \in Nat
      OBVIOUS
    <3>2. \A n : rest(n) = {f \in R : f.id = n /\ f.time <= t}
      OBVIOUS
    <3> DEFINE kept(n) == {f \in R : f.id = n /\ f.time <= t}
    <3> HIDE DEF R
    <3>3. NodesAfter(after, R, t) = {n \in Nodes : Up(kept(n), after, n)}
      BY <3>1, NodesAfterIs
    <3> HIDE DEF rest, kept, Up
    <3>4. \A n : kept(n) = rest(n)
      BY <3>2 DEF kept
    <3> QED  BY <3>3, <3>4 DEF R
  <2> QED  BY <2>1, <2>2
<1>2. ASSUME NEW n \in Nodes PROVE Up(rest(n), after, n) <=> Up(past(n), active, n)
  <2>1. CASE n # e.id
    <3>1. rest(n) = past(n)
      BY <2>1
    <3>2. n \in after <=> n \in active
      BY <2>1
    <3> HIDE DEF rest, past
    <3> QED  BY <3>1, <3>2
  <2>2. CASE n = e.id
    <3>1. past(n) = rest(n) \cup {e}
      BY <2>2
    <3>2. n \in after <=> e.kind \in Gains
      BY <2>2
    <3>3. /\ ~Decides(e, e) /\ \A f \in rest(n) : ~Decides(f, e) /\ f.time \in Nat
          /\ e.time \in Nat
      OBVIOUS
    <3> DEFINE R == rest(n)
               Q == past(n)
    <3>4. CASE R = {}
      <4>1. Q = {e}
        BY <3>1, <3>4
      <4> HIDE DEF R, Q
      <4> QED  BY <3>2, <3>3, <3>4, <4>1 DEF R, Q
    <3>5. CASE R # {}
      <4>0. Q = R \cup {e} /\ \A f \in R : ~Decides(f, e) /\ f.time \in Nat
        BY <3>1, <3>3
      <4> HIDE DEF R, Q
      <4>1. ASSUME NEW f \in R, f.kind \in Gains, \A g \in R : ~Decides(f, g)
            PROVE  f \in Q /\ \A g \in Q : ~Decides(f, g)
        BY <4>0, <4>1
      <4>2. ASSUME NEW f \in Q, f.kind \in Gains, \A g \in Q : ~Decides(f, g)
            PROVE  \E h \in R : h.kind \in Gains /\ \A g \in R : ~Decides(h, g)
        <5>1. CASE f \in R
          BY <4>0, <4>2, <5>1
        <5>2. CASE f = e
          <6>1. \A g \in R : g.time = e.time /\ g.kind \in Gains
            BY <3>3, <4>0, <4>2, <5>2 DEF Decides
          <6>2. \A h, g \in R : ~Decides(h, g)
            BY <3>3, <4>0, <6>1 DEF Decides
          <6> QED  BY <3>5, <6>1, <6>2
        <5> QED  BY <4>0, <5>1, <5>2
      <4>3. Q # {}
        BY <4>0
      <4>4. Up(R, after, n) <=> Up(Q, active, n)
        BY <3>5, <4>1, <4>2, <4>3
      <4> QED  BY <4>4 DEF R, Q
    <3> QED  BY <3>4, <3>5
  <2> QED  BY <2>1, <2>2
<1> HIDE DEF past, rest, Up
<1> QED  BY <1>1, <1>2

\* Without events ahead the fleet stays as it is.
LEMMA NothingAhead ==
  ASSUME NEW active \in SUBSET Nodes, NEW events, NEW t,
         \A e \in events : e.time \in Nat /\ ~ e.time <= t
  PROVE  NodesAfter(active, events, t) = active
<1> DEFINE past(n) == {e \in events : e.id = n /\ e.time <= t}
<1>1. \A n : past(n) = {}
  OBVIOUS
<1>2. NodesAfter(active, events, t) = {n \in Nodes : n \in active}
  BY <1>1, NodesAfterIs
<1> QED  BY <1>2

\* The snapshots that admission looks at are all the fleets to come.
LEMMA SnapshotsAre ==
  ASSUME NEW active \in SUBSET Nodes, NEW events, \A e \in events : e.time \in Nat,
         NEW from \in Nat, NEW later, later = {e \in events : e.time > from},
         NEW t \in Nat
  PROVE  NodesAfter(active, later, t) \in Snapshots(active, events, from)
<1> DEFINE times == {e.time : e \in {f \in later : f.time <= t}}
<1>1. Snapshots(active, events, from) = {active} \cup {NodesAfter(active, later, e.time) : e \in later}
  BY DEF Snapshots
<1>2. \A e \in later : e.time \in Nat
  OBVIOUS
<1>3. CASE times = {}
  <2>1. \A e \in later : ~ e.time <= t
    BY <1>3
  <2> QED  BY <1>1, <1>2, <2>1, NothingAhead
<1>4. CASE times # {}
  <2>1. times \in SUBSET Int /\ t \in Int /\ \A x \in times : x <= t
    BY <1>2
  <2>2. Max(times) \in times /\ \A x \in times : x <= Max(times)
    <3> HIDE DEF times
    <3> QED  BY <1>4, <2>1, MaxIn
  <2>3. PICK e \in later : e.time = Max(times) /\ e.time <= t
    BY <2>2
  <2>4. \A f \in later : f.time <= t <=> f.time <= e.time
    <3> SUFFICES ASSUME NEW f \in later PROVE f.time <= t <=> f.time <= e.time
      OBVIOUS
    <3>1. f.time \in Nat /\ e.time \in Nat
      BY <1>2
    <3>2. f.time <= t => f.time <= e.time
      BY <2>2, <2>3
    <3> QED  BY <2>3, <3>1, <3>2
  <2>5. NodesAfter(active, later, t) = NodesAfter(active, later, e.time)
    <3> DEFINE past(n) == {f \in later : f.id = n /\ f.time <= t}
               then(n) == {f \in later : f.id = n /\ f.time <= e.time}
               Up(p, n) == IF p = {} THEN n \in active
                           ELSE \E f \in p : f.kind \in Gains /\ \A g \in p : ~Decides(f, g)
    <3>1. \A n : past(n) = then(n)
      BY <2>4
    <3>2. NodesAfter(active, later, t) = {n \in Nodes : Up(past(n), n)}
      BY <1>2, NodesAfterIs
    <3>3. NodesAfter(active, later, e.time) = {n \in Nodes : Up(then(n), n)}
      BY <1>2, NodesAfterIs
    <3> HIDE DEF past, then, Up
    <3> QED  BY <3>1, <3>2, <3>3
  <2> QED  BY <1>1, <2>5
<1> QED  BY <1>3, <1>4

\* The fleet events still to come are those of the scenario, and a rejected job has no
\* place in any fleet to come. Once a job is rejected no fleet event is due now: the
\* events of an instant come before its arrivals.
Foreseen ==
  /\ FleetAhead \subseteq scenario.fleet
  /\ \A e \in scenario.fleet : now < e.time => e \in FleetAhead
  /\ pc # "pop" \/ (\E j \in Jobs : status[j] = "rejected") =>
       \A e \in heap : e.kind \in FleetKinds => now < e.time
  /\ \A j \in Jobs : status[j] = "rejected" => \A N \in Futures : Hopeless(j, N)

\* The fleet events of a scenario.
LEMMA FleetIs ==
  ASSUME Types
  PROVE  \A e \in scenario.fleet : e.time \in Nat /\ e.kind \in FleetKinds /\ e.id \in Nodes
BY ScenarioAssumption DEF Types, Accepted

\* Timers and arrivals are no fleet events, and the fleet events that bring capacity are
\* handled before those that take it, and before arrivals.
LEMMA FleetOrder ==
  /\ JobKinds \cap FleetKinds = {} /\ Gains \subseteq FleetKinds
  /\ \A kind \in FleetKinds : Order(kind) = IF kind \in Gains THEN 3 ELSE 4
  /\ Order("JOB_ARRIVAL") = 5
  /\ \A e : IsTimer(e) => e.kind \notin FleetKinds
BY TimerKinds DEF JobKinds, Timers, FleetKinds, Gains, Order

\* The event that is taken is the first of those due now.
LEMMA TakenFirst ==
  ASSUME LifeInv, NEW e \in batch, Take(e), e.kind \in FleetKinds \cup {"JOB_ARRIVAL"},
         NEW f \in batch, f.kind \in FleetKinds
  PROVE  e.kind \in FleetKinds /\ ~Decides(f, e)
<1>1. e.time = now /\ f.time = now /\ now \in Nat
  BY DEF LifeInv, Core, EventsTyped, LoopTypes
<1>2. ~Before(f, e)
  BY DEF Take
<1>3. Order(f.kind) \in Int /\ Order(e.kind) \in Int
  BY FleetOrder
<1>4. ~ Order(f.kind) < Order(e.kind)
  BY <1>1, <1>2, <1>3, PairLess DEF Before
<1> QED  BY <1>1, <1>4, FleetOrder DEF Decides

\* What is foreseen stays so as long as fleet, clock and fleet events are the same and no
\* job is rejected.
LEMMA ForeseenKept ==
  ASSUME Foreseen, UNCHANGED <<scenario, now, nodeVars>>, FleetAhead' = FleetAhead,
         \A j \in Jobs : status'[j] = "rejected" => status[j] = "rejected",
         \A e \in heap' : e.kind \in FleetKinds => e \in heap,
         pc' # "pop" => pc # "pop" \/ heap' = {}
  PROVE  Foreseen'
<1>1. Futures' = Futures
  BY DEF Futures, ActiveNodes, Usable, nodeVars, NodesAfter
<1>2. \A j, N : Hopeless(j, N)' <=> Hopeless(j, N)
  BY DEF Hopeless, QuotaPlace, QueueOf, FleetView, NoUsage
<1> QED  BY <1>1, <1>2 DEF Foreseen

\* Nothing but timers is pushed.
PushesTimers == heap \subseteq heap' /\ \A e \in heap' \ heap : e.kind \in Timers

\* The steps that only push timers.
LEMMA OnlyTimers ==
  ASSUME Foreseen, UNCHANGED <<scenario, now, batch, nodeVars>>, PushesTimers,
         \A j \in Jobs : status'[j] = "rejected" => status[j] = "rejected",
         pc # "pop"
  PROVE  Foreseen'
<1>1. FleetAhead' = FleetAhead /\ \A e \in heap' : e.kind \in FleetKinds => e \in heap
  BY FleetOrder DEF PushesTimers, FleetAhead, Queued, JobKinds
<1> QED  BY <1>1, ForeseenKept

\* So do the handlers of the events of jobs.
LEMMA HandlerForesees ==
  ASSUME Foreseen, NEW e \in batch, Take(e), e.kind \notin FleetKinds,
         UNCHANGED nodeVars, PushesTimers,
         \A j \in Jobs : status'[j] = "rejected" => status[j] = "rejected"
  PROVE  Foreseen'
<1>1. FleetAhead' = FleetAhead /\ \A f \in heap' : f.kind \in FleetKinds => f \in heap
  BY FleetOrder DEF PushesTimers, FleetAhead, Queued, JobKinds, Take
<1>2. UNCHANGED <<scenario, now>> /\ pc # "pop"
  BY DEF Take
<1> QED  BY <1>1, <1>2, ForeseenKept

\* A fleet event makes the fleet that was foreseen for it.
LEMMA FleetForesees ==
  ASSUME LifeInv, Foreseen, NEW e \in batch, Take(e), e.kind \in FleetKinds,
         \A n \in Nodes : Usable(n)' <=> IF n = e.id THEN e.kind \in Gains ELSE Usable(n),
         PushesTimers,
         \A j \in Jobs : status'[j] = "rejected" => status[j] = "rejected"
  PROVE  Foreseen'
<1>1. UNCHANGED <<scenario, now, pc>> /\ pc = "handle" /\ batch' = batch \ {e}
  BY DEF Take
<1>2. e.time = now /\ e.id \in Nodes /\ now \in Nat /\ e \in FleetAhead
      /\ \A f \in FleetAhead : f.time \in Nat /\ now <= f.time
  BY DEF LifeInv, Core, EventsTyped, LoopTypes, FleetAhead, Queued
<1>3. \A f \in heap : f.kind \in FleetKinds => now < f.time
  BY <1>1 DEF Foreseen
<1>4. FleetAhead' = FleetAhead \ {e}
  BY <1>1, <1>2, <1>3, FleetOrder DEF PushesTimers, FleetAhead, Queued, JobKinds
<1>5. \A f \in FleetAhead : ~Decides(f, e)
  <2> SUFFICES ASSUME NEW f \in FleetAhead PROVE ~Decides(f, e)
    OBVIOUS
  <2>1. CASE f \in batch
    BY <2>1, TakenFirst DEF FleetAhead
  <2>2. CASE f \in heap
    BY <1>2, <1>3, <2>2 DEF Decides, FleetAhead
  <2> QED  BY <2>1, <2>2 DEF FleetAhead, Queued
<1>6. \A n \in Nodes : n \in ActiveNodes' <=> IF n = e.id THEN e.kind \in Gains ELSE n \in ActiveNodes
  BY DEF ActiveNodes
<1>7. ASSUME NEW t \in Nat, now <= t
      PROVE  NodesAfter(ActiveNodes', FleetAhead', t) = NodesAfter(ActiveNodes, FleetAhead, t)
  BY <1>2, <1>4, <1>5, <1>6, <1>7, FutureKept
<1>8. Futures' = Futures
  <2>1. Futures' = {NodesAfter(ActiveNodes', FleetAhead', t) : t \in {x \in Nat : now <= x}}
    BY <1>1 DEF Futures, NodesAfter
  <2> QED  BY <1>7, <2>1 DEF Futures
<1>9. \A j, N : Hopeless(j, N)' <=> Hopeless(j, N)
  BY <1>1 DEF Hopeless, QuotaPlace, QueueOf, FleetView, NoUsage
<1>10. FleetAhead' \subseteq scenario'.fleet /\ \A f \in scenario'.fleet : now' < f.time => f \in FleetAhead'
  BY <1>1, <1>2, <1>4 DEF Foreseen
<1>11. \A f \in heap' : f.kind \in FleetKinds => now' < f.time
  BY <1>1, <1>3, FleetOrder DEF PushesTimers, JobKinds
<1>12. \A j \in Jobs : status'[j] = "rejected" => \A N \in Futures' : Hopeless(j, N)'
  BY <1>8, <1>9 DEF Foreseen
<1> QED  BY <1>10, <1>11, <1>12 DEF Foreseen

\* The clock moves on: what is still to come was so before.
LEMMA PopForesees ==
  ASSUME LifeInv, Foreseen, NEW e \in heap, Pop(e)
  PROVE  Foreseen'
<1>1. /\ UNCHANGED <<scenario, status, nodeVars>> /\ pc = "pop" /\ now' = e.time
      /\ batch' = {f \in heap : f.time = e.time} /\ heap' = heap \ batch' /\ IsHead(e)
  BY DEF Pop, jobVars
<1>2. batch = {} /\ now \in Nat /\ e.time \in Nat /\ now <= e.time
      /\ \A f \in heap : f.time \in Nat
  BY <1>1 DEF LifeInv, Core, EventsTyped, LoopTypes, Queued
<1>3. FleetAhead' = FleetAhead
  BY <1>1, <1>2 DEF FleetAhead, Queued
<1>4. \A f \in heap' : now' < f.time
  BY <1>1, <1>2, HeadIsFirst
<1>5. Futures' \subseteq Futures
  <2>1. ActiveNodes' = ActiveNodes
    BY <1>1 DEF ActiveNodes, Usable, nodeVars
  <2>2. Futures' = {NodesAfter(ActiveNodes, FleetAhead, t) : t \in {x \in Nat : e.time <= x}}
    BY <1>1, <1>3, <2>1 DEF Futures, NodesAfter
  <2> QED  BY <1>2, <2>2 DEF Futures
<1>6. \A j, N : Hopeless(j, N)' <=> Hopeless(j, N)
  BY <1>1 DEF Hopeless, QuotaPlace, QueueOf, FleetView, NoUsage
<1>7. FleetAhead' \subseteq scenario'.fleet /\ \A f \in scenario'.fleet : now' < f.time => f \in FleetAhead'
  <2>1. \A f \in scenario.fleet : e.time < f.time => now < f.time
    BY <1>2, FleetIs DEF LifeInv, Inv
  <2> QED  BY <1>1, <1>3, <2>1 DEF Foreseen
<1>8. \A j \in Jobs : status'[j] = "rejected" => \A N \in Futures' : Hopeless(j, N)'
  BY <1>1, <1>5, <1>6 DEF Foreseen
<1> QED  BY <1>4, <1>7, <1>8 DEF Foreseen

\* A job is rejected when no snapshot has a place for it, and the snapshots are all the
\* fleets to come.
LEMMA SubmitForesees ==
  ASSUME LifeInv, Foreseen, NEW e \in batch, Submit(e)
  PROVE  Foreseen'
<1> DEFINE snapshots == Snapshots(ActiveNodes, scenario.fleet, now)
           admitted == Admits(e.id, QueueOf(e.id), MinReplicas[e.id], snapshots, scenario.quotaAware)
<1>1. /\ Take(e) /\ e.kind = "JOB_ARRIVAL" /\ heap' = heap /\ UNCHANGED nodeVars
      /\ status' = IF admitted THEN status ELSE [status EXCEPT ![e.id] = "rejected"]
  BY DEF Submit, Arrive
<1> HIDE DEF admitted
<1>2. UNCHANGED <<scenario, now, pc>> /\ pc = "handle" /\ batch' = batch \ {e}
  BY <1>1 DEF Take
<1>3. e.kind \notin FleetKinds /\ e.id \in Jobs /\ now \in Nat
  BY <1>1, FleetOrder DEF LifeInv, Core, EventsTyped, LoopTypes, Queued, JobKinds
<1>4. FleetAhead' = FleetAhead
  BY <1>1, <1>2, <1>3 DEF FleetAhead, Queued
<1>5. FleetAhead = {f \in scenario.fleet : f.time > now}
  <2>1. \A f \in batch : f.kind \notin FleetKinds
    BY <1>1, <1>3, TakenFirst
  <2>2. \A f \in FleetAhead : now < f.time
    BY <1>2, <2>1 DEF Foreseen, FleetAhead, Queued
  <2>3. \A f \in scenario.fleet : f.time \in Nat
    BY FleetIs DEF LifeInv, Inv
  <2> QED  BY <1>3, <2>2, <2>3 DEF Foreseen
<1>6. Futures \subseteq snapshots
  <2>1. ActiveNodes \in SUBSET Nodes /\ \A f \in scenario.fleet : f.time \in Nat
    BY FleetIs DEF LifeInv, Inv, ActiveNodes
  <2>2. \A t \in Nat : NodesAfter(ActiveNodes, FleetAhead, t) \in snapshots
    BY <1>3, <1>5, <2>1, SnapshotsAre
  <2> QED  BY <2>2 DEF Futures
<1>7. ~admitted => \A N \in Futures : Hopeless(e.id, N)
  <2> HIDE DEF snapshots
  <2> QED  BY <1>3, <1>6, RejectedIs DEF admitted, LifeInv, Inv
<1>8. Futures' = Futures
  BY <1>1, <1>2, <1>4 DEF Futures, ActiveNodes, Usable, nodeVars, NodesAfter
<1>9. \A j, N : Hopeless(j, N)' <=> Hopeless(j, N)
  BY <1>2 DEF Hopeless, QuotaPlace, QueueOf, FleetView, NoUsage
<1>10. ASSUME NEW j \in Jobs, status'[j] = "rejected" PROVE \A N \in Futures' : Hopeless(j, N)'
  <2>1. status[j] = "rejected" \/ (j = e.id /\ ~admitted)
    BY <1>1, <1>10 DEF LifeInv, Core, LoopTypes
  <2> QED  BY <1>7, <1>8, <1>9, <2>1 DEF Foreseen
<1> QED  BY <1>1, <1>2, <1>4, <1>10 DEF Foreseen

\* The handlers, and the clock.
LEMMA LoopForesees ==
  ASSUME LifeInv, Foreseen, LoopEvent
  PROVE  Foreseen'
<1>0. LoopStep
  BY DEF LoopEvent
<1>1. ASSUME NEW e \in heap, Discard(e) PROVE Foreseen'
  <2>1. UNCHANGED <<scenario, now, pc, batch, status, nodeVars>> /\ heap' = heap \ {e} /\ IsTimer(e)
    BY <1>1 DEF Discard, jobVars
  <2>2. FleetAhead' = FleetAhead
    BY <2>1, FleetOrder DEF FleetAhead, Queued
  <2> QED  BY <2>1, <2>2, ForeseenKept
<1>2. CASE Finish
  <2>1. UNCHANGED <<scenario, now, batch, status, nodeVars, heap>> /\ heap = {} /\ pc' = "done"
    BY <1>2 DEF Finish, jobVars
  <2>2. FleetAhead' = FleetAhead
    BY <2>1 DEF FleetAhead, Queued
  <2> QED  BY <2>1, <2>2, ForeseenKept
<1>3. ASSUME NEW e \in batch, StaleTimer(e) PROVE Foreseen'
  <2>1. Take(e) /\ e.kind \notin FleetKinds /\ UNCHANGED nodeVars /\ heap' = heap
        /\ status' = status
    BY <1>3, FleetOrder DEF StaleTimer, jobVars
  <2> QED  BY <2>1, HandlerForesees DEF PushesTimers
<1>4. ASSUME NEW e \in batch, Complete(e) \/ CompleteCheckpoint(e) PROVE Foreseen'
  <2>1. Take(e) /\ e.kind \notin FleetKinds /\ UNCHANGED nodeVars /\ heap' = heap
    BY <1>4 DEF Complete, CompleteCheckpoint, FleetKinds
  <2>2. \A j \in Jobs : status'[j] = "rejected" => status[j] = "rejected"
    BY <1>4 DEF Complete, CompleteCheckpoint, LifeInv, Core, LoopTypes
  <2> QED  BY <2>1, <2>2, HandlerForesees DEF PushesTimers
<1>5. ASSUME NEW e \in batch, CompleteRestart(e) PROVE Foreseen'
  <2> DEFINE timer == Completion(e.id, work[e.id], Cardinality(alloc[e.id]), gen[e.id])
  <2>1. Take(e) /\ e.kind \notin FleetKinds /\ UNCHANGED nodeVars /\ heap' = heap \cup {timer}
    BY <1>5 DEF CompleteRestart, FleetKinds
  <2>2. \A j \in Jobs : status'[j] = "rejected" => status[j] = "rejected"
    BY <1>5 DEF CompleteRestart, LifeInv, Core, LoopTypes
  <2>3. \A f \in {timer} : f.kind \in Timers
    BY DEF Completion, Event, Timers
  <2> HIDE DEF timer
  <2> QED  BY <2>1, <2>2, <2>3, HandlerForesees DEF PushesTimers
<1>6. available \in [Nodes -> BOOLEAN] /\ schedulable \in [Nodes -> BOOLEAN]
  BY DEF LifeInv, Core, LoopTypes
<1>7. ASSUME NEW e \in batch, Restore(e) PROVE Foreseen'
  <2>1. Take(e) /\ e.kind \in FleetKinds /\ e.kind \in Gains /\ heap' = heap /\ status' = status
    BY <1>7 DEF Restore, FleetKinds, Gains, jobVars
  <2>2. \A n \in Nodes : Usable(n)' <=> IF n = e.id THEN e.kind \in Gains ELSE Usable(n)
    BY <1>6, <1>7, <2>1 DEF Restore, Usable
  <2> QED  BY <2>1, <2>2, FleetForesees DEF PushesTimers
<1>8. ASSUME NEW e \in batch, Drain(e) PROVE Foreseen'
  <2>1. Take(e) /\ e.kind \in FleetKinds /\ e.kind \notin Gains /\ heap' = heap /\ status' = status
    BY <1>8 DEF Drain, FleetKinds, Gains, jobVars
  <2>2. \A n \in Nodes : Usable(n)' <=> IF n = e.id THEN e.kind \in Gains ELSE Usable(n)
    BY <1>6, <1>8, <2>1 DEF Drain, Usable
  <2> QED  BY <2>1, <2>2, FleetForesees DEF PushesTimers
<1>9. ASSUME NEW e \in batch, Fail(e) PROVE Foreseen'
  <2>1. Take(e) /\ e.kind \in FleetKinds /\ e.kind \notin Gains
    BY <1>9 DEF Fail, FleetKinds, Gains
  <2>2. \A n \in Nodes : Usable(n)' <=> IF n = e.id THEN e.kind \in Gains ELSE Usable(n)
    BY <1>6, <1>9, <2>1 DEF Fail, Usable
  <2>3. \A j \in Jobs : status'[j] = "rejected" => status[j] = "rejected"
    BY <1>9 DEF Fail
  <2>4. PICK N : heap' = heap \cup N /\ \A f \in N : f.kind \in Timers
    <3> DEFINE timer(j) == Completion(j, Accrued(j), Cardinality(alloc[j] \ OnNode(e.id)), gen[j] + 1)
    <3>1. \A j : timer(j).kind \in Timers
      BY DEF Completion, Event, Timers
    <3>2. \E shrunk : heap' = heap \cup {timer(j) : j \in shrunk}
      BY <1>9 DEF Fail
    <3> HIDE DEF timer
    <3> QED  BY <3>1, <3>2
  <2> QED  BY <2>1, <2>2, <2>3, <2>4, FleetForesees DEF PushesTimers
<1> QED  BY <1>0, <1>1, <1>2, <1>3, <1>4, <1>5, <1>7, <1>8, <1>9, PopForesees DEF LoopStep, Handle

\* An attempt pushes a timer at most, and rejects no job.
LEMMA AttemptPushes ==
  ASSUME LifeInv, NEW j \in Jobs, NEW P, StartOrWait(j, P)
  PROVE  /\ PushesTimers
         /\ \A i \in Jobs : status'[i] = "rejected" => status[i] = "rejected"
         /\ UNCHANGED nodeVars
<1>1. CASE Start(j, P)
  <2> DEFINE timer == IF WasPreempted(j) /\ RestartCost[j] > 0
                      THEN Event(now + RestartCost[j], "JOB_RESTART_COMPLETE", j, gen[j] + 1)
                      ELSE Completion(j, work[j], Cardinality(P), gen[j] + 1)
  <2>1. heap' = heap \cup {timer}
    BY <1>1 DEF Start, StartJob
  <2>2. timer.kind \in Timers
    BY DEF Event, Completion, Timers
  <2>3. \A i \in Jobs : status'[i] = "rejected" => status[i] = "rejected"
    BY <1>1 DEF Start, StartJob, LifeInv, Core, LoopTypes
  <2>4. UNCHANGED nodeVars
    BY <1>1 DEF Start, StartJob
  <2> HIDE DEF timer
  <2> QED  BY <2>1, <2>2, <2>3, <2>4 DEF PushesTimers
<1>2. CASE GiveUp(j) \/ NoChange
  <2>1. heap' = heap /\ status' = status /\ UNCHANGED nodeVars
    BY <1>2 DEF GiveUp, NoChange, jobVars
  <2> QED  BY <2>1 DEF PushesTimers
<1> QED  BY <1>1, <1>2 DEF StartOrWait

\* The steps of the pass and of growth.
LEMMA StepForesees ==
  ASSUME LifeInv, Foreseen, Step
  PROVE  Foreseen'
<1> DEFINE Same == UNCHANGED <<scenario, now, batch, nodeVars>> /\ pc # "pop"
           Rejects == \E j \in Jobs : status'[j] = "rejected" /\ status[j] # "rejected"
<1>0. status \in [Jobs -> {"pending", "completed", "rejected"} \cup Active]
  BY DEF LifeInv, Core, LoopTypes
<1>1. CASE LoopEvent
  BY <1>1, LoopForesees
<1>2. CASE \E e \in batch : Submit(e)
  BY <1>2, SubmitForesees
<1>3. CASE BeginPass \/ BeginBorrowing \/ BeginResume \/ EndPass \/ EndInstant \/ Grow
  <2>1. Same /\ heap' = heap /\ status' = status
    BY <1>3 DEF BeginPass, BeginBorrowing, BeginResume, EndPass, EndInstant, Grow, jobVars
  <2> QED  BY <2>1, OnlyTimers DEF PushesTimers
<1>4. CASE TryGuaranteed \/ TryBorrowing \/ Retry \/ Resume
  <2>2. UNCHANGED <<scenario, now, batch>> /\ pc # "pop"
    BY <1>4 DEF TryGuaranteed, TryBorrowing, Retry, Resume
  <2>3. \/ \E j \in Jobs : \E P : StartOrWait(j, P)
        \/ UNCHANGED <<heap, jobVars, nodeVars>>
    <3>1. CASE TryGuaranteed \/ Resume
      BY <3>1 DEF TryGuaranteed, Resume
    <3>2. CASE TryBorrowing
      BY <3>2 DEF TryBorrowing
    <3>3. CASE Retry
      <4>1. plan.target \in Jobs
        BY <3>3 DEF Retry, LifeInv, Core, Planned, LoopTypes
      <4>2. NoChange \/ \E P : P # {} /\ Start(plan.target, P)
        BY <3>3 DEF Retry
      <4> QED  BY <4>1, <4>2 DEF NoChange, StartOrWait
    <3> QED  BY <1>4, <3>1, <3>2, <3>3
  <2>4. PushesTimers /\ ~Rejects /\ UNCHANGED nodeVars
    <3>1. CASE UNCHANGED <<heap, jobVars, nodeVars>>
      <4>1. heap' = heap /\ status' = status /\ UNCHANGED nodeVars
        BY <3>1 DEF jobVars
      <4> QED  BY <4>1 DEF PushesTimers
    <3> QED  BY <2>3, <3>1, AttemptPushes
  <2> QED  BY <2>2, <2>4, OnlyTimers
<1>5. CASE CommitShrink \/ Regenerate
  <2>1. Same /\ status' = status
    BY <1>5 DEF CommitShrink, Regenerate
  <2>2. \E t : heap' = heap \cup {t} /\ t.kind \in Timers
    <3>1. \E i, w, r, g : heap' = heap \cup {Completion(i, w, r, g)}
      BY <1>5 DEF CommitShrink, Regenerate, Reschedule
    <3>2. \A i, w, r, g : Completion(i, w, r, g).kind \in Timers
      BY DEF Completion, Event, Timers
    <3> QED  BY <3>1, <3>2
  <2> QED  BY <2>1, <2>2, OnlyTimers DEF PushesTimers
<1>6. CASE CommitEvict
  <2>1. Same
    BY <1>6 DEF CommitEvict
  <2>2. ~Rejects
    BY <1>6 DEF CommitEvict
  <2>3. PushesTimers
    <3> DEFINE timer(v) == Event(now + CheckpointCost[v], "JOB_CHECKPOINT_COMPLETE", v, gen[v])
    <3>1. \E V : heap' = heap \cup {timer(v) : v \in V}
      BY <1>6 DEF CommitEvict
    <3>2. \A v : timer(v).kind \in Timers
      BY DEF Event, Timers
    <3> HIDE DEF timer
    <3> QED  BY <3>1, <3>2 DEF PushesTimers
  <2> QED  BY <2>1, <2>2, <2>3, OnlyTimers
<1> QED  BY <1>1, <1>2, <1>3, <1>4, <1>5, <1>6 DEF Step

\* No job is rejected that could ever have run: a rejected job has no place within its
\* quotas on the empty schedulable cluster at any later moment, whatever the fleet has
\* become since.
THEOREM AdmissionIsSound == Spec => []AdmissionSound
<1>1. Init => Foreseen
  <2> SUFFICES ASSUME Init PROVE Foreseen
    OBVIOUS
  <2>1. /\ heap = {Event(scenario.arrival[j], "JOB_ARRIVAL", j, 0) : j \in Jobs} \cup scenario.fleet
        /\ batch = {} /\ pc = "pop" /\ \A j \in Jobs : status[j] = "pending"
    BY DEF Init, LoopInit
  <2>2. \A e \in scenario.fleet : e.kind \in FleetKinds
    BY ScenarioAssumption DEF Init, LoopInit, Accepted
  <2>3. FleetAhead = scenario.fleet
    BY <2>1, <2>2 DEF FleetAhead, Queued, Event, FleetKinds
  <2> QED  BY <2>1, <2>3 DEF Foreseen
<1>2. LifeInv /\ Foreseen /\ [Next]_vars => Foreseen'
  <2> SUFFICES ASSUME LifeInv, Foreseen, [Next]_vars PROVE Foreseen'
    OBVIOUS
  <2>1. CASE UNCHANGED vars
    <3>1. UNCHANGED <<scenario, now, pc, heap, batch, status, nodeVars>>
      BY <2>1 DEF vars, loopVars, jobVars
    <3>2. FleetAhead' = FleetAhead
      BY <3>1 DEF FleetAhead, Queued
    <3> QED  BY <3>1, <3>2, ForeseenKept
  <2> QED  BY <2>1, StepForesees DEF Next, Terminated
<1>3. LifeInv /\ Foreseen => AdmissionSound
  <2> SUFFICES ASSUME LifeInv, Foreseen, pc = "pop", NEW j \in Jobs, status[j] = "rejected"
               PROVE  QuotaPlace(j, EmptyView, NoUsage, TRUE) = {}
    BY DEF AdmissionSound, NoUsage
  <2>1. now \in Nat /\ batch = {} /\ \A e \in FleetAhead : e.time \in Nat
    BY DEF LifeInv, Core, LoopTypes, EventsTyped, FleetAhead
  <2>2. \A e \in FleetAhead : now < e.time
    BY <2>1 DEF Foreseen, FleetAhead, Queued
  <2>3. NodesAfter(ActiveNodes, FleetAhead, now) = ActiveNodes
    <3>1. ActiveNodes \in SUBSET Nodes
      BY DEF ActiveNodes
    <3>2. \A e \in FleetAhead : e.time \in Nat /\ ~ e.time <= now
      BY <2>1, <2>2
    <3> QED  BY <3>1, <3>2, NothingAhead
  <2>4. ActiveNodes \in Futures
    BY <2>1, <2>3 DEF Futures
  <2>5. FleetView(ActiveNodes) = EmptyView
    BY GpuFacts DEF FleetView, EmptyView, ActiveNodes, UsableGpus
  <2> QED  BY <2>4, <2>5 DEF Foreseen, Hopeless
<1> QED  BY <1>1, <1>2, <1>3, LifeInvariance, PTL DEF Spec

-----------------------------------------------------------------------------
(* Branches of the tree of queues, and what is used below them.            *)

\* A queue charges itself and what its parent charges, whose path is shorter.
LEMMA AncestorsUp ==
  /\ Ancestors(Root) = {Root}
  /\ \A q \in Queues : Len(Path[q]) \in Nat /\ Ancestors(q) \subseteq Queues
  /\ \A q \in Queues \ {Root} : /\ Ancestors(q) = {q} \cup Ancestors(Parent[q])
                                /\ Parent[q] \in Queues /\ Len(Path[Parent[q]]) < Len(Path[q])
<1>1. Path[Root] = <<Root>> /\ Path \in [Queues -> Seq(Queues)] /\ Parent \in [Queues -> Queues]
  BY HierarchyAssumption DEF IsTree
<1>2. Ancestors(Root) = {Root}
  BY <1>1 DEF Ancestors
<1>3. ASSUME NEW q \in Queues PROVE Len(Path[q]) \in Nat /\ Ancestors(q) \subseteq Queues
  <2>1. Path[q] \in Seq(Queues)
    BY <1>1
  <2> QED  BY <2>1 DEF Ancestors
<1>4. ASSUME NEW q \in Queues \ {Root}
      PROVE  /\ Ancestors(q) = {q} \cup Ancestors(Parent[q])
             /\ Parent[q] \in Queues /\ Len(Path[Parent[q]]) < Len(Path[q])
  <2> DEFINE s == Path[Parent[q]]
             t == Path[q]
  <2>1. Parent[q] \in Queues /\ s \in Seq(Queues) /\ t = <<q>> \o s
    BY <1>1, HierarchyAssumption DEF IsTree
  <2> HIDE DEF s, t
  <2>2. <<q>> \in Seq(Queues)
    OBVIOUS
  <2>3. Len(t) = 1 + Len(s) /\ Len(s) \in Nat /\ DOMAIN t = 1 .. 1 + Len(s) /\ DOMAIN s = 1 .. Len(s)
    BY <2>1, <2>2
  <2>4. \A i \in DOMAIN t : t[i] = IF i = 1 THEN q ELSE s[i - 1]
    BY <2>1, <2>2, <2>3
  <2>5. {t[i] : i \in DOMAIN t} = {q} \cup {s[i] : i \in DOMAIN s}
    <3>1. \A i \in DOMAIN t : t[i] \in {q} \cup {s[k] : k \in DOMAIN s}
      BY <2>3, <2>4
    <3>2. q \in {t[i] : i \in DOMAIN t}
      BY <2>3, <2>4
    <3>3. ASSUME NEW k \in DOMAIN s PROVE s[k] \in {t[i] : i \in DOMAIN t}
      <4>1. k + 1 \in DOMAIN t /\ t[k + 1] = s[k]
        BY <2>3, <2>4
      <4> QED  BY <4>1
    <3> QED  BY <3>1, <3>2, <3>3
  <2>6. Ancestors(q) = {t[i] : i \in DOMAIN t} /\ Ancestors(Parent[q]) = {s[i] : i \in DOMAIN s}
    BY DEF Ancestors, s, t
  <2>7. Len(s) < Len(t)
    BY <2>3
  <2> QED  BY <2>1, <2>5, <2>6, <2>7 DEF s, t
<1> QED  BY <1>2, <1>3, <1>4

\* The ancestors of a queue are a chain.
LEMMA AncestorsChain ==
  ASSUME NEW q \in Queues, NEW a \in Ancestors(q), NEW b \in Ancestors(q)
  PROVE  Ancestors(a) \subseteq Ancestors(q) /\ (a \in Ancestors(b) \/ b \in Ancestors(a))
<1> DEFINE Chain(c) == \A x, y \in Ancestors(c) :
                         Ancestors(x) \subseteq Ancestors(c) /\ (x \in Ancestors(y) \/ y \in Ancestors(x))
           B == {n \in Nat : \E c \in Queues : Len(Path[c]) = n /\ ~Chain(c)}
<1> SUFFICES ASSUME ~Chain(q) PROVE FALSE
  OBVIOUS
<1>1. B \in SUBSET Nat /\ B # {}
  <2> HIDE DEF Chain
  <2>1. Len(Path[q]) \in Nat
    BY AncestorsUp
  <2>2. Len(Path[q]) \in B
    BY <2>1
  <2> QED  BY <2>2
<1>2. PICK n \in B : \A m \in B : n <= m
  <2> HIDE DEF B
  <2> QED  BY <1>1, LeastNumber
<1>3. PICK c \in Queues : Len(Path[c]) = n /\ ~Chain(c)
  BY <1>2
<1>4. CASE c = Root
  BY <1>3, <1>4, AncestorsUp
<1>5. CASE c # Root
  <2> DEFINE p == Parent[c]
  <2>1. /\ Ancestors(c) = {c} \cup Ancestors(p) /\ p \in Queues /\ Len(Path[p]) < n
        /\ Len(Path[p]) \in Nat /\ n \in Nat
    BY <1>3, <1>5, AncestorsUp
  <2> HIDE DEF p
  <2>2. Chain(p)
    <3> SUFFICES ASSUME ~Chain(p) PROVE FALSE
      OBVIOUS
    <3>1. Len(Path[p]) \in B
      BY <2>1
    <3> QED  BY <1>2, <2>1, <3>1
  <2>3. Chain(c)
    BY <2>1, <2>2
  <2> QED  BY <1>3, <2>3
<1> QED  BY <1>4, <1>5

\* The branch of queue v that ends below the ancestors of queue h.
Branch(v, h) == {a \in Ancestors(v) \ Ancestors(h) : a # Root /\ Parent[a] \in Ancestors(h)}

\* There is one at most, and one for each of two queues makes the boundary.
LEMMA OneBranch ==
  ASSUME NEW v \in Queues, NEW h \in Queues
  PROVE  /\ \A a, b \in Branch(v, h) : a = b
         /\ Boundary(v, h) = Branch(v, h) \X Branch(h, v)
<1>1. ASSUME NEW a \in Branch(v, h), NEW b \in Branch(v, h), a \in Ancestors(b), a # b
      PROVE  FALSE
  <2>1. b \in Queues \ {Root} /\ Parent[b] \in Ancestors(h) /\ a \notin Ancestors(h)
    BY <1>1, AncestorsUp DEF Branch
  <2>2. a \in Ancestors(Parent[b])
    BY <1>1, <2>1, AncestorsUp
  <2>3. Ancestors(Parent[b]) \subseteq Ancestors(h)
    BY <2>1, AncestorsChain
  <2> QED  BY <2>1, <2>2, <2>3
<1>2. \A a, b \in Branch(v, h) : a \in Ancestors(b) \/ b \in Ancestors(a)
  BY AncestorsChain DEF Branch
<1>3. \A a, b \in Branch(v, h) : a = b
  BY <1>1, <1>2
<1>4. Boundary(v, h) = Branch(v, h) \X Branch(h, v)
  BY DEF Boundary, Branch
<1> QED  BY <1>3, <1>4

\* The branch a victim is reclaimed from is that of any job below it.
LEMMA BranchIs ==
  ASSUME Types, NEW j \in Jobs, NEW h \in Jobs, NEW b \in Boundary(QueueOf(j), QueueOf(h))
  PROVE  /\ BranchOf(j, h) = {b[1]}
         /\ b[1] \in Queues /\ b[2] \in Queues
         /\ b[1] \in Ancestors(QueueOf(j)) /\ b[1] \notin Ancestors(QueueOf(h))
         /\ b[2] \in Ancestors(QueueOf(h)) /\ b[2] \notin Ancestors(QueueOf(j))
         /\ \A i \in Jobs : \A c \in BranchOf(i, h) : c \in Ancestors(QueueOf(j)) => c = b[1]
<1>1. \A i \in Jobs : QueueOf(i) \in Queues
  BY ScenarioAssumption DEF Types, QueueOf
<1> DEFINE V(i) == Branch(QueueOf(i), QueueOf(h))
           H(i) == Branch(QueueOf(h), QueueOf(i))
<1>2. \A i \in Jobs : Boundary(QueueOf(i), QueueOf(h)) = V(i) \X H(i)
  BY <1>1, OneBranch
<1>3. b[1] \in V(j) /\ b[2] \in H(j)
  BY <1>2
<1>4. \A c \in V(j) : c = b[1]
  BY <1>1, <1>3, OneBranch
<1>5. \A i \in Jobs : BranchOf(i, h) \subseteq V(i)
  BY <1>2 DEF BranchOf
<1>6. BranchOf(j, h) = {b[1]}
  BY <1>4, <1>5 DEF BranchOf
<1>7. /\ b[1] \in Ancestors(QueueOf(j)) /\ b[1] \notin Ancestors(QueueOf(h))
      /\ b[2] \in Ancestors(QueueOf(h)) /\ b[2] \notin Ancestors(QueueOf(j))
  BY <1>3 DEF Branch
<1>8. ASSUME NEW i \in Jobs, NEW c \in BranchOf(i, h), c \in Ancestors(QueueOf(j)) PROVE c = b[1]
  <2>1. c \in V(j)
    BY <1>5, <1>8 DEF Branch
  <2> QED  BY <1>4, <2>1
<1> QED  BY <1>1, <1>6, <1>7, <1>8, AncestorsUp

\* A queue uses no more than another time if the jobs below it hold no more.
LEMMA UsageBelow ==
  ASSUME Types, NEW a \in Holdings, NEW b \in Holdings, NEW q \in Queues, NEW d \in Dims,
         \A j \in Jobs : q \in Ancestors(QueueOf(j)) => a[j] \subseteq b[j]
  PROVE  /\ UsageOf(a)[q][d] \in Nat /\ UsageOf(b)[q][d] \in Nat
         /\ UsageOf(a)[q][d] <= UsageOf(b)[q][d]
<1> DEFINE Q == scenario.queue
           c == [j \in Jobs |-> IF q \in Ancestors(Q[j]) THEN a[j] ELSE {}]
           below == {r \in Queues : q \in Ancestors(r)}
           f(x) == [r \in Queues |-> DirectBy(Q, x)[r][d]]
<1>1. Q \in JobQueues /\ \A j \in Jobs : QueueOf(j) = Q[j]
  BY ScenarioAssumption DEF Types, JobQueues, QueueOf
<1>2. \A x \in Holdings : /\ UsageOf(x)[q][d] = SumFunctionOnSet(f(x), below)
                          /\ UsageOf(x)[q][d] \in Nat
                          /\ \A r \in Queues : f(x)[r] \in Nat
  <2> SUFFICES ASSUME NEW x \in Holdings
               PROVE  /\ UsageOf(x)[q][d] = SumFunctionOnSet(f(x), below)
                      /\ UsageOf(x)[q][d] \in Nat
                      /\ \A r \in Queues : f(x)[r] \in Nat
    OBVIOUS
  <2>1. DirectBy(Q, x) \in [Queues -> Vectors]
    BY <1>1, DirectType
  <2>2. UsageOf(x) = Aggregate(DirectBy(Q, x)) /\ UsageOf(x) \in [Queues -> Vectors]
    BY <2>1, DirectIs, AggregateType DEF UsageBy
  <2> QED  BY <2>1, <2>2 DEF Aggregate, Vectors
<1>3. c \in Holdings /\ \A j \in Jobs : c[j] \subseteq b[j]
  BY <1>1 DEF Holdings
<1>4. \A r \in below : f(c)[r] = f(a)[r]
  <2> SUFFICES ASSUME NEW r \in below PROVE f(c)[r] = f(a)[r]
    OBVIOUS
  <2> DEFINE here == {j \in Jobs : Q[j] = r}
  <2>1. IsFiniteSet(here)
    BY PlacementAssumption, FS_Subset
  <2>2. \A j \in here : Charges(c, d)[j] = Charges(a, d)[j] /\ Charges(a, d)[j] \in Nat
    <3>1. \A j \in here : c[j] = a[j]
      OBVIOUS
    <3> QED  BY <3>1, ChargesType DEF Charges
  <2>3. /\ f(c)[r] = SumFunctionOnSet(Charges(c, d), here)
        /\ f(a)[r] = SumFunctionOnSet(Charges(a, d), here)
    BY DEF DirectBy
  <2> HIDE DEF here, c, f
  <2> QED  BY <2>1, <2>2, <2>3, SumEqual
<1>5. \A r \in Queues : f(c)[r] <= f(b)[r]
  BY <1>1, <1>3, DirectMonotone DEF AtMost
<1>6. IsFiniteSet(below)
  BY HierarchyAssumption, FS_Subset
<1>7. \A r \in below : r \in Queues
  OBVIOUS
<1>8. \A r \in below : f(a)[r] \in Nat /\ f(b)[r] \in Nat /\ f(a)[r] <= f(b)[r]
  BY <1>2, <1>4, <1>5, <1>7
<1> HIDE DEF f, below, c
<1>9. SumFunctionOnSet(f(a), below) <= SumFunctionOnSet(f(b), below)
  BY <1>6, <1>8, SumMonotone
<1> QED  BY <1>2, <1>9

\* What a job is given is charged to every queue above its own.
LEMMA UsageGains ==
  ASSUME Types, NEW held \in Holdings, NEW j \in Jobs, NEW P \in SUBSET GPUs, P \cap held[j] = {},
         NEW q \in Ancestors(QueueOf(j)), NEW d \in Dims
  PROVE  UsageOf([held EXCEPT ![j] = @ \cup P])[q][d] = UsageOf(held)[q][d] + Allocation(j, P)[d]
<1> DEFINE Q == scenario.queue
           u == DirectBy(Q, held)
           v == Allocation(j, P)
           c == [held EXCEPT ![j] = @ \cup P]
<1>1. Q \in JobQueues /\ QueueOf(j) = Q[j] /\ Q[j] \in Queues
  BY ScenarioAssumption DEF Types, JobQueues, QueueOf
<1>2. u \in [Queues -> Vectors] /\ v \in Vectors /\ q \in Queues
  BY <1>1, DirectType, AllocationType, AncestorsUp
<1>3. DirectBy(Q, c) = [u EXCEPT ![Q[j]] = Plus(@, v)]
  BY <1>1, DirectGains
<1>4. UsageOf(c) = Aggregate(DirectBy(Q, c)) /\ UsageOf(held) = Aggregate(u)
  BY DirectIs DEF UsageBy
<1> HIDE DEF u, v, c
<1>5. Aggregate([u EXCEPT ![Q[j]] = Plus(@, v)])
        = [r \in Queues |-> IF r \in Ancestors(Q[j]) THEN Plus(Aggregate(u)[r], v) ELSE Aggregate(u)[r]]
  <2> DEFINE r == Q[j]
  <2>1. r \in Queues /\ v \in Vectors /\ u \in [Queues -> Vectors]
    BY <1>1, <1>2
  <2> HIDE DEF r
  <2>2. Aggregate([u EXCEPT ![r] = Plus(@, v)])
          = [a \in Queues |-> IF a \in Ancestors(r) THEN Plus(Aggregate(u)[a], v) ELSE Aggregate(u)[a]]
    <3>1. r \in Queues
      BY <2>1
    <3>2. v \in Vectors
      BY <2>1
    <3>3. u \in [Queues -> Vectors]
      BY <2>1
    <3> QED  BY ONLY <3>1, <3>2, <3>3, AggregateGains, ZenonT(60)
  <2> QED  BY <2>2 DEF r
<1>6. UsageOf(c)[q] = Plus(UsageOf(held)[q], v)
  BY <1>1, <1>2, <1>3, <1>4, <1>5
<1> QED  BY <1>6 DEF Plus, c, v

-----------------------------------------------------------------------------
(* What a reclaim plan takes.                                              *)

\* The plan's shrinks alone: what its victims hold of the vendor is not counted as gone.
Uncut(w, p) == [j \in Jobs |-> IF j \in p.victims THEN OfVendor(alloc[j], w) ELSE p.alloc[j]]

\* Usage and placement of a plan are those its holdings give.
Projected(h, w, p) ==
  /\ p.usage = UsageOf(p.alloc)
  /\ p.placement = TargetPlacement(h, w, p.alloc, UsageOf(p.alloc), p.queues)

\* Where an elastic job was shrunk, its branch still has its guarantee.
ShrinksKeep(h, w, p) ==
  \A v \in Jobs \ p.victims : p.alloc[v] # OfVendor(alloc[v], w) =>
    \A b \in BranchOf(v, h) : \A d \in DOMAIN Guarantee[b] : UsageOf(Uncut(w, p))[b][d] >= Guarantee[b][d]

\* The last victim of a branch was taken while the branch had surplus.
EvictionsTake(h, w, p) ==
  \A v \in p.victims : \E i \in p.victims :
    /\ BranchOf(i, h) = BranchOf(v, h)
    /\ CanReclaim(QueueOf(i), QueueOf(h), UsageOf([p.alloc EXCEPT ![i] = OfVendor(alloc[i], w)]))

\* What is true of a plan after every action; the shrinks come before all evictions.
Justified(shrinking, h, w, p) ==
  /\ Drafted(h, w, p) /\ Projected(h, w, p) /\ ShrinksKeep(h, w, p) /\ EvictionsTake(h, w, p)
  /\ shrinking => p.victims = {}

\* What the jobs of a plan would hold with all victims but one gone, or none, are holdings.
LEMMA PlanHoldings ==
  ASSUME Types, NEW h \in Jobs, NEW w, NEW p, Drafted(h, w, p)
  PROVE  /\ p.alloc \in Holdings /\ Uncut(w, p) \in Holdings
         /\ \A i \in Jobs : [p.alloc EXCEPT ![i] = OfVendor(alloc[i], w)] \in Holdings
         /\ \A i \in Jobs : p.alloc[i] \subseteq OfVendor(alloc[i], w)
         /\ p.victims = {} => Uncut(w, p) = p.alloc
<1>1. p.alloc \in Holdings /\ \A i \in Jobs : OfVendor(alloc[i], w) \in SUBSET GPUs
  BY DEF Drafted, Types, Holdings, OfVendor
<1>2. \A i \in Jobs : p.alloc[i] \subseteq OfVendor(alloc[i], w)
  BY DEF Drafted
<1>3. Uncut(w, p) \in Holdings /\ (p.victims = {} => Uncut(w, p) = p.alloc)
  BY <1>1 DEF Uncut, Holdings
<1>4. \A i \in Jobs : [p.alloc EXCEPT ![i] = OfVendor(alloc[i], w)] \in Holdings
  BY <1>1 DEF Holdings
<1> QED  BY <1>1, <1>2, <1>3, <1>4

\* Guarantees are numbers, in some of the dimensions.
LEMMA GuaranteesAre ==
  \A b \in Queues : \A d \in DOMAIN Guarantee[b] : d \in Dims /\ Guarantee[b][d] \in Nat
BY HierarchyAssumption DEF IsQuota

\* A shrink keeps a plan justified.
LEMMA ShrinkJustifies ==
  ASSUME Types, NEW h \in Jobs, NEW w, NEW p, Justified(TRUE, h, w, p)
  PROVE  Justified(TRUE, h, w, Shrink(h, w, p))
<1> DEFINE best == Least(DOMAIN ShrinkKeys(h, p), ShrinkKeys(h, p))
           keys(j, g) == Append(p.keys, <<j, <<runningPriority[j], 0, RemainingTime(j),
                                            Disruption(j), j, g>>>>)
           After(j, g) ==
             Projection(h, w, [p.alloc EXCEPT ![j] = @ \ {g}], p.victims,
                        p.queues \cup ClaimOf(j, h), keys(j, g))
           s == Shrink(h, w, p)
<1>1. s = IF p.placement # {} \/ best = {} THEN p
          ELSE CHOOSE q \in {After(a[1], a[2]) : a \in best} : TRUE
  BY DEF Shrink
<1>2. \A j, g : /\ After(j, g).alloc = [p.alloc EXCEPT ![j] = @ \ {g}]
                /\ After(j, g).victims = p.victims
                /\ Projected(h, w, After(j, g))
  BY DEF Projection, Projected
<1>3. best \subseteq ShrinkActions(h, p)
  BY DEF Least, First, ShrinkKeys
<1>4. Drafted(h, w, s)
  BY ShrinkDrafts DEF Justified
<1> HIDE DEF After, best, s
<1>5. CASE s = p
  BY <1>5 DEF s
<1>6. ASSUME s # p PROVE Justified(TRUE, h, w, s)
  <2>1. PICK a \in best : s = After(a[1], a[2])
    BY <1>1, <1>6
  <2> DEFINE j == a[1]
             g == a[2]
  <2>2. a \in ShrinkActions(h, p)
    BY <1>3, <2>1
  <2>3. /\ j \in Jobs /\ g \in p.alloc[j]
        /\ CanShrink(QueueOf(j), QueueOf(h), Allocation(j, {g}), p.usage)
    BY <2>2, LoopAssumption DEF ShrinkActions
  <2>4. s.alloc = [p.alloc EXCEPT ![j] = @ \ {g}] /\ s.victims = {} /\ p.victims = {} /\ Projected(h, w, s)
    BY <1>2, <2>1 DEF Justified
  <2> HIDE DEF j, g
  <2>5. /\ p.alloc \in Holdings /\ s.alloc \in Holdings /\ Uncut(w, p) = p.alloc /\ Uncut(w, s) = s.alloc
    BY <1>4, <2>4, PlanHoldings DEF Justified
  <2>6. g \in GPUs /\ s.alloc[j] = p.alloc[j] \ {g} /\ \A i \in Jobs \ {j} : s.alloc[i] = p.alloc[i]
    BY <2>3, <2>4, <2>5 DEF Holdings
  <2>7. PICK b \in Boundary(QueueOf(j), QueueOf(h)) :
          \A d \in DOMAIN Guarantee[b[1]] :
            p.usage[b[1]][d] - Allocation(j, {g})[d] >= Guarantee[b[1]][d]
    BY <2>3 DEF CanShrink
  <2>8. b[1] \in Queues /\ b[1] \in Ancestors(QueueOf(j))
    BY <2>3, <2>7, BranchIs
  <2>9. ASSUME NEW d \in DOMAIN Guarantee[b[1]]
        PROVE  UsageOf(s.alloc)[b[1]][d] >= Guarantee[b[1]][d]
    <3>1. d \in Dims /\ Guarantee[b[1]][d] \in Nat
      BY <2>8, GuaranteesAre
    <3>2. p.alloc = [s.alloc EXCEPT ![j] = @ \cup {g}] /\ {g} \cap s.alloc[j] = {} /\ {g} \in SUBSET GPUs
      BY <2>3, <2>5, <2>6 DEF Holdings
    <3>3. UsageOf(p.alloc)[b[1]][d] = UsageOf(s.alloc)[b[1]][d] + Allocation(j, {g})[d]
      BY <2>3, <2>5, <2>8, <3>1, <3>2, UsageGains
    <3>4. UsageOf(s.alloc)[b[1]][d] \in Nat /\ Allocation(j, {g})[d] \in Nat
      BY <2>3, <2>5, <2>8, <3>1, <3>2, UsageBelow, AllocationType DEF Vectors
    <3>5. p.usage = UsageOf(p.alloc)
      BY DEF Justified, Projected
    <3> QED  BY <2>7, <3>1, <3>3, <3>4, <3>5
  <2>10. ASSUME NEW v \in Jobs, s.alloc[v] # OfVendor(alloc[v], w),
                NEW c \in BranchOf(v, h), NEW d \in DOMAIN Guarantee[c]
         PROVE  UsageOf(s.alloc)[c][d] >= Guarantee[c][d]
    <3>1. PICK x \in Boundary(QueueOf(v), QueueOf(h)) : c = x[1]
      BY DEF BranchOf
    <3>2. c \in Queues /\ c \in Ancestors(QueueOf(v))
      BY <3>1, BranchIs
    <3>3. CASE c \in Ancestors(QueueOf(j))
      <4>1. c = b[1]
        BY <2>3, <2>7, <3>3, BranchIs
      <4> QED  BY <2>9, <4>1
    <3>4. CASE c \notin Ancestors(QueueOf(j))
      <4>1. v # j /\ p.alloc[v] # OfVendor(alloc[v], w)
        BY <2>6, <2>10, <3>2, <3>4
      <4>2. UsageOf(p.alloc)[c][d] >= Guarantee[c][d]
        BY <2>4, <2>5, <4>1 DEF Justified, ShrinksKeep
      <4>3. d \in Dims /\ Guarantee[c][d] \in Nat
        BY <3>2, GuaranteesAre
      <4>4. \A i \in Jobs : c \in Ancestors(QueueOf(i)) => p.alloc[i] \subseteq s.alloc[i]
        BY <2>6, <3>4
      <4>5. /\ UsageOf(p.alloc)[c][d] \in Nat /\ UsageOf(s.alloc)[c][d] \in Nat
            /\ UsageOf(p.alloc)[c][d] <= UsageOf(s.alloc)[c][d]
        BY <2>5, <3>2, <4>3, <4>4, UsageBelow
      <4> QED  BY <4>2, <4>3, <4>5
    <3> QED  BY <3>3, <3>4
  <2>11. ShrinksKeep(h, w, s)
    BY <2>5, <2>10 DEF ShrinksKeep
  <2> QED  BY <1>4, <2>4, <2>11 DEF Justified, EvictionsTake
<1> QED  BY <1>5, <1>6 DEF s

\* So does an eviction.
LEMMA EvictJustifies ==
  ASSUME Types, NEW h \in Jobs, NEW w, NEW p, Justified(FALSE, h, w, p)
  PROVE  Justified(FALSE, h, w, Evict(h, w, p))
<1> DEFINE best == Least(DOMAIN EvictKeys(h, p), EvictKeys(h, p))
           keys(j) == Append(SelectSeq(p.keys, LAMBDA k : k[1] # j),
                             <<j, <<runningPriority[j], 1, RemainingTime(j), Disruption(j), j>>>>)
           After(j) ==
             Projection(h, w, [p.alloc EXCEPT ![j] = {}], p.victims \cup {j},
                        p.queues \cup ClaimOf(j, h), keys(j))
           s == Evict(h, w, p)
           Full(a, i) == [a EXCEPT ![i] = OfVendor(alloc[i], w)]
<1>1. s = IF p.placement # {} \/ best = {} THEN p ELSE CHOOSE q \in {After(j) : j \in best} : TRUE
  BY DEF Evict
<1>2. \A j : /\ After(j).alloc = [p.alloc EXCEPT ![j] = {}]
             /\ After(j).victims = p.victims \cup {j}
             /\ Projected(h, w, After(j))
  BY DEF Projection, Projected
<1>3. best \subseteq EvictActions(h, p)
  BY DEF Least, First, EvictKeys
<1>4. Drafted(h, w, p) /\ Drafted(h, w, s)
  BY EvictDrafts DEF Justified
<1> HIDE DEF After, best, s
<1>5. CASE s = p
  BY <1>5 DEF s
<1>6. ASSUME s # p PROVE Justified(FALSE, h, w, s)
  <2>1. PICK j \in best : s = After(j)
    BY <1>1, <1>6
  <2>2. j \in EvictActions(h, p)
    BY <1>3, <2>1
  <2>3. j \in Jobs /\ j \notin p.victims /\ CanReclaim(QueueOf(j), QueueOf(h), p.usage)
    BY <2>2 DEF EvictActions
  <2>4. s.alloc = [p.alloc EXCEPT ![j] = {}] /\ s.victims = p.victims \cup {j} /\ Projected(h, w, s)
    BY <1>2, <2>1
  <2>5. /\ p.alloc \in Holdings /\ s.alloc \in Holdings
        /\ Uncut(w, p) \in Holdings /\ Uncut(w, s) \in Holdings
        /\ \A i \in Jobs : Full(p.alloc, i) \in Holdings /\ Full(s.alloc, i) \in Holdings
        /\ \A i \in Jobs : p.alloc[i] \subseteq OfVendor(alloc[i], w)
    BY <1>4, PlanHoldings
  <2>6. s.alloc[j] = {} /\ \A i \in Jobs \ {j} : s.alloc[i] = p.alloc[i]
    BY <2>3, <2>4, <2>5 DEF Holdings
  <2>7. \A i, k \in Jobs : /\ Full(p.alloc, i)[k] = IF k = i THEN OfVendor(alloc[i], w) ELSE p.alloc[k]
                           /\ Full(s.alloc, i)[k] = IF k = i THEN OfVendor(alloc[i], w) ELSE s.alloc[k]
    BY <2>5 DEF Holdings
  <2> HIDE DEF Full
  <2>8. \A i \in Jobs : Uncut(w, p)[i] \subseteq Uncut(w, s)[i]
    BY <2>4, <2>5, <2>6 DEF Uncut
  <2>9. ShrinksKeep(h, w, s)
    <3>1. ASSUME NEW v \in Jobs \ s.victims, s.alloc[v] # OfVendor(alloc[v], w),
                 NEW c \in BranchOf(v, h), NEW d \in DOMAIN Guarantee[c]
          PROVE  UsageOf(Uncut(w, s))[c][d] >= Guarantee[c][d]
      <4>1. v \in Jobs \ p.victims /\ p.alloc[v] # OfVendor(alloc[v], w)
        BY <2>4, <2>6, <3>1
      <4>2. UsageOf(Uncut(w, p))[c][d] >= Guarantee[c][d]
        BY <4>1 DEF Justified, ShrinksKeep
      <4>3. c \in Queues
        <5>1. PICK x \in Boundary(QueueOf(v), QueueOf(h)) : c = x[1]
          BY DEF BranchOf
        <5> QED  BY <5>1, BranchIs
      <4>4. d \in Dims /\ Guarantee[c][d] \in Nat
        BY <4>3, GuaranteesAre
      <4>5. /\ UsageOf(Uncut(w, p))[c][d] \in Nat /\ UsageOf(Uncut(w, s))[c][d] \in Nat
            /\ UsageOf(Uncut(w, p))[c][d] <= UsageOf(Uncut(w, s))[c][d]
        BY <2>5, <2>8, <4>3, <4>4, UsageBelow
      <4> QED  BY <4>2, <4>4, <4>5
    <3> QED  BY <3>1 DEF ShrinksKeep
  <2>10. PICK b \in Boundary(QueueOf(j), QueueOf(h)) : HasSurplus(b[1], b[2], p.usage)
    BY <2>3 DEF CanReclaim
  <2>11. /\ BranchOf(j, h) = {b[1]}
         /\ \A i \in Jobs : \A c \in BranchOf(i, h) : c \in Ancestors(QueueOf(j)) => c = b[1]
    BY <2>3, <2>10, BranchIs
  <2>12. p.usage = UsageOf(p.alloc)
    BY DEF Justified, Projected
  \* What one may take while the jobs hold a, one may take while the branches hold no less
  \* of what was above, no more of what was below.
  <2>13. ASSUME NEW i \in Jobs, NEW x \in Holdings, NEW y \in Holdings,
                CanReclaim(QueueOf(i), QueueOf(h), UsageOf(x)),
                \A c \in BranchOf(i, h) : \A k \in Jobs : c \in Ancestors(QueueOf(k)) => x[k] \subseteq y[k],
                \A k \in Jobs \ {i} : y[k] \subseteq x[k]
         PROVE  CanReclaim(QueueOf(i), QueueOf(h), UsageOf(y))
    <3>1. PICK e \in Boundary(QueueOf(i), QueueOf(h)) : HasSurplus(e[1], e[2], UsageOf(x))
      BY <2>13 DEF CanReclaim
    <3>2. /\ BranchOf(i, h) = {e[1]} /\ e[1] \in Queues /\ e[2] \in Queues
          /\ e[2] \notin Ancestors(QueueOf(i))
      BY <3>1, BranchIs
    <3>3. PICK d \in DOMAIN Guarantee[e[2]] : /\ UsageOf(x)[e[2]][d] < Guarantee[e[2]][d]
                                              /\ UsageOf(x)[e[1]][d] > Floor(e[1], d)
      BY <3>1 DEF HasSurplus
    <3>4. d \in Dims /\ Guarantee[e[2]][d] \in Nat /\ Floor(e[1], d) \in Nat
      BY <3>2, GuaranteesAre DEF Floor
    <3>5. /\ UsageOf(x)[e[1]][d] \in Nat /\ UsageOf(y)[e[1]][d] \in Nat
          /\ UsageOf(x)[e[1]][d] <= UsageOf(y)[e[1]][d]
      <4>1. \A k \in Jobs : e[1] \in Ancestors(QueueOf(k)) => x[k] \subseteq y[k]
        BY <2>13, <3>2
      <4> QED  BY <3>2, <3>4, <4>1, UsageBelow
    <3>6. /\ UsageOf(x)[e[2]][d] \in Nat /\ UsageOf(y)[e[2]][d] \in Nat
          /\ UsageOf(y)[e[2]][d] <= UsageOf(x)[e[2]][d]
      <4>1. \A k \in Jobs : e[2] \in Ancestors(QueueOf(k)) => y[k] \subseteq x[k]
        BY <2>13, <3>2
      <4> QED  BY <3>2, <3>4, <4>1, UsageBelow
    <3>7. HasSurplus(e[1], e[2], UsageOf(y))
      BY <3>3, <3>4, <3>5, <3>6 DEF HasSurplus
    <3> QED  BY <2>13, <3>1, <3>7 DEF CanReclaim
  <2>14. CanReclaim(QueueOf(j), QueueOf(h), UsageOf(Full(s.alloc, j)))
    <3>1. \A k \in Jobs \ {j} : Full(s.alloc, j)[k] = p.alloc[k]
      BY <2>3, <2>6, <2>7
    <3>2. p.alloc[j] \subseteq Full(s.alloc, j)[j]
      BY <2>3, <2>5, <2>7
    <3> QED  BY <2>3, <2>5, <2>12, <2>13, <3>1, <3>2
  <2>15. ASSUME NEW v \in s.victims
         PROVE  \E i \in s.victims :
                  /\ BranchOf(i, h) = BranchOf(v, h)
                  /\ CanReclaim(QueueOf(i), QueueOf(h), UsageOf(Full(s.alloc, i)))
    <3>1. CASE BranchOf(v, h) = BranchOf(j, h)
      BY <2>4, <2>14, <3>1
    <3>2. CASE BranchOf(v, h) # BranchOf(j, h)
      <4>1. v \in p.victims /\ p.victims \subseteq Jobs
        BY <1>4, <2>4, <3>2 DEF Drafted
      <4>2. PICK i \in p.victims :
              /\ BranchOf(i, h) = BranchOf(v, h)
              /\ CanReclaim(QueueOf(i), QueueOf(h), UsageOf(Full(p.alloc, i)))
        BY <4>1 DEF Justified, EvictionsTake, Full
      <4>3. i \in Jobs /\ i # j
        BY <2>3, <4>1, <4>2
      <4>4. PICK e \in Boundary(QueueOf(i), QueueOf(h)) : TRUE
        BY <4>2 DEF CanReclaim
      <4>5. BranchOf(i, h) = {e[1]}
        BY <4>3, <4>4, BranchIs
      <4>6. e[1] \notin Ancestors(QueueOf(j))
        BY <2>11, <3>2, <4>2, <4>3, <4>5
      <4>7. \A k \in Jobs \ {j} : Full(s.alloc, i)[k] = Full(p.alloc, i)[k]
        BY <2>6, <2>7, <4>3
      <4>8. Full(s.alloc, i)[j] = {}
        BY <2>3, <2>6, <2>7, <4>3
      <4>9. \A k \in Jobs : Full(s.alloc, i)[k] \subseteq Full(p.alloc, i)[k]
        BY <4>7, <4>8
      <4>10. \A c \in BranchOf(i, h) : \A k \in Jobs :
               c \in Ancestors(QueueOf(k)) => Full(p.alloc, i)[k] \subseteq Full(s.alloc, i)[k]
        BY <4>5, <4>6, <4>7
      <4>11. CanReclaim(QueueOf(i), QueueOf(h), UsageOf(Full(s.alloc, i)))
        BY <2>5, <2>13, <4>2, <4>3, <4>9, <4>10
      <4> QED  BY <2>4, <4>2, <4>11
    <3> QED  BY <3>1, <3>2
  <2>16. EvictionsTake(h, w, s)
    BY <2>15 DEF EvictionsTake, Full
  <2> QED  BY <1>4, <2>4, <2>9, <2>16 DEF Justified
<1> QED  BY <1>5, <1>6 DEF s

\* And any number of actions.
LEMMA ActsJustify ==
  ASSUME Types, NEW shrinking \in BOOLEAN, NEW h \in Jobs, NEW w, NEW p, Justified(shrinking, h, w, p),
         NEW f, Acts(f, Nat, shrinking, h, w, p), NEW n \in Nat
  PROVE  Justified(shrinking, h, w, f[n])
<1> DEFINE B == {i \in Nat : ~Justified(shrinking, h, w, f[i])}
<1> SUFFICES ASSUME B # {} PROVE FALSE
  OBVIOUS
<1>1. PICK i \in B : \A l \in B : i <= l
  <2>1. B \in SUBSET Nat
    OBVIOUS
  <2> HIDE DEF B
  <2> QED  BY <2>1, LeastNumber
<1>2. f[i] = IF i = 0 THEN p ELSE Act(shrinking, h, w, f[i - 1])
  BY ActsAt
<1>3. i # 0
  BY <1>1, <1>2
<1>4. i - 1 \in Nat /\ ~ i <= i - 1
  BY <1>3
<1>5. Justified(shrinking, h, w, f[i - 1])
  BY <1>1, <1>4
<1>6. Justified(shrinking, h, w, Act(shrinking, h, w, f[i - 1]))
  BY <1>5, ShrinkJustifies, EvictJustifies DEF Act
<1> QED  BY <1>1, <1>2, <1>3, <1>6

\* Every plan is justified.
LEMMA PlanJustified ==
  ASSUME Types, NEW h \in Jobs, NEW w
  PROVE  Justified(FALSE, h, w, PlanOf(h, w))
<1> DEFINE p == Projection(h, w, [j \in Jobs |-> OfVendor(alloc[j], w)], {}, {}, <<>>)
           S == CHOOSE f : Acts(f, Nat, TRUE, h, w, p)
           q == S[Cardinality(GPUs)]
           E == CHOOSE f : Acts(f, Nat, FALSE, h, w, q)
<1>1. Justified(TRUE, h, w, p)
  <2>1. /\ p.alloc = [j \in Jobs |-> OfVendor(alloc[j], w)] /\ p.victims = {} /\ p.queues = {}
        /\ \E usage : p.placement = TargetPlacement(h, w, p.alloc, usage, p.queues)
        /\ Projected(h, w, p)
    BY DEF Projection, Projected
  <2> HIDE DEF p
  <2>2. Drafted(h, w, p)
    BY <2>1 DEF Drafted, Types, Holdings, OfVendor
  <2> QED  BY <2>1, <2>2 DEF Justified, ShrinksKeep, EvictionsTake
<1>2. Cardinality(GPUs) \in Nat /\ Cardinality(Jobs) \in Nat
  BY PlacementAssumption, FS_CardinalityType
<1>3. PlanOf(h, w) = E[Cardinality(Jobs)]
  BY DEF PlanOf, Acts, Act
<1> HIDE DEF p
<1>4. Acts(S, Nat, TRUE, h, w, p)
  BY ActsExist
<1> HIDE DEF S
<1>5. Justified(TRUE, h, w, q)
  BY <1>1, <1>2, <1>4, ActsJustify
<1> HIDE DEF q
<1>6. Acts(E, Nat, FALSE, h, w, q)
  BY ActsExist
<1> HIDE DEF E
<1>7. Justified(FALSE, h, w, E[Cardinality(Jobs)])
  BY <1>2, <1>5, <1>6, ActsJustify DEF Justified
<1> QED  BY <1>3, <1>7

-----------------------------------------------------------------------------
(* Reclaim on a fleet of one vendor.                                       *)

\* A plan counts what jobs hold of its own vendor only (allocator.py, _plan_reclaim_for_vendor),
\* so that what it promises of all usage needs a fleet of one vendor; the run reclaim_vendors
\* shows that two vendors break it.
OneVendorFleet == \A g, k \in GPUs : VendorOf[g] = VendorOf[k]

\* Commitment c is to all of plan p of vendor w, the only vendor: what the jobs hold in the plan
\* is what its victims, the jobs it shrinks and, unchanged, all others will hold.
CommitsAll(h, w, p, c) ==
  /\ Justified(FALSE, h, w, p) /\ p.placement # {}
  /\ c.target = h /\ c.alloc = p.alloc /\ c.victims = p.victims /\ c.queues = p.queues
  /\ c.placement = p.placement
  /\ c.shrink = {v \in Jobs \ p.victims : p.alloc[v] # alloc[v]}
  /\ \A P \in SUBSET GPUs : OfVendor(P, w) = P

\* On such a fleet every commitment is.
LEMMA WholePlan ==
  ASSUME OneVendorFleet, LifeInv, NEW h \in Jobs, NEW p \in Best(Plans(h)), NEW c, c = Commitment(h, p)
  PROVE  \E w : CommitsAll(h, w, p, c)
<1>1. Types
  BY DEF LifeInv, Inv
<1>2. p \in Plans(h)
  BY DEF Best, Least, First
<1>3. PICK w : p = PlanOf(h, w)
  BY <1>2 DEF Plans
<1>4. p.placement # {} /\ Justified(FALSE, h, w, p)
  BY <1>1, <1>2, <1>3, PlanJustified DEF Plans
<1>5. PICK g \in p.placement : g \in UsableGpus /\ VendorOf[g] = w
  <2> DEFINE P == p.placement
  <2>1. P = TargetPlacement(h, w, p.alloc, UsageOf(p.alloc), p.queues) /\ P # {}
    BY <1>4 DEF Justified, Projected
  <2> HIDE DEF P
  <2>2. \A g \in P : g \in UsableGpus /\ VendorOf[g] = w
    BY <2>1, TargetPlacementIs
  <2> QED  BY <2>1, <2>2 DEF P
<1>6. \A P \in SUBSET GPUs : OfVendor(P, w) = P
  BY <1>5 DEF OneVendorFleet, OfVendor, UsableGpus
<1>7. /\ c.target = h /\ c.alloc = p.alloc /\ c.victims = p.victims /\ c.queues = p.queues
      /\ c.placement = p.placement
      /\ c.shrink = {v \in Jobs \ p.victims : p.alloc[v] \notin {{}, alloc[v]}}
  BY DEF Commitment
<1>8. ASSUME NEW v \in Jobs \ p.victims, p.alloc[v] # alloc[v] PROVE p.alloc[v] # {}
  <2>1. OfVendor(alloc[v], w) = alloc[v]
    BY <1>1, <1>6 DEF Types, Holdings
  <2>2. Cardinality(p.alloc[v]) >= MinReplicas[v]
    BY <1>4, <1>8, <2>1 DEF Justified, Drafted
  <2>3. Cardinality({}) = 0 /\ MinReplicas[v] \in Nat \ {0}
    BY LoopAssumption, FS_EmptySet
  <2> QED  BY <2>2, <2>3
<1>9. c.shrink = {v \in Jobs \ p.victims : p.alloc[v] # alloc[v]}
  BY <1>7, <1>8
<1>10. CommitsAll(h, w, p, c)
  BY <1>4, <1>6, <1>7, <1>9 DEF CommitsAll
<1> QED  BY <1>10

\* What a committed plan takes is surplus.
TakesSurplus(c) ==
  LET cut == [j \in Jobs |-> IF j \in c.shrink THEN c.alloc[j] ELSE alloc[j]]
      left == [j \in Jobs |-> IF j \in c.victims THEN {} ELSE cut[j]]
  IN  /\ \A j \in c.shrink : \A b \in BranchOf(j, c.target) : \A d \in DOMAIN Guarantee[b] :
           UsageOf(cut)[b][d] >= Guarantee[b][d]
      /\ \A v \in c.victims :
           \E w \in c.victims :
             /\ BranchOf(w, c.target) = BranchOf(v, c.target)
             /\ CanReclaim(QueueOf(w), QueueOf(c.target), UsageOf([left EXCEPT ![w] = alloc[w]]))

\* And so it does on a fleet of one vendor.
LEMMA CommitmentTakesSurplus ==
  ASSUME OneVendorFleet, LifeInv, NEW h \in Jobs, NEW p \in Best(Plans(h)), NEW c, c = Commitment(h, p)
  PROVE  TakesSurplus(c)
<1> DEFINE cut == [j \in Jobs |-> IF j \in c.shrink THEN c.alloc[j] ELSE alloc[j]]
           left == [j \in Jobs |-> IF j \in c.victims THEN {} ELSE cut[j]]
<1>0. PICK w : CommitsAll(h, w, p, c)
  BY WholePlan
<1>1. /\ Justified(FALSE, h, w, p) /\ p.placement # {}
      /\ c.target = h /\ c.alloc = p.alloc /\ c.victims = p.victims /\ c.queues = p.queues
      /\ c.placement = p.placement
      /\ c.shrink = {v \in Jobs \ p.victims : p.alloc[v] # alloc[v]}
      /\ \A P \in SUBSET GPUs : OfVendor(P, w) = P
  BY <1>0 DEF CommitsAll
<1>2. Types /\ p.alloc \in Holdings /\ alloc \in Holdings /\ p.victims \subseteq Jobs
  BY <1>1 DEF LifeInv, Inv, Types, Justified, Drafted
<1>3. \A j \in Jobs : OfVendor(alloc[j], w) = alloc[j]
  BY <1>1, <1>2 DEF Holdings
<1>4. cut = Uncut(w, p)
  BY <1>1, <1>2, <1>3 DEF Uncut
<1>5. \A j \in p.victims : p.alloc[j] = {}
  BY <1>1 DEF Justified, Drafted
<1>6. left = p.alloc
  <2>1. \A j \in Jobs : left[j] = p.alloc[j]
    BY <1>1, <1>5
  <2> QED  BY <1>2, <2>1 DEF Holdings
<1> HIDE DEF cut, left
<1>7. ASSUME NEW j \in c.shrink, NEW b \in BranchOf(j, h), NEW d \in DOMAIN Guarantee[b]
      PROVE  UsageOf(cut)[b][d] >= Guarantee[b][d]
  BY <1>1, <1>3, <1>4, <1>7 DEF Justified, ShrinksKeep
<1>8. ASSUME NEW v \in c.victims
      PROVE  \E i \in c.victims :
               /\ BranchOf(i, h) = BranchOf(v, h)
               /\ CanReclaim(QueueOf(i), QueueOf(h), UsageOf([left EXCEPT ![i] = alloc[i]]))
  <2>1. PICK i \in p.victims :
          /\ BranchOf(i, h) = BranchOf(v, h)
          /\ CanReclaim(QueueOf(i), QueueOf(h), UsageOf([p.alloc EXCEPT ![i] = OfVendor(alloc[i], w)]))
    BY <1>1, <1>8 DEF Justified, EvictionsTake
  <2>2. OfVendor(alloc[i], w) = alloc[i]
    BY <1>2, <1>3
  <2> QED  BY <1>1, <1>6, <2>1, <2>2
<1> QED  BY <1>1, <1>7, <1>8 DEF TakesSurplus, cut, left

\* Only the borrowing pass and the commitment of a plan lead into that commitment or fail it.
LEMMA PlanPhases ==
  ASSUME [Next]_vars, pc' \in {"commit", "retry", "crashed"}
  PROVE  TryBorrowing \/ CommitShrink \/ CommitEvict \/ Retry \/ UNCHANGED vars
<1> DEFINE G == TryBorrowing \/ CommitShrink \/ CommitEvict \/ Retry \/ UNCHANGED vars
<1>1. ASSUME LoopEvent PROVE FALSE
  <2>1. CASE \E e \in heap : Discard(e) \/ Pop(e)
    BY <2>1 DEF Discard, Pop
  <2>2. CASE Finish
    BY <2>2 DEF Finish
  <2>3. CASE \E e \in batch : Handle(e)
    <3>1. PICK e \in batch : Take(e)
      BY <2>3 DEF Handle, StaleTimer, Complete, CompleteCheckpoint, CompleteRestart, Restore, Drain, Fail
    <3> QED  BY <3>1 DEF Take
  <2> QED  BY <1>1, <2>1, <2>2, <2>3 DEF LoopEvent, LoopStep
<1>2. ASSUME \E e \in batch : Submit(e) PROVE FALSE
  BY <1>2 DEF Submit, Arrive, Take
<1>3. ASSUME BeginPass \/ BeginBorrowing \/ BeginResume \/ EndPass \/ EndInstant PROVE FALSE
  BY <1>3 DEF BeginPass, BeginBorrowing, BeginResume, EndPass, EndInstant
<1>4. ASSUME TryGuaranteed \/ Resume \/ Grow \/ Regenerate PROVE FALSE
  BY <1>4 DEF TryGuaranteed, Resume, Grow, Regenerate
<1>5. \/ LoopEvent \/ (\E e \in batch : Submit(e))
      \/ BeginPass \/ BeginBorrowing \/ BeginResume \/ EndPass \/ EndInstant
      \/ TryGuaranteed \/ Resume \/ Grow \/ Regenerate
      \/ G \/ Terminated
  BY DEF Next, Step
<1>6. Terminated => UNCHANGED vars
  BY DEF Terminated
<1> QED  BY <1>1, <1>2, <1>3, <1>4, <1>5, <1>6

\* Only the borrowing pass makes a plan.
LEMMA PlanBegins ==
  ASSUME [Next]_vars, pc # "commit", pc' = "commit"
  PROVE  /\ UNCHANGED <<scenario, jobVars, queueVars, nodeVars>>
         /\ \E j \in Jobs : \E p \in Best(Plans(j)) : plan' = Commitment(j, p)
<1>1. TryBorrowing
  <2>1. ~CommitShrink /\ ~CommitEvict
    BY DEF CommitShrink, CommitEvict
  <2>2. ~Retry
    <3> SUFFICES ASSUME Retry PROVE FALSE
      OBVIOUS
    <3> QED  BY DEF Retry
  <2>3. UNCHANGED vars => pc' = pc
    BY DEF vars, loopVars
  <2> QED  BY <2>1, <2>2, <2>3, PlanPhases
<1>2. pc = "dispatch" /\ scenario' = scenario
  BY <1>1 DEF TryBorrowing
<1>3. PICK j \in Jobs :
         \/ pc' = pc
         \/ /\ \E plans \in {Plans(j)} :
                 \/ pc' = pc
                 \/ \E p \in Best(plans) : plan' = Commitment(j, p)
            /\ UNCHANGED <<jobVars, queueVars, nodeVars>>
  BY <1>1 DEF TryBorrowing
<1> QED  BY <1>2, <1>3

\* On a fleet of one vendor reclaim takes surplus only: the property ReclaimOnlySurplus for
\* every tree of queues, set of elastic and rigid jobs, and scenario.
THEOREM ReclaimTakesSurplus == ASSUME OneVendorFleet PROVE Spec => ReclaimOnlySurplus
<1> DEFINE A == pc # "commit" /\ pc' = "commit" =>
       LET h == plan'.target
           cut == [j \in Jobs |-> IF j \in plan'.shrink THEN plan'.alloc[j] ELSE alloc[j]]
           left == [j \in Jobs |-> IF j \in plan'.victims THEN {} ELSE cut[j]]
       IN  /\ \A j \in plan'.shrink : \A b \in BranchOf(j, h) : \A d \in DOMAIN Guarantee[b] :
                UsageOf(cut)[b][d] >= Guarantee[b][d]
           /\ \A v \in plan'.victims :
                \E w \in plan'.victims :
                  /\ BranchOf(w, h) = BranchOf(v, h)
                  /\ CanReclaim(QueueOf(w), QueueOf(h), UsageOf([left EXCEPT ![w] = alloc[w]]))
<1>1. LifeInv /\ [Next]_vars => A
  <2> SUFFICES ASSUME LifeInv, [Next]_vars, pc # "commit", pc' = "commit" PROVE A
    OBVIOUS
  <2>1. PICK j \in Jobs : \E p \in Best(Plans(j)) : plan' = Commitment(j, p)
    BY PlanBegins
  <2>2. PICK p \in Best(Plans(j)) : plan' = Commitment(j, p)
    BY <2>1
  <2>3. TakesSurplus(plan')
    BY <2>2, CommitmentTakesSurplus
  <2> QED  BY <2>3 DEF TakesSurplus
<1>2. LifeInv /\ [Next]_vars => [A]_vars
  BY <1>1
<1> QED  BY <1>2, LifeInvariance, PTL DEF Spec, ReclaimOnlySurplus

\* A plan in progress: its placement is what its target gets once everybody holds what the plan
\* says, and that is what they hold when its shrinks and evictions are done, or already do.
InProgress ==
  /\ pc \in {"commit", "retry"} =>
       /\ plan.placement # {} /\ plan.placement \subseteq GPUs
       /\ \E w : plan.placement =
                   TargetPlacement(plan.target, w, plan.alloc, UsageOf(plan.alloc), plan.queues)
  /\ pc = "commit" =>
       \A v \in Jobs : /\ v \in plan.victims => plan.alloc[v] = {}
                       /\ v \notin plan.victims \cup plan.shrink => plan.alloc[v] = alloc[v]
  /\ pc = "retry" => plan.alloc = alloc /\ direct = DirectOf(alloc)

\* What holds of the plan while it is committed.
PlanHolds == pc # "crashed" /\ InProgress

\* A placement stays what it is as long as nothing it depends on changes.
LEMMA PlanStays ==
  ASSUME UNCHANGED <<scenario, available, schedulable, reserved>>,
         NEW h, NEW w, NEW a, NEW queues, NEW P, P = TargetPlacement(h, w, a, UsageOf(a), queues),
         plan'.target = h, plan'.alloc = a, plan'.queues = queues, plan'.placement = P
  PROVE  (plan.placement = TargetPlacement(plan.target, w, plan.alloc, UsageOf(plan.alloc), plan.queues))'
<1>1. UsableGpus' = UsableGpus /\ ReservedElsewhere(plan.target)' = ReservedElsewhere(h) /\ Borrowing' = Borrowing
      /\ QueueOf(plan.target)' = QueueOf(h) /\ UsageOf(plan.alloc)' = UsageOf(a)
  BY DEF UsableGpus, Usable, ReservedElsewhere, Borrowing, QueueOf, UsageOf, DirectOf
<1> QED  BY <1>1 DEF TargetPlacement, QuotaPlace, Covered

\* A commitment to a plan is in progress from the start.
LEMMA CommitmentHolds ==
  ASSUME OneVendorFleet, LifeInv, [Next]_vars, pc # "commit", pc' = "commit"
  PROVE  InProgress'
<1>1. UNCHANGED <<scenario, alloc, available, schedulable, reserved>>
  BY PlanBegins DEF jobVars, queueVars, nodeVars
<1>2. PICK j \in Jobs : \E p \in Best(Plans(j)) : plan' = Commitment(j, p)
  BY PlanBegins
<1>3. PICK p \in Best(Plans(j)) : plan' = Commitment(j, p)
  BY <1>2
<1>4. PICK c : c = plan'
  OBVIOUS
<1>5. PICK w : CommitsAll(j, w, p, c)
  BY <1>3, <1>4, WholePlan
<1>6. /\ Justified(FALSE, j, w, p) /\ p.placement # {}
      /\ c.target = j /\ c.alloc = p.alloc /\ c.victims = p.victims /\ c.queues = p.queues
      /\ c.placement = p.placement
      /\ c.shrink = {v \in Jobs \ p.victims : p.alloc[v] # alloc[v]}
  BY <1>5 DEF CommitsAll
<1>7. c.placement = TargetPlacement(j, w, c.alloc, UsageOf(c.alloc), c.queues) /\ c.placement # {}
  BY <1>6 DEF Justified, Projected
<1>8. c.placement \subseteq GPUs
  <2> DEFINE P == c.placement
  <2>1. P = TargetPlacement(j, w, c.alloc, UsageOf(c.alloc), c.queues) /\ P # {}
    BY <1>7
  <2> HIDE DEF P
  <2>2. \A g \in P : g \in UsableGpus
    BY <2>1, TargetPlacementIs
  <2> QED  BY <2>2 DEF UsableGpus, P
<1>9. \A v \in Jobs : /\ v \in c.victims => c.alloc[v] = {}
                      /\ v \notin c.victims \cup c.shrink => c.alloc[v] = alloc[v]
  BY <1>6 DEF Justified, Drafted
<1>10. (plan.placement = TargetPlacement(plan.target, w, plan.alloc, UsageOf(plan.alloc), plan.queues))'
  BY <1>1, <1>4, <1>6, <1>7, PlanStays
<1> QED  BY <1>1, <1>4, <1>7, <1>8, <1>9, <1>10 DEF InProgress

\* A shrink that is committed is one that the plan's holdings count already.
LEMMA ShrinkHolds ==
  ASSUME LifeInv, InProgress, CommitShrink
  PROVE  InProgress'
<1> DEFINE j == Min(plan.shrink)
           P == plan.alloc[j]
<1>1. /\ pc = "commit" /\ pc' = "commit" /\ plan.shrink # {} /\ Resize(j, P)
      /\ plan' = [plan EXCEPT !.shrink = @ \ {j}]
      /\ UNCHANGED <<scenario, queueVars, nodeVars>>
  BY DEF CommitShrink
<1>2. Types /\ plan \in Plannings
  BY DEF LifeInv, Inv, Core, LoopTypes
<1>3. j \in plan.shrink /\ j \in Jobs
  <2>1. plan.shrink \in SUBSET Jobs /\ plan.shrink \in SUBSET Nat
    BY <1>2, PlacementAssumption DEF Plannings
  <2> QED  BY <1>1, <2>1, MinIn
<1>4. /\ plan'.target = plan.target /\ plan'.alloc = plan.alloc /\ plan'.victims = plan.victims
      /\ plan'.queues = plan.queues /\ plan'.placement = plan.placement /\ plan'.shrink = plan.shrink \ {j}
  <2> HIDE DEF j
  <2> QED  BY <1>1, <1>2 DEF Plannings
<1> HIDE DEF j
<1>5. alloc'[j] = plan.alloc[j] /\ \A v \in Jobs \ {j} : alloc'[v] = alloc[v]
  BY <1>1, <1>2, <1>3 DEF Resize, Types, Holdings
<1>6. PICK w : plan.placement = TargetPlacement(plan.target, w, plan.alloc, UsageOf(plan.alloc), plan.queues)
  BY <1>1 DEF InProgress
<1>7. (plan.placement = TargetPlacement(plan.target, w, plan.alloc, UsageOf(plan.alloc), plan.queues))'
  BY <1>1, <1>4, <1>6, PlanStays DEF queueVars, nodeVars
<1>8. ASSUME NEW v \in Jobs
      PROVE  /\ v \in plan'.victims => plan'.alloc[v] = {}
             /\ v \notin plan'.victims \cup plan'.shrink => plan'.alloc[v] = alloc'[v]
  BY <1>1, <1>4, <1>5 DEF InProgress
<1> QED  BY <1>1, <1>4, <1>7, <1>8 DEF InProgress

\* After the evictions the jobs hold what the plan says.
LEMMA EvictHolds ==
  ASSUME LifeInv, InProgress, CommitEvict
  PROVE  PlanHolds'
<1> DEFINE deferred == \E v \in plan.victims : CheckpointCost[v] > 0
           freed == {v \in plan.victims : CheckpointCost[v] = 0}
<1>1. /\ pc = "commit" /\ plan.shrink = {} /\ Release(freed)
      /\ reserved' = IF deferred THEN [reserved EXCEPT ![plan.target] = plan.placement] ELSE reserved
      /\ pc' = IF deferred THEN "dispatch" ELSE "retry"
      /\ plan' = IF deferred THEN NoPlan ELSE plan
      /\ IF deferred THEN UNCHANGED <<direct, service, borrowed>> ELSE Prepare(alloc')
      /\ UNCHANGED <<scenario, nodeVars>>
  BY DEF CommitEvict
<1>2. CASE deferred
  BY <1>1, <1>2 DEF PlanHolds, InProgress
<1>3. CASE ~deferred
  <2>1. Types /\ plan \in Plannings
    BY DEF LifeInv, Inv, Core, LoopTypes
  <2>2. freed = plan.victims
    <3>1. \A v \in plan.victims : CheckpointCost[v] \in Nat /\ ~(CheckpointCost[v] > 0)
      BY <1>3, <2>1, LoopAssumption DEF Plannings
    <3> QED  BY <3>1
  <2>3. pc' = "retry" /\ plan' = plan /\ Prepare(alloc') /\ reserved' = reserved
    BY <1>1, <1>3
  <2> HIDE DEF freed, deferred
  <2>4. alloc' = [v \in Jobs |-> IF v \in plan.victims THEN {} ELSE alloc[v]]
    BY <1>1, <2>2 DEF Release
  <2>5. plan.alloc = alloc'
    <3>1. \A v \in Jobs : plan.alloc[v] = alloc'[v]
      BY <1>1, <2>4 DEF InProgress
    <3>2. plan.alloc \in Holdings
      BY <2>1 DEF Plannings
    <3> QED  BY <2>4, <3>1, <3>2 DEF Holdings
  <2>6. PICK w : plan.placement = TargetPlacement(plan.target, w, plan.alloc, UsageOf(plan.alloc), plan.queues)
    BY <1>1 DEF InProgress
  <2>7. (plan.placement = TargetPlacement(plan.target, w, plan.alloc, UsageOf(plan.alloc), plan.queues))'
    BY <1>1, <2>3, <2>6, PlanStays DEF nodeVars
  <2>8. plan.placement # {} /\ plan.placement \subseteq GPUs
    BY <1>1 DEF InProgress
  <2>9. direct' = DirectOf(alloc')
    BY <2>3 DEF Prepare
  <2>10. DirectOf(alloc') = DirectOf(alloc)'
    BY <1>1 DEF DirectOf, QueueOf
  <2> QED  BY <2>3, <2>5, <2>7, <2>8, <2>9, <2>10 DEF PlanHolds, InProgress
<1> QED  BY <1>2, <1>3

\* So the target finds its placement, and the retry does not raise.
LEMMA RetryHolds ==
  ASSUME OneVendorFleet, LifeInv, InProgress, Retry
  PROVE  PlanHolds'
<1> DEFINE h == plan.target
           P == QuotaPlace(h, ViewFor(h), Usage, Borrowing)
           fits == P # {} /\ Covered(h, P, Usage, plan.queues)
<1>1. pc = "retry" /\ pc' = (IF fits THEN "dispatch" ELSE "crashed")
  BY DEF Retry
<1>2. Types /\ Owned /\ LoopTypes /\ h \in Jobs
  BY <1>1, NoneIsNot DEF LifeInv, Inv, Core, LoopTypes, Planned
<1>3. /\ plan.placement # {} /\ plan.placement \subseteq GPUs
      /\ plan.alloc = alloc /\ direct = DirectOf(alloc)
  BY <1>1 DEF InProgress
<1>4. PICK w : plan.placement = TargetPlacement(h, w, alloc, UsageOf(alloc), plan.queues)
  BY <1>1, <1>3 DEF InProgress
<1>5. Usage = UsageOf(alloc)
  BY <1>3 DEF Usage, UsageOf
<1> DEFINE R == plan.placement
           held == UNION {alloc[j] : j \in Jobs}
           view == [gpus |-> OfVendor(UsableGpus, w),
                    occupied |-> OfVendor(held \cup ReservedElsewhere(h), w)]
           X == QuotaPlace(h, view, UsageOf(alloc), Borrowing)
           C(S) == Covered(h, S, UsageOf(alloc), plan.queues)
<1>6. R = UNION {S \in {X} : C(S)}
  <2>1. {QuotaPlace(h, v, UsageOf(alloc), Borrowing) : v \in {view}} = {X}
    OBVIOUS
  <2>2. R = UNION {S \in {QuotaPlace(h, v, UsageOf(alloc), Borrowing) : v \in {view}} : C(S)}
    BY <1>4 DEF TargetPlacement
  <2> QED  BY <2>1, <2>2
<1>7. R = X /\ C(X) /\ X # {}
  <2>1. R # {}
    BY <1>3
  <2> HIDE DEF R, X, C
  <2> QED  BY <1>6, <2>1
<1>8. \A S \in SUBSET GPUs : OfVendor(S, w) = S
  <2>1. PICK g \in R : VendorOf[g] = w
    <3>1. R = TargetPlacement(h, w, alloc, UsageOf(alloc), plan.queues) /\ R # {}
      BY <1>3, <1>4
    <3> HIDE DEF R, h
    <3>2. \A g \in R : VendorOf[g] = w
      BY <1>2, <3>1, TargetPlacementIs
    <3> QED  BY <3>1, <3>2
  <2>2. g \in GPUs
    BY <1>3, <2>1
  <2> QED  BY <2>1, <2>2 DEF OneVendorFleet, OfVendor
<1>9. view = ViewFor(h)
  <2>1. held = Occupied
    BY <1>2, NoneIsNot DEF Types, Holdings, Owned, Occupied
  <2>2. UsableGpus \in SUBSET GPUs /\ Occupied \cup ReservedElsewhere(h) \in SUBSET GPUs
    BY <1>2 DEF UsableGpus, Occupied, ReservedElsewhere, LoopTypes
  <2> HIDE DEF held
  <2> QED  BY <1>8, <2>1, <2>2 DEF ViewFor
<1>10. P = X
  <2> HIDE DEF view
  <2> QED  BY <1>5, <1>9
<1>11. fits
  BY <1>5, <1>7, <1>10
<1> HIDE DEF fits
<1> QED  BY <1>1, <1>11 DEF PlanHolds, InProgress

\* On a fleet of one vendor a plan that is committed gives its target the placement it was made
\* for: the error that the code raises otherwise (engine.py:766-771) never happens, whatever the
\* queues, the jobs, the checkpoints and the scenario are.
THEOREM ReclaimGivesPlacement == ASSUME OneVendorFleet PROVE Spec => []ReclaimCommits
<1>1. Init => PlanHolds
  BY DEF Init, LoopInit, PlanHolds, InProgress
<1>2. LifeInv /\ PlanHolds /\ [Next]_vars => PlanHolds'
  <2> SUFFICES ASSUME LifeInv, PlanHolds, [Next]_vars PROVE PlanHolds'
    OBVIOUS
  <2>1. pc # "crashed" /\ InProgress
    BY DEF PlanHolds
  <2>2. CASE pc' \notin {"commit", "retry", "crashed"}
    BY <2>2 DEF PlanHolds, InProgress
  <2>3. CASE pc # "commit" /\ pc' = "commit"
    BY <2>3, CommitmentHolds DEF PlanHolds
  <2>4. CASE CommitShrink
    <3>1. pc' = "commit"
      BY <2>4 DEF CommitShrink
    <3> QED  BY <2>1, <2>4, <3>1, ShrinkHolds DEF PlanHolds
  <2>5. CASE CommitEvict
    BY <2>1, <2>5, EvictHolds
  <2>6. CASE Retry
    BY <2>1, <2>6, RetryHolds
  <2>7. CASE UNCHANGED vars
    <3>1. UNCHANGED <<scenario, pc, alloc, plan, direct, available, schedulable, reserved>>
      BY <2>7 DEF vars, loopVars, shareVars, stepVars, jobVars, queueVars, nodeVars
    <3>2. \A w : plan.placement = TargetPlacement(plan.target, w, plan.alloc, UsageOf(plan.alloc), plan.queues)
            => (plan.placement = TargetPlacement(plan.target, w, plan.alloc, UsageOf(plan.alloc), plan.queues))'
      BY <3>1, PlanStays
    <3>3. DirectOf(alloc)' = DirectOf(alloc)
      BY <3>1 DEF DirectOf, QueueOf
    <3> QED  BY <2>1, <3>1, <3>2, <3>3 DEF PlanHolds, InProgress
  <2>8. CASE TryBorrowing
    <3>1. pc = "dispatch" /\ pc' \in {"dispatch", "commit"}
      <4>1. PICK j \in Jobs : \E P \in {PlaceNow(j, Borrowing)} :
              pc' = pc \/ \E plans \in {Plans(j)} : pc' = pc \/ pc' = "commit"
        BY <2>8 DEF TryBorrowing
      <4>2. pc = "dispatch"
        BY <2>8 DEF TryBorrowing
      <4> QED  BY <4>1, <4>2
    <3> QED  BY <2>2, <2>3, <3>1
  <2> QED  BY <2>2, <2>4, <2>5, <2>6, <2>7, <2>8, PlanPhases
<1>3. PlanHolds => ReclaimCommits
  BY DEF PlanHolds, ReclaimCommits
<1> QED  BY <1>1, <1>2, <1>3, LifeInvariance, PTL DEF Spec

=============================================================================
