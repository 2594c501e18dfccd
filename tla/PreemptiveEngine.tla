-------------------------- MODULE PreemptiveEngine --------------------------
(***************************************************************************)
(* The discrete-event loop of Simulator.run (simulator/engine.py) driving  *)
(* the PreemptiveScheduler: bin-packing placement, priority preemption with*)
(* checkpoint and restart costs, temporary reservations, priority aging,   *)
(* and a fleet whose nodes drain, fail and return.                         *)
(*                                                                         *)
(* The program is single-threaded, so a run is determined by its scenario  *)
(* (arrivals, durations, priorities, fleet events), chosen in Init. The    *)
(* variable pc says where in the loop body control is: pop the next        *)
(* instant, handle its events one by one, dispatch the queue, retry the    *)
(* job that just preempted, resume fresh victims. Jobs are rigid, without  *)
(* topology requirements or queues; elastic jobs and reclaim are not here. *)
(***************************************************************************)
EXTENDS Integers, Sequences, FiniteSets, FiniteSetsExt, Functions

CONSTANTS
  Jobs, GPUs, Nodes,  \* ids are integers, in the order of the id strings
  NodeOf,             \* [GPUs -> Nodes]
  VendorOf,           \* [GPUs -> Nat], in the order of the vendor names
  GpuMemory,          \* GPU.memory_capacity_gb
  JobMemory,          \* Job.gpu_memory_gb
  JobVendors,         \* vendors the job accepts, all of them if it names none
  GpuCount,           \* Job.gpu_count
  CheckpointCost, RestartCost,
  AgingInterval,      \* Scheduler.aging_interval
  Scenarios,          \* the scenarios a run may be given
  None                \* absent job, time or priority

Critical == 3  \* the highest Priority

\* The events of FleetEventType.
FleetKinds == {"NODE_JOIN", "NODE_RECOVER", "CAPACITY_RETURN", "NODE_DRAIN", "NODE_FAIL", "CAPACITY_REVOKE"}

\* What the loader and the constructors of Job, GPU and FleetEvent accept.
ASSUME EngineAssumption ==
  /\ Jobs \subseteq Nat /\ GPUs \subseteq Nat /\ Nodes \subseteq Nat
  /\ IsFiniteSet(Jobs) /\ IsFiniteSet(GPUs)
  /\ NodeOf \in [GPUs -> Nodes]
  /\ VendorOf \in [GPUs -> Nat]
  /\ GpuMemory \in [GPUs -> Nat \ {0}]
  /\ JobMemory \in [Jobs -> Nat \ {0}]
  /\ JobVendors \in [Jobs -> SUBSET Nat]
  /\ GpuCount \in [Jobs -> Nat \ {0}]
  /\ CheckpointCost \in [Jobs -> Nat]
  /\ RestartCost \in [Jobs -> Nat]
  /\ AgingInterval \in Nat \ {0}
  /\ None \in Int \ Nat
  /\ \A s \in Scenarios :
       /\ s.arrival \in [Jobs -> Nat] /\ s.duration \in [Jobs -> Nat \ {0}]
       /\ s.priority \in [Jobs -> 0 .. Critical]
       /\ \A e \in s.fleet : e.time \in Nat /\ e.kind \in FleetKinds /\ e.id \in Nodes

VARIABLES
  scenario,         \* arrival, duration, priority, fleet events, nodes down at first
  now,              \* logical time
  pc,               \* where in the loop body control is
  heap,             \* Simulator._events, as a set
  batch,            \* the popped events of this instant not handled yet
  todo,             \* jobs this pass has still to try
  initial,          \* the queue when the pass began
  incoming,         \* the job whose victims were just released, for "retry"
  status,           \* Job.status
  alloc,            \* Job.allocated_gpu_ids, as a set
  owner,            \* GPU.owner_job_id
  gen,              \* Job.run_generation
  acc,              \* Job.accumulated_runtime
  lastStart,        \* Job.last_start_time
  runningPriority,  \* Job.running_priority
  interrupted,      \* jobs with preemption_count + recovery_count > 0
  pending,          \* Simulator.pending, as a set: a pass sorts it first
  suspended,        \* keys of _suspended_victims
  target,           \* _preemption_target_by_victim
  reserved,         \* _preemption_reserved_gpus, {} where absent
  available,        \* Node.available
  schedulable       \* Node.schedulable

loopVars  == <<now, pc, heap, batch, todo, initial, incoming>>
jobVars   == <<status, alloc, owner, gen, acc, lastStart, runningPriority, interrupted>>
queueVars == <<pending, suspended, target, reserved>>
nodeVars  == <<available, schedulable>>
vars == <<scenario, loopVars, jobVars, queueVars, nodeVars>>

Compatible ==
  [j \in Jobs |-> {g \in GPUs : /\ VendorOf[g] \in JobVendors[j]
                                /\ JobMemory[j] <= GpuMemory[g]}]

OnNode(n) == {g \in GPUs : NodeOf[g] = n}
Usable(n) == schedulable[n] /\ available[n]
Active == {"running", "checkpointing", "restarting"}
Busy == \E j \in Jobs : status[j] \in Active

-----------------------------------------------------------------------------
(* Priorities.                                                             *)

\* Job.effective_priority of a job that is not running and has made progress t.
Aged(j, t) ==
  LET waited == Max({0, now - scenario.arrival[j] - t})
  IN  Min({Critical, scenario.priority[j] + (waited \div AgingInterval)})

EffectivePriority(j) ==
  IF status[j] = "running" THEN runningPriority[j] ELSE Aged(j, acc[j])

\* Lexicographic order on tuples of integers of one length.
Less(s, t) ==
  \E i \in DOMAIN s : s[i] < t[i] /\ \A k \in 1 .. i - 1 : s[k] = t[k]

\* PreemptiveScheduler.pending_key, a total order, and the job it puts first.
PendingKey(j) == <<-EffectivePriority(j), scenario.arrival[j], j>>
Foremost(S) == {j \in S : \A i \in S \ {j} : Less(PendingKey(j), PendingKey(i))}

-----------------------------------------------------------------------------
(* Events.                                                                 *)

Order(kind) ==
  CASE kind = "JOB_COMPLETE" -> 0
    [] kind = "JOB_CHECKPOINT_COMPLETE" -> 1
    [] kind = "JOB_RESTART_COMPLETE" -> 2
    [] kind \in {"NODE_JOIN", "NODE_RECOVER", "CAPACITY_RETURN"} -> 3
    [] kind \in {"NODE_DRAIN", "NODE_FAIL", "CAPACITY_REVOKE"} -> 4
    [] kind = "JOB_ARRIVAL" -> 5
    [] kind = "SCHEDULER_TICK" -> 6

Event(t, kind, id, g) == [time |-> t, kind |-> kind, id |-> id, gen |-> g]

\* The status in which each timer finds its job if it is not stale.
Awaited(kind) ==
  CASE kind = "JOB_COMPLETE" -> "running"
    [] kind = "JOB_CHECKPOINT_COMPLETE" -> "checkpointing"
    [] kind = "JOB_RESTART_COMPLETE" -> "restarting"
    [] OTHER -> "none"

\* A deliberate mistake: the generation of the event is not compared.
IsLiveByStatus(e) == status[e.id] = Awaited(e.kind)

IsTimer(e) == Awaited(e.kind) # "none"
IsLive(e) == status[e.id] = Awaited(e.kind) /\ e.gen = gen[e.id]

\* Deliberate mistakes: the next tick counts from the arrival, or comes at once.
AgingTickFromArrival(j, t) ==
  IF Aged(j, t) < Critical
  THEN {Event(scenario.arrival[j] + AgingInterval, "SCHEDULER_TICK", j, 0)}
  ELSE {}
AgingTickAtOnce(j, t) ==
  IF Aged(j, t) < Critical THEN {Event(now, "SCHEDULER_TICK", j, 0)} ELSE {}

\* An aging tick for a queued job with progress t, unless it is at the top already.
AgingTick(j, t) ==
  IF Aged(j, t) < Critical
  THEN {Event(now + AgingInterval, "SCHEDULER_TICK", j, 0)}
  ELSE {}

Completion(j, t, g) == Event(now + Max({0, scenario.duration[j] - t}), "JOB_COMPLETE", j, g)

\* A deliberate mistake: the progress of earlier runs is forgotten.
AccruedSinceStart(j) == IF lastStart[j] = None THEN acc[j] ELSE now - lastStart[j]

\* Job progress up to now, _accrue_productive_work.
Accrued(j) == IF lastStart[j] = None THEN acc[j] ELSE acc[j] + (now - lastStart[j])

-----------------------------------------------------------------------------
(* Placement.                                                              *)

ReservedElsewhere(j) == UNION {reserved[h] : h \in Jobs \ {j}}

\* A deliberate mistake: reserved GPUs look free to every job.
OccupiedIgnoringReservations(j) == {g \in GPUs : owner[g] # None}

\* The GPUs that look occupied in _placement_cluster(job).
OccupiedFor(j) == {g \in GPUs : owner[g] # None} \cup ReservedElsewhere(j)

\* A deliberate mistake: a gang may mix vendors.
EligibleOfAnyVendor(j, occupied, scope) ==
  {g \in scope \cap Compatible[j] : Usable(NodeOf[g]) /\ g \notin occupied}

\* Cluster.eligible_gpus over the GPUs in scope: a gang takes the first vendor
\* that has enough free GPUs.
Eligible(j, occupied, scope) ==
  LET hosts == {g \in scope \cap Compatible[j] : Usable(NodeOf[g]) /\ g \notin occupied}
      OfVendor(w) == {g \in hosts : VendorOf[g] = w}
      enough == {w \in {VendorOf[g] : g \in hosts} : Cardinality(OfVendor(w)) >= GpuCount[j]}
  IN  IF GpuCount[j] <= 1 THEN hosts
      ELSE IF enough = {} THEN {} ELSE OfVendor(Min(enough))

\* BinPackScheduler.place: fullest nodes first, then the smallest free block, then
\* the tightest memory fit; {} when the request does not fit.
Place(j, occupied, scope) ==
  LET eligible == Eligible(j, occupied, scope)
      Slack == [g \in eligible |-> GpuMemory[g] - JobMemory[j]]
      NodeKey(n) ==
        LET used == Cardinality(occupied \cap scope \cap OnNode(n))
            here == eligible \cap OnNode(n)
        IN  <<IF used = 0 THEN 1 ELSE 0, -used, Cardinality(here), SumFunctionOnSet(Slack, here), n>>
      GpuKey == [g \in eligible |-> NodeKey(NodeOf[g]) \o <<Slack[g], g>>]
      Ahead(g) == {h \in eligible : Less(GpuKey[h], GpuKey[g])}
  IN  IF Cardinality(eligible) < GpuCount[j] THEN {}
      ELSE {g \in eligible : Cardinality(Ahead(g)) < GpuCount[j]}

PlaceNow(j) == Place(j, OccupiedFor(j), GPUs)

-----------------------------------------------------------------------------
(* Victim selection, _preempt_for.                                         *)

\* A deliberate mistake: base priorities decide alone.
VictimsByBasePriority(j) ==
  {v \in Jobs :
     /\ status[v] = "running"
     /\ alloc[v] \cap Compatible[j] # {}
     /\ scenario.priority[v] < scenario.priority[j]}

EligibleVictims(j) ==
  {v \in Jobs :
     /\ status[v] = "running"
     /\ alloc[v] \cap Compatible[j] # {}
     /\ EffectivePriority(v) < EffectivePriority(j)
     /\ scenario.priority[v] < scenario.priority[j]}

VictimKey(v, j) ==
  <<EffectivePriority(v), -Cardinality(alloc[v] \cap Compatible[j]), Cardinality(alloc[v]),
    Max({0, scenario.duration[v] - Accrued(v)}), CheckpointCost[v] + RestartCost[v], v>>

\* A deliberate mistake: the plan counts free compatible GPUs, on usable nodes or not.
VendorPlanByCount(j, w) ==
  LET scope == {g \in Compatible[j] : VendorOf[g] = w}
      victims == {v \in EligibleVictims(j) : alloc[v] \cap scope # {}}
      free == scope \ (OccupiedFor(j) \ UNION {alloc[v] : v \in victims})
  IN  [victims |-> victims, vendor |-> w,
       placement |-> IF Cardinality(free) < GpuCount[j] THEN {} ELSE free]

\* The plan of one vendor: release victims in VictimKey order until the job fits.
VendorPlan(j, w) ==
  LET scope == {g \in GPUs : VendorOf[g] = w}
      victims == {v \in EligibleVictims(j) : alloc[v] \cap scope # {}}
      Ahead(v) == {u \in victims : Less(VictimKey(u, j), VictimKey(v, j))}
      First(k) == {v \in victims : Cardinality(Ahead(v)) < k}
      Projected(k) == Place(j, OccupiedFor(j) \ UNION {alloc[v] : v \in First(k)}, scope)
      fits == {k \in 0 .. Cardinality(victims) : Projected(k) # {}}
      least == Min(fits)
  IN  IF fits = {} THEN [victims |-> {}, placement |-> {}, vendor |-> w]
      ELSE [victims |-> First(least), placement |-> Projected(least), vendor |-> w]

Plans(j) ==
  {p \in {VendorPlan(j, VendorOf[g]) : g \in {h \in Compatible[j] : Usable(NodeOf[h])}} :
     p.placement # {}}

\* The planner compares the victims' keys in order. Plans of two vendors share no
\* victim, so the first key decides; a plan without victims comes first.
PlanLess(p, q, j) ==
  LET Lead(r) == CHOOSE v \in r.victims :
                   \A u \in r.victims \ {v} : Less(VictimKey(v, j), VictimKey(u, j))
  IN  IF p.victims = {} THEN q.victims # {} \/ p.vendor < q.vendor
      ELSE q.victims # {} /\ Less(VictimKey(Lead(p), j), VictimKey(Lead(q), j))

BestPlans(j) ==
  LET plans == Plans(j) IN {p \in plans : \A q \in plans \ {p} : PlanLess(p, q, j)}

-----------------------------------------------------------------------------
(* State changes the handlers share.                                       *)

Release(R) ==
  /\ owner' = [g \in GPUs |-> IF owner[g] \in R THEN None ELSE owner[g]]
  /\ alloc' = [j \in Jobs |-> IF j \in R THEN {} ELSE alloc[j]]

\* _release_preemption_reservation for the targets T that hold a reservation: their
\* victims forget them, and the suspended ones are queued again with a new tick.
Holders(T) == {h \in T : reserved[h] # {}}
\* A deliberate mistake: only victims whose target keeps waiting come back.
VictimsOfQueued(T) == {v \in suspended : target[v] \in Holders(T) \cap todo}

ReturnedVictims(T) == {v \in suspended : target[v] \in Holders(T)}
TargetsWithout(T) == [v \in Jobs |-> IF target[v] \in Holders(T) THEN None ELSE target[v]]

DropReservations(T) ==
  /\ reserved' = [h \in Jobs |-> IF h \in T THEN {} ELSE reserved[h]]
  /\ target' = TargetsWithout(T)

Ticks(S) == UNION {AgingTick(v, acc[v]) : v \in S}

\* _start: commit placement P. A job that was interrupted before first pays its
\* restart cost.
StartJob(j, P) ==
  LET back == ReturnedVictims({j})
      restarts == (j \in interrupted \/ acc[j] > 0) /\ RestartCost[j] > 0
      timer == IF restarts
               THEN Event(now + RestartCost[j], "JOB_RESTART_COMPLETE", j, gen[j] + 1)
               ELSE Completion(j, acc[j], gen[j] + 1)
  IN
  /\ owner' = [g \in GPUs |-> IF g \in P THEN j ELSE owner[g]]
  /\ alloc' = [alloc EXCEPT ![j] = P]
  /\ gen' = [gen EXCEPT ![j] = @ + 1]
  /\ runningPriority' = [runningPriority EXCEPT ![j] = EffectivePriority(j)]
  /\ status' = [status EXCEPT ![j] = IF restarts THEN "restarting" ELSE "running"]
  /\ lastStart' = [lastStart EXCEPT ![j] = IF restarts THEN None ELSE now]
  /\ pending' = (pending \ {j}) \cup back
  /\ suspended' = suspended \ back
  /\ DropReservations({j})
  /\ heap' = heap \cup {timer} \cup Ticks(back)
  /\ UNCHANGED <<acc, interrupted, nodeVars>>

\* Commit a plan: _begin_preemption of every victim. If one of them has to write a
\* checkpoint, the whole placement is reserved and all of them are tied to the job.
PreemptFor(j, plan) ==
  LET deferred == \E v \in plan.victims : CheckpointCost[v] > 0
      freed == {v \in plan.victims : CheckpointCost[v] = 0}
      written == plan.victims \ freed
      aims == [v \in Jobs |-> IF deferred /\ v \in plan.victims THEN j ELSE target[v]]
      parked == {v \in freed : aims[v] # None}
  IN
  /\ reserved' = IF deferred THEN [reserved EXCEPT ![j] = plan.placement] ELSE reserved
  /\ target' = aims
  /\ Release(freed)
  /\ acc' = [v \in Jobs |-> IF v \in plan.victims THEN Accrued(v) ELSE acc[v]]
  /\ status' = [v \in Jobs |-> IF v \in freed THEN "pending"
                               ELSE IF v \in written THEN "checkpointing" ELSE status[v]]
  /\ lastStart' = [v \in Jobs |-> IF v \in plan.victims THEN None ELSE lastStart[v]]
  /\ runningPriority' = [v \in Jobs |-> IF v \in plan.victims THEN None ELSE runningPriority[v]]
  /\ interrupted' = interrupted \cup plan.victims
  /\ suspended' = suspended \cup parked
  /\ pending' = pending \cup (freed \ parked)
  /\ heap' = heap
       \cup {Event(now + CheckpointCost[v], "JOB_CHECKPOINT_COMPLETE", v, gen[v]) : v \in written}
       \cup UNION {AgingTick(v, Accrued(v)) : v \in freed \ parked}
  /\ pc' = IF deferred THEN pc ELSE "retry"
  /\ incoming' = IF deferred THEN None ELSE j
  /\ UNCHANGED <<gen, nodeVars>>

-----------------------------------------------------------------------------
Init ==
  /\ scenario \in Scenarios
  /\ now = 0 /\ pc = "pop"
  /\ heap = {Event(scenario.arrival[j], "JOB_ARRIVAL", j, 0) : j \in Jobs} \cup scenario.fleet
  /\ batch = {} /\ todo = {} /\ initial = {} /\ incoming = None
  /\ status = [j \in Jobs |-> "pending"]
  /\ alloc = [j \in Jobs |-> {}]
  /\ owner = [g \in GPUs |-> None]
  /\ gen = [j \in Jobs |-> 0]
  /\ acc = [j \in Jobs |-> 0]
  /\ lastStart = [j \in Jobs |-> None]
  /\ runningPriority = [j \in Jobs |-> None]
  /\ interrupted = {}
  /\ pending = {} /\ suspended = {}
  /\ target = [j \in Jobs |-> None]
  /\ reserved = [j \in Jobs |-> {}]
  /\ available = [n \in Nodes |-> n \notin scenario.down]
  /\ schedulable = [n \in Nodes |-> TRUE]

-----------------------------------------------------------------------------
(* The head of the loop. Events that tie on time and kind come in any order, *)
(* which covers the order in which the program pushed them.                  *)

Before(e, f) == Less(<<e.time, Order(e.kind)>>, <<f.time, Order(f.kind)>>)
IsHead(e) == \A f \in heap : ~Before(f, e)

\* Ticks of jobs that left the queue, ticks while no job holds a GPU, and timers of
\* a phase that is over are popped without moving the clock.
Discardable(e) ==
  \/ IsTimer(e) /\ ~IsLive(e)
  \/ e.kind = "SCHEDULER_TICK" /\ (e.id \notin pending \/ ~Busy)

Discard(e) ==
  /\ pc = "pop" /\ IsHead(e) /\ Discardable(e)
  /\ heap' = heap \ {e}
  /\ UNCHANGED <<scenario, now, pc, batch, todo, initial, incoming, jobVars, queueVars, nodeVars>>

Pop(e) ==
  /\ pc = "pop" /\ IsHead(e) /\ ~Discardable(e)
  /\ now' = e.time
  /\ batch' = {f \in heap : f.time = e.time}
  /\ heap' = heap \ batch'
  /\ pc' = "handle"
  /\ UNCHANGED <<scenario, todo, initial, incoming, jobVars, queueVars, nodeVars>>

Finish ==
  /\ pc = "pop" /\ heap = {}
  /\ pc' = "done"
  /\ UNCHANGED <<scenario, now, heap, batch, todo, initial, incoming, jobVars, queueVars, nodeVars>>

-----------------------------------------------------------------------------
(* The handlers.                                                           *)

Take(e) ==
  /\ pc = "handle" /\ e \in batch
  /\ \A f \in batch : ~Before(f, e)
  /\ batch' = batch \ {e}
  /\ UNCHANGED <<scenario, now, pc, todo, initial, incoming>>

Arrive(e) ==
  /\ Take(e) /\ e.kind = "JOB_ARRIVAL"
  /\ pending' = pending \cup {e.id}
  /\ heap' = heap \cup AgingTick(e.id, acc[e.id])
  /\ UNCHANGED <<jobVars, suspended, target, reserved, nodeVars>>

Tick(e) ==
  /\ Take(e) /\ e.kind = "SCHEDULER_TICK"
  /\ heap' = IF e.id \in pending THEN heap \cup AgingTick(e.id, acc[e.id]) ELSE heap
  /\ UNCHANGED <<jobVars, queueVars, nodeVars>>

\* A stale timer that was popped because it is due with a live event.
StaleTimer(e) ==
  /\ Take(e) /\ IsTimer(e) /\ ~IsLive(e)
  /\ UNCHANGED <<heap, jobVars, queueVars, nodeVars>>

Complete(e) ==
  LET j == e.id IN
  /\ Take(e) /\ e.kind = "JOB_COMPLETE" /\ IsLive(e)
  /\ acc' = [acc EXCEPT ![j] = Min({scenario.duration[j], Accrued(j)})]
  /\ Release({j})
  /\ status' = [status EXCEPT ![j] = "completed"]
  /\ lastStart' = [lastStart EXCEPT ![j] = None]
  /\ runningPriority' = [runningPriority EXCEPT ![j] = None]
  /\ UNCHANGED <<heap, gen, interrupted, queueVars, nodeVars>>

CompleteCheckpoint(e) ==
  LET j == e.id
      parks == target[j] # None
  IN
  /\ Take(e) /\ e.kind = "JOB_CHECKPOINT_COMPLETE" /\ IsLive(e)
  /\ Release({j})
  /\ status' = [status EXCEPT ![j] = "pending"]
  /\ suspended' = IF parks THEN suspended \cup {j} ELSE suspended
  /\ pending' = IF parks THEN pending ELSE pending \cup {j}
  /\ heap' = IF parks THEN heap ELSE heap \cup AgingTick(j, acc[j])
  /\ UNCHANGED <<gen, acc, lastStart, runningPriority, interrupted, target, reserved, nodeVars>>

CompleteRestart(e) ==
  LET j == e.id IN
  /\ Take(e) /\ e.kind = "JOB_RESTART_COMPLETE" /\ IsLive(e)
  /\ status' = [status EXCEPT ![j] = "running"]
  /\ lastStart' = [lastStart EXCEPT ![j] = now]
  /\ heap' = heap \cup {Completion(j, acc[j], gen[j])}
  /\ UNCHANGED <<alloc, owner, gen, acc, runningPriority, interrupted, queueVars, nodeVars>>

Restore(e) ==
  /\ Take(e) /\ e.kind \in {"NODE_JOIN", "NODE_RECOVER", "CAPACITY_RETURN"}
  /\ available' = [available EXCEPT ![e.id] = TRUE]
  /\ schedulable' = [schedulable EXCEPT ![e.id] = TRUE]
  /\ UNCHANGED <<heap, jobVars, queueVars>>

\* A deliberate mistake: a reservation survives if it has a GPU elsewhere.
AffectedEntirely(n) == {h \in Jobs : reserved[h] # {} /\ reserved[h] \subseteq OnNode(n)}

\* Targets whose reservation uses a GPU of the node.
Affected(n) == {h \in Jobs : reserved[h] \cap OnNode(n) # {}}

Drain(e) ==
  LET back == ReturnedVictims(Affected(e.id)) IN
  /\ Take(e) /\ e.kind = "NODE_DRAIN"
  /\ schedulable' = [schedulable EXCEPT ![e.id] = FALSE]
  /\ DropReservations(Affected(e.id))
  /\ pending' = pending \cup back
  /\ suspended' = suspended \ back
  /\ heap' = heap \cup Ticks(back)
  /\ UNCHANGED <<jobVars, available>>

\* Every job on the node is interrupted, whatever phase it is in. It keeps its
\* progress and waits again, without a new aging tick.
Fail(e) ==
  LET back == ReturnedVictims(Affected(e.id))
      lost == {j \in Jobs : \E g \in OnNode(e.id) : owner[g] = j}
      parked == {j \in lost : TargetsWithout(Affected(e.id))[j] # None}
  IN
  /\ Take(e) /\ e.kind \in {"NODE_FAIL", "CAPACITY_REVOKE"}
  /\ available' = [available EXCEPT ![e.id] = FALSE]
  /\ schedulable' = [schedulable EXCEPT ![e.id] = FALSE]
  /\ DropReservations(Affected(e.id))
  /\ Release(lost)
  /\ acc' = [j \in Jobs |-> IF j \in lost THEN Accrued(j) ELSE acc[j]]
  /\ gen' = [j \in Jobs |-> IF j \in lost THEN gen[j] + 1 ELSE gen[j]]
  /\ status' = [j \in Jobs |-> IF j \in lost THEN "pending" ELSE status[j]]
  /\ lastStart' = [j \in Jobs |-> IF j \in lost THEN None ELSE lastStart[j]]
  /\ runningPriority' = [j \in Jobs |-> IF j \in lost THEN None ELSE runningPriority[j]]
  /\ interrupted' = interrupted \cup lost
  /\ pending' = pending \cup back \cup (lost \ parked)
  /\ suspended' = (suspended \ back) \cup parked
  /\ heap' = heap \cup Ticks(back)

-----------------------------------------------------------------------------
(* The scheduling pass, _schedule.                                         *)

\* A deliberate mistake: suspended victims are tried like queued jobs.
BeginPassWithSuspended ==
  /\ pc = "handle" /\ batch = {}
  /\ pc' = "dispatch"
  /\ todo' = pending \cup suspended
  /\ initial' = pending
  /\ UNCHANGED <<scenario, now, heap, batch, incoming, jobVars, queueVars, nodeVars>>

BeginPass ==
  /\ pc = "handle" /\ batch = {}
  /\ pc' = "dispatch"
  /\ todo' = pending
  /\ initial' = pending
  /\ UNCHANGED <<scenario, now, heap, batch, incoming, jobVars, queueVars, nodeVars>>

\* One attempt for job j with what the scheduler finds for it now.
StartIfPlaced(j, P) ==
  IF P # {} THEN StartJob(j, P) ELSE UNCHANGED <<heap, jobVars, queueVars, nodeVars>>

\* The next job of the queue starts, or preempts, or stays where it is.
Dispatch ==
  /\ pc = "dispatch"
  /\ \E j \in Foremost(todo) : \E P \in {PlaceNow(j)} : \E best \in {BestPlans(j)} :
       /\ status[j] = "pending"
       /\ todo' = todo \ {j}
       /\ \/ /\ P # {} \/ best = {}
             /\ StartIfPlaced(j, P)
             /\ UNCHANGED <<pc, incoming>>
          \/ /\ P = {}
             /\ \E plan \in best : PreemptFor(j, plan)
  /\ UNCHANGED <<scenario, now, batch, initial>>

\* All victims gave their GPUs back at once: place the incoming job again.
Retry ==
  /\ pc = "retry"
  /\ pc' = "dispatch" /\ incoming' = None
  /\ \E P \in {PlaceNow(incoming)} : StartIfPlaced(incoming, P)
  /\ UNCHANGED <<scenario, now, batch, todo, initial>>

BeginResume ==
  /\ pc = "dispatch" /\ todo = {}
  /\ pc' = "resume"
  /\ todo' = pending \ initial
  /\ UNCHANGED <<scenario, now, heap, batch, initial, incoming, jobVars, queueVars, nodeVars>>

\* Jobs that were queued during the pass get one attempt, without preemption.
Resume ==
  /\ pc = "resume"
  /\ \E j \in Foremost(todo) : \E P \in {PlaceNow(j)} :
       /\ status[j] = "pending"
       /\ todo' = todo \ {j}
       /\ StartIfPlaced(j, P)
  /\ UNCHANGED <<scenario, now, pc, batch, initial, incoming>>

EndPass ==
  /\ pc = "resume" /\ todo = {}
  /\ pc' = "pop" /\ initial' = {}
  /\ UNCHANGED <<scenario, now, heap, batch, todo, incoming, jobVars, queueVars, nodeVars>>

Handle(e) ==
  \/ Arrive(e) \/ Tick(e) \/ StaleTimer(e)
  \/ Complete(e) \/ CompleteCheckpoint(e) \/ CompleteRestart(e)
  \/ Restore(e) \/ Drain(e) \/ Fail(e)

Step ==
  \/ \E e \in heap : Discard(e) \/ Pop(e)
  \/ \E e \in batch : Handle(e)
  \/ BeginPass \/ Dispatch \/ Retry \/ BeginResume \/ Resume \/ EndPass
  \/ Finish

Terminated == pc = "done" /\ UNCHANGED vars

Next == Step \/ Terminated

\* The loop is single-threaded and never blocks: until the run is done it keeps
\* taking steps. This is WF_vars(Step), for Step is enabled exactly until then (the
\* deadlock check shows it), without the ENABLED of a costly placement.
Fairness == <>[](pc # "done") => []<><<Step>>_vars

Spec == Init /\ [][Next]_vars /\ Fairness

-----------------------------------------------------------------------------
(* Safety.                                                                 *)

Queued == heap \cup batch
LiveEvents(j) == {e \in Queued : IsTimer(e) /\ e.id = j /\ IsLive(e)}

\* Every variable has its type.
TypeOK ==
  /\ scenario \in Scenarios
  /\ now \in Nat
  /\ pc \in {"pop", "handle", "dispatch", "retry", "resume", "done"}
  /\ \A e \in Queued : e.time >= now /\ Order(e.kind) \in 0 .. 6
  /\ todo \subseteq Jobs /\ initial \subseteq Jobs /\ incoming \in Jobs \cup {None}
  /\ status \in [Jobs -> {"pending", "completed"} \cup Active]
  /\ alloc \in [Jobs -> SUBSET GPUs]
  /\ owner \in [GPUs -> Jobs \cup {None}]
  /\ gen \in [Jobs -> Nat]
  /\ acc \in [Jobs -> Nat]
  /\ lastStart \in [Jobs -> Nat \cup {None}]
  /\ runningPriority \in [Jobs -> 0 .. Critical \cup {None}]
  /\ interrupted \subseteq Jobs /\ pending \subseteq Jobs /\ suspended \subseteq Jobs
  /\ target \in [Jobs -> Jobs \cup {None}]
  /\ reserved \in [Jobs -> SUBSET GPUs]
  /\ available \in [Nodes -> BOOLEAN] /\ schedulable \in [Nodes -> BOOLEAN]

\* However often a job is preempted, restarted or interrupted, exactly one queued
\* event can end its present phase, at the moment the phase really is over; a job
\* without GPUs has none (generation fencing, engine.py).
OneLiveEvent ==
  \A j \in Jobs :
    /\ Cardinality(LiveEvents(j)) = IF status[j] \in Active THEN 1 ELSE 0
    /\ status[j] = "running" =>
         \A e \in LiveEvents(j) : e.time = lastStart[j] + scenario.duration[j] - acc[j]

\* Every job that left the queue in this pass, and every job the pass has still to
\* try, is where the pass expects it: the pass never tries a job that is not queued,
\* which would make pending.remove raise (engine.py:551).
PassTriesQueuedJobs == pc \in {"dispatch", "retry", "resume"} => todo \cup ({incoming} \ {None}) \subseteq pending

\* Victims are never evicted in vain: when all of them have released their GPUs at
\* once, the job they were evicted for does get a placement (engine.py:672-681).
EvictionPaysOff == pc = "retry" => PlaceNow(incoming) # {}

\* Between two instants a reservation always waits for a checkpoint of one of its own
\* victims, so no GPU stays idle behind a reservation that nothing will end.
ReservationAwaitsVictim ==
  pc = "pop" =>
    \A h \in Jobs : reserved[h] # {} =>
      \E v \in Jobs : target[v] = h /\ status[v] = "checkpointing"

\* When the event heap runs dry nothing is left half-way: no job holds or reserves a
\* GPU, no victim is suspended, and a job still queued would not fit even the empty
\* schedulable cluster. So the ticks dropped on an idle cluster could not have helped
\* (engine.py:374-385).
NothingLeftBehind ==
  pc = "done" =>
    /\ \A j \in Jobs : status[j] \in {"pending", "completed"} /\ reserved[j] = {}
    /\ suspended = {}
    /\ \A j \in pending : Place(j, {}, GPUs) = {}

-----------------------------------------------------------------------------
(* Action properties.                                                      *)

\* Productive runtime is conserved: it never shrinks, and a job completes only when it
\* has accumulated its whole duration, whatever preemptions and failures lie between.
ProgressConserved ==
  [][\A j \in Jobs :
       /\ acc'[j] >= acc[j]
       /\ status'[j] = "completed" /\ status[j] # "completed" =>
            acc'[j] = scenario.duration[j]]_vars

\* A job dispatched in a pass is not evicted again in that pass: the aged priority it
\* was dispatched with protects it (docs/design.md, section 4).
NoReverseEviction ==
  [][\A j \in initial :
       pc \in {"dispatch", "retry"} /\ status[j] = "running" => status'[j] = "running"]_vars

\* What the documentation says of a temporary reservation: from the preemption until
\* the incoming job starts, the whole projected placement stays reserved for it
\* (docs/design.md:37, docs/phase2.md:63).
ReservationKept ==
  [][\A h \in Jobs : reserved[h] # {} => reserved'[h] \in {reserved[h], {}}]_vars

\* What the comment on the resume pass says: a preemption leaves no capacity idle until
\* the next event (engine.py:444-445). A queued job without a reservation that could
\* start right now has been overlooked.
NoIdleCapacity ==
  pc = "pop" => \A j \in pending : reserved[j] = {} => PlaceNow(j) = {}

-----------------------------------------------------------------------------
(* Liveness.                                                               *)

\* The simulation ends: aging ticks, preemptions and restarts do not keep the event
\* loop alive for ever.
Terminates == <>(pc = "done")

-----------------------------------------------------------------------------
(* Refinement: the engine implements the untimed lifecycle specification.  *)

\* What the lifecycle specification sees: a job is not submitted before its arrival is
\* handled, and of a queued event it sees the kind, the job and the generation.
Submitted ==
  [j \in Jobs |-> IF \E e \in Queued : e.kind = "JOB_ARRIVAL" /\ e.id = j
                  THEN "unsubmitted" ELSE status[j]]

Generations(kind) == [j \in Jobs |-> {e.gen : e \in {f \in Queued : f.kind = kind /\ f.id = j}}]

Lifecycle == INSTANCE JobLifecycle WITH
  Replicas <- [j \in Jobs |-> {GpuCount[j]}],
  CheckpointJobs <- {j \in Jobs : CheckpointCost[j] > 0},
  RestartJobs <- {j \in Jobs : RestartCost[j] > 0},
  RunGenerations <- Nat,  \* the engine has no bound
  status <- Submitted,
  completeEvents <- Generations("JOB_COMPLETE"),
  checkpointEvents <- Generations("JOB_CHECKPOINT_COMPLETE"),
  restartEvents <- Generations("JOB_RESTART_COMPLETE")

\* Every step of the loop is a step the lifecycle specification allows, or changes
\* nothing it can see.
ImplementsLifecycle == Lifecycle!Spec
=============================================================================
