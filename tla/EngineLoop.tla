------------------------------ MODULE EngineLoop ------------------------------
(***************************************************************************)
(* Simulator.run (simulator/engine.py) for the schedulers that do not      *)
(* preempt by priority, so that there are no aging ticks: the event heap,  *)
(* the handlers of job and fleet events for rigid and elastic jobs, and the*)
(* changes of state a scheduling pass is made of.                          *)
(*                                                                         *)
(* QueueEngine and FairShareEngine add the pass of a scheduler to it. pc   *)
(* says where in the loop body control is; a scenario (arrivals, durations,*)
(* priorities, fleet events, queues, scheduler) is chosen in Init.         *)
(***************************************************************************)
EXTENDS Placement

CONSTANTS
  ElasticJobs,        \* jobs with an ElasticSpec
  GpuCount,           \* Job.gpu_count
  MinReplicas, PreferredReplicas,  \* of the ElasticSpec; gpu_count for a rigid job
  CheckpointCost, RestartCost,
  AgingInterval,      \* Scheduler.aging_interval
  Scenarios           \* the scenarios a run may be given

\* ElasticSpec. The work rate is linear; max_replicas is left out: growth ends at the
\* preferred size, and a job whose gpu_count is beyond it raises at its start.
SizesInOrder == \A j \in Jobs : MinReplicas[j] <= PreferredReplicas[j]

ASSUME LoopAssumption ==
  /\ ElasticJobs \subseteq Jobs
  /\ GpuCount \in [Jobs -> Nat \ {0}]
  /\ MinReplicas \in [Jobs -> Nat \ {0}] /\ PreferredReplicas \in [Jobs -> Nat \ {0}]
  /\ SizesInOrder
  /\ \A j \in Jobs \ ElasticJobs :
       MinReplicas[j] = GpuCount[j] /\ PreferredReplicas[j] = GpuCount[j]
  /\ CheckpointCost \in [Jobs -> Nat] /\ RestartCost \in [Jobs -> Nat]
  /\ AgingInterval \in Nat \ {0}

Critical == 3  \* the highest Priority

\* The fleet events of the timeline.
FleetKinds == {"NODE_JOIN", "NODE_RECOVER", "CAPACITY_RETURN", "NODE_DRAIN", "NODE_FAIL",
               "CAPACITY_REVOKE"}

\* What the constructors of Job and FleetEvent accept.
Accepted(s) ==
  /\ s.arrival \in [Jobs -> Nat] /\ s.duration \in [Jobs -> Nat \ {0}]
  /\ s.priority \in [Jobs -> 0 .. Critical]
  /\ \A e \in s.fleet : e.time \in Nat /\ e.kind \in FleetKinds /\ e.id \in Nodes

VARIABLES
  scenario,         \* what the run was given
  now,              \* logical time
  pc,               \* where in the loop body control is
  heap,             \* Simulator._events, as a set
  batch,            \* the popped events of this instant not handled yet
  todo,             \* jobs this pass has still to try, in order
  initial,          \* the queue when the pass began
  status,           \* Job.status
  alloc,            \* Job.allocated_gpu_ids, as a set
  owner,            \* GPU.owner_job_id
  gen,              \* Job.run_generation
  work,             \* accumulated_runtime, or productive_work_completed if elastic
  lastStart,        \* Job.last_start_time
  runningPriority,  \* Job.running_priority
  interrupted,      \* jobs with preemption_count + recovery_count > 0
  pending,          \* Simulator.pending, as a set: a pass sorts it first
  suspended,        \* keys of _suspended_victims
  target,           \* _preemption_target_by_victim
  reserved,         \* _preemption_reserved_gpus, {} where absent
  available,        \* Node.available
  schedulable       \* Node.schedulable

passVars  == <<todo, initial>>
jobVars   == <<status, alloc, owner, gen, work, lastStart, runningPriority, interrupted>>
queueVars == <<pending, suspended, target, reserved>>
nodeVars  == <<available, schedulable>>
loopVars  == <<scenario, now, pc, heap, batch, passVars, jobVars, queueVars, nodeVars>>

Active == {"running", "checkpointing", "restarting"}
Usable(n) == schedulable[n] /\ available[n]
UsableGpus == {g \in GPUs : Usable(NodeOf[g])}
Occupied == {g \in GPUs : owner[g] # None}

-----------------------------------------------------------------------------
(* Work and time.                                                          *)

\* A deliberate mistake: an elastic job's work is counted for the replicas it has now.
WorkForReplicas(j) ==
  scenario.duration[j] * (IF j \in ElasticJobs THEN Max({1, Cardinality(alloc[j])}) ELSE 1)

\* Work is counted in replica-time for an elastic job and in time for a rigid one.
TotalWork(j) == scenario.duration[j] * (IF j \in ElasticJobs THEN PreferredReplicas[j] ELSE 1)
RateOf(j, replicas) == IF j \in ElasticJobs THEN replicas ELSE 1
Rate(j) == RateOf(j, Cardinality(alloc[j]))

\* Job progress up to now, _accrue_productive_work.
Accrued(j) ==
  IF lastStart[j] = None THEN work[j]
  ELSE Min({TotalWork(j), work[j] + (now - lastStart[j]) * Rate(j)})

\* Job.effective_priority. The waiting time of a rigid job excludes its runtime.
EffectivePriority(j) ==
  LET ran == IF j \in ElasticJobs THEN 0 ELSE work[j]
      waited == Max({0, now - scenario.arrival[j] - ran})
  IN  IF status[j] = "running" THEN runningPriority[j]
      ELSE Min({Critical, scenario.priority[j] + (waited \div AgingInterval)})

-----------------------------------------------------------------------------
(* Events.                                                                 *)

Order(kind) ==
  CASE kind = "JOB_COMPLETE" -> 0
    [] kind = "JOB_CHECKPOINT_COMPLETE" -> 1
    [] kind = "JOB_RESTART_COMPLETE" -> 2
    [] kind \in {"NODE_JOIN", "NODE_RECOVER", "CAPACITY_RETURN"} -> 3
    [] kind \in {"NODE_DRAIN", "NODE_FAIL", "CAPACITY_REVOKE"} -> 4
    [] kind = "JOB_ARRIVAL" -> 5

Event(t, kind, id, g) == [time |-> t, kind |-> kind, id |-> id, gen |-> g]
Queued == heap \cup batch

\* The status in which each timer finds its job if it is not stale.
Awaited(kind) ==
  CASE kind = "JOB_COMPLETE" -> "running"
    [] kind = "JOB_CHECKPOINT_COMPLETE" -> "checkpointing"
    [] kind = "JOB_RESTART_COMPLETE" -> "restarting"
    [] OTHER -> "none"

IsTimer(e) == Awaited(e.kind) # "none"
IsLive(e) == status[e.id] = Awaited(e.kind) /\ e.gen = gen[e.id]

\* _schedule_completion of job j with progress w on a number of replicas.
Completion(j, w, replicas, g) ==
  Event(now + Max({0, TotalWork(j) - w}) \div RateOf(j, replicas), "JOB_COMPLETE", j, g)

-----------------------------------------------------------------------------
(* Changes of state the handlers and the passes share.                     *)

ReservedElsewhere(j) == UNION {reserved[h] : h \in Jobs \ {j}}

\* _placement_cluster: GPUs reserved for another job look occupied.
ViewFor(j) == [gpus |-> UsableGpus, occupied |-> Occupied \cup ReservedElsewhere(j)]

\* The fleet as it is now, with nothing on it.
EmptyView == [gpus |-> UsableGpus, occupied |-> {}]

\* Cluster.allocate, resize and release.
Resize(j, P) ==
  /\ owner' = [g \in GPUs |-> IF g \in P THEN j ELSE IF owner[g] = j THEN None ELSE owner[g]]
  /\ alloc' = [alloc EXCEPT ![j] = P]

Allocate(j, P) == alloc[j] = {} /\ Resize(j, P)

Release(R) ==
  /\ owner' = [g \in GPUs |-> IF owner[g] \in R THEN None ELSE owner[g]]
  /\ alloc' = [j \in Jobs |-> IF j \in R THEN {} ELSE alloc[j]]

\* _release_preemption_reservation for the targets T that hold a reservation: their
\* victims forget them, and the suspended ones are queued again.
Holders(T) == {h \in T : reserved[h] # {}}
\* A deliberate mistake: the victims are looked up after the reservation was forgotten.
VictimsOfForgotten(T) == {v \in suspended : target[v] \in T \ Holders(T)}

ReturnedVictims(T) == {v \in suspended : target[v] \in Holders(T)}
TargetsWithout(T) == [v \in Jobs |-> IF target[v] \in Holders(T) THEN None ELSE target[v]]

DropReservations(T) ==
  /\ reserved' = [h \in Jobs |-> IF h \in T THEN {} ELSE reserved[h]]
  /\ target' = TargetsWithout(T)

WasPreempted(j) == j \in interrupted \/ work[j] > 0

\* _start: commit placement P. A job that ran before first pays its restart cost.
StartJob(j, P) ==
  LET back == ReturnedVictims({j})
      restarts == WasPreempted(j) /\ RestartCost[j] > 0
      timer == IF restarts
               THEN Event(now + RestartCost[j], "JOB_RESTART_COMPLETE", j, gen[j] + 1)
               ELSE Completion(j, work[j], Cardinality(P), gen[j] + 1)
  IN
  /\ Allocate(j, P)
  /\ gen' = [gen EXCEPT ![j] = @ + 1]
  /\ runningPriority' = [runningPriority EXCEPT ![j] = EffectivePriority(j)]
  /\ status' = [status EXCEPT ![j] = IF restarts THEN "restarting" ELSE "running"]
  /\ lastStart' = [lastStart EXCEPT ![j] = IF restarts THEN None ELSE now]
  /\ pending' = (pending \ {j}) \cup back
  /\ suspended' = suspended \ back
  /\ DropReservations({j})
  /\ heap' = heap \cup {timer}
  /\ UNCHANGED <<work, interrupted, nodeVars>>

\* A deliberate mistake: a resize keeps the generation.
RescheduleSameGeneration(j, P, w) ==
  /\ work' = [work EXCEPT ![j] = w]
  /\ lastStart' = [lastStart EXCEPT ![j] = now]
  /\ heap' = heap \cup {Completion(j, w, Cardinality(P), gen[j])}
  /\ UNCHANGED gen

\* Resize the running job j to the GPUs P under a new generation, with progress w.
Reschedule(j, P, w) ==
  /\ work' = [work EXCEPT ![j] = w]
  /\ lastStart' = [lastStart EXCEPT ![j] = now]
  /\ gen' = [gen EXCEPT ![j] = @ + 1]
  /\ heap' = heap \cup {Completion(j, w, Cardinality(P), gen[j] + 1)}

-----------------------------------------------------------------------------
LoopInit ==
  /\ scenario \in Scenarios
  /\ now = 0 /\ pc = "pop"
  /\ heap = {Event(scenario.arrival[j], "JOB_ARRIVAL", j, 0) : j \in Jobs} \cup scenario.fleet
  /\ batch = {} /\ todo = <<>> /\ initial = {}
  /\ status = [j \in Jobs |-> "pending"]
  /\ alloc = [j \in Jobs |-> {}]
  /\ owner = [g \in GPUs |-> None]
  /\ gen = [j \in Jobs |-> 0]
  /\ work = [j \in Jobs |-> 0]
  /\ lastStart = [j \in Jobs |-> None]
  /\ runningPriority = [j \in Jobs |-> None]
  /\ interrupted = {}
  /\ pending = {} /\ suspended = {}
  /\ target = [j \in Jobs |-> None]
  /\ reserved = [j \in Jobs |-> {}]
  /\ available = [n \in Nodes |-> n \notin scenario.down]
  /\ schedulable = [n \in Nodes |-> TRUE]

-----------------------------------------------------------------------------
(* The head of the loop. Events that tie on time and kind come in any order, *)
(* which covers the order in which the program pushed them.                  *)

Before(e, f) == Less(<<e.time, Order(e.kind)>>, <<f.time, Order(f.kind)>>)
IsHead(e) == \A f \in heap : ~Before(f, e)

\* A timer of a phase that is over is popped without moving the clock.
Discard(e) ==
  /\ pc = "pop" /\ IsHead(e)
  /\ IsTimer(e) /\ ~IsLive(e)
  /\ heap' = heap \ {e}
  /\ UNCHANGED <<scenario, now, pc, batch, passVars, jobVars, queueVars, nodeVars>>

Pop(e) ==
  /\ pc = "pop" /\ IsHead(e)
  /\ IsTimer(e) => IsLive(e)
  /\ now' = e.time
  /\ batch' = {f \in heap : f.time = e.time}
  /\ heap' = heap \ batch'
  /\ pc' = "handle"
  /\ UNCHANGED <<scenario, passVars, jobVars, queueVars, nodeVars>>

Finish ==
  /\ pc = "pop" /\ heap = {}
  /\ pc' = "done"
  /\ UNCHANGED <<scenario, now, heap, batch, passVars, jobVars, queueVars, nodeVars>>

-----------------------------------------------------------------------------
(* The handlers.                                                           *)

Take(e) ==
  /\ pc = "handle" /\ e \in batch
  /\ \A f \in batch : ~Before(f, e)
  /\ batch' = batch \ {e}
  /\ UNCHANGED <<scenario, now, pc, passVars>>

\* _arrive, with the decision of the admission controller. Without aging there is no
\* tick to schedule.
Arrive(e, admitted) ==
  /\ Take(e) /\ e.kind = "JOB_ARRIVAL"
  /\ pending' = IF admitted THEN pending \cup {e.id} ELSE pending
  /\ status' = IF admitted THEN status ELSE [status EXCEPT ![e.id] = "rejected"]
  /\ UNCHANGED <<heap, alloc, owner, gen, work, lastStart, runningPriority, interrupted,
                 suspended, target, reserved, nodeVars>>

\* A stale timer that was popped because it is due with a live event.
StaleTimer(e) ==
  /\ Take(e) /\ IsTimer(e) /\ ~IsLive(e)
  /\ UNCHANGED <<heap, jobVars, queueVars, nodeVars>>

Complete(e) ==
  LET j == e.id IN
  /\ Take(e) /\ e.kind = "JOB_COMPLETE" /\ IsLive(e)
  /\ work' = [work EXCEPT ![j] = Accrued(j)]
  /\ Release({j})
  /\ status' = [status EXCEPT ![j] = "completed"]
  /\ lastStart' = [lastStart EXCEPT ![j] = None]
  /\ runningPriority' = [runningPriority EXCEPT ![j] = None]
  /\ UNCHANGED <<heap, gen, interrupted, queueVars, nodeVars>>

CompleteCheckpoint(e) ==
  LET j == e.id
      parks == target[j] # None
  IN
  /\ Take(e) /\ e.kind = "JOB_CHECKPOINT_COMPLETE" /\ IsLive(e)
  /\ Release({j})
  /\ status' = [status EXCEPT ![j] = "pending"]
  /\ suspended' = IF parks THEN suspended \cup {j} ELSE suspended
  /\ pending' = IF parks THEN pending ELSE pending \cup {j}
  /\ UNCHANGED <<heap, gen, work, lastStart, runningPriority, interrupted, target, reserved,
                 nodeVars>>

CompleteRestart(e) ==
  LET j == e.id IN
  /\ Take(e) /\ e.kind = "JOB_RESTART_COMPLETE" /\ IsLive(e)
  /\ status' = [status EXCEPT ![j] = "running"]
  /\ lastStart' = [lastStart EXCEPT ![j] = now]
  /\ heap' = heap \cup {Completion(j, work[j], Cardinality(alloc[j]), gen[j])}
  /\ UNCHANGED <<alloc, owner, gen, work, runningPriority, interrupted, queueVars, nodeVars>>

Restore(e) ==
  /\ Take(e) /\ e.kind \in {"NODE_JOIN", "NODE_RECOVER", "CAPACITY_RETURN"}
  /\ available' = [available EXCEPT ![e.id] = TRUE]
  /\ schedulable' = [schedulable EXCEPT ![e.id] = TRUE]
  /\ UNCHANGED <<heap, jobVars, queueVars>>

\* Targets whose reservation uses a GPU of the node.
Affected(n) == {h \in Jobs : reserved[h] \cap OnNode(n) # {}}

Drain(e) ==
  LET back == ReturnedVictims(Affected(e.id)) IN
  /\ Take(e) /\ e.kind = "NODE_DRAIN"
  /\ schedulable' = [schedulable EXCEPT ![e.id] = FALSE]
  /\ DropReservations(Affected(e.id))
  /\ pending' = pending \cup back
  /\ suspended' = suspended \ back
  /\ UNCHANGED <<heap, jobVars, available>>

\* A running elastic job that keeps its minimum elsewhere shrinks to those GPUs; every
\* other job on the node is interrupted, whatever phase it is in.
Fail(e) ==
  LET back == ReturnedVictims(Affected(e.id))
      lostGpus == OnNode(e.id)
      impacted == {j \in Jobs : alloc[j] \cap lostGpus # {}}
      shrunk == {j \in impacted \cap ElasticJobs :
                   status[j] = "running" /\ Cardinality(alloc[j] \ lostGpus) >= MinReplicas[j]}
      lost == impacted \ shrunk
      parked == {j \in lost : TargetsWithout(Affected(e.id))[j] # None}
  IN
  /\ Take(e) /\ e.kind \in {"NODE_FAIL", "CAPACITY_REVOKE"}
  /\ available' = [available EXCEPT ![e.id] = FALSE]
  /\ schedulable' = [schedulable EXCEPT ![e.id] = FALSE]
  /\ DropReservations(Affected(e.id))
  /\ owner' = [g \in GPUs |-> IF g \in lostGpus \/ owner[g] \in lost THEN None ELSE owner[g]]
  /\ alloc' = [j \in Jobs |-> IF j \in lost THEN {} ELSE alloc[j] \ lostGpus]
  /\ work' = [j \in Jobs |-> IF j \in impacted THEN Accrued(j) ELSE work[j]]
  /\ gen' = [j \in Jobs |-> IF j \in impacted THEN gen[j] + 1 ELSE gen[j]]
  /\ status' = [j \in Jobs |-> IF j \in lost THEN "pending" ELSE status[j]]
  /\ lastStart' = [j \in Jobs |-> IF j \in lost THEN None
                                  ELSE IF j \in shrunk THEN now ELSE lastStart[j]]
  /\ runningPriority' = [j \in Jobs |-> IF j \in lost THEN None ELSE runningPriority[j]]
  /\ interrupted' = interrupted \cup lost
  /\ pending' = pending \cup back \cup (lost \ parked)
  /\ suspended' = (suspended \ back) \cup parked
  /\ heap' = heap \cup {Completion(j, Accrued(j), Cardinality(alloc[j] \ lostGpus), gen[j] + 1) :
                          j \in shrunk}

Handle(e) ==
  \/ StaleTimer(e)
  \/ Complete(e) \/ CompleteCheckpoint(e) \/ CompleteRestart(e)
  \/ Restore(e) \/ Drain(e) \/ Fail(e)

LoopStep ==
  \/ \E e \in heap : Discard(e) \/ Pop(e)
  \/ \E e \in batch : Handle(e)
  \/ Finish

-----------------------------------------------------------------------------
(* Invariants of the loop.                                                 *)

\* Every variable has its type, and no event is due in the past.
LoopTypeOK ==
  /\ scenario \in Scenarios
  /\ now \in Nat
  /\ \A e \in Queued : e.time >= now /\ Order(e.kind) \in 0 .. 5
  /\ todo \in Seq(Jobs) /\ initial \subseteq Jobs
  /\ status \in [Jobs -> {"pending", "completed", "rejected"} \cup Active]
  /\ alloc \in [Jobs -> SUBSET GPUs]
  /\ owner \in [GPUs -> Jobs \cup {None}]
  /\ gen \in [Jobs -> Nat]
  /\ work \in [Jobs -> Nat]
  /\ lastStart \in [Jobs -> Nat \cup {None}]
  /\ runningPriority \in [Jobs -> 0 .. Critical \cup {None}]
  /\ interrupted \subseteq Jobs /\ pending \subseteq Jobs /\ suspended \subseteq Jobs
  /\ target \in [Jobs -> Jobs \cup {None}]
  /\ reserved \in [Jobs -> SUBSET GPUs]
  /\ available \in [Nodes -> BOOLEAN] /\ schedulable \in [Nodes -> BOOLEAN]

LiveEvents(j) == {e \in Queued : IsTimer(e) /\ e.id = j /\ IsLive(e)}

\* Between two instants exactly one queued event can end the present phase of an active
\* job, and for a running job it comes when its work is done at the rate of the replicas
\* it has now, so the integer division in Completion loses nothing: a resize that forgot
\* to settle progress or to reschedule would leave a completion that is too early or too
\* late (engine.py:719-744, 1236-1241, 1308-1336).
CompletionsExact ==
  pc = "pop" =>
    \A j \in Jobs :
      /\ Cardinality(LiveEvents(j)) = IF status[j] \in Active THEN 1 ELSE 0
      /\ status[j] = "running" =>
           \A e \in LiveEvents(j) :
             work[j] + (e.time - lastStart[j]) * Rate(j) = TotalWork(j)

-----------------------------------------------------------------------------
(* The lifecycle the loop implements.                                      *)

Generations(kind) == [j \in Jobs |-> {e.gen : e \in {f \in Queued : f.kind = kind /\ f.id = j}}]
=============================================================================
