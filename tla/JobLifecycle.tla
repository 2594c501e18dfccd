---------------------------- MODULE JobLifecycle ----------------------------
(***************************************************************************)
(* What the simulation engine promises about jobs, GPUs, reservations and  *)
(* queued job events, whatever the plugged-in Scheduler decides and        *)
(* whatever the clock reads.                                               *)
(*                                                                         *)
(* One action per state-changing handler of Simulator (simulator/engine.py)*)
(* Time is abstracted: a queued event may be handled at any moment, and a  *)
(* scheduler may pick any placement and any victims its interface allows.  *)
(* The timed PreemptiveEngine implements this specification.               *)
(***************************************************************************)
EXTENDS Naturals, FiniteSets

CONSTANTS
  Jobs,            \* job ids
  GPUs,            \* GPU ids
  Nodes,           \* node ids
  NodeOf,          \* [GPUs -> Nodes], GPU.node_id
  VendorOf,        \* accelerator vendor of each GPU
  Compatible,      \* [Jobs -> SUBSET GPUs], GPU.is_compatible(job)
  Replicas,        \* [Jobs -> sizes a placement of the job may have]: {gpu_count},
                   \* or min_replicas..max_replicas for an elastic job
  CheckpointJobs,  \* jobs with checkpoint_cost > 0
  RestartJobs,     \* jobs with restart_cost > 0
  RunGenerations,  \* values run_generation may take: the only bound of the model
  None             \* no owner, no target

ASSUME ConstantsAssumption ==
  /\ NodeOf \in [GPUs -> Nodes]
  /\ Compatible \in [Jobs -> SUBSET GPUs]
  /\ Replicas \in [Jobs -> SUBSET (Nat \ {0})]
  /\ CheckpointJobs \subseteq Jobs
  /\ RestartJobs \subseteq Jobs
  /\ RunGenerations \subseteq Nat
  /\ None \notin Jobs

VARIABLES
  status,            \* Job.status; "unsubmitted" while JOB_ARRIVAL is still queued
  alloc,             \* Job.allocated_gpu_ids, as a set
  owner,             \* GPU.owner_job_id
  gen,               \* Job.run_generation
  pending,           \* Simulator.pending, as a set
  suspended,         \* keys of _suspended_victims
  target,            \* _preemption_target_by_victim, None where absent
  reserved,          \* _preemption_reserved_gpus, {} where absent
  completeEvents,    \* generations of the queued JOB_COMPLETE events of each job
  checkpointEvents,  \* ... of its JOB_CHECKPOINT_COMPLETE events
  restartEvents,     \* ... of its JOB_RESTART_COMPLETE events
  available,         \* Node.available
  schedulable        \* Node.schedulable

jobVars   == <<status, alloc, owner, gen>>
queueVars == <<pending, suspended, target, reserved>>
eventVars == <<completeEvents, checkpointEvents, restartEvents>>
nodeVars  == <<available, schedulable>>
vars == <<jobVars, queueVars, eventVars, nodeVars>>

Statuses ==
  {"unsubmitted", "rejected", "pending", "running", "checkpointing",
   "restarting", "completed"}

\* The statuses under which a job holds GPUs.
Active == {"running", "checkpointing", "restarting"}

\* A deliberate mistake: the scheduler looks at one of the two flags only.
UsableIfSchedulable(n) == schedulable[n]

Usable(n) == schedulable[n] /\ available[n]

OnNode(n) == {g \in GPUs : NodeOf[g] = n}

\* GPUs another target's reservation keeps away from job j.
ReservedElsewhere(j) == UNION {reserved[h] : h \in Jobs \ {j}}

\* The GPUs on which Scheduler.place may put job j when the jobs in V are
\* projected to have released theirs.
PlaceableAfter(j, V) ==
  {g \in Compatible[j] :
     /\ owner[g] \in V \cup {None}
     /\ Usable(NodeOf[g])
     /\ g \notin ReservedElsewhere(j)}

\* A deliberate mistake: the old generation stays valid.
SameGeneration(j) == gen[j]

\* run_generation += 1, which makes the queued events of job j stale.
NextGeneration(j) == gen[j] + 1

SingleVendor(P) == \A g, h \in P : VendorOf[g] = VendorOf[h]

\* A gang: all the GPUs of one request, from one vendor.
IsGang(j, P) == Cardinality(P) \in Replicas[j] /\ SingleVendor(P)

(***************************************************************************)
(* Reservations that are dropped, and the victims that were waiting for    *)
(* them: a suspended one goes back to the queue, a checkpointing one only  *)
(* forgets its target.                                                     *)
(***************************************************************************)
Holders(T) == {h \in T : reserved[h] # {}}
ReturnedVictims(T) == {v \in suspended : target[v] \in Holders(T)}

\* A deliberate mistake: the victims keep the target they were waiting for.
TargetsKept(T) == target

TargetsWithout(T) ==
  [v \in Jobs |-> IF target[v] \in Holders(T) THEN None ELSE target[v]]

\* A deliberate mistake: the entries are deleted, yet they are read afterwards.
DeleteReservations(T) ==
  /\ reserved' = [h \in Jobs \ T |-> reserved[h]]
  /\ target' = TargetsWithout(T)

DropReservations(T) ==
  /\ reserved' = [h \in Jobs |-> IF h \in T THEN {} ELSE reserved[h]]
  /\ target' = TargetsWithout(T)

-----------------------------------------------------------------------------
Init ==
  /\ status = [j \in Jobs |-> "unsubmitted"]
  /\ alloc = [j \in Jobs |-> {}]
  /\ owner = [g \in GPUs |-> None]
  /\ gen = [j \in Jobs |-> 0]
  /\ pending = {}
  /\ suspended = {}
  /\ target = [j \in Jobs |-> None]
  /\ reserved = [j \in Jobs |-> {}]
  /\ completeEvents = [j \in Jobs |-> {}]
  /\ checkpointEvents = [j \in Jobs |-> {}]
  /\ restartEvents = [j \in Jobs |-> {}]
  /\ available \in [Nodes -> BOOLEAN]
  /\ schedulable \in [Nodes -> BOOLEAN]

-----------------------------------------------------------------------------
(* Arrivals, completions and timers of one job.                            *)

Arrive(j) ==
  /\ status[j] = "unsubmitted"
  /\ \/ /\ status' = [status EXCEPT ![j] = "pending"]
        /\ pending' = pending \cup {j}
     \/ /\ status' = [status EXCEPT ![j] = "rejected"]
        /\ UNCHANGED pending
  /\ UNCHANGED <<alloc, owner, gen, suspended, target, reserved, eventVars, nodeVars>>

\* A scheduler found placement P for a pending job: Simulator._start. A job
\* that ran before pays its restart cost before it makes progress.
Start(j, P) ==
  /\ j \in pending
  /\ NextGeneration(j) \in RunGenerations
  /\ P \subseteq PlaceableAfter(j, {})
  /\ IsGang(j, P)
  /\ owner' = [g \in GPUs |-> IF g \in P THEN j ELSE owner[g]]
  /\ alloc' = [alloc EXCEPT ![j] = P]
  /\ gen' = [gen EXCEPT ![j] = NextGeneration(j)]
  /\ pending' = (pending \ {j}) \cup ReturnedVictims({j})
  /\ suspended' = suspended \ ReturnedVictims({j})
  /\ DropReservations({j})
  /\ \/ /\ gen[j] > 0 /\ j \in RestartJobs
        /\ status' = [status EXCEPT ![j] = "restarting"]
        /\ restartEvents' = [restartEvents EXCEPT ![j] = @ \cup {NextGeneration(j)}]
        /\ UNCHANGED completeEvents
     \/ /\ ~(gen[j] > 0 /\ j \in RestartJobs)
        /\ status' = [status EXCEPT ![j] = "running"]
        /\ completeEvents' = [completeEvents EXCEPT ![j] = @ \cup {NextGeneration(j)}]
        /\ UNCHANGED restartEvents
  /\ UNCHANGED <<checkpointEvents, nodeVars>>

\* A deliberate mistake: only the GPUs forget the job, Job.allocated_gpu_ids does not.
ReleaseOwnersOnly(R) ==
  /\ owner' = [g \in GPUs |-> IF owner[g] \in R THEN None ELSE owner[g]]
  /\ UNCHANGED alloc

\* Cluster.release of every job in R.
Release(R) ==
  /\ owner' = [g \in GPUs |-> IF owner[g] \in R THEN None ELSE owner[g]]
  /\ alloc' = [j \in Jobs |-> IF j \in R THEN {} ELSE alloc[j]]

\* A deliberate mistake: the job runs on without a completion event.
CompleteRestartOnly(j) ==
  /\ gen[j] \in restartEvents[j] /\ status[j] = "restarting"
  /\ restartEvents' = [restartEvents EXCEPT ![j] = @ \ {gen[j]}]
  /\ status' = [status EXCEPT ![j] = "running"]
  /\ UNCHANGED <<alloc, owner, gen, queueVars, completeEvents, checkpointEvents, nodeVars>>

CompleteRestart(j) ==
  /\ gen[j] \in restartEvents[j] /\ status[j] = "restarting"
  /\ restartEvents' = [restartEvents EXCEPT ![j] = @ \ {gen[j]}]
  /\ status' = [status EXCEPT ![j] = "running"]
  /\ completeEvents' = [completeEvents EXCEPT ![j] = @ \cup {gen[j]}]
  /\ UNCHANGED <<alloc, owner, gen, queueVars, checkpointEvents, nodeVars>>

Complete(j) ==
  /\ gen[j] \in completeEvents[j] /\ status[j] = "running"
  /\ completeEvents' = [completeEvents EXCEPT ![j] = @ \ {gen[j]}]
  /\ Release({j})
  /\ status' = [status EXCEPT ![j] = "completed"]
  /\ UNCHANGED <<gen, queueVars, checkpointEvents, restartEvents, nodeVars>>

\* A deliberate mistake: the victim of a reservation is queued at once as well.
CompleteCheckpointTwice(j) ==
  /\ gen[j] \in checkpointEvents[j] /\ status[j] = "checkpointing"
  /\ checkpointEvents' = [checkpointEvents EXCEPT ![j] = @ \ {gen[j]}]
  /\ Release({j})
  /\ status' = [status EXCEPT ![j] = "pending"]
  /\ pending' = pending \cup {j}
  /\ suspended' = IF target[j] = None THEN suspended ELSE suspended \cup {j}
  /\ UNCHANGED <<gen, target, reserved, completeEvents, restartEvents, nodeVars>>

CompleteCheckpoint(j) ==
  /\ gen[j] \in checkpointEvents[j] /\ status[j] = "checkpointing"
  /\ checkpointEvents' = [checkpointEvents EXCEPT ![j] = @ \ {gen[j]}]
  /\ Release({j})
  /\ status' = [status EXCEPT ![j] = "pending"]
  /\ pending' = IF target[j] = None THEN pending \cup {j} ELSE pending
  /\ suspended' = IF target[j] = None THEN suspended ELSE suspended \cup {j}
  /\ UNCHANGED <<gen, target, reserved, completeEvents, restartEvents, nodeVars>>

\* An event whose job has moved on is popped without effect.
DropStale(j) ==
  /\ \/ \E k \in completeEvents[j] :
          /\ ~(k = gen[j] /\ status[j] = "running")
          /\ completeEvents' = [completeEvents EXCEPT ![j] = @ \ {k}]
          /\ UNCHANGED <<checkpointEvents, restartEvents>>
     \/ \E k \in checkpointEvents[j] :
          /\ ~(k = gen[j] /\ status[j] = "checkpointing")
          /\ checkpointEvents' = [checkpointEvents EXCEPT ![j] = @ \ {k}]
          /\ UNCHANGED <<completeEvents, restartEvents>>
     \/ \E k \in restartEvents[j] :
          /\ ~(k = gen[j] /\ status[j] = "restarting")
          /\ restartEvents' = [restartEvents EXCEPT ![j] = @ \ {k}]
          /\ UNCHANGED <<completeEvents, checkpointEvents>>
  /\ UNCHANGED <<jobVars, queueVars, nodeVars>>

-----------------------------------------------------------------------------
(* Preemption and reservations.                                            *)

\* Job h takes the GPUs of the running victims V, for placement P. If a victim
\* has to checkpoint first, P is reserved for h and every victim is tied to h.
Preempt(h, V, P) ==
  LET deferred == V \cap CheckpointJobs # {}
      freed    == V \ CheckpointJobs
      aims     == [v \in Jobs |-> IF deferred /\ v \in V THEN h ELSE target[v]]
      parked   == {v \in freed : aims[v] # None}
  IN
  /\ h \in pending
  /\ V # {}
  /\ \A v \in V : status[v] = "running"
  /\ P \subseteq PlaceableAfter(h, V)
  /\ IsGang(h, P)
  /\ reserved' = IF deferred THEN [reserved EXCEPT ![h] = P] ELSE reserved
  /\ target' = aims
  /\ Release(freed)
  /\ status' = [j \in Jobs |-> IF j \in freed THEN "pending"
                               ELSE IF j \in V THEN "checkpointing"
                               ELSE status[j]]
  /\ suspended' = suspended \cup parked
  /\ pending' = pending \cup (freed \ parked)
  /\ checkpointEvents' = [j \in Jobs |-> IF j \in V \cap CheckpointJobs
                                         THEN checkpointEvents[j] \cup {gen[j]}
                                         ELSE checkpointEvents[j]]
  /\ UNCHANGED <<gen, completeEvents, restartEvents, nodeVars>>

\* A reclaim target whose reserved GPUs are all free, but whose claim is no
\* longer covered by its quota, gives the reservation up.
GiveUpReservation(h) ==
  /\ reserved[h] # {}
  /\ \A g \in reserved[h] : owner[g] = None
  /\ DropReservations({h})
  /\ pending' = pending \cup ReturnedVictims({h})
  /\ suspended' = suspended \ ReturnedVictims({h})
  /\ UNCHANGED <<jobVars, eventVars, nodeVars>>

\* An elastic job changes its replicas while it runs. Its completion is
\* scheduled anew under a new generation, which fences off the old event.
Resize(j, P) ==
  /\ status[j] = "running"
  /\ NextGeneration(j) \in RunGenerations
  /\ P # alloc[j]
  /\ P \subseteq alloc[j] \/ alloc[j] \subseteq P
  /\ P \ alloc[j] \subseteq PlaceableAfter(j, {})
  /\ IsGang(j, P)
  /\ owner' = [g \in GPUs |-> IF g \in P THEN j
                              ELSE IF g \in alloc[j] THEN None ELSE owner[g]]
  /\ alloc' = [alloc EXCEPT ![j] = P]
  /\ gen' = [gen EXCEPT ![j] = NextGeneration(j)]
  /\ completeEvents' = [completeEvents EXCEPT ![j] = @ \cup {NextGeneration(j)}]
  /\ UNCHANGED <<status, queueVars, checkpointEvents, restartEvents, nodeVars>>

-----------------------------------------------------------------------------
(* Fleet events.                                                           *)

\* NODE_JOIN, NODE_RECOVER and CAPACITY_RETURN.
Restore(n) ==
  /\ available' = [available EXCEPT ![n] = TRUE]
  /\ schedulable' = [schedulable EXCEPT ![n] = TRUE]
  /\ UNCHANGED <<jobVars, queueVars, eventVars>>

\* A deliberate mistake: a reservation survives if it has a GPU elsewhere.
AffectedEntirely(n) == {h \in Jobs : reserved[h] # {} /\ reserved[h] \subseteq OnNode(n)}

\* The targets whose reservation uses a GPU of node n.
Affected(n) == {h \in Jobs : reserved[h] \cap OnNode(n) # {}}

\* NODE_DRAIN: running work stays, reservations on the node do not.
Drain(n) ==
  /\ schedulable' = [schedulable EXCEPT ![n] = FALSE]
  /\ DropReservations(Affected(n))
  /\ pending' = pending \cup ReturnedVictims(Affected(n))
  /\ suspended' = suspended \ ReturnedVictims(Affected(n))
  /\ UNCHANGED <<jobVars, eventVars, available>>

\* NODE_FAIL and CAPACITY_REVOKE: every job on the node either shrinks to the
\* GPUs it has elsewhere (running, elastic, still enough of them) or loses its
\* whole allocation and waits again.
Fail(n) ==
  LET back     == ReturnedVictims(Affected(n))
      impacted == {j \in Jobs : \E g \in OnNode(n) : owner[g] = j}
      shrunk   == {j \in impacted :
                     /\ status[j] = "running"
                     /\ Cardinality(alloc[j] \ OnNode(n)) \in Replicas[j]}
      lost     == impacted \ shrunk
      parked   == {j \in lost : TargetsWithout(Affected(n))[j] # None}
  IN
  /\ \A j \in impacted : NextGeneration(j) \in RunGenerations
  /\ available' = [available EXCEPT ![n] = FALSE]
  /\ schedulable' = [schedulable EXCEPT ![n] = FALSE]
  /\ DropReservations(Affected(n))
  /\ owner' = [g \in GPUs |-> IF g \in OnNode(n) \/ owner[g] \in lost
                              THEN None ELSE owner[g]]
  /\ alloc' = [j \in Jobs |-> IF j \in lost THEN {}
                              ELSE IF j \in shrunk THEN alloc[j] \ OnNode(n)
                              ELSE alloc[j]]
  /\ gen' = [j \in Jobs |-> IF j \in impacted THEN NextGeneration(j) ELSE gen[j]]
  /\ status' = [j \in Jobs |-> IF j \in lost THEN "pending" ELSE status[j]]
  /\ pending' = pending \cup back \cup (lost \ parked)
  /\ suspended' = (suspended \ back) \cup parked
  /\ completeEvents' = [j \in Jobs |-> IF j \in shrunk
                                       THEN completeEvents[j] \cup {NextGeneration(j)}
                                       ELSE completeEvents[j]]
  /\ UNCHANGED <<checkpointEvents, restartEvents>>

-----------------------------------------------------------------------------
Next ==
  \/ \E j \in Jobs : Arrive(j)
  \/ \E j \in pending : \E P \in SUBSET PlaceableAfter(j, {}) : Start(j, P)
  \/ \E j \in Jobs : CompleteRestart(j)
  \/ \E j \in Jobs : Complete(j)
  \/ \E j \in Jobs : CompleteCheckpoint(j)
  \/ \E j \in Jobs : DropStale(j)
  \/ \E h \in pending : \E V \in SUBSET {v \in Jobs : status[v] = "running"} :
       \E P \in SUBSET PlaceableAfter(h, V) : Preempt(h, V, P)
  \/ \E h \in Jobs : GiveUpReservation(h)
  \/ \E j \in Jobs : \E P \in SUBSET Compatible[j] : Resize(j, P)
  \/ \E n \in Nodes : Restore(n)
  \/ \E n \in Nodes : Drain(n)
  \/ \E n \in Nodes : Fail(n)

Spec == Init /\ [][Next]_vars

-----------------------------------------------------------------------------
(* Safety.                                                                 *)

\* Every variable has its type.
TypeOK ==
  /\ status \in [Jobs -> Statuses]
  /\ alloc \in [Jobs -> SUBSET GPUs]
  /\ owner \in [GPUs -> Jobs \cup {None}]
  /\ gen \in [Jobs -> Nat]
  /\ pending \subseteq Jobs
  /\ suspended \subseteq Jobs
  /\ target \in [Jobs -> Jobs \cup {None}]
  /\ reserved \in [Jobs -> SUBSET GPUs]
  /\ completeEvents \in [Jobs -> SUBSET Nat]
  /\ checkpointEvents \in [Jobs -> SUBSET Nat]
  /\ restartEvents \in [Jobs -> SUBSET Nat]
  /\ available \in [Nodes -> BOOLEAN]
  /\ schedulable \in [Nodes -> BOOLEAN]

\* The two records of an allocation agree, so a GPU has one holder and
\* Cluster.release and Cluster.resize never raise "GPU ownership mismatch"
\* (models/cluster.py); a job holds GPUs exactly while it runs, checkpoints or
\* restarts.
OwnershipAgrees ==
  \A j \in Jobs :
    /\ \A g \in GPUs : owner[g] = j <=> g \in alloc[j]
    /\ alloc[j] # {} <=> status[j] \in Active

\* No job is lost or queued twice: an admitted job without GPUs is either in the
\* pending list or suspended, never both and never neither.
NoJobLost ==
  /\ pending \cap suspended = {}
  /\ \A j \in Jobs : status[j] = "pending" <=> j \in pending \cup suspended

\* A suspended victim can always come back: its target is still queued and still
\* holds the reservation whose end releases the victim. Only victims that are
\* checkpointing or suspended have a target.
VictimsReturn ==
  \A v \in Jobs :
    /\ v \in suspended => target[v] # None
    /\ target[v] # None =>
         /\ status[v] = "checkpointing" \/ v \in suspended
         /\ target[v] \in pending
         /\ reserved[target[v]] # {}

\* Reservations of different targets are disjoint, belong to queued jobs, use only
\* schedulable nodes, and cover no GPU on which a job makes progress.
ReservationsSound ==
  \A h \in Jobs :
    /\ reserved[h] # {} => h \in pending
    /\ \A g \in reserved[h] :
         /\ Usable(NodeOf[g])
         /\ owner[g] # None => status[owner[g]] = "checkpointing"
         /\ \A i \in Jobs \ {h} : g \notin reserved[i]

\* No job keeps a GPU of a failed or revoked node; a draining node may be used.
NoLostCapacityInUse ==
  \A g \in GPUs : owner[g] # None => available[NodeOf[g]]

\* An active job always has the event that ends its present phase queued under
\* its present generation, so it cannot hold its GPUs for ever.
ActiveJobHasEvent ==
  \A j \in Jobs :
    /\ status[j] = "running" => gen[j] \in completeEvents[j]
    /\ status[j] = "checkpointing" => gen[j] \in checkpointEvents[j]
    /\ status[j] = "restarting" => gen[j] \in restartEvents[j]

\* Queued events never run ahead of their job, and a phase a job has yet to enter
\* has no event of its present generation waiting: a later phase cannot be ended by
\* an event of an earlier one.
EventsFenced ==
  \A j \in Jobs :
    /\ \A k \in completeEvents[j] \cup checkpointEvents[j] \cup restartEvents[j] :
         k <= gen[j]
    /\ status[j] = "running" => gen[j] \notin checkpointEvents[j]
    /\ status[j] = "restarting" =>
         gen[j] \notin completeEvents[j] \cup checkpointEvents[j]
=============================================================================
