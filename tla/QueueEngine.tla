----------------------------- MODULE QueueEngine -----------------------------
(***************************************************************************)
(* The simulation loop driving the schedulers that neither preempt nor     *)
(* reclaim: FIFO, bin-packing, spread, topology-aware, vendor preference   *)
(* and reservation backfill (schedulers/backfill.py). There is no          *)
(* admission controller and no growth of elastic jobs with these.          *)
(*                                                                         *)
(* A pass sorts the queue once and tries each job once. Backfill keeps one *)
(* reservation: the time at which the first job of the queue is expected to*)
(* fit. It owns no GPU; other jobs start only if they end by that time.    *)
(***************************************************************************)
EXTENDS EngineLoop

CONSTANTS Ascend, Nvidia  \* the vendors a scheduler can prefer

\* The schedulers without preemption or reclaim.
Policies == {"fifo", "binpack", "spread", "topology", "prefer-nvidia", "prefer-ascend",
             "backfill"}

\* What the constructors of Job and the schedulers accept. These schedulers give an elastic
\* job its gpu_count, which nothing relates to preferred_replicas; below min_replicas the
\* first start raises (elastic/work.py:27), as it does above max_replicas, and the run is over.
ASSUME QueueEngineAssumption ==
  /\ {Ascend, Nvidia} \cap {UnknownVendor} = {}
  /\ \A j \in ElasticJobs : MinReplicas[j] <= GpuCount[j]
  /\ \A s \in Scenarios : Accepted(s) /\ s.policy \in Policies

VARIABLE reservation  \* {} or the one reservation, [job, start]

vars == <<loopVars, reservation>>

Backfilling == scenario.policy = "backfill"
PrefersVendor == scenario.policy \in {"prefer-nvidia", "prefer-ascend"}

View == [gpus |-> UsableGpus, occupied |-> Occupied]
Stuck == UsableGpus \subseteq Occupied

-----------------------------------------------------------------------------
(* Backfill. accumulated_runtime stays zero for an elastic job.            *)

Remaining(j) == IF j \in ElasticJobs THEN scenario.duration[j] ELSE scenario.duration[j] - work[j]

\* _expected_completion. A restart in progress is not counted.
Expected(j) ==
  LET ran == IF lastStart[j] = None THEN 0 ELSE now - lastStart[j]
  IN  now + Max({0, Remaining(j) - ran})

ActiveJobs == {j \in Jobs : status[j] \in Active}
QueueHead == Least(pending, [j \in pending |-> <<scenario.arrival[j], j>>])

\* The cluster once job i and all jobs expected to complete before it are gone.
ViewAfter(i) ==
  LET stays(k) == Less(<<Expected(i), i>>, <<Expected(k), k>>)
  IN  [gpus |-> UsableGpus, occupied |-> UNION {alloc[k] : k \in {k \in ActiveJobs : stays(k)}}]

\* _estimate_start, as the set of the completions at which head h fits.
Estimates(h) ==
  IF TopologyPlace(h, GpuCount[h], EmptyView) = {} THEN {}
  ELSE {Expected(i) : i \in {k \in ActiveJobs : TopologyPlace(h, GpuCount[h], ViewAfter(k)) # {}}}

\* prepare: a new head loses the old reservation. It is left alone if the head fits now,
\* dropped if it never will, and otherwise only ever moved to an earlier start.
Prepared ==
  UNION {
    LET kept == {r \in reservation : r.job = h}
        starts == Estimates(h) \cup {r.start : r \in kept}
    IN  IF TopologyPlace(h, GpuCount[h], View) # {} THEN kept
        ELSE IF Estimates(h) = {} THEN {}
        ELSE {[job |-> h, start |-> Min(starts)]} : h \in QueueHead}

\* A deliberate mistake: a job may start as long as the reserved time has not come.
PermittedUntilStart(j) == \A r \in reservation : r.job = j \/ now < r.start

\* The condition of place. It adds the restart cost of a job only if its preemption_count
\* is positive, which no scheduler of this module ever makes it.
Permitted(j) == \A r \in reservation : r.job = j \/ now + Remaining(j) <= r.start

-----------------------------------------------------------------------------
(* The scheduling pass.                                                    *)

PlaceOn(j, view) ==
  CASE scenario.policy = "fifo" -> FIFOPlace(j, GpuCount[j], view)
    [] scenario.policy = "binpack" -> BinPackPlace(j, GpuCount[j], view)
    [] scenario.policy = "spread" -> SpreadPlace(j, GpuCount[j], view)
    [] scenario.policy \in {"topology", "backfill"} -> TopologyPlace(j, GpuCount[j], view)
    [] scenario.policy = "prefer-nvidia" -> VendorPlace(Nvidia, j, GpuCount[j], view)
    [] scenario.policy = "prefer-ascend" -> VendorPlace(Ascend, j, GpuCount[j], view)

\* pending_key: backfill takes the head, then the jobs with the shortest remainder.
PendingKey(j) ==
  CASE Backfilling /\ j \in QueueHead -> <<0>>
    [] Backfilling /\ j \notin QueueHead -> <<1, Remaining(j), scenario.arrival[j], j>>
    [] OTHER -> <<scenario.arrival[j], j>>

Init ==
  /\ LoopInit
  /\ reservation = {}

Submit(e) == Arrive(e, TRUE) /\ UNCHANGED reservation

LoopEvent == LoopStep /\ UNCHANGED reservation

BeginPass ==
  /\ pc = "handle" /\ batch = {}
  /\ reservation' = IF Backfilling THEN Prepared ELSE {}
  /\ pc' = IF Stuck THEN "pop" ELSE "dispatch"
  /\ todo' = IF Stuck THEN <<>>
             ELSE InOrder(pending, [j \in pending |-> PendingKey(j)])
  /\ UNCHANGED <<scenario, now, heap, batch, initial, jobVars, queueVars, nodeVars>>

\* A deliberate mistake: the reservation of the head outlives its start.
KeptByOthers(j) == reservation

\* on_job_started: the reservation of the head ends with its start.
LeftBy(j) == {r \in reservation : r.job # j}

Try ==
  /\ pc = "dispatch" /\ todo # <<>> /\ ~Stuck
  /\ \E j \in {Head(todo)} : \E P \in {IF Permitted(j) THEN PlaceOn(j, View) ELSE {}} :
       IF P # {} THEN StartJob(j, P) /\ reservation' = LeftBy(j)
       ELSE UNCHANGED <<heap, jobVars, queueVars, nodeVars, reservation>>
  /\ todo' = Tail(todo)
  /\ UNCHANGED <<scenario, now, pc, batch, initial>>

EndPass ==
  /\ pc = "dispatch"
  /\ todo = <<>> \/ Stuck
  /\ pc' = "pop" /\ todo' = <<>>
  /\ UNCHANGED <<scenario, now, heap, batch, initial, jobVars, queueVars, nodeVars, reservation>>

Step ==
  \/ LoopEvent
  \/ \E e \in batch : Submit(e)
  \/ BeginPass \/ Try \/ EndPass

Terminated == pc = "done" /\ UNCHANGED vars

Next == Step \/ Terminated

Spec == Init /\ [][Next]_vars

-----------------------------------------------------------------------------
\* Every variable has its type, and a reservation is for a job in the queue: it goes when
\* its job starts and when another job becomes the head (backfill.py:54-75, 106-112).
TypeOK ==
  /\ LoopTypeOK
  /\ pc \in {"pop", "handle", "dispatch", "done"}
  /\ scenario.policy \in Policies
  /\ \A q, r \in reservation : q = r
  /\ \A r \in reservation : Backfilling /\ r.job \in pending /\ r.start \in Nat

\* Jobs the scheduler does not leave waiting when it could place them: backfill may hold
\* back all but the first.
Owed == IF Backfilling THEN QueueHead ELSE pending

\* The GPUs a scheduler may use: a vendor preference never uses an unknown vendor.
Offered ==
  [gpus |-> {g \in UsableGpus : PrefersVendor => VendorOf[g] # UnknownVendor},
   occupied |-> Occupied]

\* Placements are sound and none is overlooked: after every instant, whatever the policy
\* and the nodes lost, an active job holds GPUs of one vendor that meet its topology
\* requirement, as many as it asked for (an elastic one at least its minimum), and no set
\* of free GPUs is a placement of a job still owed one. The schedulers try a few candidates
\* or the first vendor with enough GPUs instead of all combinations, and the pass tries a
\* job once, in an order fixed before (schedulers/topology.py:22-109, models/cluster.py:
\* 187-211, engine.py:412-454; the counter of violations is engine.py:1137).
PlacementExact ==
  pc = "pop" =>
    /\ \A j \in ActiveJobs :
         /\ Cardinality(alloc[j]) \in MinReplicas[j] .. GpuCount[j]
         /\ Cardinality(Vendors(alloc[j])) = 1
         /\ RequirementMet(j, alloc[j])
    /\ \A j \in Owed : ~Feasible(j, GpuCount[j], Offered)

\* No elastic job asks for fewer GPUs than it prefers. One that does runs for longer than the
\* duration that backfill counts on.
FullGangs == \A j \in ElasticJobs : GpuCount[j] >= PreferredReplicas[j]

\* Backfill does not delay the head: without fleet events a job with a reservation starts
\* no later than its reserved time, however estimates moved and whatever was started
\* around it (README.md:233, backfill.py:43-104). So it is if FullGangs; the run
\* backfill_elastic shows that otherwise it need not be.
ReservationHonoured ==
  [][scenario.fleet = {} =>
       \A r \in reservation : r.job \notin pending' => now <= r.start]_vars

\* A job started while another one holds the reservation completes by the reserved time,
\* the restart it has to pay for included (docs/phase2.md:47, README.md:233).
BackfillEndsInTime ==
  [][\A r \in reservation : \A j \in Jobs \ {r.job} :
       j \in pending /\ status'[j] \in Active =>
         now + Remaining(j) + (IF status'[j] = "restarting" THEN RestartCost[j] ELSE 0)
           <= r.start]_vars
=============================================================================
