--------------------------- MODULE FairShareEngine ---------------------------
(***************************************************************************)
(* The simulation loop driving FairShareScheduler: admission, hierarchical *)
(* quotas, the guarantee pass and the borrowing pass, quota reclaim from   *)
(* elastic and rigid jobs with checkpoint reservations, and the growth of  *)
(* elastic jobs after the pass.                                            *)
(*                                                                         *)
(* The scheduler answers from usage it cached at its last prepare() or     *)
(* on_job_started(): direct and borrowed below, which may lag behind alloc.*)
(* A reclaim plan is made on a projected cluster (PlanOf), then committed  *)
(* one shrink at a time, then all evictions at once, then the retry.       *)
(***************************************************************************)
EXTENDS EngineLoop, FairShare

\* Every job names a queue of the hierarchy. The loader does not check it: a job of another
\* queue is rejected when it arrives (unknown_queue, admission/controller.py:43-44) and takes
\* no further part, so that it is left out.
ASSUME ScenarioAssumption ==
  \A s \in Scenarios : Accepted(s) /\ s.queue \in [Jobs -> Queues] /\ s.quotaAware \in BOOLEAN

VARIABLES
  direct,      \* FairShareScheduler._direct_usage
  service,     \* DecayedUsageHistory.service, zero unless the order depends on it
  borrowed,    \* Job.borrowed_gpu_units
  entitled,    \* _preemption_reclaim_entitlements, {} where absent
  plan,        \* the reclaim plan being committed
  lastResize,  \* _last_resize_time
  grown        \* original allocation of a job grown at this instant, {} if it did not

shareVars == <<direct, service, borrowed, entitled>>
stepVars == <<plan, lastResize, grown>>
vars == <<loopVars, shareVars, stepVars>>

QueueOf(j) == scenario.queue[j]
Borrowing == scenario.policy # "fairshare-no-borrow"
Historical == scenario.policy = "historical-drf"
Reclaiming == scenario.policy = "fairshare-reclaim" \/ Historical

-----------------------------------------------------------------------------
(* Usage, prepare and on_job_started.                                      *)

\* Usage of the jobs by what they hold in a.
DirectOf(a) ==
  [q \in Queues |->
     LET here == {j \in Jobs : QueueOf(j) = q}
     IN  [d \in Dims |-> SumFunctionOnSet([j \in Jobs |-> Allocation(j, a[j])[d]], here)]]

UsageOf(a) == Aggregate(DirectOf(a))
Usage == Aggregate(direct)
Capacity == CapacityOf(UsableGpus)

GuaranteedUnits(q) == Floor(q, "gpu_units")

\* refresh_usage: what a queue uses above its guarantee is borrowed by its jobs of
\* lowest priority.
BorrowedOf(a) ==
  [j \in Jobs |->
     LET q == QueueOf(j)
         Ahead(i) == Less(<<scenario.priority[i], i>>, <<scenario.priority[j], j>>)
         earlier == {i \in Jobs : QueueOf(i) = q /\ Ahead(i)}
         excess == Max({0, DirectOf(a)[q]["gpu_units"] - GuaranteedUnits(q)})
         left == Max({0, excess - SumFunctionOnSet([i \in Jobs |-> UnitsIn(a[i])], earlier)})
     IN  Min({UnitsIn(a[j]), left})]

Prepare(a) ==
  /\ direct' = DirectOf(a)
  /\ borrowed' = BorrowedOf(a)
  /\ UNCHANGED service

\* A deliberate mistake: what a job borrows is not cut off at zero.
ChargeUnclamped(j, P) ==
  LET q == QueueOf(j)
  IN  /\ UNCHANGED service
      /\ direct' = [direct EXCEPT ![q] = Plus(@, Allocation(j, P))]
      /\ borrowed' = [borrowed EXCEPT ![j] = UnitsIn(P) - (GuaranteedUnits(q) - Usage[q]["gpu_units"])]

\* A deliberate mistake: usage stays as it was prepared until the pass is over.
ChargeNothing(j, P) == UNCHANGED <<direct, service, borrowed>>

\* on_job_started.
Charge(j, P) ==
  LET q == QueueOf(j)
      left == Max({0, GuaranteedUnits(q) - Usage[q]["gpu_units"]})
  IN  /\ UNCHANGED service
      /\ direct' = [direct EXCEPT ![q] = Plus(@, Allocation(j, P))]
      /\ borrowed' = [borrowed EXCEPT ![j] = Max({0, UnitsIn(P) - left})]

-----------------------------------------------------------------------------
(* The order of jobs and their placement.                                  *)

JobKey(j) ==
  <<-(scenario.priority[j] + OffsetOf(QueueOf(j))), scenario.arrival[j], QueueOf(j), j>>

\* pending_key: the queues first, from the root down, then the job.
PendingLess(i, j, usage) ==
  LET p == PathKey(QueueOf(i), usage, Capacity, service)
      q == PathKey(QueueOf(j), usage, Capacity, service)
  IN  Less(p, q) \/ (p = q /\ Less(JobKey(i), JobKey(j)))

\* The first of S.
Foremost(S, usage) == {j \in S : \A i \in S \ {j} : PendingLess(j, i, usage)}

\* _place_with_borrowing, on a view and against a usage.
QuotaPlace(j, view, usage, borrowing) ==
  UNION {P \in {TopologyPlace(j, MinReplicas[j], view)} :
           CanAllocate(QueueOf(j), Allocation(j, P), usage, borrowing)}

\* can_reclaim_placement.
Covered(j, P, usage, queues) == FitsEntitlement(QueueOf(j), Allocation(j, P), usage, queues)

\* What _attempt_placement finds for job j: a target with a reclaim reservation must
\* still be covered by the guarantees it reclaimed for.
PlaceNow(j, borrowing) ==
  UNION {P \in {QuotaPlace(j, ViewFor(j), Usage, borrowing)} :
           reserved[j] # {} => Covered(j, P, Usage, entitled[j])}

Stuck == ~Reclaiming /\ UsableGpus \subseteq Occupied

-----------------------------------------------------------------------------
(* The plan of a reclaim, _plan_reclaim_for_vendor.                        *)

TimeScale == ProductSet(1 .. Max({PreferredReplicas[j] : j \in Jobs}))
RemainingTime(j) == (TotalWork(j) - Accrued(j)) * (TimeScale \div Rate(j))
Disruption(j) == CheckpointCost[j] + RestartCost[j]

\* target_placement in the view of vendor w, where the jobs hold a.
TargetPlacement(h, w, a, usage, queues) ==
  LET held == UNION {a[j] : j \in Jobs}
      views == {[gpus |-> OfVendor(UsableGpus, w),
                 occupied |-> OfVendor(held \cup ReservedElsewhere(h), w)]}
  IN  UNION {P \in {QuotaPlace(h, view, usage, Borrowing) : view \in views} :
               Covered(h, P, usage, queues)}

\* The projection: what each job would hold of vendor w, the usage that makes, the victims,
\* the queues whose guarantee the incoming job claims, the keys of the actions taken, and
\* the placement it would get, {} as long as no queue is claimed.
Projection(h, w, a, victims, queues, keys) ==
  LET usage == UsageOf(a)
  IN  [alloc |-> a, usage |-> usage, victims |-> victims, queues |-> queues, keys |-> keys,
       placement |-> TargetPlacement(h, w, a, usage, queues)]

\* The incoming branches whose guarantee a victim can be reclaimed for.
ClaimOf(j, h) == {b[2] : b \in Boundary(QueueOf(j), QueueOf(h))}

\* One GPU taken from an elastic job above its minimum.
ShrinkActions(h, p) ==
  {act \in ElasticJobs \X Compatible[h] :
     /\ status[act[1]] = "running" /\ act[2] \in p.alloc[act[1]]
     /\ Cardinality(p.alloc[act[1]]) > MinReplicas[act[1]]
     /\ CanShrink(QueueOf(act[1]), QueueOf(h), Allocation(act[1], {act[2]}), p.usage)}

ShrinkKeys(h, p) ==
  [act \in ShrinkActions(h, p) |->
     <<runningPriority[act[1]], -Units[act[2]], RemainingTime(act[1]), Disruption(act[1])>> \o act]

\* A whole job evicted; what it gives beyond the surplus is collateral.
EvictActions(h, p) ==
  {j \in Jobs \ p.victims :
     /\ status[j] = "running"
     /\ p.alloc[j] \cap Compatible[h] # {}
     /\ CanReclaim(QueueOf(j), QueueOf(h), p.usage)}

EvictKeys(h, p) ==
  [j \in EvictActions(h, p) |->
     <<runningPriority[j], -Cardinality(p.alloc[j] \cap Compatible[h]), Cardinality(p.alloc[j]),
       RemainingTime(j), Disruption(j), -borrowed[j], j>>]

\* Take the least shrink, if the incoming job has no placement yet.
Shrink(h, w, p) ==
  LET best == Least(DOMAIN ShrinkKeys(h, p), ShrinkKeys(h, p))
      After(j, g) ==
        Projection(h, w, [p.alloc EXCEPT ![j] = @ \ {g}], p.victims, p.queues \cup ClaimOf(j, h),
          Append(p.keys, <<j, <<runningPriority[j], 0, RemainingTime(j), Disruption(j), j, g>>>>))
  IN  IF p.placement # {} \/ best = {} THEN p ELSE CHOOSE q \in {After(a[1], a[2]) : a \in best} : TRUE

\* Take the least eviction. The keys of the shrinks of its job are dropped.
Evict(h, w, p) ==
  LET best == Least(DOMAIN EvictKeys(h, p), EvictKeys(h, p))
      After(j) ==
        Projection(h, w, [p.alloc EXCEPT ![j] = {}], p.victims \cup {j}, p.queues \cup ClaimOf(j, h),
          Append(SelectSeq(p.keys, LAMBDA k : k[1] # j),
                 <<j, <<runningPriority[j], 1, RemainingTime(j), Disruption(j), j>>>>))
  IN  IF p.placement # {} \/ best = {} THEN p ELSE CHOOSE q \in {After(j) : j \in best} : TRUE

\* Shrinks while there are any, then evictions, until the job fits. The usage counts what
\* the jobs hold of vendor w only.
PlanOf(h, w) ==
  LET Shrunk[k \in Nat] ==
        IF k = 0 THEN Projection(h, w, [j \in Jobs |-> OfVendor(alloc[j], w)], {}, {}, <<>>)
        ELSE Shrink(h, w, Shrunk[k - 1])
      Evicted[k \in Nat] ==
        IF k = 0 THEN Shrunk[Cardinality(GPUs)] ELSE Evict(h, w, Evicted[k - 1])
  IN  Evicted[Cardinality(Jobs)]

Plans(h) ==
  {p \in {PlanOf(h, w) : w \in Vendors(UsableGpus \cap Compatible[h])} : p.placement # {}}

\* Plans of different vendors share no job, so the first key decides between them.
Best(plans) == Least(plans, [p \in plans |-> p.keys[1][2]])

NoPlan ==
  [target |-> None, alloc |-> [j \in Jobs |-> {}], victims |-> {}, queues |-> {},
   placement |-> {}, shrink |-> {}]

\* The plan to commit: the jobs to shrink, which keep some GPUs of the plan's vendor but
\* not all, the victims, and what the reservation will remember.
Commitment(h, p) ==
  [target |-> h, alloc |-> p.alloc, victims |-> p.victims, queues |-> p.queues,
   placement |-> p.placement,
   shrink |-> {v \in Jobs \ p.victims : p.alloc[v] \notin {{}, alloc[v]}}]

-----------------------------------------------------------------------------
Init ==
  /\ LoopInit
  /\ direct = [q \in Queues |-> Zero]
  /\ service = [q \in Queues |-> 0]
  /\ borrowed = [j \in Jobs |-> 0]
  /\ entitled = [j \in Jobs |-> {}]
  /\ plan = NoPlan
  /\ lastResize = [j \in Jobs |-> None]
  /\ grown = [j \in Jobs |-> {}]

ActiveNodes == {n \in Nodes : Usable(n)}

Submit(e) ==
  LET snapshots == Snapshots(ActiveNodes, scenario.fleet, now)
  IN  /\ Arrive(e, Admits(e.id, QueueOf(e.id), MinReplicas[e.id], snapshots, scenario.quotaAware))
      /\ UNCHANGED <<shareVars, stepVars>>

\* The entitlements of a reservation go with it.
DropEntitlements == entitled' = [j \in Jobs |-> IF reserved'[j] = {} THEN {} ELSE entitled[j]]

\* Time passes with the usage cached at the end of the last instant.
LoopEvent ==
  /\ LoopStep
  /\ DropEntitlements
  /\ service' = [q \in Queues |->
                    service[q] + (IF Historical THEN Served(q, Usage, now, now') ELSE 0)]
  /\ UNCHANGED <<direct, borrowed, stepVars>>

-----------------------------------------------------------------------------
(* The scheduling pass, _schedule.                                         *)

\* What _attempt_placement does with placement P for job j.
Start(j, P) ==
  /\ StartJob(j, P)
  /\ Charge(j, P)
  /\ DropEntitlements

\* A reservation whose GPUs are all free but whose claim is no longer covered.
GivesUp(j) == reserved[j] # {} /\ \A g \in reserved[j] : owner[g] = None

GiveUp(j) ==
  LET back == ReturnedVictims({j}) IN
  /\ DropReservations({j})
  /\ pending' = pending \cup back
  /\ suspended' = suspended \ back
  /\ DropEntitlements
  /\ UNCHANGED <<heap, jobVars, nodeVars, direct, service, borrowed>>

NoChange == UNCHANGED <<heap, jobVars, queueVars, nodeVars, shareVars>>

StartOrWait(j, P) ==
  IF P # {} THEN Start(j, P) ELSE IF GivesUp(j) THEN GiveUp(j) ELSE NoChange

BeginPass ==
  /\ pc = "handle" /\ batch = {}
  /\ Prepare(alloc)
  /\ pc' = IF Stuck THEN "resize" ELSE "guarantee"
  /\ todo' = IF Stuck THEN <<>> ELSE SetToSeq(pending)
  /\ initial' = IF Stuck THEN {} ELSE pending
  /\ UNCHANGED <<scenario, now, heap, batch, jobVars, queueVars, nodeVars, entitled, stepVars>>

\* The next job: the order is evaluated anew for each, for usage has changed.
Next1(j) ==
  /\ todo # <<>> /\ ~Stuck
  /\ j \in Foremost(ToSet(todo), Usage)
  /\ status[j] = "pending"
  /\ todo' = SetToSeq(ToSet(todo) \ {j})

\* Only placements within every guarantee.
TryGuaranteed ==
  /\ pc = "guarantee"
  /\ \E j \in Jobs : Next1(j) /\ \E P \in {PlaceNow(j, FALSE)} : StartOrWait(j, P)
  /\ UNCHANGED <<scenario, now, pc, batch, initial, stepVars>>

BeginBorrowing ==
  /\ pc = "guarantee"
  /\ todo = <<>> \/ Stuck
  /\ Prepare(alloc)
  /\ pc' = "dispatch"
  /\ todo' = SetToSeq(pending)
  /\ UNCHANGED <<scenario, now, heap, batch, initial, jobVars, queueVars, nodeVars, entitled,
                 stepVars>>

\* A job may ask for reclaim if it has no placement, holds no reservation, and some
\* guarantee on its path could hold it alone.
MayReclaim(j) ==
  /\ Reclaiming /\ reserved[j] = {}
  /\ RequestFitsGuarantee(QueueOf(j), MinimumDemand(j, MinReplicas[j], UsableGpus))

TryBorrowing ==
  /\ pc = "dispatch"
  /\ \E j \in Jobs : Next1(j) /\ \E P \in {PlaceNow(j, Borrowing)} :
       \/ /\ P # {} \/ ~MayReclaim(j)
          /\ StartOrWait(j, P)
          /\ UNCHANGED <<pc, plan>>
       \/ /\ P = {} /\ MayReclaim(j)
          /\ Prepare(alloc)
          /\ \E plans \in {Plans(j)} :
               \/ plans = {} /\ UNCHANGED <<pc, plan>>
               \/ /\ \E p \in Best(plans) : plan' = Commitment(j, p)
                  /\ pc' = "commit"
          /\ UNCHANGED <<heap, jobVars, queueVars, nodeVars, entitled>>
  /\ UNCHANGED <<scenario, now, batch, initial, lastResize, grown>>

\* A deliberate mistake: a shrunk job keeps the progress it had when it last started.
ShrinkWithoutAccrual ==
  /\ pc = "commit" /\ plan.shrink # {}
  /\ \E j \in {Min(plan.shrink)} :
       /\ Resize(j, plan.alloc[j])
       /\ Reschedule(j, plan.alloc[j], work[j])
       /\ lastResize' = [lastResize EXCEPT ![j] = now]
       /\ plan' = [plan EXCEPT !.shrink = @ \ {j}]
  /\ UNCHANGED <<scenario, now, pc, batch, passVars, status, runningPriority, interrupted,
                 queueVars, nodeVars, shareVars, grown>>

\* Elastic jobs shrink first, one after the other.
CommitShrink ==
  /\ pc = "commit" /\ plan.shrink # {}
  /\ \E j \in {Min(plan.shrink)} :
       /\ Resize(j, plan.alloc[j])
       /\ Reschedule(j, plan.alloc[j], Accrued(j))
       /\ lastResize' = [lastResize EXCEPT ![j] = now]
       /\ plan' = [plan EXCEPT !.shrink = @ \ {j}]
  /\ UNCHANGED <<scenario, now, pc, batch, passVars, status, runningPriority, interrupted,
                 queueVars, nodeVars, shareVars, grown>>

\* Then the victims go. If one has to checkpoint, the placement is reserved, every victim
\* is tied to the target, and the usage the scheduler cached is not refreshed.
CommitEvict ==
  LET h == plan.target
      V == plan.victims
      deferred == \E v \in V : CheckpointCost[v] > 0
      freed == {v \in V : CheckpointCost[v] = 0}
      parked == IF deferred THEN freed ELSE {}
  IN
  /\ pc = "commit" /\ plan.shrink = {}
  /\ reserved' = IF deferred THEN [reserved EXCEPT ![h] = plan.placement] ELSE reserved
  /\ entitled' = IF deferred THEN [entitled EXCEPT ![h] = plan.queues] ELSE entitled
  /\ target' = [v \in Jobs |-> IF deferred /\ v \in V THEN h ELSE target[v]]
  /\ Release(freed)
  /\ work' = [v \in Jobs |-> IF v \in V THEN Accrued(v) ELSE work[v]]
  /\ status' = [v \in Jobs |-> IF v \in freed THEN "pending"
                               ELSE IF v \in V THEN "checkpointing" ELSE status[v]]
  /\ lastStart' = [v \in Jobs |-> IF v \in V THEN None ELSE lastStart[v]]
  /\ runningPriority' = [v \in Jobs |-> IF v \in V THEN None ELSE runningPriority[v]]
  /\ interrupted' = interrupted \cup V
  /\ suspended' = suspended \cup parked
  /\ pending' = pending \cup (freed \ parked)
  /\ heap' = heap \cup {Event(now + CheckpointCost[v], "JOB_CHECKPOINT_COMPLETE", v, gen[v]) :
                          v \in V \ freed}
  /\ IF deferred THEN UNCHANGED <<direct, service, borrowed>> ELSE Prepare(alloc')
  /\ pc' = IF deferred THEN "dispatch" ELSE "retry"
  /\ plan' = IF deferred THEN NoPlan ELSE plan
  /\ UNCHANGED <<scenario, now, batch, passVars, gen, nodeVars, lastResize, grown>>

\* Everything was released at once: the target must get its placement now, or the program
\* raises "committed reclaim plan did not preserve target placement".
Retry ==
  /\ pc = "retry"
  /\ \E P \in {QuotaPlace(plan.target, ViewFor(plan.target), Usage, Borrowing)} :
       LET fits == P # {} /\ Covered(plan.target, P, Usage, plan.queues)
       IN  /\ pc' = IF fits THEN "dispatch" ELSE "crashed"
           /\ IF fits THEN Start(plan.target, P) ELSE NoChange
  /\ plan' = NoPlan
  /\ UNCHANGED <<scenario, now, batch, passVars, lastResize, grown>>

\* Jobs that were queued during the pass get one attempt, in an order fixed now.
BeginResume ==
  /\ pc = "dispatch"
  /\ todo = <<>> \/ Stuck
  /\ pc' = "resume"
  /\ todo' \in {s \in SetToSeqs(pending \ initial) :
                  \A i, k \in DOMAIN s : PendingLess(s[i], s[k], Usage) => i < k}
  /\ UNCHANGED <<scenario, now, heap, batch, initial, jobVars, queueVars, nodeVars, shareVars,
                 stepVars>>

Resume ==
  /\ pc = "resume" /\ todo # <<>> /\ ~Stuck
  /\ \E j \in Jobs : j = Head(todo) /\ \E P \in {PlaceNow(j, Borrowing)} :
       /\ status[j] = "pending"
       /\ StartOrWait(j, P)
  /\ todo' = Tail(todo)
  /\ UNCHANGED <<scenario, now, pc, batch, initial, stepVars>>

\* A deliberate mistake: the pass starts over as long as a job is queued.
EndPassUntilEmpty ==
  /\ pc = "resume"
  /\ todo = <<>> \/ Stuck
  /\ pc' = IF pending = {} THEN "resize" ELSE "dispatch"
  /\ todo' = SetToSeq(pending) /\ initial' = pending
  /\ UNCHANGED <<scenario, now, heap, batch, jobVars, queueVars, nodeVars, shareVars, stepVars>>

EndPass ==
  /\ pc = "resume"
  /\ todo = <<>> \/ Stuck
  /\ pc' = "resize"
  /\ todo' = <<>> /\ initial' = {}
  /\ UNCHANGED <<scenario, now, heap, batch, jobVars, queueVars, nodeVars, shareVars, stepVars>>

-----------------------------------------------------------------------------
(* Growth, _resize_elastic_jobs. Usage is refreshed before every step.     *)

BelowPreferred(j) ==
  j \in ElasticJobs /\ status[j] = "running" /\ Cardinality(alloc[j]) < PreferredReplicas[j]

\* Queues with a queued job or a job that could grow, below them or in them.
Demanding ==
  UNION {Ancestors(QueueOf(j)) : j \in pending \cup {i \in Jobs : BelowPreferred(i)}}

\* _elastic_resize_target for one more replica: the lightest free GPU that keeps the
\* topology requirement; {} when there is none.
GrowthOf(j) ==
  LET free == {g \in Hosts(j, ViewFor(j)) :
                 VendorOf[g] \in Vendors(alloc[j]) /\ RequirementMet(j, alloc[j] \cup {g})}
  IN  Least(free, [g \in free |-> <<Units[g], NodeOf[g], g>>])

MayGrow(j) ==
  LET usage == UsageOf(alloc) IN
  /\ BelowPreferred(j) /\ lastResize[j] # now
  /\ IsNextBranch(QueueOf(j), usage, Capacity, service, Demanding)
  /\ GrowthOf(j) # {}
  /\ CanAllocate(QueueOf(j), Allocation(j, GrowthOf(j)), usage, Borrowing)

\* One replica more for the job that comes first; its progress is settled once.
Grow ==
  /\ pc = "resize"
  /\ \E growing \in {{j \in Jobs : MayGrow(j)}} : \E j \in Foremost(growing, UsageOf(alloc)) :
       /\ Resize(j, alloc[j] \cup GrowthOf(j))
       /\ work' = IF grown[j] = {} THEN [work EXCEPT ![j] = Accrued(j)] ELSE work
       /\ lastStart' = [lastStart EXCEPT ![j] = now]
       /\ grown' = IF grown[j] = {} THEN [grown EXCEPT ![j] = alloc[j]] ELSE grown
  /\ Prepare(alloc')
  /\ UNCHANGED <<scenario, now, pc, heap, batch, passVars, status, gen, runningPriority,
                 interrupted, queueVars, nodeVars, entitled, plan, lastResize>>

Grown == {j \in Jobs : grown[j] # {}}

\* When nothing grows any more, every grown job gets a new generation and completion.
Regenerate ==
  /\ pc = "resize" /\ Grown # {} /\ ~\E j \in Jobs : MayGrow(j)
  /\ \E j \in {Min(Grown)} :
       /\ Reschedule(j, alloc[j], work[j])
       /\ grown' = [grown EXCEPT ![j] = {}]
       /\ lastResize' = [lastResize EXCEPT ![j] = now]
  /\ UNCHANGED <<scenario, now, pc, batch, passVars, status, alloc, owner, runningPriority,
                 interrupted, queueVars, nodeVars, shareVars, plan>>

EndInstant ==
  /\ pc = "resize" /\ Grown = {} /\ ~\E j \in Jobs : MayGrow(j)
  /\ Prepare(alloc)
  /\ pc' = "pop"
  /\ UNCHANGED <<scenario, now, heap, batch, passVars, jobVars, queueVars, nodeVars, entitled,
                 stepVars>>

Step ==
  \/ LoopEvent
  \/ \E e \in batch : Submit(e)
  \/ BeginPass \/ TryGuaranteed \/ BeginBorrowing \/ TryBorrowing
  \/ CommitShrink \/ CommitEvict \/ Retry
  \/ BeginResume \/ Resume \/ EndPass
  \/ Grow \/ Regenerate \/ EndInstant

Stopped == pc \in {"done", "crashed"}
Terminated == Stopped /\ UNCHANGED vars

Next == Step \/ Terminated

\* The loop is single-threaded and never blocks: it keeps taking steps until it stops.
Fairness == <>[](~Stopped) => []<><<Step>>_vars

Spec == Init /\ [][Next]_vars /\ Fairness
-----------------------------------------------------------------------------
(* Safety.                                                                 *)

\* Every variable has its type.
TypeOK ==
  /\ LoopTypeOK
  /\ pc \in {"pop", "handle", "guarantee", "dispatch", "commit", "retry", "resume", "resize",
             "done", "crashed"}
  /\ direct \in [Queues -> Vectors]
  /\ service \in [Queues -> Nat]
  /\ borrowed \in [Jobs -> Nat]
  /\ entitled \in [Jobs -> SUBSET Queues]
  /\ plan # NoPlan => pc \in {"commit", "retry"} /\ plan.target \in pending
  /\ lastResize \in [Jobs -> Nat \cup {None}]
  /\ grown \in [Jobs -> SUBSET GPUs]

\* Completions are exact, and so is the service decayed since the last event: with a history
\* the run is given times that are multiples of its half life.
TimesExact == CompletionsExact /\ (Historical => now % HalfLife = 0)

\* No job is rejected that could ever have run: at every later moment, however the fleet
\* has changed since, a rejected job has no placement on the empty schedulable cluster,
\* or its placement is more than the limits allow (admission/controller.py:45-100, which
\* looks at the capacity snapshots of the fleet timeline, fleet/events.py:50-91).
AdmissionSound ==
  pc = "pop" =>
    \A j \in Jobs : status[j] = "rejected" =>
      QuotaPlace(j, EmptyView, [q \in Queues |-> Zero], TRUE) = {}

\* When the event heap runs dry nothing is left half-way: no job holds or reserves a GPU,
\* no victim of a reclaim is suspended, no growth or plan is unfinished, and a job still
\* queued could not be placed within its quotas on the empty schedulable cluster
\* (engine.py:207-247, 509-520).
NothingLeftBehind ==
  pc = "done" =>
    /\ \A j \in Jobs : status[j] \in {"pending", "completed", "rejected"} /\ reserved[j] = {}
    /\ suspended = {} /\ plan = NoPlan /\ Grown = {}
    /\ \A j \in pending : QuotaPlace(j, EmptyView, [q \in Queues |-> Zero], Borrowing) = {}

\* A committed reclaim plan gives the incoming job its placement, as the RuntimeError
\* "committed reclaim plan did not preserve target placement" asserts (engine.py:766-771).
ReclaimCommits == pc # "crashed"

-----------------------------------------------------------------------------
(* Action properties.                                                      *)

BranchOf(v, h) == {b[1] : b \in Boundary(QueueOf(v), QueueOf(h))}

\* Reclaim takes surplus only, measured on what the jobs really hold: after the shrinks
\* every branch an elastic job was shrunk in still has its guarantee, and the eviction of
\* whole jobs leaves a branch below its guarantee by no more than the one job whose
\* eviction began above it (engine.py:820-966, allocation/allocator.py:226-250, 355-388).
ReclaimOnlySurplus ==
  [][pc # "commit" /\ pc' = "commit" =>
       LET h == plan'.target
           cut == [j \in Jobs |-> IF j \in plan'.shrink THEN plan'.alloc[j] ELSE alloc[j]]
           left == [j \in Jobs |-> IF j \in plan'.victims THEN {} ELSE cut[j]]
       IN  /\ \A j \in plan'.shrink : \A b \in BranchOf(j, h) : \A d \in DOMAIN Guarantee[b] :
                UsageOf(cut)[b][d] >= Guarantee[b][d]
           /\ \A v \in plan'.victims :
                \E w \in plan'.victims :
                  /\ BranchOf(w, h) = BranchOf(v, h)
                  /\ CanReclaim(QueueOf(w), QueueOf(h), UsageOf([left EXCEPT ![w] = alloc[w]]))
    ]_vars

-----------------------------------------------------------------------------
(* Progress, liveness and refinement.                                      *)

\* No shrink, growth, eviction or lost node costs a job work it has done, and a job
\* completes only with all of it (engine.py:719-744, 990-998, 1236-1254, 1308-1336).
WorkConserved ==
  [][\A j \in Jobs :
       /\ Accrued(j)' >= Accrued(j)
       /\ status'[j] = "completed" => work'[j] = TotalWork(j)]_vars

\* The simulation ends: guarantees, borrowing, reclaim and growth do not take GPUs back
\* and forth for ever.
Terminates == <>(pc = "done")

Ledger == INSTANCE QuotaLedger WITH usage <- UsageOf(alloc)

\* Whatever the usage the scheduler has cached, every start and every growth is a grant
\* that can_allocate would accept on the GPUs really held.
ImplementsLedger == Ledger!Spec

\* A job is unsubmitted while its arrival is queued.
Submitted ==
  [j \in Jobs |-> IF \E e \in Queued : e.kind = "JOB_ARRIVAL" /\ e.id = j THEN "unsubmitted"
                 ELSE status[j]]

\* A job that grew keeps its old allocation in the lifecycle until its new generation.
Settled == [j \in Jobs |-> IF grown[j] # {} THEN grown[j] ELSE alloc[j]]
SettledOwner ==
  [g \in GPUs |-> IF owner[g] # None /\ grown[owner[g]] # {} /\ g \notin grown[owner[g]]
                 THEN None ELSE owner[g]]

Lifecycle == INSTANCE JobLifecycle WITH
  Replicas <- [j \in Jobs |-> MinReplicas[j] .. PreferredReplicas[j]],
  CheckpointJobs <- {j \in Jobs : CheckpointCost[j] > 0},
  RestartJobs <- {j \in Jobs : RestartCost[j] > 0},
  RunGenerations <- Nat,  \* the engine has no bound
  status <- Submitted,
  alloc <- Settled,
  owner <- SettledOwner,
  completeEvents <- Generations("JOB_COMPLETE"),
  checkpointEvents <- Generations("JOB_CHECKPOINT_COMPLETE"),
  restartEvents <- Generations("JOB_RESTART_COMPLETE")

\* Every step of the loop with reclaim and elastic jobs is a step the lifecycle
\* specification allows, or changes nothing it can see.
ImplementsLifecycle == Lifecycle!Spec
=============================================================================
