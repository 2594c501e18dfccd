# GPU Scheduler Lab in TLA+

A verification development for GPU Scheduler Lab, a discrete-event simulator of GPU
cluster scheduling (`gpu_scheduler_lab/`). The modules here model the simulator's own
logic, TLC checks them on small clusters, and TLAPS proves, for every cluster and workload:
the safety invariants of the job lifecycle, those of the quotas and that the timed
fair-share scheduler implements them, and what a resume of the study runner may trust. Line numbers refer to the sources at
the modelled commit; `PROJECT.json` maps every definition to its lines.

Contents: 1. [inventory](#1-the-system), 2. [plan](#2-plan), 3. [the models](#3-the-models),
4. [the runs](#4-the-runs), 5. [the proofs](#5-the-proofs), 6. [findings](#6-findings),
7. [what is left out](#7-what-is-left-out).

## 1. The system

A run is one call of `Simulator.run`. It is single-threaded: a heap of timed events is
popped one instant at a time, the handlers of that instant change the state, and then one
scheduling pass tries the queue. Nothing in a simulation happens concurrently; what makes
it hard is that one logical operation (a preemption with a checkpoint, a reclaim, a
recovery from a node failure) is spread over many events, which interleave with those of
the other jobs in any order that the times allow.

| Component | State | Operations | Correct when |
|---|---|---|---|
| Engine, `simulator/engine.py` | event heap, `pending`, `running`, `checkpointing`, `restarting`, `_suspended_victims`, `_preemption_target_by_victim`, `_preemption_reserved_gpus` | arrival, tick, completion, checkpoint and restart completion, fleet events, the scheduling pass (dispatch, preempt, reclaim, resume, grow) | jobs are neither lost nor duplicated, reservations do not leak, stale timers do nothing, the loop ends |
| Job, `models/job.py` | status, allocation, `run_generation`, runtime, aged priority | changed by the engine only | progress is conserved, holds GPUs exactly while active |
| Cluster, `models/cluster.py` | GPU owner and memory, node `available` / `schedulable` | `allocate`, `release`, `resize`, `eligible_gpus`, `clone` | the owner of a GPU and the allocation of a job agree |
| Events, `models/events.py` | none | order inside an instant: completions, checkpoints, restarts, gains, losses, arrivals, ticks | deterministic total order |
| Placement, `schedulers/{fifo,binpack,spread,topology,vendor}.py` | none | `place(cluster, job)` | a placement is a complete compatible gang on one vendor inside its topology domain, or none exists |
| Preemptive scheduler, `schedulers/preemptive.py` | none | `pending_key`; victim selection is in the engine | evicts lower priorities only, and never in vain |
| Backfill scheduler, `schedulers/backfill.py` | `reservation`, `_allowed_backfills`, counters | `prepare`, `place`, `on_job_started` | a backfilled job never delays the head of the queue |
| Queue hierarchy, `queues/` | quota tree | `can_allocate`, `aggregate_usage`, validation | limits hold at every ancestor, guarantees are reachable |
| Fair share, `allocation/`, `fairshare/` | cached usage per queue, decayed history | `prepare`, `pending_key`, `place`, `place_guaranteed`, `on_job_started`, `can_reclaim*`, `can_scale_up`, `can_resize_placement` | reclaim takes surplus only and its committed plan can be executed; quotas hold on real allocations |
| Admission, `admission/controller.py` | none | `decide(job, snapshots)` | rejects no job that could ever run within its limits |
| Fleet timeline, `fleet/events.py` | none | `schedulable_node_snapshots` | snapshots are the node sets the engine goes through |
| Elastic work, `elastic/work.py` | none | work rates, resize bounds | sizes stay between the minimum and the maximum |
| Study runner, `study/runner.py` | `runs/<id>/{result,manifest,attempts}` on disk | plan, resume, retry, parallel execution, persist, aggregate | a crash or a failed run never corrupts what a resume trusts |
| Study invariants and report, experiment runner, heterogeneous study | result files | batch and post-processing | - |
| Metrics, scenario files, traces, workload generator, CLI, plots, mini-ai-cloud integration | none | arithmetic, parsing, formatting | - |

How they interact: the engine owns the jobs, the cluster and the queue and calls the
scheduler synchronously (`prepare`, `pending_key`, `place`, `can_reclaim*`,
`on_job_started`, `can_scale_up`). For planning, the engine hands the
scheduler clones of the cluster in which the GPUs reserved for other jobs look occupied
(`_placement_cluster`) and in which the candidate victims are released. Admission and the
fleet timeline are consulted on arrival. The study runner calls whole simulations, in
worker processes, and communicates through files.

Hard behaviours (each at its line under `hazards` in `PROJECT.json`):

* *Stale timers.* A job's `JOB_COMPLETE`, `JOB_CHECKPOINT_COMPLETE` and
  `JOB_RESTART_COMPLETE` stay in the heap when the job is preempted, resized or loses its
  node. Only `run_generation` and the status tell the live one apart.
* *Deferred preemption.* If one victim must checkpoint, the incoming job only gets a
  reservation. Victims release at different times and wait in `_suspended_victims`;
  drains, failures, completions and further preemptions can come in between.
* *Failures in every phase.* A node can fail under a job that is running, checkpointing
  (perhaps as the victim of a reservation) or restarting, and under one part of a gang.
* *Planning on a projection, acting on the real cluster*: evictions come first, the
  placement is computed again afterwards.
* *The pass changes the queue it walks*: starts release victims of a reservation, and
  preemption queues victims.
* *Cached usage.* The fair-share scheduler decides from the usage of its last `prepare`,
  which it corrects at each start; evictions, projections and deferred reclaims lie between.
* *Elastic jobs* shrink for a reclaim, grow after the pass and lose nodes; each time their
  progress is settled and their completion moved.
* *The backfill reservation* is an estimate that later starts, completions and restarts
  must not falsify.
* *Aging ticks* reschedule themselves and are dropped when they can no longer matter.
* *Files written one after the other* by the study runner, with a crash, a failure or a
  second worker in between.

## 2. Plan

Ordered by how much of the system's behaviour rests on it. All but the end of the last item
is done.

1. `JobLifecycle`: the abstract specification of the engine - what holds whatever the
   scheduler and the clock do. `JobLifecycleProofs`: its invariants as theorems.
2. `PreemptiveEngine`: the timed event loop under the preemptive scheduler, which
   implements `JobLifecycle`.
3. `StudyRunner`: resume, retry, parallel workers, a crash between any two writes.
4. `Placement`: every placement policy, against the definition of a feasible gang.
5. `EngineLoop`: the event loop and its handlers for all schedulers without priority
   preemption, rigid and elastic jobs. `QueueEngine` adds the pass of FIFO, bin-packing,
   spread, topology, vendor preference and reservation backfill to it.
6. `QueueHierarchy` and `QuotaLedger`: quotas along the tree, and what they promise.
7. `FairShare`: accounting, order, entitlements and reclaim rights, and admission over the
   fleet timeline. `FairShareEngine` adds the fair-share pass, reclaim and growth to
   `EngineLoop`, and implements both `JobLifecycle` and `QuotaLedger`.
8. Proofs about the detailed models. `StudyRunnerProofs`: what makes a resume safe.
   `FairShareEngineProofs`: the quota ledger keeps the quotas, and the fair-share loop
   implements it.
   `PreemptiveEngineProofs`: the preemptive loop implements the lifecycle, so that the
   theorems of `JobLifecycleProofs` carry over to it, and its own invariants.
   `PlacementLemmas` and `QueueEngineProofs`: every `place` finds a gang whenever there is
   one, and backfill honours its reservation.
   `FairShareLifecycleProofs`: the fair-share loop implements the lifecycle too, leaves
   nothing behind, and its admission is sound.

The modules fit together like this (a double arrow reads "implements"):

    Placement <- EngineLoop <- QueueEngine             EXTENDS, to the left
                        ^----- FairShareEngine
    QueueHierarchy <- FairShare ----^
    QueueHierarchy <- QuotaLedger

    PreemptiveEngine => JobLifecycle                   (checked and proved)
    FairShareEngine => JobLifecycle                    (checked and proved)
    FairShareEngine => QuotaLedger                     (checked and proved)

    JobLifecycle, PreemptiveEngine, QueueEngine, FairShareEngine, StudyRunner <- ...Proofs
    FairShareEngineProofs <- FairShareLifecycleProofs
    FiniteLemmas, PlacementLemmas: facts that several proofs use

## 3. The models

### JobLifecycle

The untimed specification of `Simulator`'s job state. One action per handler:

| Action | Code |
|---|---|
| `Arrive` | `_arrive`, admitted or rejected |
| `Start` | `_start` with any gang the scheduler may return |
| `CompleteRestart`, `Complete`, `CompleteCheckpoint` | the three timer handlers |
| `DropStale` | `_discard_stale_generation_events` and the early returns of the handlers |
| `Preempt` | `_preempt_for` and the preemptions of `_reclaim_for`, with any victims |
| `GiveUpReservation` | the release in `_attempt_placement` of a reclaim whose claim lapsed |
| `Resize` | elastic shrink and growth |
| `Restore`, `Drain`, `Fail` | the fleet events |

Nondeterminism stands for the scheduler: any victims, any complete single-vendor gang on
the GPUs that `_placement_cluster` shows. It also stands for the clock: a queued timer may
fire at any moment, and each event kind is kept as the set of queued generations of a job.
A reclaim with elastic shrinks is a sequence of `Resize` steps followed by `Preempt`.
`Simulator.running`, `checkpointing` and `restarting` are the jobs of that `status`;
`pending` is a set since its order is chosen anew by every pass.

### PreemptiveEngine

The loop of `Simulator.run` with `PreemptiveScheduler`, statement by statement. `pc` holds
the place in the loop body:

    pop -> handle -> dispatch <-> retry -> resume -> pop ... done

`Discard` and `Pop` drop obsolete heads and take a whole instant (`batch`), as the code
does before it handles the first event; `Handle` runs one handler; `Dispatch` walks the
snapshot of the queue (`todo`) in the order of `pending_key`, and starts, preempts for, or
skips one job per step; `Retry` is the second placement after evictions; `Resume` is the
extra pass over jobs that became pending during the pass. Time, aged priorities, productive
runtime, the bin-packing score, the per-vendor preemption plans with their greedy selection,
and the comparison of plans are computed as in the code. A scenario (arrivals,
durations, priorities, fleet events, nodes that are down at first) is chosen in `Init` from
`Scenarios`; after that the run is deterministic, except that ties are broken in any order
where the code's order is that of strings.

Abstractions: times are integers; the heap is a set, so two equal aging ticks count as one
(handling one twice changes nothing); jobs are rigid, with no topology requirement and all
in one queue (the other engines cover these); metrics, traces and counters are left out.

### How the two fit

`PreemptiveEngine` instantiates `JobLifecycle` as `Lifecycle` under a refinement mapping:
a job whose arrival is still in the heap is "unsubmitted", the three event variables are
the generations of its queued timers, everything else is the same variable. The property
`ImplementsLifecycle` is `Lifecycle!Spec`: each step of the timed loop is a step that the
lifecycle allows or is invisible to it.

### Placement

One operator per `place`, on a *view*: the schedulable GPUs and those that look occupied,
which is what `_placement_cluster` and `clone` hand to a scheduler. `TopologyPlace` builds
the candidates of `_candidate_placements`, keeps those that meet a required topology and
takes the least by `_score`; the averages and fragmentation in that score are fractions,
scaled to integers by a common denominator, so ties are decided as in exact arithmetic.
The others sort the eligible GPUs (`Ordered`); round robin of `SpreadScheduler` is a sort
by rank within the node. `IsPlacement` and `Feasible` are not in the code: they say what
any placement has to be. GPU models, accelerator kinds and capabilities restrict which GPU
can host a job as vendors do, and are represented by them.

### EngineLoop and QueueEngine

`EngineLoop` is `Simulator.run` without aging ticks (only the preemptive scheduler has
them): `Discard`, `Pop`, `Finish`, one action per handler, and the changes of state that a
pass consists of (`StartJob`, `Allocate`, `Resize`, `Release`, `Reschedule`,
`DropReservations`). Work of an elastic job is replica-time and its rate the number of its
replicas. `Fail` shrinks an elastic job that keeps its minimum on other nodes and
interrupts every other job on the node.

`QueueEngine` adds a pass that sorts the queue once and tries each job once (`BeginPass`,
`Try`, `EndPass`), under the policy the scenario names. For backfill, `Prepared` is
`prepare` with the estimate of `_estimate_start`, `Permitted` the condition of `place`, and
`LeftBy` the effect of `on_job_started`. An elastic job takes its `gpu_count` here, for
these schedulers do not resize. Nothing relates that to its `preferred_replicas`, so it may
run longer than its duration (finding 5); only a `gpu_count` outside the job's minimum and
maximum, for which its first start raises an error, is left out. Its remaining time in backfill is its whole duration even
after it has run, since `accumulated_runtime` is not kept for elastic jobs: `Remaining`
says so.

### QueueHierarchy, QuotaLedger, FairShare

`CanAllocate` is `can_allocate`: the limits of all ancestors, and either every guarantee on
the way or borrowing. What the loader validates (a tree, children's guarantees within their
parent's) are assumptions on the constants. `QuotaLedger` is an abstract specification with
one variable, the usage of each queue: it grows by grants `CanAllocate` accepts, one at a
time, and shrinks in any way.

`FairShare` has the rest of the allocator as operators of a usage: `MinimumDemand`,
`QueueKey` (guarantee deficit, debt from decayed service, weighted dominant share),
`Boundary` and `HasSurplus` (who may reclaim from whom), `CanShrink`, `FitsEntitlement`,
and the admission decision over `Snapshots`. Decayed service is kept times
2^(now / half life), which makes it a whole number as long as times are multiples of the
half life; `TimesExact` checks that they are.

### FairShareEngine

    pop -> handle -> guarantee -> dispatch <-> commit -> retry -> dispatch
                                      dispatch -> resume -> resize -> pop ... done, crashed

| Action | Code |
|---|---|
| `Submit` | `_arrive` with the decision of the admission controller |
| `BeginPass`, `TryGuaranteed` | `prepare`, and the pass that places within guarantees only |
| `BeginBorrowing`, `TryBorrowing` | `prepare` again, the second pass; a job without a placement may ask for reclaim |
| `CommitShrink`, `CommitEvict`, `Retry` | `_reclaim_for` after the plan: each shrink, all evictions (or a reservation if one must checkpoint), the second placement |
| `GiveUp` in `StartOrWait` | a reservation whose claim its guarantees no longer cover |
| `BeginResume`, `Resume`, `EndPass` | the attempt for jobs queued during the pass |
| `Grow`, `Regenerate`, `EndInstant` | `_resize_elastic_jobs`, `_record_phase3_timeline` |

`direct`, `borrowed` and `service` are what the scheduler *believes*; `alloc` is what the
jobs hold. `Prepare` copies the latter to the former exactly where the code calls
`prepare`, `Charge` is `on_job_started`, and a deferred reclaim refreshes nothing, as in
the code. `PlanOf` is the planner of one vendor as two recursive functions: shrinks while
there are any, then evictions, each chosen by its key and followed by a new projection.
Plans of different vendors share no job, so comparing their first keys decides as the
comparison of whole scores does. The program's `RuntimeError` is the `pc` value "crashed".

Two refinements: `ImplementsLifecycle` maps a job that grew in this instant to its old
allocation until `Regenerate` gives it a new generation; the lifecycle knows a resize as
one step. `ImplementsLedger` maps the usage of the ledger to the GPUs *really held*, so it
says that decisions from cached usage are as good as decisions from the truth.

### StudyRunner

Invocations of `run_study` over one output directory. `disk` is all that outlives an
invocation: the attempt files, `result.json` and `manifest.json` of every run, and the
study's artifacts. The rest is the memory of the process, lost by `End`.

| Action | Code |
|---|---|
| `Begin` | the configuration, the plans, and `_load_completed_run` for each of them |
| `ExecuteSerially` | the generator of the serial branch, `_execute_study_plan` without capture |
| `ExecuteInPool` | a worker process that finishes; the pool serves plans in order |
| `Persist`, `WriteFile` | one turn of `_persist_study_outcomes`, and each of its files |
| `Raise`, `BeginStudy`, `Return` | the ends of that loop, the study's artifacts, the result |
| `BreakPool`, `Crash` | a worker dies and `future.result()` raises; the process itself dies |

A plan is the number of its record in the order of `_record_sort_key`, and `PlansOf` lists
the plans of a configuration in the order of `build_run_plan`, which is another one. Run
ids are hashes over the configuration and the git revision, so different configurations
have different plans. Metrics are a function of the plan (runs are seeded and the
simulator is deterministic), so a record is its plan; whether a call of the executor fails
is a free choice. `Torn` is a file whose process died between opening and writing it. Two
invocations at a time, and a power failure that reorders writes, are not modelled.

Definitions preceded by "A deliberate mistake" are mutants. They are not part of the
specifications; each shows that one property notices one plausible bug.

## 4. The runs

| Run | Instance | Checks |
|---|---|---|
| `lifecycle` | 3 jobs (one elastic, one that checkpoints and restarts), 3 GPUs on 2 nodes, 2 generations; 177,123 states | `TypeOK`, `OwnershipAgrees`, `NoJobLost`, `VictimsReturn`, `ReservationsSound`, `NoLostCapacityInUse` |
| `fencing` | 2 jobs that checkpoint, 2 GPUs, 4 generations; 702,459 states | `ActiveJobHasEvent`, `EventsFenced` |
| `preemption` | 4 jobs (one a gang of two, two that checkpoint, two that restart), 4 GPUs of 2 vendors and 2 sizes on 2 nodes, aging interval 3, every combination of the arrivals, durations, priorities and draining, failing, revoked or late nodes of `MCScenarios`; 380,461 states | event fencing in time (`OneLiveEvent`), the pass and its queue (`PassTriesQueuedJobs`), reservations (`ReservationAwaitsVictim`), plans (`EvictionPaysOff`), the end of a run (`NothingLeftBehind`), `ProgressConserved`, `NoReverseEviction`, `TypeOK`, `ImplementsLifecycle`, `Terminates` |
| `study` | 2 plans and, after a commit, a third; one retry, serial or 2 workers, 3 invocations, any crashes; 1,143,403 states | `TypeOK`, `BundleConsistent`, `AttemptsOnRecord`, `ResumeTrustsDisk` |
| `study_pool` | 3 plans, serial or 2 workers, warm-ups, 2 invocations; 635,129 states | `BundleConsistent`, `NoSuccessLost`, `InvocationEnds` |
| `policies` | 4 jobs (one elastic, one that requires a rack), 6 GPUs of 3 vendors on 4 nodes in 2 racks and one node without topology; 7 policies, failing and draining nodes, and 96 mixes of lengths and arrivals for backfill; 10,051 states | `TypeOK`, `PlacementExact`, `CompletionsExact`, `ReservationHonoured` |
| `reclaim` | 4 jobs (one elastic, one that checkpoints and restarts), 4 GPUs of 2 weights on 2 nodes, 6 queues in 3 levels; fairshare-reclaim, drf, fairshare-no-borrow and historical-drf, failing, draining and late nodes; 12,923 states | `TypeOK`, `TimesExact`, `NothingLeftBehind`, `AdmissionSound`, `ReclaimOnlySurplus`, `WorkConserved`, `ImplementsLedger`, `ImplementsLifecycle`, `Terminates` |
| `idle_capacity` | 3 jobs, 2 GPUs | `NoIdleCapacity` is violated: finding 1 |
| `reservation_kept` | 3 jobs, 2 GPUs | `ReservationKept` is violated: finding 2 |
| `reclaim_vendors` | 3 jobs, 2 GPUs of 2 vendors, 3 queues | `ReclaimCommits` is violated: finding 3 |
| `backfill_restart` | 3 jobs, 4 GPUs on 3 nodes, one of which fails | `BackfillEndsInTime` is violated: finding 4 |
| `backfill_elastic` | 3 jobs, 2 GPUs; one job is elastic and asks for 1 GPU but prefers 2 | `ReservationHonoured` is violated: finding 5 |

What the properties say:

* `OwnershipAgrees`: the two records of an allocation never disagree, so
  `Cluster.release` and `resize` never raise; GPUs are held exactly while active.
* `NoJobLost`, `VictimsReturn`: a job without GPUs is in exactly one of the queue and the
  suspended victims, and a suspended victim always has a queued target whose reservation
  will release it.
* `ReservationsSound`: reservations are disjoint, belong to queued jobs, and cover only
  schedulable GPUs that are free or being vacated by a checkpoint.
* `NoLostCapacityInUse`: no job keeps a GPU of a failed node, also as part of a gang.
* `ActiveJobHasEvent`, `EventsFenced`, `OneLiveEvent`: the timer of the present phase is
  always queued, nothing older can end it, and in the timed engine there is exactly one, at
  the right moment.
* `ReservationAwaitsVictim`: between instants a reservation always waits for a checkpoint
  of one of its own victims; otherwise it would keep GPUs idle for nothing.
* `EvictionPaysOff`: after immediate evictions the second placement succeeds.
* `NoReverseEviction`: a job that this pass dispatched is not evicted again in it.
* `ProgressConserved`: productive runtime never shrinks and is the full duration at
  completion, across preemptions and failures.
* `NothingLeftBehind`: at the end nobody holds, reserves or is suspended, and a job that is
  still queued would not fit the empty schedulable cluster.
* `PlacementExact`: under every policy, an active job holds a gang of one vendor that meets
  its topology requirement, and a job left waiting has no placement at all among all sets
  of free GPUs, although the schedulers try only a few.
* `ReservationHonoured`: without fleet events, a job with a backfill reservation starts no
  later than its reserved time. In `policies` every elastic job asks for as many GPUs as it
  prefers; in `backfill_elastic` it does not, and the property is violated.
* `CompletionsExact`: each active job has exactly one live timer, and a completion comes
  when the work is done at the rate of the replicas the job has now. `TimesExact` adds that
  decayed service is only ever computed at whole numbers of half lives.
* `WorkConserved`: no shrink, growth, eviction or lost node costs work already done.
* `ReclaimOnlySurplus`: measured on real allocations, shrinks leave every branch its
  guarantee, and evictions undercut it by no more than the one job that straddles it.
* `ImplementsLedger`: every start and growth is within quotas on what is really held.
* `AdmissionSound`: a rejected job has no placement within its limits at any later moment
  of the fleet's timeline.
* `ReclaimCommits`: the engine's own assertion about a committed plan.
* `BackfillEndsInTime`: a backfilled job, its restart included, ends by the reserved time.
* `BundleConsistent`: when `run_study` returns, its artifacts list every run once in the
  canonical order and each run is whole on disk, whatever crashed or failed before.
* `ResumeTrustsDisk`: a resume neither repeats nor damages a run that is whole.
* `AttemptsOnRecord`: a manifest never claims attempts that left no file.
* `NoSuccessLost`: a failing run does not take the successes of the others with it.
* `InvocationEnds`: the writing loop always gets the outcomes it waits for.
* `Terminates`: ticks, preemptions and restarts do not keep the loop alive.

**Bounds.** Two guards hold bounds, `RunGenerations` and `MaxInvocations`. The first stops
jobs from restarting for ever; the timed loops need no such bound and map it to all of
`Nat`. Two generations give a start, a preemption or a failure, a second start and the
stale timers of the first; `fencing` allows four. The proofs hold for every value. Three
invocations of `run_study` are one that succeeds, one that crashes over it, and one that
resumes from what the two left; because of the bound the run may stop, and the deadlock
check is off for the two study runs; `InvocationEnds` in `study_pool` takes its place. In
`PreemptiveEngine` nothing is bounded but the scenarios: a run ends by itself. The sizes
were chosen so that each of these occurs: a gang that needs two victims, a victim that
checkpoints beside one that does not, a drain or failure at the instants of arrival,
checkpoint and restart, a job that ages past another, and two vendors that can each hold
the gang. The mutants confirm it, and TLC's coverage shows that every action fires.
The times of `reclaim` are chosen so that a job which changes between one and two replicas
still ends at whole times; `TimesExact` checks that no division loses anything. Its
scenarios were chosen until each of these occurred: a shrink alone, an eviction alone, both
in one plan, a deferred reclaim that is given up, growth in several steps, a job rejected
and one admitted for a later snapshot, and an order of queues that only past usage
explains. In `policies`, gangs compete for racks, vendors and memory.

**Fairness.** Safety needs none, and `QueueEngine` has none. `Terminates` uses `Fairness`, which says that as long as
the loop is not done it keeps taking steps. The loop is single-threaded and never blocks,
so this is what the Python interpreter does. It equals `WF_vars(Step)`: `Step` is enabled
until `pc` is "done" (or "crashed" in `FairShareEngine`), which the deadlock check of the same run shows. It is written without
`ENABLED` because TLC would evaluate the whole placement search for it. `InvocationEnds`
assumes `WF_vars(Progress)`: runs return or raise, and file writes end. Crashes, dying
workers and new invocations are never forced.

## 5. The proofs

### The lifecycle

`JobLifecycleProofs` proves, for all sets of jobs, GPUs and nodes, all vendor and
compatibility functions, all replica sets without zero and any set of generations:

| Theorem | Statement |
|---|---|
| `TypeCorrect` | `Spec => []TypeOK` |
| `OwnershipTheorem` | `Spec => []OwnershipAgrees` |
| `NoJobLostTheorem` | `Spec => []NoJobLost` |
| `VictimsReturnTheorem` | `Spec => []VictimsReturn` |
| `ReservationTheorem` | `Spec => []ReservationsSound` |
| `CapacityTheorem` | `Spec => []NoLostCapacityInUse` |
| `LiveEventTheorem` | `Spec => []ActiveJobHasEvent` |
| `FencingTheorem` | `Spec => []EventsFenced` |

The only assumption is `ConstantsAssumption` of `JobLifecycle`: the constants have their
types, and a placement is never empty (`models/job.py:132` rejects a count of zero). TLC evaluates it in
the runs `lifecycle` and `fencing`.

The inductive invariant `IInv` is the conjunction of the eight properties; apart from the
type invariant none is inductive alone. For instance, a job that starts must hold nothing
before (`OwnershipAgrees` needs `NoJobLost`); a job that loses its node must be active, or
it would be queued twice (`NoJobLost` needs `OwnershipAgrees`); a suspended victim must not
be startable, or its target would dangle (`VictimsReturn` needs `NoJobLost`); and a GPU
reserved for one job must not be handed to another that runs on it (`ReservationsSound`
needs `OwnershipAgrees`). There is one lemma per action, with one step per conjunct,
`NextIInv` combines them, and `Invariance` is the temporal step. `GangNonEmpty` is the only
fact about cardinalities that is used.

### The preemptive loop

`PreemptiveEngineProofs` proves, for every cluster, all jobs, costs and priorities, and every
list of fleet events:

| Theorem | Statement |
|---|---|
| `Invariance` | `Spec => []Inv` |
| `LifecycleRefinement` | `Spec => ImplementsLifecycle`: each step of the timed loop is a lifecycle step or invisible |
| `TypeCorrect` | `Spec => []TypeOK` |
| `QueuedJobsTried` | `Spec => []PassTriesQueuedJobs` |
| `ProgressIsConserved` | `Spec => ProgressConserved` |
| `LiveEventUnique` | `Spec => []OneLiveEvent` |
| `EvictionsPayOff` | `Spec => []EvictionPaysOff` |
| `ReservationsAwaitVictims` | `Spec => []ReservationAwaitsVictim` |
| `NothingIsLeftBehind` | `Spec => []NothingLeftBehind` |
| `NoEvictionInReverse` | `Spec => NoReverseEviction` |

The refinement and the invariant need each other: a step of the loop is a lifecycle step only
in states where, say, a timer is fenced, and that is what the lifecycle proof gives for the
states before. So `Inv` is `Core /\ Proved!IInv`: what the loop adds (types, when events are
due, that timers are distinct, where the pass is, and `History`, which ties the restart cost
of `_start` to the generation), and the lifecycle invariant with the refinement mapping
substituted. `NextMaps` shows of each action that it maps to a lifecycle step and keeps
`Core`; `LifecycleKeeps` is the lifecycle proof itself, used through an instance of its
module; together `Inv` is inductive. What the mapped steps demand of a placement (a gang of free,
compatible, unreserved GPUs on usable nodes) comes from `PlaceIs` and `PlanIs`, lemmas about
`Place` and `VendorPlan`: both sort by keys, and `FirstByKey` says that the first `k` elements under
a lexicographic order of distinct keys are `k` elements.

Three further invariants rest on `Inv`, each for its own theorems:

* `Timing`: the live completion of a running job is due at its start plus its remaining
  work. Since no event is overdue, no job accrues more than its duration, and it completes
  with exactly that.
* `Settled`: a reserved GPU is free or held by a victim that aims at the reservation
  (`Aims`); a reservation is a gang (`ReservedGangs`) and waits for a checkpoint unless the
  pass has still to try its job (`Waits`); if no job holds a GPU, the jobs the pass has tried
  do not fit (`Idle`). `EvictionPaysOff` is a part of it: after the victims have released
  their GPUs the projected placement is a candidate for `Place`, which then finds one.
  `Idle` gives `NothingLeftBehind`: the last event of a run leaves no job active, for an
  active job has a timer, so what still waits was found not to fit.
* `Ranked`: while the pass runs, the jobs still to try have at most the effective priority
  with which any job of the pass was started. The pass tries them in that order, and their
  priorities do not change while the clock stands still; a victim needs a strictly lower one.

Assumed is `EngineAssumption` of `PreemptiveEngine` (there are finitely many jobs and GPUs, and
the loader and the constructors reject what has not its type), which TLC evaluates in the
three runs of the module.

### The loop without preemption

`QueueEngineProofs` proves, for every cluster with its racks, zones and vendors, all jobs,
every policy of the module and every list of fleet events:

| Theorem | Statement |
|---|---|
| `Invariance` | `Spec => []Inv` |
| `TypeCorrect` | `Spec => []TypeOK` |
| `PlacementIsExact` | `Spec => []PlacementExact`: gangs are sound, and no gang that exists is overlooked |
| `ReservationIsHonoured` | `FullGangs` implies `Spec => ReservationHonoured`: backfill does not delay the head of the queue |

*One placement.* `PlacementLemmas` shows of each `place` that it returns a placement, and
returns one whenever any set of free GPUs is a placement (`FIFOPlaceExact`,
`BinPackPlaceExact`, `SpreadPlaceExact`, `TopologyPlaceExact`, `VendorPlaceExact`). For the
topology scheduler this is the claim that its few candidates are enough: if some gang lies
in one rack, then so does the candidate of that rack, which takes the first GPUs of the rack
in any order. The rest is that a least element under a lexicographic order of distinct keys
exists (`LessOrder`, `KeysOrder`, `LeastIs`), which needs the parts of `Score` to be integers,
for every size of node and number of pairs; `First`, `Least` and `InOrder` say what
Python's `sorted` and `min` return.

*One pass.* That a job was tried in vain at its turn says nothing of the end of the pass
unless nothing gets better in between. `PassInv` has three phases: the head of the queue is
tried first (`HeadIsNext`); nothing is reserved, and each queued job is either still listed
or impossible (`AllAreTried`); or backfill has a reservation, and its head is impossible
(`OwedInVain`). A start only takes GPUs (`Feasible` is monotone in the view), so what is
impossible remains so.

*The reservation.* This part needs `FullGangs`: no elastic job asks for fewer GPUs than it
prefers. It is a hypothesis of `ReservationIsHonoured`, not an assumption of the module, and
finding 5 shows that the code needs it. Without fleet events (`Quiet` is both conditions) a job runs
from its start to its end, which its queued completion marks (`QuietInv`); it lasts no longer
than its duration (`LastingIs`), which is all that backfill counts. `ViewAt(t)` is the cluster once the jobs that end by
`t` are gone. The invariant says of the one reservation that its job is placeable in
`ViewAt(r.start)` and that `r.start` is not over: `prepare` estimates exactly such a time
(`EstimatesAre`), and what is started meanwhile ends by it (`Permitted`), so it is gone from
that view. When the clock reaches `r.start` before the head has started, the view is the
present cluster; then the head, which the pass tries first, is placed, so the clock never
passes a reservation that is still there.

Assumed are `PlacementAssumption`, `LoopAssumption` and `QueueEngineAssumption` (what the
constructors of jobs and fleet events accept, and that an elastic job asks for at least its
minimum), which TLC evaluates in `policies` and, with an elastic job that asks for less than it
prefers, in `backfill_elastic`.

### The fair-share loop keeps the quotas

`FairShareEngineProofs` proves, for every cluster, all jobs, rigid or elastic, every tree of
queues, all guarantees and limits, every list of fleet events and every policy:

| Theorem | Statement |
|---|---|
| `Invariance` | `Spec => []Inv` |
| `LedgerRefinement` | `Spec => ImplementsLedger`: each step is a grant or a return of the ledger, measured on the GPUs really held |
| `LedgerKeepsQuotas` | `Ledger!Spec => []Ledger!QuotasRespected`: no queue exceeds its limit, nor, if it may not borrow, its guarantee |
| `QuotasOnGpus` | `Spec => []Ledger!QuotasRespected`, from the two |

In the ledger, `QuotasRespected` is inductive together with the types. `GrantRespects` is
the heart: a grant charges all ancestors of a queue at once and
`CanAllocate` looks at each of them; if one of them may not borrow, nothing below it may
borrow either, so the other disjunct of `CanAllocate` applies, which checks the guarantee of
that ancestor. `ReturnRespects` covers everything that gives capacity back.

In the loop, the difficulty is that it decides on usage it has cached, at the last `prepare`, and
that evictions, shrinks, deferred reclaims, node failures and completions change what is
held in between. The argument has three parts.

* *The cache errs on one side only* (`UsageCounted`): it never leaves out a GPU that a job
  holds. Whatever takes GPUs away keeps that; each start charges what it takes
  (`on_job_started`), and each step of growth is decided on the usage of that moment and
  followed by a `prepare`. Since `can_allocate` accepts less when usage is greater
  (`LessUsageAllocates`), what it accepts on the cache it would accept on the truth.
* *A reclaim plan only takes* (`PlanHeld`): the shrinks still to commit leave each job a
  part of what it holds. This is about `PlanOf`, the two loops of the planner as recursive
  functions; that every step of them only shrinks or evicts is `ActKeeps` and `ActsKeep`.
* *GPUs are not counted twice* (`Owned`): owner and allocation agree, and `HostsFree` says
  that a placement, also that of a growing job, is made of GPUs that nobody owns. So what a
  start adds to the usage of a queue is what its allocation weighs (`DirectGains`,
  `AggregateGains`).

`Inv` is these three with the types they need. Every action falls under one of two effects,
`GivesBack` or `Grants`; there is one lemma per action that says so and preserves `Inv`, and
`StepRefines` turns the effects into steps of the ledger. Assumed are `PlacementAssumption`
(jobs, GPUs and nodes are finitely many), `FairShareAssumption`, `HierarchyAssumption` and
`ScenarioAssumption` (what the constructors of jobs and fleet events accept, `Accepted`, and
that the queue of each job exists: the loader does not check that, but admission rejects
such a job at once as `unknown_queue`, `controller.py:43-44`, a branch that is left out
because the job never takes part); TLC evaluates all of them in `reclaim`.

### The fair-share loop implements the lifecycle

`FairShareLifecycleProofs` continues from there, under the same assumptions and
`LoopAssumption`:

| Theorem | Statement |
|---|---|
| `LifeInvariance` | `Spec => []LifeInv` |
| `LifecycleRefinement` | `Spec => ImplementsLifecycle`: each step of the loop is a lifecycle step or invisible |
| `TypeCorrect` | `Spec => []TypeOK` |
| `NothingIsLeftBehind` | `Spec => []NothingLeftBehind` |
| `AdmissionIsSound` | `Spec => []AdmissionSound` |
| `ReclaimTakesSurplus` | `OneVendorFleet` implies `Spec => ReclaimOnlySurplus` |
| `ReclaimGivesPlacement` | `OneVendorFleet` implies `Spec => []ReclaimCommits`: the simulation never stops with the error of `engine.py:771` |

So what `JobLifecycleProofs` shows holds of this loop as well: no job is lost, reservations
are sound, victims return, timers are fenced, no capacity of a lost node is in use. The
argument is that of the preemptive loop: `LifeInv` is the invariant of the previous section,
an invariant `Core` of the loop, and the inductive invariant of `JobLifecycle` in the states
the loop maps to (`Proved!IInv`). An action is shown to be a lifecycle step of the mapped
state; the third part is then carried on by the lemmas about `JobLifecycle`, and gives the
queues, reservations and fencing of the loop (`Holding`, `InOneQueue`, `Reserving`, `Fenced`)
without proving them again. What is particular to this loop:

* *A reclaim plan is carried out in many steps* (`Planned`). The placement the planner found
  on a projected cluster is usable and not reserved for another, and each of its GPUs is free or
  held by a victim or an elastic job whose turn comes; a shrink still to come leaves its
  job a smaller gang that it may run on. That the two recursive functions of the planner
  only produce such plans is `PlanDrafts`, from an invariant of their states (`Drafted`).
  Carrying out one step keeps it for the rest, so the target finds its placement free.
* *Growth is settled at the end of the instant* (`Growth`). An elastic job takes GPUs in
  several rounds before its generation and timer change. The mapping shows the job with its old
  gang until then (`Settled`, `SettledOwner`), which is right only because nobody else may
  have the GPUs it grows by: they are usable, unreserved, and nothing is dispatched or
  planned before the instant has ended.
* *A failing node shrinks an elastic job* that can go on without it, and interrupts it
  otherwise; both are lifecycle steps since the rest is large enough (`SmallerGang`).

`TypeCorrect` adds the variables that decide nothing in the lifecycle (`Booked`). Decayed
service never becomes negative because time and powers of two only grow (`PowerMonotone`).
`NothingIsLeftBehind` needs one more invariant, `Idle`, about the moments at which no job is
active. A job that is tried then sees an empty cluster (`IdleCluster`) and, from the borrowing
pass on, neither reservations nor usage, so if it gets nothing it would not fit the empty
cluster (`TriedInVain`). A reservation may still be there during the guarantee pass, when its
last victim has just left; its holder is among the jobs still to try, and then starts
or gives it up, so that the jobs it stood in the way of have their turn in the borrowing pass.
Eviction does not empty the cluster: its target starts, or a victim checkpoints.

`AdmissionIsSound` has two parts. One is about a single snapshot (`RejectedIs`): a placement on
the empty fleet lies within one of the sets of GPUs that admission looks at (`FeasibleIs`),
and no gang of such a set weighs less than the demand admission computes from its lightest GPUs
(`LightestIs`, `DemandIs`), so if the limits refuse the cheapest demand they refuse the
placement. The other follows the fleet through time (`Foreseen`): what the remaining fleet
events will make of the nodes does not change when one of them is handled, since it comes first
among them (`FutureKept`), and all of that was among the snapshots at the moment of the
admission, when the fleet events of that instant had been handled (`SnapshotsAre`,
`TakenFirst`). So a rejected job has no place in any of the `Futures`, of which the present
fleet is one.

The two theorems on reclaim assume `OneVendorFleet`: all GPUs are of one vendor, as in the run
`reclaim`. The second is false without it, and the first is not claimed. The planner projects the holdings of one vendor only, and
the run `reclaim_vendors` shows that with two vendors a committed plan may fail (finding 3).
On one vendor the projection is the usage of the whole cluster, and the argument has two parts.

* *Each action of the planner is justified when all of them are done* (`Justified`, an invariant
  of the two recursive functions of `PlanOf`). The queues a job charges are a chain (`AncestorsChain`), so
  its path crosses the boundary to the incoming queue in one branch (`OneBranch`, `BranchIs`).
  A shrink that `CanShrink` allows leaves that branch its guarantee. So do all later shrinks: in
  other branches they take nothing from it, in the same branch they are checked again
  (`ShrinkJustifies`). Of the victims of a branch, the last one was taken while the branch had surplus,
  measured with that victim still in place and all others gone (`EvictJustifies`); what the plan
  takes from other branches later does not change that.
* *What is committed is what was planned* (`InProgress`). `Commitment` names the victims and the shrinks
  and nothing else changes, so after the last of them the jobs hold exactly what the plan
  says (`WholePlan`, `EvictHolds`). The retry then sees the cluster and the usage the plan was
  made for, and the deterministic placement finds the same gang within the same limits
  (`RetryHolds`). If a victim must checkpoint first, there is no retry and nothing is asserted.

### The study runner

`StudyRunnerProofs` proves, for all configurations and their plans, any number of workers,
retries, warm-ups and invocations, with failures and crashes anywhere:

| Theorem | Statement |
|---|---|
| `TypeCorrect` | `Spec => []TypeOK` |
| `BundleIsConsistent` | `Spec => []BundleConsistent` |
| `AttemptsAreOnRecord` | `Spec => []AttemptsOnRecord` |
| `ResumeIsTrusted` | `Spec => ResumeTrustsDisk` |
| `SuccessIsKept` | `Spec => NoSuccessLost` |

None of these follows from the disk alone. `Inv` adds `Working`, which relates the memory of
the process to the disk: the runs that are not executed again are whole on disk all the time
(`BusyInv`); every file that a taken outcome asks for has been written or is still in
`script` (`WritesInv`), whose last file is the manifest (`ScriptInv`), so that a run whose
manifest says "complete" has everything the manifest speaks of; the records in memory are
exactly those of the resumed and of the successful runs, each once (`CompletedInv`), so
sorting them gives the study's list (`SortedIs`); and the study's own files are begun only
when every run is on disk (`StudyInv`). The only assumption is `StudyAssumption`: the plans
of a configuration are listed once, and different configurations have different plans,
because run ids are hashes over both.

### What the proofs share

`FiniteLemmas` has facts about finite sets that the libraries state for an
operator parameter only, which the provers cannot use: instead of induction it takes a least
counterexample, itself a consequence of the theorem that a finite nonempty set of sets has a
minimal element (`MinimalSubset`, `LeastNumber`). From this follow that a sum over a finite
set, which the community modules define by iteration, adds up
(`SumUnfolds`, `SumDisjoint`, `SumMonotone`, `SumGains`), and that ranks under a strict
order number a set without gaps (`RankBijection`). `PlacementLemmas` has
the facts about keys, scores and placements, and `FairShareEngineProofs`, in its first part,
those about vectors and `CanAllocate` that the ledger and the loop both need.

### Model-checked only

* Liveness: `Terminates` and `InvocationEnds` are beyond the prover.
* `ReclaimOnlySurplus` and `ReclaimCommits` on fleets of several vendors are not theorems: the second is
  refuted by finding 3, and the first measures usage of all vendors, as the guarantees are
  meant, where the planner claims for the incoming job on its usage of one.
* `CompletionsExact`, `TimesExact` and `WorkConserved` hold where
  the times of the instance divide evenly: completions of elastic jobs at whole times, and
  instants at multiples of the half life. The program uses fractions there. This is not so
  for every instance and cannot be a theorem.

## 6. Findings

1. *Idle capacity after a preemption* (`idle_capacity`). The comment at
   `simulator/engine.py:444-445` says that one immediate resume opportunity is given so
   that "preemption cannot leave unrelated capacity idle until the next event". The resume
   pass only looks at jobs queued during the pass. A low job that has aged past a normal
   one is tried first and may not preempt (its base priority is low); the normal job then
   evicts a running gang of two and needs one GPU; the other stays idle until the next
   event, although the low job fits it.
2. *A reservation is replaced while its victims checkpoint* (`reservation_kept`).
   `docs/design.md:37` and `docs/phase2.md:63` say that the complete projected placement
   stays reserved until the incoming job starts. A job that waits behind its reservation is
   tried again by the next pass, where `_preempt_for` may pick another victim, for example
   because the first is no longer running and does not count as a candidate, and overwrites
   the reservation (`engine.py:662`). Both victims lose their GPUs for one job. The
   lifecycle invariants still hold: both are tied to the job and come back.

3. *A committed reclaim plan fails* (`reclaim_vendors`). `_plan_reclaim_for_vendor` projects
   the allocations of one vendor only (`engine.py:784-798`), so the usage it compares with
   guarantees leaves out what a queue holds of other vendors. A queue that already uses up
   its guarantee on one vendor reclaims a GPU of another vendor; after the eviction the
   retry sees the whole usage, finds the guarantee exceeded, and the simulation stops with
   the `RuntimeError` of `engine.py:771`.
4. *A backfilled restart delays the head of the queue* (`backfill_restart`).
   `backfill.py:94` adds the restart cost only to a job with a positive `preemption_count`.
   Backfill never preempts; a job interrupted by a lost node has `recovery_count` instead
   and pays the cost as well (`engine.py:541-568`). It is started although it ends after
   the reserved time, against `docs/phase2.md:47`, and `README.md:233` does not hold. With
   a(2 GPUs, 10), b(3 GPUs), c(1 GPU, 6, restart 6) and c's node lost at 2, b starts at 12
   instead of 10.
5. *A backfilled elastic job delays the head of the queue* (`backfill_elastic`). The work of
   an elastic job is its duration times `preferred_replicas` (`elastic/work.py`), and under
   backfill it runs on `gpu_count` GPUs (`engine.py:500`). Neither `Job` nor `ElasticSpec` nor
   the loader compares the two. `backfill.py:93` counts the duration only, so a job that
   asks for fewer GPUs than it prefers ends later than it was admitted for, again against
   `docs/phase2.md:47` and `README.md:233`, and without any fleet event. With a(1 GPU, 5),
   b(2 GPUs, 5) and an elastic c(1 GPU, prefers 2, 4) on 2 GPUs, b is to start at 5; c
   starts at 1 beside a, ends at 9 and not at 5, and b starts at 9.

A remark that is not a finding: `docs/design.md:7` describes the dropping of aging ticks
when the queue holds nothing else; the code also drops a tick at the head of the heap of an
idle cluster when arrivals or fleet events follow. `NothingLeftBehind` shows that no job is
stranded by it.

Two more remarks, on behaviour that no source promises otherwise: when the head of the
queue starts, the next job has no backfill reservation for the rest of that pass; and the
fair-share allocator checks quotas for the one gang its placement picks, so a job may wait
although a lighter gang would be within its quota.

## 7. What is left out

* Metric integration, timelines, traces and counters, including the runnable demand per
  queue (`engine.py:1410-1461`): they never influence a decision.
* Floating point and its tolerances. Times, shares and decayed usage are exact here; the
  order of two queues whose shares differ by rounding only may differ from the program's.
* Elastic jobs with a `gpu_count` outside their minimum and maximum, under the schedulers of
  `QueueEngine`: their first start raises an error and ends the run.
* Jobs of a queue that does not exist: admission rejects them when they arrive
  (`controller.py:43-44`).
* A number of retries that changes between invocations of the study runner. It is not part
  of the configuration's hash, so it may; `MaxRetries` is a constant here, and no property
  relates the attempts of two invocations.
* Scaling efficiencies of elastic jobs other than linear, which are fractions of work.
* GPU memory accounting: `allocated_memory_gb` follows the owner; capacity is modelled
  where it decides compatibility.
* Two concurrent invocations of the study runner over one directory.
* Study invariants and report, the experiment runner, the heterogeneous study: they call
  whole simulations one after the other, or read finished files; nothing can interleave.
* Parsing, formatting, plotting, trace import, the workload generator and the translation
  to mini-ai-cloud files: no state of their own.
