------------------------------ MODULE FairShare ------------------------------
(***************************************************************************)
(* The decisions of FairShareScheduler (allocation/allocator.py) and of the*)
(* admission controller (admission/controller.py) as operators of a usage: *)
(* accounting, the order of queues, entitlements and reclaim rights. usage *)
(* is what _aggregate_usage holds, capacity what _capacity holds; capacity *)
(* and usage may be those of one vendor only. Decayed usage is exact.      *)
(***************************************************************************)
EXTENDS QueueHierarchy, Placement

CONSTANTS
  Units,           \* accounting weight of each GPU's model
  Weight,          \* QueueSpec.weight
  PriorityOffset,  \* QueueSpec.priority_offset
  NotReclaimable,  \* queues with reclaimable = false
  HalfLife         \* DecayedUsageHistory.half_life

ASSUME FairShareAssumption ==
  /\ Units \in [GPUs -> Nat \ {0}]
  /\ Weight \in [Queues -> Nat \ {0}]
  /\ PriorityOffset \in [Queues -> Int]
  /\ NotReclaimable \subseteq Queues
  /\ HalfLife \in Nat \ {0}

\* _validate_child_guarantees: what the children are guaranteed together fits the limit
\* of their parent, and its guarantee if it has one.
ChildGuaranteesFit ==
  LET Promised(q, d) ==
        MapThenSumSet(LAMBDA c : IF d \in DOMAIN Guarantee[c] THEN Guarantee[c][d] ELSE 0,
                      Children(q))
  IN  \A q \in Queues :
        /\ \A d \in DOMAIN Limit[q] : Promised(q, d) <= Limit[q][d]
        /\ \A d \in DOMAIN Guarantee[q] : Promised(q, d) <= Guarantee[q][d]

ASSUME ChildGuaranteesAssumption == ChildGuaranteesFit

-----------------------------------------------------------------------------
(* Accounting (fairshare/accounting.py).                                   *)

Vector(units, memory) == [d \in Dims |-> IF d = "gpu_units" THEN units ELSE memory]
UnitsIn(P) == SumFunctionOnSet(Units, P)

Allocation(j, P) == Vector(UnitsIn(P), JobMemory[j] * Cardinality(P))
CapacityOf(P) == Vector(UnitsIn(P), SumFunctionOnSet(GpuMemory, P))

\* minimum_demand: the n lightest GPUs of the cheapest vendor that has n compatible
\* ones; {} when none has (the code raises ValueError).
MinimumDemand(j, n, P) ==
  LET Lightest(w) == First(OfVendor(P \cap Compatible[j], w), n, [g \in P |-> <<Units[g], g>>])
      enough == {w \in Vendors(P \cap Compatible[j]) : Cardinality(Lightest(w)) = n}
  IN  IF enough = {} THEN {}
      ELSE {Vector(Min({UnitsIn(Lightest(w)) : w \in enough}), n * JobMemory[j])}

\* aggregate_usage: every queue is charged with what its descendants hold.
Aggregate(direct) ==
  [q \in Queues |->
     [d \in Dims |-> SumFunctionOnSet([c \in Queues |-> direct[c][d]],
                                      {c \in Queues : q \in Ancestors(c)})]]

-----------------------------------------------------------------------------
(* The order of queues, _queue_pending_key.                                *)

Deficient(q, usage) == ~(\A d \in DOMAIN Guarantee[q] : usage[q][d] >= Guarantee[q][d])

\* Weighted dominant share (fairshare/drf.py), times both capacities and all weights.
WeightScale == FoldSet(LAMBDA q, product : Weight[q] * product, 1, Queues)
DominantShare(q, usage, capacity) ==
  LET other(d) == IF d = "gpu_units" THEN "gpu_memory_gb" ELSE "gpu_units"
      Share(d) == IF capacity[d] = 0 THEN 0 ELSE usage[q][d] * Max({1, capacity[other(d)]})
  IN  Max({Share(d) : d \in Dims}) * (WeightScale \div Weight[q])

\* Service of a queue in the past, each half life counting half as much as the next: its
\* integral over an interval with constant usage (DecayedUsageHistory.integrate). It is
\* kept times 2^(now / HalfLife), and per unit of the decay rate, so that it is whole if
\* times are multiples of the half life.
PowerOfTwo[k \in Nat] == IF k = 0 THEN 1 ELSE 2 * PowerOfTwo[k - 1]
Served(q, usage, from, to) ==
  usage[q]["gpu_units"] * (PowerOfTwo[to \div HalfLife] - PowerOfTwo[from \div HalfLife])

\* DecayedUsageHistory.debt: weighted service beyond that of the least served sibling.
DebtOf(q, service) ==
  LET weighted(c) == service[c] * (WeightScale \div Weight[c])
  IN  weighted(q) - Min({weighted(c) : c \in Children(Parent[q])})

QueueKey(q, usage, capacity, service) ==
  <<IF Deficient(q, usage) THEN 0 ELSE 1,
    DebtOf(q, service),
    DominantShare(q, usage, capacity)>>

\* From the child of the root down to the queue itself.
PathKey(q, usage, capacity, service) ==
  FlattenSeq([i \in 1 .. Len(Path[q]) - 1 |->
                QueueKey(Path[q][Len(Path[q]) - i], usage, capacity, service)])

OffsetOf(q) == MapThenSumSet(LAMBDA a : PriorityOffset[a], Ancestors(q))

\* _is_next_fairshare_branch: no sibling with demand comes before a branch of the path.
IsNextBranch(q, usage, capacity, service, demanding) ==
  \A b \in Ancestors(q) \ {Root} :
    \A s \in Children(Parent[b]) \cap demanding :
      ~Less(QueueKey(s, usage, capacity, service), QueueKey(b, usage, capacity, service))

-----------------------------------------------------------------------------
(* Reclaim.                                                                *)

\* _reclaim_boundary: the branches of the two queues below their closest common
\* ancestor; none if one queue is an ancestor of the other.
Boundary(victim, incoming) ==
  LET Below(q, p) == {a \in Ancestors(q) \ Ancestors(p) : a # Root /\ Parent[a] \in Ancestors(p)}
  IN  Below(victim, incoming) \X Below(incoming, victim)

Floor(q, d) == IF d \in DOMAIN Guarantee[q] THEN Guarantee[q][d] ELSE 0

\* _boundary_has_reclaimable_surplus.
HasSurplus(vb, ib, usage) ==
  \E d \in DOMAIN Guarantee[ib] : usage[ib][d] < Guarantee[ib][d] /\ usage[vb][d] > Floor(vb, d)

CanReclaim(victim, incoming, usage) ==
  /\ Ancestors(victim) \cap NotReclaimable = {}
  /\ \E b \in Boundary(victim, incoming) : HasSurplus(b[1], b[2], usage)

\* A deliberate mistake: an elastic job shrinks as long as its branch has any surplus.
ShrinkWhileSurplus(victim, incoming, taken, usage) == CanReclaim(victim, incoming, usage)

\* can_reclaim_allocation without collateral: an elastic job shrinks only as long as its
\* branch keeps its guarantee.
CanShrink(victim, incoming, taken, usage) ==
  /\ CanReclaim(victim, incoming, usage)
  /\ \E b \in Boundary(victim, incoming) :
       \A d \in DOMAIN Guarantee[b[1]] : usage[b[1]][d] - taken[d] >= Guarantee[b[1]][d]

\* can_reclaim_placement: the placement fits what is left of the guarantee of every
\* queue in entitled that the request charges.
FitsEntitlement(q, demand, usage, entitled) ==
  LET asked == {a \in Ancestors(q) \cap entitled : HasGuarantee(a)}
  IN  asked # {} /\ \A a \in asked : WithinGuarantee(a, Plus(usage[a], demand))

\* can_reclaim_request: some guarantee on the path could hold the request alone.
RequestFitsGuarantee(q, demands) ==
  \E demand \in demands : \E a \in Ancestors(q) : HasGuarantee(a) /\ WithinGuarantee(a, demand)

-----------------------------------------------------------------------------
(* Admission over the fleet timeline (fleet/events.py, admission/controller.py). *)

Gains == {"NODE_JOIN", "NODE_RECOVER", "CAPACITY_RETURN"}

\* The nodes that are schedulable after the fleet events up to time t: the last event of
\* a node decides, a gain coming before a loss at one time.
NodesAfter(active, events, t) ==
  LET past(n) == {e \in events : e.id = n /\ e.time <= t}
      key(e) == <<e.time, IF e.kind \in Gains THEN 0 ELSE 1>>
      last(n) == {e \in past(n) : \A f \in past(n) : ~Less(key(e), key(f))}
  IN  {n \in Nodes : IF past(n) = {} THEN n \in active
                     ELSE \E e \in last(n) : e.kind \in Gains}

\* A deliberate mistake: only the capacity of the moment counts.
SnapshotNow(active, events, now) == {active}

\* schedulable_node_snapshots after now.
Snapshots(active, events, now) ==
  LET later == {e \in events : e.time > now}
  IN  {active} \cup {NodesAfter(active, later, e.time) : e \in later}

\* _feasible_gpu_sets: a minimum placement fits one vendor, and one node or rack where
\* the topology requires it.
FeasibleSets(j, n, nodes) ==
  LET hosts == {g \in Compatible[j] : NodeOf[g] \in nodes}
      Where(m) == CASE TopologyMode[j] = "require_same_node" -> <<m>>
                    [] TopologyMode[j] = "require_same_rack" -> RackDomain(m)
                    [] OTHER -> <<>>
      Group(g) == {h \in hosts : Where(NodeOf[h]) = Where(NodeOf[g]) /\ VendorOf[h] = VendorOf[g]}
  IN  {S \in {Group(g) : g \in hosts} : Cardinality(S) >= n}

\* AdmissionController.decide: feasible in one snapshot and, if quotas are looked at, the
\* cheapest such demand within the limit of every ancestor.
Admits(j, q, n, snapshots, quotaAware) ==
  LET sets == UNION {FeasibleSets(j, n, nodes) : nodes \in snapshots}
      demands == UNION {MinimumDemand(j, n, S) : S \in sets}
      cheapest == {d \in demands : \A e \in demands : d["gpu_units"] <= e["gpu_units"]}
  IN  /\ sets # {}
      /\ quotaAware => \A d \in cheapest : \A a \in Ancestors(q) : FitsLimit(a, d)
=============================================================================
