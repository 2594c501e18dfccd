------------------------------ MODULE Placement ------------------------------
(***************************************************************************)
(* What the placement schedulers compute: the GPUs a request gets on a     *)
(* given view of the cluster. FIFO, spread, bin-packing, topology-aware and*)
(* vendor preference (schedulers/*.py) over GPU eligibility (models/       *)
(* cluster.py) and topology distance (models/topology.py).                 *)
(*                                                                         *)
(* A view is [gpus, occupied]: the GPUs on schedulable nodes, and those of *)
(* the cluster that look occupied. A placement is a set of GPUs, {} when   *)
(* the scheduler returns None. Scores are compared exactly: fractions are  *)
(* scaled to integers by a common denominator.                             *)
(***************************************************************************)
EXTENDS Integers, Sequences, FiniteSets, FiniteSetsExt, SequencesExt

CONSTANTS
  Jobs, GPUs, Nodes,  \* ids are integers, in the order of the id strings
  NodeOf,             \* [GPUs -> Nodes]
  VendorOf,           \* [GPUs -> Nat], in the order of the vendor names
  UnknownVendor,      \* AcceleratorVendor.UNKNOWN
  GpuMemory,          \* GPU.memory_capacity_gb
  Zone, Rack,         \* Node.topology, None where a level is not given
  JobMemory,          \* Job.gpu_memory_gb
  JobVendors,         \* vendors the job accepts, all of them if it names none
  TopologyMode,       \* Job.topology_mode
  None                \* absent job, time, zone, rack, parent, queue

Modes == {"none", "prefer_same_node", "prefer_same_rack", "require_same_node",
          "require_same_rack"}

ASSUME PlacementAssumption ==
  /\ Jobs \subseteq Nat /\ GPUs \subseteq Nat /\ Nodes \subseteq Nat
  /\ IsFiniteSet(Jobs) /\ IsFiniteSet(GPUs) /\ IsFiniteSet(Nodes)
  /\ NodeOf \in [GPUs -> Nodes]
  /\ VendorOf \in [GPUs -> Nat]
  /\ GpuMemory \in [GPUs -> Nat \ {0}]
  /\ Zone \in [Nodes -> Nat \cup {None}] /\ Rack \in [Nodes -> Nat \cup {None}]
  /\ JobMemory \in [Jobs -> Nat \ {0}]
  /\ JobVendors \in [Jobs -> SUBSET Nat]
  /\ TopologyMode \in [Jobs -> Modes]
  /\ None \in Int \ Nat

\* Lexicographic order on tuples of integers; a proper prefix comes first.
Less(s, t) ==
  \/ \E i \in DOMAIN s \cap DOMAIN t : s[i] < t[i] /\ \A k \in 1 .. i - 1 : s[k] = t[k]
  \/ Len(s) < Len(t) /\ \A k \in DOMAIN s : s[k] = t[k]

\* The n least elements of S by their keys, all of S if there are fewer.
First(S, n, key) == {g \in S : Cardinality({h \in S : Less(key[h], key[g])}) < n}

Least(S, key) == First(S, 1, key)

\* The elements of S in the order of their keys.
InOrder(S, key) ==
  [i \in 1 .. Cardinality(S) |->
     CHOOSE g \in S : Cardinality({h \in S : Less(key[h], key[g])}) = i - 1]

ProductOf(S) == FoldFunctionOnSet( *, 1, [k \in S |-> k], S)

OnNode(n) == {g \in GPUs : NodeOf[g] = n}
NodesOf(P) == {NodeOf[g] : g \in P}

-----------------------------------------------------------------------------
(* Topology.                                                               *)

\* topology_domain. A node whose level is not given is a domain of its own.
RackDomain(n) == IF Rack[n] = None THEN <<n>> ELSE <<Zone[n], Rack[n]>>
ZoneDomain(n) == IF Zone[n] = None THEN <<n>> ELSE <<Zone[n], None>>

Distance(m, n) ==
  CASE m = n -> 0
    [] m # n /\ RackDomain(m) = RackDomain(n) -> 1
    [] m # n /\ RackDomain(m) # RackDomain(n) /\ ZoneDomain(m) = ZoneDomain(n) -> 2
    [] OTHER -> 3

\* A mode that is a hard constraint; the others only change the score.
Requires(j) == TopologyMode[j] \in {"require_same_node", "require_same_rack"}

\* topology_requirement_satisfied.
RequirementMet(j, P) ==
  /\ TopologyMode[j] = "require_same_node" => Cardinality(NodesOf(P)) <= 1
  /\ TopologyMode[j] = "require_same_rack" =>
       Cardinality({RackDomain(n) : n \in NodesOf(P)}) <= 1

-----------------------------------------------------------------------------
(* Eligibility.                                                            *)

\* GPU.is_compatible.
Compatible ==
  [j \in Jobs |-> {g \in GPUs : /\ VendorOf[g] \in JobVendors[j]
                                /\ JobMemory[j] <= GpuMemory[g]}]

Vendors(P) == {VendorOf[g] : g \in P}
OfVendor(P, w) == {g \in P : VendorOf[g] = w}

\* Cluster.clone(vendor=w).
VendorView(view, w) ==
  [gpus |-> OfVendor(view.gpus, w), occupied |-> OfVendor(view.occupied, w)]

\* GPU.can_host on schedulable nodes.
Hosts(j, view) == (view.gpus \cap Compatible[j]) \ view.occupied

\* A deliberate mistake: a gang takes the first vendor with a free GPU, enough or not.
EligibleOfFirstVendor(j, n, view) ==
  LET hosts == Hosts(j, view)
  IN  IF n <= 1 \/ hosts = {} THEN hosts ELSE OfVendor(hosts, Min(Vendors(hosts)))

\* Cluster.eligible_gpus of a job without GPUs: a gang takes the first vendor that has
\* enough free GPUs.
Eligible(j, n, view) ==
  LET hosts == Hosts(j, view)
      enough == {w \in Vendors(hosts) : Cardinality(OfVendor(hosts, w)) >= n}
  IN  IF n <= 1 THEN hosts
      ELSE IF enough = {} THEN {} ELSE OfVendor(hosts, Min(enough))

Slack(j, g) == GpuMemory[g] - JobMemory[j]
Waste(j, P) == SumFunctionOnSet([g \in P |-> Slack(j, g)], P)

-----------------------------------------------------------------------------
(* TopologyAwareScheduler.                                                 *)

\* _candidate_placements: the tightest GPUs overall, of each node, rack and zone, and
\* the nearest ones around each node.
Candidates(j, n, eligible) ==
  LET tight == [g \in eligible |-> <<Slack(j, g), NodeOf[g], g>>]
      near(s) == [g \in eligible |-> <<Distance(s, NodeOf[g]), NodeOf[g]>> \o tight[g]]
      Domain(D(_)) == {{g \in eligible : D(NodeOf[g]) = d} : d \in {D(m) : m \in NodesOf(eligible)}}
      domains == {eligible} \cup Domain(LAMBDA m : m) \cup Domain(RackDomain) \cup Domain(ZoneDomain)
  IN  {First(S, n, tight) : S \in {D \in domains : Cardinality(D) >= n}}
      \cup {First(eligible, n, near(s)) :
              s \in {m \in NodesOf(eligible) : Cardinality(eligible) >= n}}

\* The change of count fragmentation, times the number of GPUs and FragmentationScale.
FragmentationScale == ProductOf(1 .. Cardinality(GPUs))
NodeDelta(view, P, m) ==
  LET size == Cardinality(view.gpus \cap OnNode(m))
      used == Cardinality(view.occupied \cap OnNode(m))
      Partial(n) == 4 * (size - n) * n * (FragmentationScale \div size)
  IN  Partial(used + Cardinality(P \cap OnNode(m))) - Partial(used)
FragmentationDelta(view, P) ==
  SumFunctionOnSet([m \in NodesOf(P) |-> NodeDelta(view, P, m)], NodesOf(P))

\* The average distance of the pairs, times DistanceScale.
DistanceScale == ProductOf({(k * (k - 1)) \div 2 : k \in 2 .. Cardinality(Nodes)})
PairsOf(ns) == {p \in ns \X ns : p[1] < p[2]}
AverageDistance(ns) ==
  LET pairs == PairsOf(ns)
  IN  IF pairs = {} THEN 0
      ELSE SumFunctionOnSet([p \in pairs |-> Distance(p[1], p[2])], pairs)
             * (DistanceScale \div Cardinality(pairs))

\* _score, which ends in the ids and so orders placements totally.
Score(j, view, P) ==
  LET ns == NodesOf(P)
      spans == IF TopologyMode[j] \in {"prefer_same_rack", "require_same_rack"}
               THEN {RackDomain(n) : n \in ns} ELSE ns
  IN  <<Cardinality(spans),
        Max({0} \cup {Distance(p[1], p[2]) : p \in PairsOf(ns)}),
        AverageDistance(ns),
        FragmentationDelta(view, P),
        Waste(j, P)>>
      \o InOrder(P, [g \in P |-> <<g>>])

\* _place_candidates.
Localised(j, n, eligible, view) ==
  LET feasible == {P \in Candidates(j, n, eligible) : RequirementMet(j, P)}
      score == [P \in feasible |-> Score(j, view, P)]
  IN  UNION Least(feasible, score)

\* place: a gang tries one vendor after the other.
TopologyPlace(j, n, view) ==
  LET hosts == Hosts(j, view)
      On(w) == Localised(j, n, OfVendor(hosts, w), view)
      found == {w \in Vendors(hosts) : On(w) # {}}
  IN  IF n <= 1 THEN Localised(j, n, hosts, view)
      ELSE IF found = {} THEN {} ELSE On(Min(found))

-----------------------------------------------------------------------------
(* The other placement schedulers. All but the vendor preference leave a   *)
(* topology requirement to TopologyAwareScheduler.                         *)

\* The first n eligible GPUs by a scheduler's order, if there are as many.
Ordered(j, n, view, key) ==
  LET eligible == Eligible(j, n, view)
  IN  IF Cardinality(eligible) < n THEN {} ELSE First(eligible, n, key)

\* FIFOScheduler: in the order of the cluster file.
FIFOPlace(j, n, view) ==
  IF Requires(j) THEN TopologyPlace(j, n, view)
  ELSE Ordered(j, n, view, [g \in GPUs |-> <<NodeOf[g], g>>])

OccupiedOn(view, m) == Cardinality(view.occupied \cap OnNode(m))

\* SpreadScheduler: round robin over the nodes, least loaded first. The rank of a GPU
\* within its node is the round that takes it.
SpreadPlace(j, n, view) ==
  LET eligible == Eligible(j, n, view)
      Rank(g) == Cardinality({h \in eligible \cap OnNode(NodeOf[g]) :
                                Less(<<Slack(j, h), h>>, <<Slack(j, g), g>>)})
      key == [g \in eligible |-> <<Rank(g), OccupiedOn(view, NodeOf[g]), NodeOf[g]>>]
  IN  IF Requires(j) THEN TopologyPlace(j, n, view) ELSE Ordered(j, n, view, key)

\* BinPackScheduler: fullest nodes first, then the smallest free block, then the
\* tightest memory fit.
BinPackPlace(j, n, view) ==
  LET eligible == Eligible(j, n, view)
      NodeKey(m) ==
        LET used == OccupiedOn(view, m)
            here == eligible \cap OnNode(m)
        IN  <<IF used = 0 THEN 1 ELSE 0, -used, Cardinality(here), Waste(j, here), m>>
      key == [g \in eligible |-> NodeKey(NodeOf[g]) \o <<Slack(j, g), g>>]
  IN  IF Requires(j) THEN TopologyPlace(j, n, view) ELSE Ordered(j, n, view, key)

\* VendorPreferenceScheduler: the preferred vendor, then the others in order; GPUs of
\* an unknown vendor are never used.
VendorPlace(preferred, j, n, view) ==
  LET available == Vendors(view.gpus \cap Compatible[j]) \ {UnknownVendor}
      On(w) == TopologyPlace(j, n, VendorView(view, w))
      found == {w \in available : On(w) # {}}
  IN  IF found = {} THEN {}
      ELSE IF preferred \in found THEN On(preferred) ELSE On(Min(found))

-----------------------------------------------------------------------------
(* What a placement must be, whatever the scheduler.                       *)

\* A gang: n free compatible GPUs of one vendor that meet the topology requirement.
IsPlacement(j, n, view, P) ==
  /\ P \subseteq Hosts(j, view)
  /\ Cardinality(P) = n
  /\ Cardinality(Vendors(P)) = 1
  /\ RequirementMet(j, P)

Feasible(j, n, view) == \E P \in kSubset(n, Hosts(j, view)) : IsPlacement(j, n, view, P)
=============================================================================
