-------------------------- MODULE MCFairShareEngine --------------------------
(* Instances of FairShareEngine. Times are multiples of four, so that a job that *)
(* changes between one and two replicas still ends at a whole time.              *)
EXTENDS FairShareEngine

MCNone == -1

\* Queues: 1 root, 2 and its leaves 3 and 4, 5 and its leaf 6. The guarantee of 2 covers
\* that of 3; 4 borrows all it uses; 5 has a guarantee
\* that cuts a GPU in two.
MCParent == <<1, 1, 2, 2, 1, 5>>
MCPath == <<<<1>>, <<2, 1>>, <<3, 2, 1>>, <<4, 2, 1>>, <<5, 1>>, <<6, 5, 1>>>>
MCNoQuota == [d \in {} |-> 0]
MCUnits(n) == [d \in {"gpu_units"} |-> n]
MCGuarantee ==
  <<MCNoQuota, [d \in Dims |-> 4], MCUnits(4), MCNoQuota, MCUnits(3), MCNoQuota>>
MCLimit == <<MCNoQuota, MCNoQuota, MCNoQuota, MCUnits(2), MCUnits(6), MCNoQuota>>
MCWeight == <<1, 2, 1, 1, 1, 1>>
MCOffset == <<0, 0, 0, 1, 0, 0>>

\* Two light GPUs on node 1, two heavier ones with more memory on node 2.
MCNodeOf == <<1, 1, 2, 2>>
MCUniform == <<1, 1, 1, 1>>
MCGpuMemory == <<1, 1, 2, 2>>
MCGpuUnits == <<2, 2, 4, 4>>
MCRack == <<1, MCNone>>

\* Job 1 is elastic, job 2 checkpoints and restarts, job 3 is the one that reclaims most,
\* job 4 needs a GPU with more memory.
MCJobMemory == <<1, 1, 1, 2>>
MCJobVendors == <<{1}, {1}, {1}, {1}>>
MCModes == <<"none", "none", "prefer_same_rack", "require_same_node">>
MCGpuCount == <<1, 1, 2, 1>>
MCMinReplicas == <<1, 1, 2, 1>>
MCPreferredReplicas == <<2, 1, 2, 1>>
MCCheckpointCost == <<0, 8, 0, 0>>
MCRestartCost == <<0, 4, 0, 0>>

MCScenario ==
  [arrival |-> <<0, 0, 4, 4>>, duration |-> <<6, 12, 4, 8>>, priority |-> <<1, 1, 1, 1>>,
   queue |-> <<6, 4, 3, 3>>, fleet |-> {}, down |-> {}, policy |-> "fairshare-reclaim",
   quotaAware |-> TRUE]

\* Who reclaims from whom, and in which order the jobs come.
MCQueues ==
  {[MCScenario EXCEPT !.arrival = a, !.duration[1] = d, !.priority[2] = p, !.queue = q] :
     d \in {6, 8}, p \in {0, 1},
     a \in {<<0, 0, 4, 4>>, <<0, 0, 4, 8>>, <<0, 4, 8, 4>>, <<0, 0, 8, 0>>},
     q \in {5, 6} \X {4, 6} \X {3} \X {3, 4, 6}}

\* Node 2 fails or drains in the middle of a reclaim, or joins late.
MCFleet ==
  {[MCScenario EXCEPT !.fleet = {Event(8, k, n, 0), Event(12, "NODE_RECOVER", n, 0)},
                      !.queue = <<6, q, 3, 6>>] :
     k \in {"NODE_DRAIN", "NODE_FAIL"}, n \in Nodes, q \in {4, 6}}
  \cup
  {[MCScenario EXCEPT !.fleet = f, !.down = {2}] : f \in {{}, {Event(8, "NODE_JOIN", 2, 0)}}}

\* The schedulers that do not reclaim, and the one that orders queues by past usage.
MCPolicies ==
  {[MCScenario EXCEPT !.policy = p, !.queue = <<6, q, 3, 6>>] :
     p \in {"drf", "fairshare-no-borrow"}, q \in {4, 6}}
  \cup
  {[MCScenario EXCEPT !.policy = "historical-drf", !.arrival = a, !.queue = q] :
     a \in {<<0, 0, 4, 4>>, <<0, 4, 8, 4>>, <<0, 8, 8, 0>>},
     q \in {<<6, 4, 3, 6>>, <<6, 4, 3, 3>>, <<5, 3, 6, 4>>}}

MCScenarios == MCQueues \cup MCFleet \cup MCPolicies

-----------------------------------------------------------------------------
\* Two vendors on one node. Queue 2 is guaranteed one unit, queue 3 nothing; job 1 uses
\* that unit on one vendor when job 3 asks for the other vendor's GPU, which job 2 has.
VParent == <<1, 1, 1>>
VPath == <<<<1>>, <<2, 1>>, <<3, 1>>>>
VGuarantee == <<MCNoQuota, MCUnits(1), MCNoQuota>>
VNoLimit == <<MCNoQuota, MCNoQuota, MCNoQuota>>
VOnes == <<1, 1, 1>>
VOffset == <<0, 0, 0>>
VNodeOf == <<1, 1>>
VVendorOf == <<2, 1>>
VGpus == <<1, 1>>
VRack == <<1>>
VJobVendors == <<{1}, {2}, {2}>>
VModes == <<"none", "none", "none">>
VScenarios ==
  {[MCScenario EXCEPT !.arrival = a, !.duration = <<10, 10, 5>>, !.priority = VOnes,
                      !.queue = q] :
     a \in {<<0, 0, 0>>, <<0, 0, 1>>, <<1, 0, 1>>}, q \in {<<2, 3, 2>>, <<2, 2, 3>>}}
=============================================================================
