---------------------------- MODULE MCQueueEngine ----------------------------
(* Instances of QueueEngine. *)
EXTENDS QueueEngine

MCNone == -1

\* Node 1 has two NVIDIA GPUs, node 2 one and an Ascend one, node 3, in another rack of
\* the zone, an NVIDIA GPU, node 4, without topology, one of an unknown vendor.
MCNodeOf == <<1, 1, 2, 2, 3, 4>>
MCVendorOf == <<2, 2, 2, 1, 2, 9>>
MCGpuMemory == <<1, 1, 2, 2, 2, 2>>
MCZone == <<1, 1, 1, MCNone>>
MCRack == <<1, 1, 2, MCNone>>

\* Job 1 is elastic and takes two GPUs, job 2 needs a rack, job 3 is single and needs
\* memory, job 4 takes three GPUs; jobs 3 and 4 pay for a restart.
MCJobMemory == <<1, 1, 2, 1>>
MCJobVendors == <<{1, 2, 9}, {1, 2, 9}, {1, 2, 9}, {2}>>
MCModes == <<"prefer_same_node", "require_same_rack", "none", "prefer_same_rack">>
MCGpuCount == <<2, 2, 1, 3>>
MCMinReplicas == <<1, 2, 1, 3>>
MCCheckpointCost == <<0, 0, 0, 0>>
MCRestartCost == <<0, 0, 2, 2>>

MCScenario ==
  [arrival |-> <<0, 0, 0, 0>>, duration |-> <<4, 4, 2, 6>>, priority |-> <<1, 1, 1, 1>>,
   fleet |-> {}, down |-> {}, policy |-> "fifo"]

Fleets ==
  {{}} \cup {{Event(2, k, n, 0), Event(4, "NODE_RECOVER", n, 0)} :
               k \in {"NODE_FAIL", "NODE_DRAIN"}, n \in {1, 2}}

\* Every policy, as the jobs come and as nodes go.
MCPolicies ==
  {[MCScenario EXCEPT !.policy = p, !.arrival = a, !.fleet = f] :
     p \in Policies, f \in Fleets,
     a \in {<<0, 0, 0, 0>>, <<1, 0, 2, 1>>, <<2, 1, 0, 0>>}}

\* Backfill with jobs of many lengths around a gang of three.
MCBackfill ==
  {[MCScenario EXCEPT !.policy = "backfill", !.arrival = a, !.duration = d] :
     a \in {<<0, 2, 2, 1>>, <<1, 2, 2, 0>>, <<2, 0, 2, 1>>, <<0, 0, 3, 2>>},
     d \in {2, 4} \X {2, 3, 5} \X {1, 2, 4} \X {2, 5}}

MCScenarios == MCPolicies \cup MCBackfill

-----------------------------------------------------------------------------
\* Node 1 has two GPUs, nodes 2 and 3 one each. Job 1 holds node 1, job 2 is the gang of
\* three with the reservation, job 3 loses its node and has to restart.
RNodeOf == <<1, 1, 2, 3>>
RVendorOf == <<2, 2, 2, 2>>
RGpuMemory == <<1, 1, 1, 1>>
RRack == <<1, 1, 1>>
RJobMemory == <<1, 1, 1>>
RJobVendors == <<{2}, {2}, {2}>>
RModes == <<"prefer_same_node", "none", "none">>
RGpuCount == <<2, 3, 1>>
RCheckpointCost == <<0, 0, 0>>
RRestartCost == <<0, 0, 6>>
RScenarios ==
  {[MCScenario EXCEPT !.policy = "backfill", !.arrival = <<0, 0, 0>>,
                      !.duration = <<10, 5, d>>, !.priority = RJobMemory,
                      !.fleet = {Event(2, "NODE_FAIL", n, 0)}] :
     d \in {2, 6}, n \in {2, 3}}

-----------------------------------------------------------------------------
\* One node of two GPUs. Job 1 holds one of them until 5, job 2 arrives at 1, needs both and
\* gets the reservation for 5. Job 3 is elastic, asks for one GPU and prefers two, so it runs
\* for twice its duration.
ENodeOf == <<1, 1>>
EUniform == <<2, 2>>
EGpuMemory == <<1, 1>>
ERack == <<1>>
EModes == <<"none", "none", "none">>
EGpuCount == <<1, 2, 1>>
EPreferred == <<1, 2, 2>>
ERestartCost == <<0, 0, 0>>
EScenarios ==
  {[MCScenario EXCEPT !.policy = "backfill", !.arrival = <<0, 1, a>>,
                      !.duration = <<5, 5, d>>, !.priority = RJobMemory] :
     a \in {1, 2}, d \in 1 .. 4}
=============================================================================
