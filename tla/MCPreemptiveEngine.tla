------------------------- MODULE MCPreemptiveEngine -------------------------
(* Instances of PreemptiveEngine. Ids are small integers, so that ties break as *)
(* they do between id strings.                                                  *)
EXTENDS PreemptiveEngine

MCNone == -1

\* Two vendors: node 1 has a GPU of vendor 1 and a bigger one of vendor 2, node 2 one
\* GPU of each.
MCNodeOf == <<1, 1, 2, 2>>
MCVendorOf == <<1, 2, 1, 2>>
MCGpuMemory == <<1, 2, 1, 1>>

\* Jobs 1 and 2 hold one GPU, of any vendor and of vendor 2; job 3 is a gang of two
\* that accepts either vendor; job 4 needs the big GPU. Jobs 2 and 3 checkpoint.
MCJobVendors == <<{1, 2}, {2}, {1, 2}, {1, 2}>>
MCJobMemory == <<1, 1, 1, 2>>
MCGpuCount == <<1, 1, 2, 1>>
MCCheckpointCost == <<0, 2, 3, 0>>
MCRestartCost == <<1, 0, 1, 0>>

\* No fleet event, or one node that drains, fails or is revoked, and comes back.
MCFleet ==
  {{}} \cup
  {{Event(t, k, n, 0), Event(t + 3, "NODE_RECOVER", n, 0)} :
     t \in {2, 3}, k \in {"NODE_DRAIN", "NODE_FAIL"}, n \in Nodes} \cup
  {{Event(t, "CAPACITY_REVOKE", n, 0), Event(t + 2, "CAPACITY_RETURN", n, 0)} :
     t \in {3, 4}, n \in Nodes}

MCScenarios ==
  [arrival : {0} \X {0, 1} \X {0, 1, 2} \X {2, 3},
   duration : {6} \X {4} \X {3, 5} \X {2},
   priority : {0, 1} \X {0, 2} \X {1, 2} \X {2, 3},
   fleet : MCFleet,
   down : {{}}]
  \cup  \* node 2 joins late
  [arrival : {0} \X {0} \X {0, 1} \X {2, 3},
   duration : {6} \X {4} \X {5} \X {2},
   priority : {0, 1} \X {0} \X {1, 2} \X {2, 3},
   fleet : {{Event(3, "NODE_JOIN", 2, 0)}},
   down : {{2}}]
  \cup  \* the gang needs the GPUs of jobs 2 and 4, one of which checkpoints
  [arrival : {0} \X {0} \X {1, 2} \X {0},
   duration : {6} \X {4} \X {3} \X {5, 7},
   priority : {0, 2} \X {0} \X {1, 2} \X {0},
   fleet : MCFleet,
   down : {{}}]
  \cup  \* jobs wait long enough to overtake others
  [arrival : {<<0, 0, 1, t>> : t \in 6 .. 7},
   duration : {<<7, 7, 2, 2>>},
   priority : {1, 2} \X {1, 2} \X {0} \X {1},
   fleet : {{}, {Event(8, "NODE_JOIN", 2, 0)}},
   down : {{2}}]

\* A gang of two holds the cluster, a low job waits and ages, a normal job preempts.
MCUniform == <<1, 1, 1>>
MCVendors == <<{1}, {1}, {1}>>
MCIdleNodeOf == <<1, 1>>
MCIdlePair == <<1, 1>>
MCIdleGpuCount == <<2, 1, 1>>
MCIdleCost == <<0, 0, 0>>
MCIdleScenarios ==
  [arrival : {<<0, 1, t>> : t \in 2 .. 8}, duration : {<<12, 2, 4>>},
   priority : {<<0, 0, 1>>, <<0, 0, 2>>}, fleet : {{}}, down : {{}}]

\* Two checkpointing jobs hold a GPU each when a third, of higher priority, arrives.
MCKeptNodeOf == <<1, 2>>
MCKeptGpuCount == <<1, 1, 1>>
MCKeptCheckpointCost == <<5, 5, 0>>
MCKeptScenarios ==
  [arrival : {<<0, 0, 1>>}, duration : {<<8, 8, 2>>}, priority : {<<0, 0, 1>>, <<0, 0, 2>>},
   fleet : {{}}, down : {{}}]
=============================================================================
