--------------------------- MODULE MCJobLifecycle ---------------------------
(* Small instances of JobLifecycle: a job that checkpoints and restarts, an  *)
(* elastic job and a rigid gang, on three GPUs of two nodes; and the first   *)
(* two of these jobs alone on two GPUs, for more generations.                *)
EXTENDS JobLifecycle

CONSTANTS a, b, c, g1, g2, g3, n1, n2

MCNodeOf == [g \in {g1, g2, g3} |-> IF g = g3 THEN n2 ELSE n1]
MCVendorOf == [g \in {g1, g2, g3} |-> "nvidia"]
MCCompatible == [j \in {a, b, c} |-> {g1, g2, g3}]
MCReplicas == [j \in {a, b, c} |-> IF j = a THEN {1} ELSE IF j = b THEN {1, 2} ELSE {2}]

MCPairNodeOf == [g \in {g1, g3} |-> IF g = g3 THEN n2 ELSE n1]
MCPairVendorOf == [g \in {g1, g3} |-> "nvidia"]
MCPairCompatible == [j \in {a, b} |-> {g1, g3}]
MCPairReplicas == [j \in {a, b} |-> IF j = a THEN {1} ELSE {1, 2}]
=============================================================================
