CONSTANTS
  a = a
  b = b
  c = c
  g1 = g1
  g2 = g2
  g3 = g3
  n1 = n1
  n2 = n2
  Jobs = {a, b}
  GPUs = {g1, g3}
  Nodes = {n1, n2}
  NodeOf <- MCPairNodeOf
  VendorOf <- MCPairVendorOf
  Compatible <- MCPairCompatible
  Replicas <- MCPairReplicas
  CheckpointJobs = {a, b}
  RestartJobs = {a}
  RunGenerations = {0, 1, 2, 3, 4}
  None = None
SPECIFICATION Spec
INVARIANTS
  ActiveJobHasEvent
  EventsFenced
