CONSTANTS
  a = a
  b = b
  c = c
  g1 = g1
  g2 = g2
  g3 = g3
  n1 = n1
  n2 = n2
  Jobs = {a, b, c}
  GPUs = {g1, g2, g3}
  Nodes = {n1, n2}
  NodeOf <- MCNodeOf
  VendorOf <- MCVendorOf
  Compatible <- MCCompatible
  Replicas <- MCReplicas
  CheckpointJobs = {a}
  RestartJobs = {a}
  RunGenerations = {0, 1, 2}
  None = None
SPECIFICATION Spec
INVARIANTS
  TypeOK
  OwnershipAgrees
  NoJobLost
  VictimsReturn
  ReservationsSound
  NoLostCapacityInUse
