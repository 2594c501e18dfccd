CONSTANTS
  Jobs = {1, 2, 3}
  GPUs = {1, 2}
  Nodes = {1, 2}
  NodeOf <- MCKeptNodeOf
  VendorOf <- MCIdlePair
  GpuMemory <- MCIdlePair
  JobMemory <- MCUniform
  JobVendors <- MCVendors
  GpuCount <- MCKeptGpuCount
  CheckpointCost <- MCKeptCheckpointCost
  RestartCost <- MCIdleCost
  AgingInterval = 3
  Scenarios <- MCKeptScenarios
  None <- MCNone
SPECIFICATION Spec
PROPERTIES
  ReservationKept
