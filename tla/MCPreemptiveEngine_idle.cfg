CONSTANTS
  Jobs = {1, 2, 3}
  GPUs = {1, 2}
  Nodes = {1}
  NodeOf <- MCIdleNodeOf
  VendorOf <- MCIdlePair
  GpuMemory <- MCIdlePair
  JobMemory <- MCUniform
  JobVendors <- MCVendors
  GpuCount <- MCIdleGpuCount
  CheckpointCost <- MCIdleCost
  RestartCost <- MCIdleCost
  AgingInterval = 3
  Scenarios <- MCIdleScenarios
  None <- MCNone
SPECIFICATION Spec
INVARIANTS
  NoIdleCapacity
