CONSTANTS
  Jobs = {1, 2, 3}
  GPUs = {1, 2}
  Nodes = {1}
  NodeOf <- ENodeOf
  VendorOf <- EUniform
  UnknownVendor = 9
  Ascend = 1
  Nvidia = 2
  GpuMemory <- EGpuMemory
  Zone <- ERack
  Rack <- ERack
  JobMemory <- RJobMemory
  JobVendors <- RJobVendors
  TopologyMode <- EModes
  ElasticJobs = {3}
  GpuCount <- EGpuCount
  MinReplicas <- EGpuCount
  PreferredReplicas <- EPreferred
  CheckpointCost <- RCheckpointCost
  RestartCost <- ERestartCost
  AgingInterval = 60
  Scenarios <- EScenarios
  None <- MCNone
SPECIFICATION Spec
PROPERTIES
  ReservationHonoured
