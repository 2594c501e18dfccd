CONSTANTS
  Jobs = {1, 2, 3}
  GPUs = {1, 2, 3, 4}
  Nodes = {1, 2, 3}
  NodeOf <- RNodeOf
  VendorOf <- RVendorOf
  UnknownVendor = 9
  Ascend = 1
  Nvidia = 2
  GpuMemory <- RGpuMemory
  Zone <- RRack
  Rack <- RRack
  JobMemory <- RJobMemory
  JobVendors <- RJobVendors
  TopologyMode <- RModes
  ElasticJobs = {}
  GpuCount <- RGpuCount
  MinReplicas <- RGpuCount
  PreferredReplicas <- RGpuCount
  CheckpointCost <- RCheckpointCost
  RestartCost <- RRestartCost
  AgingInterval = 60
  Scenarios <- RScenarios
  None <- MCNone
SPECIFICATION Spec
PROPERTIES
  BackfillEndsInTime
