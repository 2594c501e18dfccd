CONSTANTS
  Jobs = {1, 2, 3, 4}
  GPUs = {1, 2, 3, 4, 5, 6}
  Nodes = {1, 2, 3, 4}
  NodeOf <- MCNodeOf
  VendorOf <- MCVendorOf
  UnknownVendor = 9
  Ascend = 1
  Nvidia = 2
  GpuMemory <- MCGpuMemory
  Zone <- MCZone
  Rack <- MCRack
  JobMemory <- MCJobMemory
  JobVendors <- MCJobVendors
  TopologyMode <- MCModes
  ElasticJobs = {1}
  GpuCount <- MCGpuCount
  MinReplicas <- MCMinReplicas
  PreferredReplicas <- MCGpuCount
  CheckpointCost <- MCCheckpointCost
  RestartCost <- MCRestartCost
  AgingInterval = 60
  Scenarios <- MCScenarios
  None <- MCNone
SPECIFICATION Spec
INVARIANTS
  TypeOK
  PlacementExact
  CompletionsExact
PROPERTIES
  ReservationHonoured
