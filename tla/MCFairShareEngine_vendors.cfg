CONSTANTS
  Jobs = {1, 2, 3}
  GPUs = {1, 2}
  Nodes = {1}
  NodeOf <- VNodeOf
  VendorOf <- VVendorOf
  UnknownVendor = 9
  GpuMemory <- VGpus
  Zone <- VRack
  Rack <- VRack
  JobMemory <- VOnes
  JobVendors <- VJobVendors
  TopologyMode <- VModes
  ElasticJobs = {}
  GpuCount <- VOnes
  MinReplicas <- VOnes
  PreferredReplicas <- VOnes
  CheckpointCost <- VOffset
  RestartCost <- VOffset
  AgingInterval = 60
  Scenarios <- VScenarios
  Queues = {1, 2, 3}
  Root = 1
  Parent <- VParent
  Path <- VPath
  Guarantee <- VGuarantee
  Limit <- VNoLimit
  NoBorrowing = {}
  Units <- VGpus
  Weight <- VOnes
  PriorityOffset <- VOffset
  NotReclaimable = {}
  HalfLife = 1
  None <- MCNone
SPECIFICATION Spec
INVARIANTS
  ReclaimCommits
