CONSTANTS
  Jobs = {1, 2, 3, 4}
  GPUs = {1, 2, 3, 4}
  Nodes = {1, 2}
  NodeOf <- MCNodeOf
  VendorOf <- MCUniform
  UnknownVendor = 9
  GpuMemory <- MCGpuMemory
  Zone <- MCRack
  Rack <- MCRack
  JobMemory <- MCJobMemory
  JobVendors <- MCJobVendors
  TopologyMode <- MCModes
  ElasticJobs = {1}
  GpuCount <- MCGpuCount
  MinReplicas <- MCMinReplicas
  PreferredReplicas <- MCPreferredReplicas
  CheckpointCost <- MCCheckpointCost
  RestartCost <- MCRestartCost
  AgingInterval = 60
  Scenarios <- MCScenarios
  Queues = {1, 2, 3, 4, 5, 6}
  Root = 1
  Parent <- MCParent
  Path <- MCPath
  Guarantee <- MCGuarantee
  Limit <- MCLimit
  NoBorrowing = {}
  Units <- MCGpuUnits
  Weight <- MCWeight
  PriorityOffset <- MCOffset
  NotReclaimable = {}
  HalfLife = 2
  None <- MCNone
SPECIFICATION Spec
INVARIANTS
  TypeOK
  TimesExact
  NothingLeftBehind
  AdmissionSound
PROPERTIES
  ReclaimOnlySurplus
  WorkConserved
  ImplementsLedger
  ImplementsLifecycle
  Terminates
