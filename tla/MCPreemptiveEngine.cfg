CONSTANTS
  Jobs = {1, 2, 3, 4}
  GPUs = {1, 2, 3, 4}
  Nodes = {1, 2}
  NodeOf <- MCNodeOf
  VendorOf <- MCVendorOf
  GpuMemory <- MCGpuMemory
  JobMemory <- MCJobMemory
  JobVendors <- MCJobVendors
  GpuCount <- MCGpuCount
  CheckpointCost <- MCCheckpointCost
  RestartCost <- MCRestartCost
  AgingInterval = 3
  Scenarios <- MCScenarios
  None <- MCNone
SPECIFICATION Spec
INVARIANTS
  TypeOK
  OneLiveEvent
  PassTriesQueuedJobs
  ReservationAwaitsVictim
  NothingLeftBehind
  EvictionPaysOff
PROPERTIES
  ProgressConserved
  NoReverseEviction
  ImplementsLifecycle
  Terminates
