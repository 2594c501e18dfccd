CONSTANTS
  Configs = {"A"}
  PlansOf <- MCThreePlansOf
  MaxRetries = 0
  WarmupRuns = 1
  Workers = {1, 2}
  MaxInvocations = 2
  None <- MCNone
SPECIFICATION Spec
CHECK_DEADLOCK FALSE
INVARIANTS
  BundleConsistent
PROPERTIES
  NoSuccessLost
  InvocationEnds
