CONSTANTS
  Configs = {"A", "B"}
  PlansOf <- MCPlansOf
  MaxRetries = 1
  WarmupRuns = 0
  Workers = {1, 2}
  MaxInvocations = 3
  None <- MCNone
SPECIFICATION Spec
CHECK_DEADLOCK FALSE
INVARIANTS
  TypeOK
  BundleConsistent
  AttemptsOnRecord
PROPERTIES
  ResumeTrustsDisk
