SPECIFICATION Spec
CONSTANTS
  a = a
  b = b
  v = v
  Worker = {a}
  Verifier = v
  DependsOn <- ChainDependsOn1
  RetryLimit = 1
  MaxAttempt = 3
  MaxEpoch = 3
  MaxRev = 9
PROPERTIES
  ArchiveSparesAllocation
CHECK_DEADLOCK FALSE
