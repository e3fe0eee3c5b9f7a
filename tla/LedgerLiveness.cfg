SPECIFICATION FairSpec
CONSTANTS
  a = a
  b = b
  v = v
  Worker = {a}
  Verifier = v
  DependsOn <- ChainDependsOn1
  RetryLimit = 1
  MaxAttempt = 2
  MaxEpoch = 2
  MaxRev = 7
PROPERTIES
  AttemptsEnd
CHECK_DEADLOCK FALSE
