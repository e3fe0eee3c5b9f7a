SPECIFICATION Spec
CONSTANTS
  a = a
  b = b
  v = v
  Worker = {a, b}
  Verifier = v
  DependsOn <- ChainDependsOn
  RetryLimit = 1
  MaxAttempt = 3
  MaxEpoch = 2
  MaxRev = 9
INVARIANTS
  TypeOK
  AcceptedTaskComplete
  NoWriterOvertaken
  RecoverySourceHeld
  
  WorktreeOwned
  RunningIsOwned
  DependentsWaitForRepair
PROPERTIES
  ControlSurvivesWorkers
  LeasesImplemented
CHECK_DEADLOCK FALSE
