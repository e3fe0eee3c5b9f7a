SPECIFICATION FairSpec
CONSTANTS
  c1 = c1
  c2 = c2
  t1 = t1
  t2 = t2
  x1 = x1
  x2 = x2
  None = None
  Command = {c1, c2}
  Task = {t1, t2}
  Context = {x1, x2}
  RetryLimit = 3
  AttemptLimit = 2
  MaxEpoch = 2
INVARIANTS
  TypeOK
  ReservationHolds
  SessionTaskCurrent
  AttemptsWithinBudget
PROPERTIES
  ReplanAfterValidationOnly
  EveryRequestTried
CHECK_DEADLOCK FALSE
