SPECIFICATION Spec
CONSTANTS
    Failure <- MCFailure
    Grants <- MCGrants
    MaxTries = 1
    MaxAttempt = 2
    MaxEpoch = 2
    MaxEvents = 2
INVARIANTS
    TypeOK
    NeedsActionNotified
    ResolvedSettled
PROPERTIES
    UnknownBlocks
    ParentWaitsForRepair
    AtMostOnceAction
CHECK_DEADLOCK FALSE
