SPECIFICATION FairSpec
CONSTANTS
  Objective = {1}
  Required <- Publication
  Local = {1}
  Reversible = {1}
  AttemptLimit = 2
INVARIANTS
  TypeOK
PROPERTIES
  EffectsOnce
  DispatchReconciled
  RolloutStarts
CHECK_DEADLOCK FALSE
