SPECIFICATION Spec
CONSTANTS
  Objective = {1, 2}
  Required <- TwoRollouts
  Local = {}
  Reversible = {}
  AttemptLimit = 1
VIEW RolloutView
INVARIANTS
  RolloutAlone
CHECK_DEADLOCK FALSE
