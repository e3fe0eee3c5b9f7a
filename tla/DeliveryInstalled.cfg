SPECIFICATION Spec
CONSTANTS
  Objective = {1}
  Required <- Publication
  Local = {1}
  Reversible = {}
  AttemptLimit = 1
PROPERTIES
  InstalledIsRecognised
CHECK_DEADLOCK FALSE
