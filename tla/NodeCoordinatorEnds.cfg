SPECIFICATION Spec
CONSTANTS
  MaxSessions = 3
  Refusals = {}
PROPERTY
  AttemptEnds
CHECK_DEADLOCK FALSE
