SPECIFICATION Spec
CONSTANTS
  MaxSessions = 3
  Refusals = {"command"}
INVARIANT
  SupersededIsReceiveOnly
CHECK_DEADLOCK FALSE
