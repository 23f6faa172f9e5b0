SPECIFICATION TimedSpec
CONSTANTS
  Nodes = {n1}
  MaxSlots = 1
  MaxSessions = 3
  Refusals = {"command"}
PROPERTY
  DrainEnds
CHECK_DEADLOCK FALSE
