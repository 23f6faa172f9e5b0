SPECIFICATION Spec
CONSTANTS
  Nodes = {n1}
  MaxSlots = 2
  MaxSessions = 4
  Refusals = {"command", "retirement", "install", "ready", "commit"}
INVARIANTS
  TypeOK
  OnePendingPerNode
  RevokedForGood
  StrayIsSilent
PROPERTY
  RevocationEnds
CHECK_DEADLOCK FALSE
