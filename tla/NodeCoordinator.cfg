SPECIFICATION Spec
CONSTANTS
  MaxSessions = 5
  Refusals = {"command", "retirement", "install", "disk"}
INVARIANTS
  NoStrayPeer
  NeverStranded
PROPERTY
  ActiveOnlyAdvances
CHECK_DEADLOCK FALSE
