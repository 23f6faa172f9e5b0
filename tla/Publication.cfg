SPECIFICATION Spec
CONSTANTS
  Live = {"a", "b"}
  FirstLive = "a"
  Capacities = {1, 2}
  CommandCap = 2
  AckCap = 2
  MaxRevisions = 4
  MaxGenerations = 2
  MaxRestarts = 2
  MaxOthers = 2
INVARIANTS
  NeverBroken
  Coherent
  StartsAgain
PROPERTY
  Settles
CHECK_DEADLOCK FALSE
