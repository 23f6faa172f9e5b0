SPECIFICATION Spec
CONSTANTS
  Endpoints = {"a", "b", "c"}
  First = "a"
  Capacity = 2
  WireBound = 2
  MaxDisturbances = 3
INVARIANT
  ChallengedWhereObserved
CHECK_DEADLOCK FALSE
