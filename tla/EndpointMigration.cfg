SPECIFICATION Spec
CONSTANTS
  Endpoints = {"a", "b", "c"}
  First = "a"
  Capacity = 2
  WireBound = 2
  MaxDisturbances = 2
INVARIANT
  EndpointsAgree
PROPERTIES
  OnlyProven
  FollowsNode
CHECK_DEADLOCK FALSE
