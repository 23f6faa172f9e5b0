SPECIFICATION Spec
CONSTANTS
  Keys = {"k"}
  Requests = {"change", "export", "restart"}
  Exports = {"export"}
  Controls = {"restart"}
  None = "nothing"
  Retention = 2
  MaxClock = 4
  MaxSetbacks = 2
INVARIANTS
  AtMostOnce
  ClaimsAreTrue
  ControlIsRecorded
PROPERTY
  ReservationEnds
CHECK_DEADLOCK FALSE
