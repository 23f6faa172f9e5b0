SPECIFICATION Spec
CONSTANTS
  MaxChecks = 2
  Capacity = 2
  Faults = {"clock"}
  MaxFaults = 1
INVARIANT
  ResultsAreRetried
CHECK_DEADLOCK FALSE
