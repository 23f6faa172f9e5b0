SPECIFICATION Spec
CONSTANTS
  MaxChecks = 3
  Capacity = 2
  Faults = {"database", "clock", "kill", "worker"}
  MaxFaults = 1
INVARIANTS
  PublishNeverRefused
  OneResultEach
PROPERTY
  RunningEnds
CHECK_DEADLOCK FALSE
