SPECIFICATION SyncSpec
CONSTANTS
  MaxGeneration = 2
  MaxSessions = 2
  Chunks = 2
  MaxFaults = 1
  Faults = {"refused", "offline", "reset", "rekey"}
INVARIANT
  AcknowledgedStays
PROPERTY
  Converges
CHECK_DEADLOCK FALSE
