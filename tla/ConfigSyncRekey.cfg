SPECIFICATION SyncSpec
CONSTANTS
  MaxGeneration = 2
  MaxSessions = 2
  Chunks = 1
  MaxFaults = 1
  Faults = {"rekey"}
INVARIANT
  AckedIsInstalled
CHECK_DEADLOCK FALSE
