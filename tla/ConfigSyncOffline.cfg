SPECIFICATION SyncSpec
CONSTANTS
  MaxGeneration = 2
  MaxSessions = 1
  Chunks = 1
  MaxFaults = 1
  Faults = {"offline"}
INVARIANT
  MasterKeepsRunning
CHECK_DEADLOCK FALSE
