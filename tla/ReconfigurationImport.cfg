SPECIFICATION FilesSpec
CONSTANTS
  MaxConfigurations = 1
  Tickets = {1}
  MaxInterruptions = 1
INVARIANT
  ImportIsIdempotent
CHECK_DEADLOCK FALSE
