SPECIFICATION FilesSpec
CONSTANTS
  MaxConfigurations = 3
  Tickets = {1}
  MaxInterruptions = 3
INVARIANTS
  StartsWhole
  RunsWhatWasReported
PROPERTY
  AllOrNothing
CHECK_DEADLOCK FALSE
