SPECIFICATION Spec
CONSTANTS
  node = node
  Sessions <- MCSessions
  Owners <- MCOwners
  OwnerOf <- MCOwnerOf
  CreatedNs <- MCCreatedNs
  CommandCap = 2
  EventCap = 1
  RetirementCap = 1
  AckCap = 1
  TableCap = 2
  MaxPublications = 1
INVARIANTS
  RetiredStaysGone
  OneTransmitter
  RoutesFollowSessions
  NoRollback
  NoOrphanSession
  RetiredOnce
  RevocationReachesData
PROPERTIES
  OfflineIsErased
CHECK_DEADLOCK FALSE
