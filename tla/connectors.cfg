SPECIFICATION FairSpec
CONSTANTS
  MaxRetries = 1
  Seats = {1, 2, 3}
  PageSize = 2
  MaxPages = 2
  Fleet <- AllConnectors
  Hidden = {3}
  Vendors <- OneBreach
  MaxChanges = 1
  MaxCalls = 2
INVARIANTS TypeOK Complete CarriedOnce RemovalShows
PROPERTIES OnlyTheNamed Terminates
CHECK_DEADLOCK FALSE
