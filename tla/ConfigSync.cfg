SPECIFICATION FairSyncSpec
CONSTANTS
  Gateways = {g1}
  Admins = {a1, a2}
  NumParts = 2
  MaxVersion = 3
  MaxFailures = 1
  MaxEpoch = 2
INVARIANTS SyncTypeOK NoVersionMissed
PROPERTIES CacheMovesForward VersionsConverge
CHECK_DEADLOCK FALSE
