SPECIFICATION TimelySpec
CONSTANTS
  U64 = 64
  U8 = 16
  Server <- TwoServers
  Flags <- TwoStep
  Domain <- OwnDomains
  Shared = {}
  Offset <- OwnClocks
  SyncTarget = 3
  AnnounceSeq = {0, 1, 2, 3}
  MaxSync = 3
  LastSync <- AllSyncs
  Wraps = TRUE
  Clock = {0}
PROPERTY EventuallySynced
CHECK_DEADLOCK FALSE
