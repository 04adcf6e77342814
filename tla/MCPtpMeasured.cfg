SPECIFICATION Spec
CONSTANTS
  U64 = 64
  U8 = 16
  Server <- OneServer
  Flags <- TwoStep
  Domain <- SameDomain
  Shared = {}
  Offset <- OwnClocks
  SyncTarget = 2
  AnnounceSeq = {1}
  MaxSync = 2
  LastSync <- AllSyncs
  Wraps = FALSE
  Clock = {0, 2}
INVARIANT EachMeasured
CHECK_DEADLOCK FALSE
