SPECIFICATION Spec
CONSTANTS
  U64 = 64
  U8 = 16
  Server <- TwoServers
  Flags <- TwoStep
  Domain <- SameDomain
  Shared = {2}
  Offset <- OwnClocks
  SyncTarget = 2
  AnnounceSeq = {1}
  MaxSync = 2
  LastSync <- FirstLonger
  Wraps = FALSE
  Clock = {0, 2}
INVARIANTS TypeOK MeasuredCoherently BestMeasurementKept
CHECK_DEADLOCK FALSE
