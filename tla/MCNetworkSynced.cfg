SPECIFICATION Spec
CONSTANTS
  U64 = 64
  U8 = 4
  Server = {1, 2}
  Seqid = {0, 1}
  SyncTarget = 2
  AnnounceTimeout = 6
  PtpTimeout = 4
  SapTimeout = 8
  IntMod = 10
  MaxStep = 6
  Horizon = 10
INVARIANT AnnouncedWhenSynced
CHECK_DEADLOCK FALSE
