SPECIFICATION ProgramSpec
CONSTANTS
  SlotNum = 2
  U64 = 64
  U8 = 4
  Server = {1, 2}
  Seqid = {0}
  SyncTarget = 1
  AnnounceTimeout = 1
  PtpTimeout = 1
  SapTimeout = 1
  IntMod = 4
  MaxStep = 1
  Horizon = 4
  Session <- MCSession
INVARIANTS TypeOK ThreadsHaveContext GivenBackOnce NothingLeft ClosedUnlessFailed SomeoneGoesOn SessionLeftBehind SapFits SapReadBack
PROPERTIES SignalEnds LifeCountsDown DeletesWhatItAnnounced StepsOfDevice ProgressOfDevice StepsOfNetworkLoop
CHECK_DEADLOCK FALSE
