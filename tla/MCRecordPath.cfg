SPECIFICATION FairSpec
CONSTANTS
  SlotNum = 4
  DataLen = 1
  SeqMod = 3
  Samples = 2
  TsMask = 4
  TsMod = 16
  ClockTs = {0, 5}
  MaxBlocks = 6
INVARIANTS TypeOK WireIsStream
PROPERTIES RingSpec PublishedIsSent
CHECK_DEADLOCK FALSE
