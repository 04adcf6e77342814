SPECIFICATION FairSpec
CONSTANTS
  SlotNum = 4
  SeqMod = 3
  MaxPackets = 8
INVARIANTS TypeOK DumpedWhole PacketAccounting
PROPERTIES RingSpec PublishedIsDumped
CHECK_DEADLOCK FALSE
