SPECIFICATION Spec
CONSTANTS
  SlotNum = 4
  DataLen = 1
  SeqMod = 3
  Samples = 3
  TsMask = 16
  TsMod = 64
  ClockTs = {20}
  MaxBlocks = 3
INVARIANT MediaClockStep
CHECK_DEADLOCK FALSE
