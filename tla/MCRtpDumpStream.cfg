SPECIFICATION Spec
CONSTANTS
  Hdr = 8
  SampleSize = 2
  Lengths = {16}
  WavHdr = 7
  SizeLen = 2
  ChunkAt = 1
  DataAt = 5
  U32 = 3
  OldSizes = {0, 12}
  Space = 23
  MaxPackets = 2
INVARIANTS DumpIsStream
CHECK_DEADLOCK FALSE
