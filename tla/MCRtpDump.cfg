SPECIFICATION Spec
CONSTANTS
  Hdr = 8
  SampleSize = 2
  Lengths = {7, 8, 9, 20}
  WavHdr = 7
  SizeLen = 2
  ChunkAt = 1
  DataAt = 5
  U32 = 5
  OldSizes = {0, 12}
  Space = 31
  MaxPackets = 2
INVARIANTS TypeOK CountsPayload HeaderIsTrue FramesInPlace
CHECK_DEADLOCK FALSE
