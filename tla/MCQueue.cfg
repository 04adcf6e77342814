SPECIFICATION MCSpec
CONSTANTS
  SlotNum = 4
  Packet = {b, p, q}
  Blank = b
  MaxPublished = 6
INVARIANT TypeOK
PROPERTY FifoSpec
