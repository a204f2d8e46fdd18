\* What page replacement does to stored bytes.
CONSTANTS
  p1 = p1
  p2 = p2
  x = x
  none = none
  Proc <- OneProc
  RgId = {0}
  Sizes <- AllSizes
  Offsets <- AllOffsets
  Data <- TwoValues
  NoData = none
  RAM = 3
  SWP = 2
  PAGESZ = 2
  PAGE_SIZE = 4
  MAX_PGN = 6
  MAX_FIFO = 2
  MAX_BRK = 8
  NAME = 3
SPECIFICATION Spec
INVARIANT DataKept
