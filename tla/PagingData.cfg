\* One process stores bytes and replaces pages.
CONSTANTS
  p1 = p1
  p2 = p2
  x = x
  none = none
  Proc <- OneProc
  RgId = {0}
  Sizes <- AllSizes
  Offsets <- FarOffsets
  Data <- TwoValues
  NoData = none
  RAM = 3
  SWP = 1
  PAGESZ = 2
  PAGE_SIZE = 4
  MAX_PGN = 6
  MAX_FIFO = 2
  MAX_BRK = 8
  NAME = 3
SPECIFICATION Spec
INVARIANTS
  TypeOK
  DataKeptUntilFault
