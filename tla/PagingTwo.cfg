\* Two processes share three frames of memory and two of swap.
CONSTANTS
  p1 = p1
  p2 = p2
  x = x
  none = none
  Proc <- TwoProcs
  RgId = {0}
  Sizes <- BigSizes
  Offsets <- AllOffsets
  Data <- NoMore
  NoData = none
  RAM = 3
  SWP = 2
  PAGESZ = 2
  PAGE_SIZE = 4
  MAX_PGN = 6
  MAX_FIFO = 2
  MAX_BRK = 8
  NAME = 3
SPECIFICATION Spec
INVARIANTS
  IsolationUntilFault
  BreakOrder
  
  NoFrameLost
SYMMETRY ProcSymmetry
