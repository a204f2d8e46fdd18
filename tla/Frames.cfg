\* One CPU grows the areas of two processes until the device is used up; the frame
\* field is just wide enough.
CONSTANTS
  CPU = {c1}
  Proc = {p1, p2}
  numfp = 4
  FPN_HIBIT = 1
  PAGES = 4
  MAX_REQUEST = 3
  Stale = {{}, {0, 5}, {1, 28, 30}}
SPECIFICATION FramesSpec
INVARIANTS
  FramesTypeOK
  FrameGivenOnce
  EntriesApart
PROPERTY PoolRefined
