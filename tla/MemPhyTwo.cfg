\* Two CPUs execute alloc at the same time.
CONSTANTS
  CPU = {c1, c2}
  numfp = 3
SPECIFICATION Spec
INVARIANT FrameGivenOnce
