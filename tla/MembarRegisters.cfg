SPECIFICATION Spec
CONSTANTS
  NThreads = 2
  Turns = {0, 1, 2}
  Buffers <- MCBuffers
  Families <- OnlyHolding
INVARIANT RegisterTilesOrdered
CHECK_DEADLOCK FALSE
