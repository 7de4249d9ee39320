SPECIFICATION Spec
CONSTANTS
  NThreads = 2
  Turns = {0, 1, 2}
  Buffers <- MCBuffers
  Families <- MCFamilies
INVARIANT BarriersSuffice
CHECK_DEADLOCK FALSE
