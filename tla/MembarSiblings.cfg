SPECIFICATION Spec
CONSTANTS
  NThreads = 2
  Turns = {0, 1, 2}
  Buffers <- MCBuffers
  Families <- OnlyLooping
INVARIANT EveryPathOrdered
CHECK_DEADLOCK FALSE
