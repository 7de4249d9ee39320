SPECIFICATION Spec
CONSTANTS
  NThreads = 3
  WarpSize = 2
  Size = 2
  LoopTurns = {2, 5, 6}
  Kernels <- MCKernels
INVARIANTS TypeOK CleanMeansNoRace RacesAreReal LaterExactFound
CHECK_DEADLOCK FALSE
