SPECIFICATION FairSpec
CONSTANTS
    Sizes = {3}
    Steps = 2
    Blocks = 1
    MissCounts = {0, 2}
    UpChunks = 1
    DownChunks = 1
    RunOk = FALSE
    PanicPhases = {3}
    MaxPanic = 1
    MaxFail = 0
    MaxAbort = 0
INVARIANTS
    PanicReported
CHECK_DEADLOCK FALSE
