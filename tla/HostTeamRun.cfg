SPECIFICATION FairSpec
CONSTANTS
    Sizes = {1, 3}
    Steps = 2
    Blocks = 1
    MissCounts = {0, 2}
    UpChunks = 1
    DownChunks = 1
    RunOk = TRUE
    PanicPhases = {1, 2, 3}
    MaxPanic = 1
    MaxFail = 1
    MaxAbort = 1
INVARIANTS
    TypeOK
    JobsApart
    PhasesApart
    AddsOwnRow
    OkMeansWhole
PROPERTIES
    StepsEnd
CHECK_DEADLOCK FALSE
