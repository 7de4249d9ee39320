SPECIFICATION FairSpec
CONSTANTS
    Width = 2
    NKeys = 1
    ChainLen = 3
    SegLen = 2
    Budget = 1
    SegBytes = 1
    Rmw = TRUE
    MayCrash <- AllNodes
    MayStall <- NoNode
    MaxBroken = 1
    Stale <- NoStale
INVARIANTS
    PlanKeepsBudget
    RepeatsOnlyLost
PROPERTIES
    Termination
    CompletionsTaken
CHECK_DEADLOCK FALSE
