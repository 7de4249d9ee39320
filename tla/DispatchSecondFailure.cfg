SPECIFICATION Spec
CONSTANTS
    Width = 3
    NKeys = 2
    ChainLen = 3
    SegLen = 3
    Budget = 1
    SegBytes = 1
    Rmw = FALSE
    MayCrash <- Others
    MayStall <- NoNode
    MaxBroken = 0
    Stale <- NoStale
INVARIANTS
    OkMeansStored
CHECK_DEADLOCK FALSE
