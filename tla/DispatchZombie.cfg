SPECIFICATION Spec
CONSTANTS
    Width = 3
    NKeys = 2
    ChainLen = 3
    SegLen = 2
    Budget = 1
    SegBytes = 1
    Rmw = FALSE
    MayCrash <- SecondNode
    MayStall <- SecondNode
    MaxBroken = 0
    Stale <- StaleUnknown
INVARIANTS
    TypeOK
    OutputCovered
    InflightExact
    Accounting
    DurableIsStored
PROPERTIES
    JobPromise
CHECK_DEADLOCK FALSE
