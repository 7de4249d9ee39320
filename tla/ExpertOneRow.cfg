SPECIFICATION Spec
CONSTANTS
    Blocks = 2
    Experts = 3
    Used = 1
    PerBlocks = {1}
    HostSlots = 5
    Ahead = 2
    Wide <- MCWide
    HostShare = 0
    Traffics <- MCHostRows
    MayCool = FALSE
INVARIANT NoLateCopy
CHECK_DEADLOCK FALSE
