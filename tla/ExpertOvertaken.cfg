SPECIFICATION Spec
CONSTANTS
    Blocks = 2
    Experts = 3
    Used = 1
    PerBlocks = {2}
    HostSlots = 4
    Ahead = 2
    Wide <- MCWide
    HostShare = 0
    Traffics <- MCCopiedRows
    MayCool = FALSE
INVARIANT ReadsOwn
CHECK_DEADLOCK FALSE
