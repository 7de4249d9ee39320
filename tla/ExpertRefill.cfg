SPECIFICATION Spec
CONSTANTS
    Blocks = 1
    Experts = 9
    Used = 1
    PerBlocks = {2}
    HostSlots = 8
    Ahead = 1
    Wide <- MCWide
    HostShare = 0
    Traffics <- MCPromptBetween
    MayCool = FALSE
INVARIANT ReadsOwn
CHECK_DEADLOCK FALSE
