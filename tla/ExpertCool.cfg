SPECIFICATION Spec
CONSTANTS
    Blocks = 2
    Experts = 3
    Used = 1
    PerBlocks = {2}
    HostSlots = 4
    Ahead = 2
    Wide <- MCWide
    HostShare = 3
    Traffics <- MCThenPrompt
    MayCool = TRUE
INVARIANT ReadsOwn
CHECK_DEADLOCK FALSE
