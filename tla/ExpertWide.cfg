SPECIFICATION Spec
CONSTANTS
    Blocks = 1
    Experts = 10
    Used = 1
    PerBlocks = {2}
    HostSlots = 9
    Ahead = 2
    Wide <- MCWide
    HostShare = 0
    Traffics <- MCPromptBetween
    MayCool = FALSE
PROPERTY TakenAgainLast
CHECK_DEADLOCK FALSE
