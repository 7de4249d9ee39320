SPECIFICATION FairSpec
CONSTANTS
    Blocks = 2
    Experts = 3
    Used = 1
    PerBlocks = {2, 3}
    HostSlots = 4
    Ahead = 2
    Wide <- MCWide
    HostShare = 3
    Traffics <- MCMixed
    MayCool = TRUE
INVARIANTS TypeOK MapsAgree SourceStable CopiesInTime NeverOutOfSlots
PROPERTIES TakenAgainLast PassesEnd
CHECK_DEADLOCK FALSE
