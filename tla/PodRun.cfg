SPECIFICATION FairSpec
CONSTANTS
    Jobs <- PassingJobs
    MaxIoFail = 1
INVARIANTS
    TypeOK
    SlabsDisjoint
    StoredWhole
    ServedBeforeFreed
CHECK_DEADLOCK FALSE
PROPERTIES
    StallsAreFinal
    JobEnds
