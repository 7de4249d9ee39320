SPECIFICATION FairSpec
CONSTANTS
    Jobs <- TightFetch
    MaxIoFail = 0
PROPERTIES
    JobEnds
CHECK_DEADLOCK FALSE
