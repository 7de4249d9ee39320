SPECIFICATION Spec
CONSTANTS
    Jobs <- TwoSizes
    MaxIoFail = 0
INVARIANTS
    NoStall
CHECK_DEADLOCK FALSE
