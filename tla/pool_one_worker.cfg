CONSTANTS
    N = 1
    M = 1
    Addr = {a1}
    NULL = NULL
    MaxSpurious = 1
    DelayedStore = FALSE
SPECIFICATION FairSpec
PROPERTY ShutsDown
CHECK_DEADLOCK FALSE
