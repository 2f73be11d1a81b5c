\* Three workers: one may miss the notification, two others compete to leave.
CONSTANTS
    N = 3
    M = 2
    Addr = {a1, a2}
    NULL = NULL
    MaxSpurious = 1
    DelayedStore = FALSE
SPECIFICATION FairSpec
INVARIANTS TypeOK NoStrandedSleeper
PROPERTY ShutsDown
