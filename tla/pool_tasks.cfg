\* Three tasks: the list has length 0, 1 and more, and a third task can reuse
\* the address of a freed one.  With a delayed store all workers may sleep
\* through the shutdown for good.
CONSTANTS
    N = 2
    M = 3
    Addr = {a1, a2, a3}
    NULL = NULL
    MaxSpurious = 1
    DelayedStore = TRUE
SPECIFICATION FairSpec
INVARIANT ListIntact
PROPERTIES KeepsPromise EveryTaskRuns
CHECK_DEADLOCK FALSE
