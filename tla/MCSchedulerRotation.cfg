SPECIFICATION FairSpec
CONSTANTS
    Threads = {t1, t2, t3}
    NULL = NULL
    SO_MAX_PRIO = 1
    SO_MAX_NUM_EVENTS = 1
    MaxQuantum = 1
PROPERTY
    ReadyThreadRuns
    EndReturns
CHECK_DEADLOCK FALSE
