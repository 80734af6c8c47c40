SPECIFICATION Spec
CONSTANTS
    Threads = {t1, t2, t3}
    NULL = NULL
    SO_MAX_PRIO = 1
    SO_MAX_NUM_EVENTS = 2
    MaxQuantum = 2
SYMMETRY ThreadSymmetry
INVARIANTS
    TypeOK
    NoThreadLost
    OneProcessor
    RunningIsHighest
    WorkConserving
    QuantumNeverWraps
PROPERTIES
    FreedOnlyWhenDead
    IdleOnlyAfterReturn
    WakesExactlyTheWaiters
    RoundRobinOrder
    ImplementsMultilevelQueue
CHECK_DEADLOCK FALSE
