SPECIFICATION Spec
CONSTANTS
    Threads = {t1, t2, t3, t4}
    Main = Main
    NULL = NULL
    SO_MAX_PRIO = 1
    MaxQuantum = 2
    Width = 8
    EagerForks = FALSE
    UpwardForks = FALSE
SYMMETRY ThreadSymmetry
INVARIANT TypeOK
INVARIANT OneAtATime
INVARIANT NoNullDereference
INVARIANT ConsistentAtRest
INVARIANT StuckOnlyWhenWaiting
CHECK_DEADLOCK FALSE
