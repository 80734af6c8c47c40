SPECIFICATION Spec
CONSTANTS
    Threads = {t1, t2}
    Main = Main
    NULL = NULL
    SO_MAX_PRIO = 1
    MaxQuantum = 2
    Width = 8
    EagerForks = FALSE
    UpwardForks = TRUE
SYMMETRY ThreadSymmetry
INVARIANT OneAtATime
CHECK_DEADLOCK FALSE
