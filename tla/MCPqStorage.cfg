SPECIFICATION Spec
CONSTANTS
    Threads = {t1, t2, t3, t4, t5}
    NULL = NULL
    Junk = Junk
    Priorities = {0, 1, 2}
SYMMETRY ThreadSymmetry
INVARIANTS
    TypeOK
    InBounds
    HoldsWhatItShould
