------------------------- MODULE MCSoSchedulerSteps -------------------------
(* Small instances of SoSchedulerSteps for TLC.                             *)
EXTENDS SoSchedulerSteps

ThreadSymmetry == Permutations(Threads)

=============================================================================
