--------------------------- MODULE MCSoScheduler ---------------------------
(* Small instances of SoScheduler for TLC.                                  *)
EXTENDS SoScheduler

ThreadSymmetry == Permutations(Threads)

=============================================================================
