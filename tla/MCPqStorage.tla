---------------------------- MODULE MCPqStorage ----------------------------
(* Small instances of PqStorage for TLC.                                    *)
EXTENDS PqStorage

ThreadSymmetry == Permutations(Threads)

=============================================================================
