--------------------------- MODULE MCPagePoolCalls ---------------------------
(* Small instances of PagePoolCalls.tla for TLC. *)
EXTENDS PagePoolCalls, TLC

Symmetry == Permutations(Threads)
=============================================================================
