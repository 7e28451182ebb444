--------------------------- MODULE MCKdfSemaphore ---------------------------
(* KdfSemaphore with fewer and with more threads than permits. *)
EXTENDS KdfSemaphore, TLC

Symmetry == Permutations(Threads)
=============================================================================
