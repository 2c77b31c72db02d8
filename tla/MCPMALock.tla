----------------------------- MODULE MCPMALock -----------------------------
(* Three threads, interchangeable. *)
EXTENDS PMALock, TLC
Symmetry == Permutations(Thread)
=============================================================================
