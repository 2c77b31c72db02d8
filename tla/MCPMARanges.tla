---------------------------- MODULE MCPMARanges ----------------------------
(* PMARanges for TLC: tasks are interchangeable. *)
EXTENDS PMARanges, TLC

Symmetry == Permutations(Task)
=============================================================================
