------------------------------ MODULE MCMemory ------------------------------
(* Memory for TLC: processes are interchangeable. *)
EXTENDS Memory, TLC

Symmetry == Permutations(Proc)
=============================================================================
