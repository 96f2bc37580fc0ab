------------------------------ MODULE MCXv6Log ------------------------------
(* Model values and symmetry for checking Xv6Log with TLC.                 *)
EXTENDS Xv6Log, TLC

Symmetric == Permutations(Proc) \cup Permutations(Val)
=============================================================================
