----------------------------- MODULE MCVirtioBlk -----------------------------
(* Small instances of VirtioBlk; the tasks are alike.                         *)
EXTENDS VirtioBlk, TLC

Tasks == Permutations(Task)
=============================================================================
