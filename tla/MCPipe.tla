------------------------------- MODULE MCPipe -------------------------------
(* Small instances of Pipe; the tasks that did not create the pipe are alike. *)
EXTENDS Pipe, TLC

Children == Permutations(Task \ {Creator})
============================================================================
