----------------------------- MODULE MCProcess -----------------------------
(* Small instances of Process.  Process numbers are model values; all but the *)
(* first process and those kill(2) is used on are interchangeable.            *)
EXTENDS Process, TLC

Alike == Permutations(Proc \ ({Pid1} \cup Killed))
============================================================================
