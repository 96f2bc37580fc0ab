----------------------------- MODULE AtomicDisk -----------------------------
(***************************************************************************)
(* What the file system's journal promises to the file system: a disk on   *)
(* which groups of operations are atomic.  Operations overlap freely and   *)
(* write single blocks; what they wrote becomes durable only all at once,  *)
(* at a moment when no operation is open; a crash takes the contents back  *)
(* to the last such moment.  kernel/xv6log.c implements it (Xv6Log).       *)
(***************************************************************************)
CONSTANTS Proc,     \* tasks that run file system operations
          Block,    \* home block numbers
          Val       \* block contents

VARIABLES durable,  \* the contents a crash would leave
          current,  \* the contents a running task reads
          open      \* the tasks inside begin_op .. end_op

vars == <<durable, current, open>>

Init == /\ durable \in [Block -> Val]
        /\ current = durable
        /\ open = {}

Begin(p) == /\ p \notin open
            /\ open' = open \cup {p}
            /\ UNCHANGED <<durable, current>>

Write(p, b, v) == /\ p \in open
                  /\ current' = [current EXCEPT ![b] = v]
                  /\ UNCHANGED <<durable, open>>

End(p) == /\ p \in open
          /\ open' = open \ {p}
          /\ UNCHANGED <<durable, current>>

Commit == /\ open = {}
          /\ durable' = current
          /\ UNCHANGED <<current, open>>

Crash == /\ current' = durable
         /\ open' = {}
         /\ UNCHANGED durable

Next == \/ \E p \in Proc : Begin(p) \/ End(p)
        \/ \E p \in Proc, b \in Block, v \in Val : Write(p, b, v)
        \/ Commit
        \/ Crash

Spec == Init /\ [][Next]_vars
=============================================================================
