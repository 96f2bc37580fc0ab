------------------------------ MODULE WaitQueue ------------------------------
(* The list of a struct wait_queue (kernel/wait.c), its head first: a task    *)
(* that starts to wait goes to the head, and wake_up_one takes the head.      *)
EXTENDS Sequences

On(q, t) == \E i \in DOMAIN q : q[i] = t

wait_queue_add_current_locked(q, t) == IF On(q, t) THEN q ELSE <<t>> \o q

wait_queue_remove_locked(q, t) ==
  LET Other(u) == u # t
  IN  SelectSeq(q, Other)

wait_queue_pop_locked(q) == IF q = <<>> THEN q ELSE Tail(q)

Popped(q, none) == IF q = <<>> THEN none ELSE Head(q)
=============================================================================
