------------------------------ MODULE Process ------------------------------
(* The life of a process: fork, exit and wait4 of kernel/sys_task.c with the  *)
(* orphan rule of kernel/task.c, the wait queue of parents (kernel/wait.c),   *)
(* kill(2), and the interrupt key as aarch64 delivers it from its console     *)
(* interrupt.  aarch64 and riscv64 enter system calls without the big kernel  *)
(* lock, so the steps below interleave freely; each critical section of       *)
(* g_task_lock or of the wait queue's lock is one step.                       *)
(*                                                                            *)
(* Scheduling is reduced to what this component sees of it: a process has a   *)
(* CPU or not (exec, the on_cpu flag), and gives it up when it blocks, dies   *)
(* or is preempted in user mode.  A process number is used once.              *)
EXTENDS Integers, Sequences, FiniteSets, SequencesExt

CONSTANTS
  Proc,       \* process numbers
  Pid1,       \* the first process; it never exits
  Irq,        \* the console interrupt handler
  Killed,     \* processes that kill(2) or the interrupt key may hit
  MaxStrikes, \* bound: uses of kill(2) and of the interrupt key
  None

ASSUME ProcAssumption ==
  /\ Pid1 \in Proc /\ Killed \subseteq Proc \ {Pid1}
  /\ Irq \notin Proc /\ None \notin Proc \cup {Irq} /\ MaxStrikes \in Nat

VARIABLES
  st,        \* "NEW" (not forked yet), "LIVE", "ASLEEP" (IO_WAIT), "ZOMBIE", "FREE"
  exec,      \* on_cpu
  ppid,
  wq,        \* g_child_exit_wq, head first
  want,      \* the child a wait4 asks for, None for any
  pc,        \* where a process, or the interrupt handler, is
  tgt,       \* the task it holds a pointer to
  irqOn,     \* the process whose CPU the handler runs on, None for an idle CPU
  victims,   \* processes whose orphans the handler has still to look after
  strikes

vars == <<st, exec, ppid, wq, want, pc, tgt, irqOn, victims, strikes>>

Actor == Proc \cup {Irq}

InList(p) == st[p] \notin {"NEW", "FREE"}

Goto(a, l) == pc' = [pc EXCEPT ![a] = l]

(* Process p is on a CPU that no handler has taken over, at l. *)
At(p, l) == p \in Proc /\ exec[p] /\ irqOn # p /\ pc[p] = l

(* Actor a is at l.  *)
Is(a, l) == pc[a] = l /\ (a = Irq \/ At(a, l))

Woken(p) == [st EXCEPT ![p] = IF @ \in {"ZOMBIE", "FREE"} THEN @ ELSE "LIVE"]

(* Mutant of ZombieChildren: any zombie will do. *)
ZombieAny(p) == {z \in Proc : st[z] = "ZOMBIE"}

ZombieChildren(p) == {z \in Proc : ppid[z] = p /\ st[z] = "ZOMBIE"}

-----------------------------------------------------------------------------
(* The CPU comes and goes.                                                  *)

Preempt(p) ==
  /\ At(p, "user")
  /\ exec' = [exec EXCEPT ![p] = FALSE]
  /\ UNCHANGED <<st, ppid, wq, want, pc, tgt, irqOn, victims, strikes>>

Resume(p) ==
  /\ st[p] = "LIVE" /\ ~ exec[p]
  /\ exec' = [exec EXCEPT ![p] = TRUE]
  /\ UNCHANGED <<st, ppid, wq, want, pc, tgt, irqOn, victims, strikes>>

(* Mutant of Timeout: only SLEEPING tasks are polled. *)
TimeoutSleeping(p) ==
  /\ st[p] = "SLEEPING"
  /\ st' = Woken(p)
  /\ UNCHANGED <<exec, ppid, wq, want, pc, tgt, irqOn, victims, strikes>>

(* task_poll_sleep_wakeups finds the deadline of the wait4 sleep want. *)
Timeout(p) ==
  /\ st[p] = "ASLEEP"
  /\ st' = Woken(p)
  /\ UNCHANGED <<exec, ppid, wq, want, pc, tgt, irqOn, victims, strikes>>

Fork(p) ==
  \E c \in Proc :
    /\ At(p, "user")
    /\ st[c] = "NEW"
    /\ st' = [st EXCEPT ![c] = "LIVE"]
    /\ ppid' = [ppid EXCEPT ![c] = p]
    /\ UNCHANGED <<exec, wq, want, pc, tgt, irqOn, victims, strikes>>

-----------------------------------------------------------------------------
(* task_reap_orphans_of and task_reap, in sys_exit and in the handler.      *)

(* The process whose children actor a looks after. *)
DeadOne(a) == IF a = Irq THEN CHOOSE v \in victims : TRUE ELSE a

ExitCall(p) ==
  /\ At(p, "user")
  /\ p # Pid1
  /\ Goto(p, "adopt")
  /\ UNCHANGED <<st, exec, ppid, wq, want, tgt, irqOn, victims, strikes>>

(* Mutant of Adopt: the zombies among the children are forgotten. *)
AdoptOnly(a) ==
  /\ Is(a, "adopt")
  /\ ppid' = [c \in Proc |-> IF ppid[c] = DeadOne(a) /\ InList(c) /\ st[c] # "ZOMBIE"
                             THEN Pid1 ELSE ppid[c]]
  /\ Goto(a, "dying")
  /\ UNCHANGED <<st, exec, wq, want, tgt, irqOn, victims, strikes>>

(* Living children go to pid 1. *)
Adopt(a) ==
  /\ Is(a, "adopt")
  /\ ppid' = [c \in Proc |-> IF ppid[c] = DeadOne(a) /\ InList(c) /\ st[c] # "ZOMBIE"
                             THEN Pid1 ELSE ppid[c]]
  /\ Goto(a, "orphans")
  /\ UNCHANGED <<st, exec, wq, want, tgt, irqOn, victims, strikes>>

(* task_reap_orphans_of returns; the handler goes to its next victim. *)
OrphansDone(a) ==
  IF a # Irq
  THEN Goto(a, "dying") /\ UNCHANGED <<irqOn, victims>>
  ELSE LET left == victims \ {DeadOne(Irq)} IN
       /\ victims' = left
       /\ Goto(Irq, IF left = {} THEN "none" ELSE "adopt")
       /\ irqOn' = IF left = {} THEN None ELSE irqOn

FindOrphan(a) ==
  /\ Is(a, "orphans")
  /\ IF ZombieChildren(DeadOne(a)) = {}
     THEN OrphansDone(a) /\ UNCHANGED tgt
     ELSE /\ \E z \in ZombieChildren(DeadOne(a)) : tgt' = [tgt EXCEPT ![a] = z]
          /\ Goto(a, "orphan_reap")
          /\ UNCHANGED <<irqOn, victims>>
  /\ UNCHANGED <<st, exec, ppid, wq, want, strikes>>

(* The spin of task_reap until the zombie has left its CPU. *)
ReapSpin(a) ==
  \E l \in {"orphan", "child"} :
    /\ Is(a, l \o "_reap")
    /\ ~ exec[tgt[a]]
    /\ Goto(a, l \o "_lock")
    /\ UNCHANGED <<st, exec, ppid, wq, want, tgt, irqOn, victims, strikes>>

(* Mutant of Reapable: on_cpu is not looked at again under the lock. *)
ReapableRunning(z) == st[z] = "ZOMBIE"

(* task_reap_locked. *)
Reapable(z) == st[z] = "ZOMBIE" /\ ~ exec[z]

Freed(z) == IF Reapable(z) THEN [st EXCEPT ![z] = "FREE"] ELSE st

ReapOrphan(a) ==
  /\ Is(a, "orphan_lock")
  /\ st' = Freed(tgt[a])
  /\ tgt' = [tgt EXCEPT ![a] = None]
  /\ IF Reapable(tgt[a]) THEN Goto(a, "orphans") /\ UNCHANGED <<irqOn, victims>>
                         ELSE OrphansDone(a)
  /\ UNCHANGED <<exec, ppid, wq, want, strikes>>

-----------------------------------------------------------------------------
(* The rest of sys_exit.                                                    *)

MarkZombie(p) ==
  /\ At(p, "dying")
  /\ st' = [st EXCEPT ![p] = "ZOMBIE"]
  /\ Goto(p, "find_parent")
  /\ UNCHANGED <<exec, ppid, wq, want, tgt, irqOn, victims, strikes>>

(* task_find_by_pid returns a pointer and drops the lock. *)
FindParent(p) ==
  /\ At(p, "find_parent")
  /\ IF InList(ppid[p])
     THEN tgt' = [tgt EXCEPT ![p] = ppid[p]] /\ Goto(p, "tell_parent")
     ELSE UNCHANGED tgt /\ Goto(p, "wake_all")
  /\ UNCHANGED <<st, exec, ppid, wq, want, irqOn, victims, strikes>>

(* SIGCHLD is raised in the parent, which is woken if it sleeps. *)
TellParent(p) ==
  /\ At(p, "tell_parent")
  /\ st' = IF st[tgt[p]] = "ASLEEP" THEN Woken(tgt[p]) ELSE st
  /\ tgt' = [tgt EXCEPT ![p] = None]
  /\ Goto(p, "wake_all")
  /\ UNCHANGED <<exec, ppid, wq, want, irqOn, victims, strikes>>

(* wake_up_all takes one waiter off the queue ... *)
WakePop(p) ==
  /\ At(p, "wake_all")
  /\ IF wq = <<>>
     THEN Goto(p, "gone") /\ UNCHANGED <<wq, tgt>>
     ELSE /\ tgt' = [tgt EXCEPT ![p] = Head(wq)]
          /\ wq' = Tail(wq)
          /\ Goto(p, "wake_one")
  /\ UNCHANGED <<st, exec, ppid, want, irqOn, victims, strikes>>

(* ... and wakes it after dropping the queue's lock. *)
WakeOne(p) ==
  /\ At(p, "wake_one")
  /\ st' = Woken(tgt[p])
  /\ tgt' = [tgt EXCEPT ![p] = None]
  /\ Goto(p, "wake_all")
  /\ UNCHANGED <<exec, ppid, wq, want, irqOn, victims, strikes>>

(* The last kernel_yield. *)
Gone(p) ==
  /\ At(p, "gone")
  /\ exec' = [exec EXCEPT ![p] = FALSE]
  /\ UNCHANGED <<st, ppid, wq, want, pc, tgt, irqOn, victims, strikes>>

-----------------------------------------------------------------------------
(* wait4.                                                                   *)

(* task_find_zombie_child(p, want): with None, any child will do. *)
ZombieWanted(p) == {z \in ZombieChildren(p) : want[p] \in {None, z}}

WaitCall(p) ==
  /\ At(p, "user")
  /\ \E w \in Proc \cup {None} : want' = [want EXCEPT ![p] = w]
  /\ Goto(p, "wait4")
  /\ UNCHANGED <<st, exec, ppid, wq, tgt, irqOn, victims, strikes>>

WaitReturn(p) == Goto(p, "user") /\ want' = [want EXCEPT ![p] = None]

Wait4(p) ==
  /\ At(p, "wait4")
  /\ \/ \E z \in ZombieWanted(p) :
          /\ tgt' = [tgt EXCEPT ![p] = z]
          /\ Goto(p, "child_reap")
          /\ UNCHANGED want
     \/ /\ ZombieWanted(p) = {}                                    \* ECHILD or WNOHANG
        /\ WaitReturn(p)
        /\ UNCHANGED tgt
     \/ /\ ZombieWanted(p) = {}
        /\ \E c \in Proc : ppid[c] = p /\ InList(c) /\ want[p] \in {None, c}
        /\ Goto(p, "wait_event")
        /\ UNCHANGED <<tgt, want>>
  /\ UNCHANGED <<st, exec, ppid, wq, irqOn, victims, strikes>>

ReapChild(p) ==
  /\ At(p, "child_lock")
  /\ st' = Freed(tgt[p])
  /\ tgt' = [tgt EXCEPT ![p] = None]
  /\ WaitReturn(p)
  /\ UNCHANGED <<exec, ppid, wq, irqOn, victims, strikes>>

(* One turn of wait_event_timeout under the queue's lock: a zombie is there   *)
(* or the time is up, and p leaves the queue, or it lies down.                *)
WaitEvent(p) ==
  /\ At(p, "wait_event")
  /\ \/ /\ wq' = SelectSeq(wq, LAMBDA q : q # p)
        /\ Goto(p, "wait4")
        /\ UNCHANGED st
     \/ /\ ZombieWanted(p) = {}
        /\ wq' = IF p \in ToSet(wq) THEN wq ELSE <<p>> \o wq
        /\ st' = [st EXCEPT ![p] = "ASLEEP"]
        /\ Goto(p, "wait_yield")
  /\ UNCHANGED <<exec, ppid, want, tgt, irqOn, victims, strikes>>

(* kernel_yield: a process that was woken meanwhile goes on at once. *)
WaitYield(p) ==
  /\ At(p, "wait_yield")
  /\ IF st[p] = "LIVE" THEN Goto(p, "wait_event") /\ UNCHANGED exec
                       ELSE exec' = [exec EXCEPT ![p] = FALSE] /\ UNCHANGED pc
  /\ UNCHANGED <<st, ppid, wq, want, tgt, irqOn, victims, strikes>>

-----------------------------------------------------------------------------
(* Violent death.                                                           *)

(* kill(2): the victim is made a zombie wherever it is.  A parent in wait4 is *)
(* IO_WAIT, not SLEEPING, and is not woken.                                   *)
Kill(k, v) ==
  /\ strikes < MaxStrikes /\ At(k, "user")
  /\ v \in Killed /\ InList(v)
  /\ st' = [st EXCEPT ![v] = "ZOMBIE"]
  /\ strikes' = strikes + 1
  /\ UNCHANGED <<exec, ppid, wq, want, pc, tgt, irqOn, victims>>

(* The interrupt key: the foreground group V dies under one lock, then the    *)
(* handler looks after the orphans of each victim.  It runs on top of         *)
(* whatever its CPU was executing.                                            *)
Intr(V) ==
  /\ strikes < MaxStrikes /\ pc[Irq] = "none"
  /\ V # {} /\ \A v \in V : st[v] \in {"LIVE", "ASLEEP"}
  /\ st' = [p \in Proc |-> IF p \in V THEN "ZOMBIE" ELSE st[p]]
  /\ \E p \in {q \in Proc : exec[q]} \cup {None} : irqOn' = p
  /\ victims' = V
  /\ Goto(Irq, "adopt")
  /\ strikes' = strikes + 1
  /\ UNCHANGED <<exec, ppid, wq, want, tgt>>

-----------------------------------------------------------------------------
Init ==
  /\ st = [p \in Proc |-> IF p = Pid1 THEN "LIVE" ELSE "NEW"]
  /\ exec = [p \in Proc |-> p = Pid1]
  /\ ppid = [p \in Proc |-> None]
  /\ wq = <<>>
  /\ want = [p \in Proc |-> None]
  /\ pc = [a \in Actor |-> IF a = Irq THEN "none" ELSE "user"]
  /\ tgt = [a \in Actor |-> None]
  /\ irqOn = None
  /\ victims = {}
  /\ strikes = 0

Next ==
  \/ \E p \in Proc :
       \/ Preempt(p) \/ Resume(p) \/ Timeout(p) \/ Fork(p) \/ ExitCall(p)
       \/ MarkZombie(p) \/ FindParent(p) \/ TellParent(p) \/ WakePop(p) \/ WakeOne(p) \/ Gone(p)
       \/ WaitCall(p) \/ Wait4(p) \/ ReapChild(p) \/ WaitEvent(p) \/ WaitYield(p)
  \/ \E a \in Actor : Adopt(a) \/ FindOrphan(a) \/ ReapSpin(a) \/ ReapOrphan(a)
  \/ \E k \in Proc, v \in Killed : Kill(k, v)
  \/ \E V \in SUBSET Killed : Intr(V)

Spec == Init /\ [][Next]_vars

(* What runs in the kernel goes on, a ready process gets a CPU, and deadlines *)
(* are polled by the timer interrupt.  User mode promises nothing.            *)
Fairness ==
  /\ \A p \in Proc :
       WF_vars(Resume(p)) /\ WF_vars(Timeout(p)) /\ WF_vars(MarkZombie(p) \/ FindParent(p)
         \/ TellParent(p) \/ WakePop(p) \/ WakeOne(p) \/ Gone(p)
         \/ Wait4(p) \/ ReapChild(p) \/ WaitEvent(p) \/ WaitYield(p))
  /\ \A a \in Actor : WF_vars(Adopt(a) \/ FindOrphan(a) \/ ReapSpin(a) \/ ReapOrphan(a))

FairSpec == Spec /\ Fairness

-----------------------------------------------------------------------------
(* The variables stay in their ranges, and every process that fork has made   *)
(* has a parent number: task_reap_orphans_of replaces it and never clears it. *)
TypeOK ==
  /\ st \in [Proc -> {"NEW", "LIVE", "ASLEEP", "ZOMBIE", "FREE"}]
  /\ exec \in [Proc -> BOOLEAN]
  /\ ppid \in [Proc -> Proc \cup {None}]
  /\ \A p \in Proc : ppid[p] = None <=> p = Pid1 \/ st[p] = "NEW"
  /\ wq \in Seq(Proc)
  /\ want \in [Proc -> Proc \cup {None}]
  /\ tgt \in [Actor -> Proc \cup {None}]
  /\ irqOn \in Proc \cup {None}
  /\ victims \in SUBSET Proc
  /\ strikes \in 0..MaxStrikes
  /\ pc \in [Actor -> {"none", "user", "adopt", "orphans", "orphan_reap", "orphan_lock",
                       "dying", "find_parent", "tell_parent", "wake_all", "wake_one", "gone",
                       "wait4", "child_reap", "child_lock", "wait_event", "wait_yield"}]

Reaping(a) == pc[a] \in {"orphan_reap", "orphan_lock", "child_reap", "child_lock"}

(* A task found by task_find_zombie_child stays a zombie, and nobody else's   *)
(* business, until the finder has reaped it.                                  *)
OwnZombie ==
  \A a \in Actor : Reaping(a) =>
    st[tgt[a]] = "ZOMBIE" /\ \A b \in Actor \ {a} : Reaping(b) => tgt[b] # tgt[a]

(* The parent that task_find_by_pid gave to sys_exit is not reaped before     *)
(* sys_exit has used the pointer.                                             *)
ParentAlive == \A p \in Proc : pc[p] = "tell_parent" => InList(tgt[p])

(* No zombie is left without anyone to collect it: its parent is in the list. *)
ZombieHasParent == \A z \in Proc : st[z] = "ZOMBIE" => InList(ppid[z])

(* The three hold as long as processes die by sys_exit, in whatever order     *)
(* their exits, forks and waits interleave: until kill(2) or the interrupt    *)
(* key strikes, a zombie has one reaper, ...                                  *)
OneReaperUntilKill == strikes = 0 => OwnZombie

(* ... the parent sys_exit looked up without the lock is still there, ...     *)
ParentAliveUntilKill == strikes = 0 => ParentAlive

(* ... and whichever side of the adoption pass of task_reap_orphans_of a      *)
(* child's death falls on, somebody is left to collect it.                    *)
ZombieHasParentUntilKill == strikes = 0 => ZombieHasParent

(* A reaped process does not run: its stack and its memory are gone.          *)
FreedNotRunning == \A p \in Proc : st[p] = "FREE" => ~ exec[p]

(* A wait4 that sleeps while it has something to report notices: it goes on   *)
(* to reap a child, unless its caller dies, no such zombie is left (a killed  *)
(* child may come back to life when it next blocks) or the handler of the     *)
(* interrupt key takes its CPU, which need not return.  kill(2) and the key   *)
(* wake no parent, so this rests on the deadline of the sleep.                *)
WaitNotices ==
  \A p \in Proc : (pc[p] \in {"wait_event", "wait_yield"} /\ ZombieWanted(p) # {})
                      ~> (Reaping(p) \/ ZombieWanted(p) = {} \/ st[p] \in {"ZOMBIE", "FREE"} \/ irqOn = p)

(* exit comes to an end: a process that has become a zombie leaves its CPU    *)
(* soon, whatever the other processes do.                                     *)
ExitCompletes == \A p \in Proc : pc[p] = "find_parent" ~> ~ exec[p]

(* The interrupt handler returns.                                             *)
IntrReturns == pc[Irq] # "none" ~> pc[Irq] = "none"
============================================================================
