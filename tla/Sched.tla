------------------------------- MODULE Sched -------------------------------
(* The scheduler of kernel/sched.c and the task states of kernel/task.c on    *)
(* several CPUs.  Every critical section of g_task_lock is one step.  The     *)
(* switch from one kernel stack to another is not: schedule() drops the lock  *)
(* first, so between publishing the next task, saving the previous context    *)
(* and clearing its on_cpu flag, all other CPUs run.                          *)
(*                                                                            *)
(* What the code executed by a task is about is left out, except for how far  *)
(* it is in the calls of this component (doing).  A freed task structure is   *)
(* state "FREE".                                                              *)
EXTENDS Integers, Sequences, FiniteSets

CONSTANTS
  CPU,          \* the started CPUs
  Task,         \* task structures, the idle tasks excluded
  idle_task,    \* [CPU -> idle task]
  BootTask,     \* pid 1, running on BootCpu after task_init
  BootCpu,
  Killable,     \* tasks that kill(2) or the interrupt key may hit
  MaxStale,     \* bound: wake-ups that reach a task which is not asleep
  None

Idle == {idle_task[c] : c \in CPU}

ASSUME ThreadsAssumption ==
  /\ BootTask \in Task /\ BootCpu \in CPU
  /\ Killable \subseteq Task \ {BootTask}
  /\ Idle \cap Task = {}
  /\ \A c, d \in CPU : idle_task[c] = idle_task[d] => c = d
  /\ None \notin Task \cup Idle
  /\ MaxStale \in Nat

VARIABLES
  state,           \* task_state_t of every task
  deadline,        \* sleep_until_ms # 0
  cpu_affinity,
  runq,            \* runq_head .. runq_tail of every CPU
  current,         \* cpu_local.current_task
  on_cpu,
  switched_from,   \* cpu_local.switched_from
  resched,         \* cpu_local.resched_pending
  phase,           \* of a CPU: "run", "switch" (lock dropped, old stack), "finish" (new stack)
  stack,           \* task whose kernel stack the CPU executes on
  saved,           \* ctx holds the registers the task has to continue with
  doing,           \* how far a task is: "run", "yield", "exit", "reap", "reap_lock"
  victim,          \* argument of the task_reap call in progress
  stale,           \* stale wake-ups so far
  killing          \* tasks that the task_kill_pgrp in progress has still to kill

taskVars   == <<state, deadline, cpu_affinity, runq>>
switchVars == <<current, on_cpu, switched_from, phase, stack, saved>>
codeVars   == <<doing, victim, stale, killing>>
vars       == <<taskVars, switchVars, resched, codeVars>>

States == {"FREE", "READY", "RUNNING", "SLEEPING", "IO_WAIT", "ZOMBIE"}
Asleep == {"SLEEPING", "IO_WAIT"}

-----------------------------------------------------------------------------
(* Run queues.                                                              *)

InSeq(t, q) == \E i \in 1..Len(q) : q[i] = t

OnRunq(t) == InSeq(t, runq[cpu_affinity[t]])

(* q without its entry t. *)
Without(q, t) ==
  IF InSeq(t, q)
  THEN LET i == CHOOSE j \in 1..Len(q) : q[j] = t
       IN  [j \in 1..Len(q) - 1 |-> IF j < i THEN q[j] ELSE q[j + 1]]
  ELSE q

task_runq_remove(rq, t) ==
  [rq EXCEPT ![cpu_affinity[t]] = Without(@, t)]

(* A task that is already queued is moved to the tail. *)
task_runq_push(rq, t, c) ==
  [task_runq_remove(rq, t) EXCEPT ![c] = Append(@, t)]

Load(c) ==
  Len(runq[c]) + (IF current[c] # idle_task[c] /\ state[current[c]] = "RUNNING" THEN 1 ELSE 0)

(* The least loaded CPUs, and the parent's own when it is one of them.  The   *)
(* rotor that breaks ties is left open.  Without fork_spread the child is     *)
(* queued on the parent's CPU and rebalanced at once, with the same result.   *)
SpawnCpus(fallback) ==
  LET best == {c \in CPU : \A d \in CPU : Load(c) <= Load(d)}
  IN  IF fallback \in best THEN {fallback} ELSE best

-----------------------------------------------------------------------------
(* task_mark_*, task_wake, task_cancel_sleep: called by the current task of   *)
(* a CPU, or by an interrupt handler on top of it.  A CPU in the middle of a  *)
(* switch has its interrupts closed.                                          *)

(* CPU c is executing ordinary code of task t. *)
Runs(c, t) == phase[c] = "run" /\ current[c] = t /\ doing[t] = "run"

(* g_task_lock is taken for one step at a time, except by task_kill_pgrp. *)
LockFree == killing = {}

(* Some CPU can execute an interrupt handler or a system call. *)
SomeCpuOpen == \E c \in CPU : phase[c] = "run"

MarkBlocked(c) ==
  LockFree /\ \E t \in Task, s \in Asleep, d \in BOOLEAN :
    /\ Runs(c, t)
    /\ runq' = task_runq_remove(runq, t)
    /\ state' = [state EXCEPT ![t] = s]
    /\ deadline' = [deadline EXCEPT ![t] = d]
    /\ doing' = [doing EXCEPT ![t] = "yield"]
    /\ UNCHANGED <<cpu_affinity, switchVars, resched, victim, stale, killing>>

(* Mutant: undo the sleep of any task. *)
CancelSleepOfAny(c) ==
  LockFree /\ \E t \in Task :
    /\ phase[c] = "run"
    /\ state[t] \in Asleep
    /\ state' = [state EXCEPT ![t] = "RUNNING"]
    /\ deadline' = [deadline EXCEPT ![t] = FALSE]
    /\ UNCHANGED <<cpu_affinity, runq, switchVars, resched, codeVars>>

(* The condition came true before the task yielded.  It yields all the same.  *)
CancelSleep(c) ==
  LockFree /\ \E t \in Task :
    /\ phase[c] = "run" /\ current[c] = t /\ doing[t] = "yield"
    /\ state[t] \in Asleep
    /\ state' = [state EXCEPT ![t] = "RUNNING"]
    /\ deadline' = [deadline EXCEPT ![t] = FALSE]
    /\ UNCHANGED <<cpu_affinity, runq, switchVars, resched, codeVars>>

(* The locked part of task_wake on states st and queues rq. *)
WokenState(st, t) == [st EXCEPT ![t] = "READY"]
(* Mutant: a woken task is put on the least loaded CPU. *)
WokenRunqRebalanced(rq, t) ==
  LET d == CHOOSE d \in CPU : \A e \in CPU : Load(d) <= Load(e)
  IN  [task_runq_remove(rq, t) EXCEPT ![d] = Append(@, t)]

WokenRunq(rq, t) == task_runq_push(rq, t, cpu_affinity[t])

Wakeable(t) == state[t] \notin {"ZOMBIE", "FREE"}

(* Any task may be woken, asleep or not: a waker takes the task off a wait    *)
(* queue, drops that lock, and only then calls task_wake.                     *)
Wake(t) ==
  /\ LockFree
  /\ SomeCpuOpen
  /\ Wakeable(t)
  /\ state[t] \notin Asleep => stale < MaxStale
  /\ stale' = IF state[t] \in Asleep THEN stale ELSE stale + 1
  /\ state' = WokenState(state, t)
  /\ runq' = WokenRunq(runq, t)
  /\ deadline' = [deadline EXCEPT ![t] = FALSE]
  /\ resched' = [resched EXCEPT ![cpu_affinity[t]] = TRUE]
  /\ UNCHANGED <<cpu_affinity, switchVars, doing, victim, killing>>

(* Mutant: only SLEEPING tasks are looked at. *)
PollSleepWakeupsSleeping(t) ==
  /\ LockFree
  /\ phase[BootCpu] = "run"
  /\ state[t] = "SLEEPING" /\ deadline[t]
  /\ state' = WokenState(state, t)
  /\ runq' = WokenRunq(runq, t)
  /\ deadline' = [deadline EXCEPT ![t] = FALSE]
  /\ resched' = [resched EXCEPT ![cpu_affinity[t]] = TRUE]
  /\ UNCHANGED <<cpu_affinity, switchVars, codeVars>>

(* The timer interrupt of CPU 0 finds t past its deadline. *)
PollSleepWakeups(t) ==
  /\ LockFree
  /\ phase[BootCpu] = "run"
  /\ state[t] \in Asleep /\ deadline[t]
  /\ state' = WokenState(state, t)
  /\ runq' = WokenRunq(runq, t)
  /\ deadline' = [deadline EXCEPT ![t] = FALSE]
  /\ resched' = [resched EXCEPT ![cpu_affinity[t]] = TRUE]
  /\ UNCHANGED <<cpu_affinity, switchVars, codeVars>>

(* The tick that ends a time slice. *)
TimerTick(c) ==
  /\ phase[c] = "run"
  /\ state[current[c]] = "RUNNING"
  /\ ~ resched[c]
  /\ resched' = [resched EXCEPT ![c] = TRUE]
  /\ UNCHANGED <<taskVars, switchVars, codeVars>>

-----------------------------------------------------------------------------
(* Birth and death.                                                         *)

(* task_fork publishes the child. *)
Fork(c) ==
  LockFree /\ \E t \in Task, child \in Task :
    /\ Runs(c, t)
    /\ state[child] = "FREE"
    /\ \E d \in SpawnCpus(cpu_affinity[t]) :
         /\ cpu_affinity' = [cpu_affinity EXCEPT ![child] = d]
         /\ runq' = [runq EXCEPT ![d] = Append(@, child)]
         /\ resched' = [resched EXCEPT ![d] = TRUE]
    /\ state' = [state EXCEPT ![child] = "READY"]
    /\ deadline' = [deadline EXCEPT ![child] = FALSE]
    /\ saved' = [saved EXCEPT ![child] = TRUE]
    /\ UNCHANGED <<current, on_cpu, switched_from, phase, stack, codeVars>>

(* task_mark_zombie(current) of sys_exit and of a fatal fault. *)
Exit(c) ==
  LockFree /\ \E t \in Task :
    /\ Runs(c, t)
    /\ t # BootTask
    /\ runq' = task_runq_remove(runq, t)
    /\ state' = [state EXCEPT ![t] = "ZOMBIE"]
    /\ doing' = [doing EXCEPT ![t] = "exit"]
    /\ UNCHANGED <<deadline, cpu_affinity, switchVars, resched, victim, stale, killing>>

(* The interrupt key: all of a process group dies, wherever its tasks are.    *)
(* task_kill_pgrp keeps g_task_lock for the whole walk of task_list.          *)
KillPgrp(S) ==
  /\ LockFree
  /\ SomeCpuOpen
  /\ S # {} /\ \A t \in S : Wakeable(t)
  /\ killing' = S
  /\ UNCHANGED <<taskVars, switchVars, resched, doing, victim, stale>>

KillNext(t) ==
  /\ t \in killing
  /\ killing' = killing \ {t}
  /\ state' = [state EXCEPT ![t] = "ZOMBIE"]
  /\ runq' = task_runq_remove(runq, t)
  /\ UNCHANGED <<deadline, cpu_affinity, switchVars, resched, doing, victim, stale>>

(* task_signal_pid with a signal that does not terminate: a SLEEPING task is  *)
(* woken, without a request to reschedule.                                    *)
SignalPid(t) ==
  /\ LockFree
  /\ SomeCpuOpen
  /\ state[t] = "SLEEPING"
  /\ state' = WokenState(state, t)
  /\ runq' = WokenRunq(runq, t)
  /\ deadline' = [deadline EXCEPT ![t] = FALSE]
  /\ UNCHANGED <<cpu_affinity, switchVars, resched, codeVars>>

(* task_signal_pid with a terminating signal.  The parent p is told, and      *)
(* woken if it sleeps, unless it ignores SIGCHLD.                             *)
TerminatePid(t, p, told) ==
  LET woken == told /\ state[p] = "SLEEPING"
      dead  == task_runq_remove(runq, t)
  IN
  /\ LockFree
  /\ SomeCpuOpen
  /\ state[t] # "FREE" /\ p # t
  /\ state' = [state EXCEPT ![t] = "ZOMBIE", ![p] = IF woken THEN "READY" ELSE @]
  /\ runq' = IF woken THEN WokenRunq(dead, p) ELSE dead
  /\ deadline' = [deadline EXCEPT ![t] = @ /\ state[t] # "SLEEPING", ![p] = @ /\ ~ woken]
  /\ UNCHANGED <<cpu_affinity, switchVars, resched, codeVars>>

(* wait4 found the zombie z and calls task_reap.  Only its parent does. *)
BeginReap(c) ==
  LockFree /\ \E t \in Task, z \in Task :
    /\ Runs(c, t)
    /\ z # t
    /\ state[z] = "ZOMBIE"
    /\ \A u \in Task : victim[u] # z
    /\ doing' = [doing EXCEPT ![t] = "reap"]
    /\ victim' = [victim EXCEPT ![t] = z]
    /\ UNCHANGED <<taskVars, switchVars, resched, stale, killing>>

(* The spin on on_cpu, outside g_task_lock. *)
ReapSpin(c) ==
  \E t \in Task :
    /\ phase[c] = "run" /\ current[c] = t /\ doing[t] = "reap"
    /\ ~ on_cpu[victim[t]]
    /\ doing' = [doing EXCEPT ![t] = "reap_lock"]
    /\ UNCHANGED <<taskVars, switchVars, resched, victim, stale, killing>>

Reapable(z) == state[z] = "ZOMBIE" /\ ~ on_cpu[z]

(* task_reap_locked frees the task, or refuses. *)
ReapLocked(c) ==
  LockFree /\ \E t \in Task :
    /\ phase[c] = "run" /\ current[c] = t /\ doing[t] = "reap_lock"
    /\ LET z == victim[t] IN
       IF Reapable(z)
       THEN /\ state' = [state EXCEPT ![z] = "FREE"]
            /\ runq' = task_runq_remove(runq, z)
            /\ doing' = [doing EXCEPT ![t] = "run", ![z] = "run"]
            /\ victim' = [victim EXCEPT ![t] = None, ![z] = None]
       ELSE /\ doing' = [doing EXCEPT ![t] = "run"]
            /\ victim' = [victim EXCEPT ![t] = None]
            /\ UNCHANGED <<state, runq>>
    /\ UNCHANGED <<deadline, cpu_affinity, switchVars, resched, stale, killing>>

-----------------------------------------------------------------------------
(* schedule().                                                              *)

(* After schedule() returns to a task that yielded, it runs on; a task in the *)
(* loop at the end of sys_exit calls schedule() again.                        *)
Returned(t) == IF t \in Task /\ doing[t] = "yield" THEN [doing EXCEPT ![t] = "run"] ELSE doing

ScheduleStays(c) ==
  /\ runq[c] = <<>>
  /\ state[current[c]] = "RUNNING"
  /\ doing' = Returned(current[c])
  /\ UNCHANGED <<taskVars, switchVars, victim, stale, killing>>

(* Mutant: the popped current task is not set RUNNING again. *)
ScheduleSelfForgets(c) ==
  /\ runq[c] # <<>> /\ Head(runq[c]) = current[c]
  /\ runq' = [runq EXCEPT ![c] = Tail(@)]
  /\ doing' = Returned(current[c])
  /\ UNCHANGED <<state, deadline, cpu_affinity, switchVars, victim, stale, killing>>

(* A wake-up landed before the task reached schedule(). *)
ScheduleSelf(c) ==
  /\ runq[c] # <<>> /\ Head(runq[c]) = current[c]
  /\ runq' = [runq EXCEPT ![c] = Tail(@)]
  /\ state' = [state EXCEPT ![current[c]] = "RUNNING"]
  /\ doing' = Returned(current[c])
  /\ UNCHANGED <<deadline, cpu_affinity, switchVars, victim, stale, killing>>

(* Mutants: the previous task goes to the head of the queue; it goes to the   *)
(* least loaded CPU.                                                          *)
RequeuedAtHead(rq, prev) ==
  IF state[prev] = "RUNNING" /\ prev \in Task
  THEN [rq EXCEPT ![cpu_affinity[prev]] = <<prev>> \o @]
  ELSE rq

RequeuedElsewhere(rq, prev) ==
  IF state[prev] = "RUNNING" /\ prev \in Task
  THEN LET d == CHOOSE d \in CPU : \A e \in CPU : Load(d) <= Load(e)
       IN  [rq EXCEPT ![d] = Append(@, prev)]
  ELSE rq

(* The previous task, if it is still runnable, goes back to its run queue. *)
Requeued(rq, prev) ==
  IF state[prev] = "RUNNING" /\ prev \in Task
  THEN task_runq_push(rq, prev, cpu_affinity[prev])
  ELSE rq

(* Mutant: on_cpu of the previous task is cleared under the lock. *)
SwitchToDropsEarly(c, next, rq) ==
  LET prev == current[c] IN
  /\ next # prev
  /\ runq' = Requeued(rq, prev)
  /\ state' = [state EXCEPT ![prev] = IF state[prev] = "RUNNING" /\ prev \in Task THEN "READY" ELSE @,
                            ![next] = "RUNNING"]
  /\ deadline' = [t \in Task |-> IF t = prev /\ state[prev] = "RUNNING" THEN FALSE ELSE deadline[t]]
  /\ current' = [current EXCEPT ![c] = next]
  /\ on_cpu' = [on_cpu EXCEPT ![next] = TRUE, ![prev] = FALSE]
  /\ switched_from' = [switched_from EXCEPT ![c] = prev]
  /\ phase' = [phase EXCEPT ![c] = "switch"]
  /\ UNCHANGED <<cpu_affinity, stack, saved, codeVars>>

SwitchTo(c, next, rq) ==
  LET prev == current[c] IN
  /\ next # prev
  /\ runq' = Requeued(rq, prev)
  /\ state' = [state EXCEPT ![prev] = IF state[prev] = "RUNNING" /\ prev \in Task THEN "READY" ELSE @,
                            ![next] = "RUNNING"]
  /\ deadline' = [t \in Task |-> IF t = prev /\ state[prev] = "RUNNING" THEN FALSE ELSE deadline[t]]
  /\ current' = [current EXCEPT ![c] = next]
  /\ on_cpu' = [on_cpu EXCEPT ![next] = TRUE]
  /\ switched_from' = [switched_from EXCEPT ![c] = prev]
  /\ phase' = [phase EXCEPT ![c] = "switch"]
  /\ UNCHANGED <<cpu_affinity, stack, saved, codeVars>>

ScheduleSwitch(c) ==
  \/ /\ runq[c] # <<>>
     /\ SwitchTo(c, Head(runq[c]), [runq EXCEPT ![c] = Tail(@)])
  \/ /\ runq[c] = <<>>
     /\ state[current[c]] # "RUNNING"
     /\ SwitchTo(c, idle_task[c], runq)

schedule(c) == LockFree /\ (ScheduleStays(c) \/ ScheduleSelf(c) \/ ScheduleSwitch(c))

(* kernel_yield from a wait loop or from the end of sys_exit. *)
Yield(c) ==
  /\ phase[c] = "run"
  /\ current[c] \in Task /\ doing[current[c]] \in {"yield", "exit"}
  /\ schedule(c)
  /\ UNCHANGED resched

(* sched_yield(2). *)
SchedYield(c) ==
  /\ \E t \in Task : Runs(c, t)
  /\ schedule(c)
  /\ UNCHANGED resched

(* The exit of an interrupt or system call with the resched flag up. *)
Preempt(c) ==
  /\ \E t \in Task : Runs(c, t)
  /\ resched[c]
  /\ resched' = [resched EXCEPT ![c] = FALSE]
  /\ schedule(c)

(* One turn of task_idle_loop that yields. *)
IdleLoop(c) ==
  /\ phase[c] = "run" /\ current[c] \in Idle
  /\ \/ runq[c] # <<>> /\ UNCHANGED resched
     \/ runq[c] = <<>> /\ resched[c] /\ resched' = [resched EXCEPT ![c] = FALSE]
  /\ schedule(c)

(* arch_context_switch: save the old registers, load the new ones. *)
ContextSwitch(c) ==
  /\ phase[c] = "switch"
  /\ saved' = [saved EXCEPT ![switched_from[c]] = TRUE, ![current[c]] = FALSE]
  /\ stack' = [stack EXCEPT ![c] = current[c]]
  /\ phase' = [phase EXCEPT ![c] = "finish"]
  /\ UNCHANGED <<taskVars, current, on_cpu, switched_from, resched, codeVars>>

(* Mutant: an entry point that does not clear on_cpu. *)
FinishSwitchForgets(c) ==
  /\ phase[c] = "finish"
  /\ switched_from' = [switched_from EXCEPT ![c] = None]
  /\ phase' = [phase EXCEPT ![c] = "run"]
  /\ doing' = Returned(current[c])
  /\ UNCHANGED <<taskVars, current, on_cpu, stack, saved, resched, victim, stale, killing>>

(* task_finish_switch on the new stack, at the end of schedule() or at the    *)
(* entry of a task that runs for the first time.                              *)
FinishSwitch(c) ==
  /\ phase[c] = "finish"
  /\ on_cpu' = [on_cpu EXCEPT ![switched_from[c]] = FALSE]
  /\ switched_from' = [switched_from EXCEPT ![c] = None]
  /\ phase' = [phase EXCEPT ![c] = "run"]
  /\ doing' = Returned(current[c])
  /\ UNCHANGED <<taskVars, current, stack, saved, resched, victim, stale, killing>>

-----------------------------------------------------------------------------
Init ==
  /\ state = [t \in Task \cup Idle |-> IF t \in Idle \cup {BootTask} THEN "RUNNING" ELSE "FREE"]
  /\ deadline = [t \in Task |-> FALSE]
  /\ cpu_affinity = [t \in Task |-> BootCpu]
  /\ runq = [c \in CPU |-> <<>>]
  /\ current = [c \in CPU |-> IF c = BootCpu THEN BootTask ELSE idle_task[c]]
  /\ on_cpu = [t \in Task \cup Idle |-> \E c \in CPU \ {BootCpu} : t = idle_task[c]]
  /\ switched_from = [c \in CPU |-> None]
  /\ resched = [c \in CPU |-> FALSE]
  /\ phase = [c \in CPU |-> "run"]
  /\ stack = current
  /\ saved = [t \in Task \cup Idle |-> t = idle_task[BootCpu]]
  /\ doing = [t \in Task |-> "run"]
  /\ victim = [t \in Task |-> None]
  /\ stale = 0
  /\ killing = {}

Next ==
  \/ \E c \in CPU :
       \/ MarkBlocked(c) \/ CancelSleep(c) \/ Fork(c) \/ Exit(c)
       \/ BeginReap(c) \/ ReapSpin(c) \/ ReapLocked(c)
       \/ Yield(c) \/ SchedYield(c) \/ Preempt(c) \/ IdleLoop(c)
       \/ TimerTick(c) \/ ContextSwitch(c) \/ FinishSwitch(c)
  \/ \E t \in Task : Wake(t) \/ PollSleepWakeups(t) \/ SignalPid(t) \/ KillNext(t)
  \/ \E t \in Killable, p \in Task, told \in BOOLEAN : TerminatePid(t, p, told)
  \/ \E S \in SUBSET Killable : KillPgrp(S)

Spec == Init /\ [][Next]_vars

(* A CPU that is switching, yielding, spinning or idle goes on.  Timer        *)
(* interrupts keep coming on every CPU and are delivered once interrupts are  *)
(* open; the resched flag is looked at on every return to user mode.  Nothing *)
(* obliges a task to yield, block or exit of its own accord.                  *)
Fairness ==
  /\ \A c \in CPU : /\ WF_vars(ContextSwitch(c)) /\ WF_vars(FinishSwitch(c))
                    /\ WF_vars(ReapSpin(c)) /\ WF_vars(ReapLocked(c))
                    /\ WF_vars(Yield(c)) /\ WF_vars(IdleLoop(c))
                    /\ WF_vars(TimerTick(c)) /\ SF_vars(Preempt(c))
  /\ \A t \in Task : WF_vars(KillNext(t)) /\ SF_vars(PollSleepWakeups(t))

FairSpec == Spec /\ Fairness

-----------------------------------------------------------------------------
(* The variables stay in their ranges; in particular task_runq_push is never  *)
(* given an idle task.                                                        *)
TypeOK ==
  /\ state \in [Task \cup Idle -> States]
  /\ deadline \in [Task -> BOOLEAN]
  /\ cpu_affinity \in [Task -> CPU]
  /\ runq \in [CPU -> Seq(Task)]
  /\ current \in [CPU -> Task \cup Idle]
  /\ on_cpu \in [Task \cup Idle -> BOOLEAN]
  /\ switched_from \in [CPU -> Task \cup Idle \cup {None}]
  /\ resched \in [CPU -> BOOLEAN]
  /\ phase \in [CPU -> {"run", "switch", "finish"}]
  /\ stack \in [CPU -> Task \cup Idle]
  /\ saved \in [Task \cup Idle -> BOOLEAN]
  /\ doing \in [Task -> {"run", "yield", "exit", "reap", "reap_lock"}]
  /\ victim \in [Task -> Task \cup {None}]
  /\ stale \in 0..MaxStale
  /\ killing \subseteq Task

(* A run queue holds exactly the READY tasks of its CPU, each once: what      *)
(* task_runq_remove_locked asserts of a queued task, and what keeps a woken   *)
(* task from being dropped from every queue.                                  *)
RunqExact ==
  /\ \A t \in Task : state[t] = "READY" <=> OnRunq(t)
  /\ \A c \in CPU : \A i, j \in 1..Len(runq[c]) : runq[c][i] = runq[c][j] => i = j
  /\ \A c \in CPU : \A i \in 1..Len(runq[c]) : cpu_affinity[runq[c][i]] = c

(* No task is lost while it is runnable: a RUNNING task is the current task   *)
(* of some CPU (schedule() restores RUNNING when it pops the task it runs).   *)
NoTaskLost ==
  \A t \in Task : state[t] = "RUNNING" => \E c \in CPU : current[c] = t

(* Two CPUs never execute on the same kernel stack, the double execution that *)
(* the ban on rebalancing at wake-up prevents.                                *)
OneStack ==
  \A c, d \in CPU : c # d => stack[c] # stack[d] /\ current[c] # current[d]

(* arch_context_switch never loads the registers of a task whose own switch   *)
(* has not saved them yet.                                                    *)
FreshContext ==
  \A c \in CPU : phase[c] = "switch" => saved[current[c]]

(* A task structure and its kernel stack are freed only after the CPU has     *)
(* left them: no CPU runs on a freed stack, will save into a freed context or *)
(* clear on_cpu in a freed structure, and no queue or CPU points to one.      *)
ReapedIsUnused ==
  \A t \in Task : state[t] = "FREE" =>
    \A c \in CPU : /\ stack[c] # t /\ current[c] # t /\ switched_from[c] # t
                  /\ ~ InSeq(t, runq[c])

(* Every task in a run queue gets a CPU. *)
ReadyRuns == \A t \in Task : state[t] = "READY" ~> state[t] # "READY"

(* A sleeper with a deadline is woken, whatever the CPUs are doing. *)
DeadlineWakes ==
  \A t \in Task : state[t] \in Asleep /\ deadline[t] ~> ~ (state[t] \in Asleep /\ deadline[t])

(* task_reap returns: the zombie it waits for leaves its CPU. *)
ReapReturns == \A t \in Task : doing[t] = "reap" ~> doing[t] = "run"

(* A zombie always gets off its CPU soon, as the comment of task_reap says. *)
ZombieLeavesCpu ==
  \A t \in Task : state[t] = "ZOMBIE" /\ on_cpu[t] ~> ~ on_cpu[t]

(* A zombie never becomes anything but free memory. *)
ZombieIsFinal ==
  [][\A t \in Task : state[t] = "ZOMBIE" => state'[t] \in {"ZOMBIE", "FREE"}]_vars
============================================================================
