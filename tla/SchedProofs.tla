---------------------------- MODULE SchedProofs ----------------------------
(* Proofs about Sched, for any number of CPUs and tasks: run queues hold what *)
(* is READY, no CPU runs on another one's stack, no stale context is loaded   *)
(* and nothing that is in use is freed.                                       *)
EXTENDS Sched, TLAPS

\* The provers of the steps below that name none, and their time limits.
USE SMTT(15), Z3T(15), ZenonT(20)

AnyTask == Task \cup Idle

Distinct(q) == \A i, j \in 1..Len(q) : q[i] = q[j] => i = j

(* Queues in which every task is at most once, and on its own CPU's. *)
Sorted(rq, affinity) ==
  /\ rq \in [CPU -> Seq(Task)]
  /\ \A c \in CPU : Distinct(rq[c]) /\ \A t \in Task : InSeq(t, rq[c]) => affinity[t] = c

Queues ==
  /\ Sorted(runq, cpu_affinity)
  /\ \A t \in Task : state[t] = "READY" <=> InSeq(t, runq[cpu_affinity[t]])

(* t can only run on CPU c: the idle task of c, or a task queued on c.        *)
Owns(c, t) ==
  \/ t = idle_task[c]
  \/ t \in Task /\ cpu_affinity[t] = c /\ state[t] # "FREE"

(* The tasks whose stack, context or flag CPU c is about to touch. *)
Uses(c) == {current[c], stack[c], switched_from[c]} \ {None}

(* A CPU uses only its own tasks, and all but the first are marked on_cpu. *)
Owned ==
  \A c \in CPU : \A t \in Uses(c) : Owns(c, t) /\ (t \in Task \ {BootTask} => on_cpu[t])

(* The stack a CPU is on, in the phases of a switch. *)
Phases ==
  \A c \in CPU :
    /\ phase[c] = "run" => switched_from[c] = None /\ stack[c] = current[c]
    /\ phase[c] = "switch" => /\ switched_from[c] = stack[c] /\ stack[c] # current[c]
                              /\ saved[current[c]]
    /\ phase[c] = "finish" => /\ switched_from[c] \in AnyTask /\ switched_from[c] # current[c]
                              /\ stack[c] = current[c]

(* Only a task that some CPU is executing has no saved context. *)
Contexts == \A t \in AnyTask : state[t] # "FREE" /\ ~ saved[t] => \E c \in CPU : stack[c] = t

(* task_reap has an argument; pid 1 does not die; the idle tasks, and those   *)
(* that task_kill_pgrp has still to kill, are there.                          *)
Callers ==
  /\ \A t \in Task : doing[t] \in {"reap", "reap_lock"} => victim[t] \in Task
  /\ state[BootTask] \notin {"FREE", "ZOMBIE"} /\ \A c \in CPU : state[idle_task[c]] # "FREE"
  /\ killing \subseteq Killable /\ \A t \in killing : state[t] # "FREE"

IInv == TypeOK /\ Queues /\ Owned /\ Phases /\ Contexts /\ Callers /\ NoTaskLost

-----------------------------------------------------------------------------
(* Queues as sequences. *)

LEMMA WithoutSeq ==
  ASSUME NEW S, NEW q \in Seq(S), NEW t, Distinct(q)
  PROVE  /\ Without(q, t) \in Seq(S) /\ Distinct(Without(q, t))
         /\ \A u : InSeq(u, Without(q, t)) <=> InSeq(u, q) /\ u # t
<1>1. CASE ~ InSeq(t, q)
  BY <1>1 DEF Without, InSeq
<1>2. CASE InSeq(t, q)
  <2> DEFINE i == CHOOSE j \in 1..Len(q) : q[j] = t
             w == [j \in 1..Len(q) - 1 |-> IF j < i THEN q[j] ELSE q[j + 1]]
  <2>1. i \in 1..Len(q) /\ q[i] = t
    BY <1>2 DEF InSeq
  <2>2. Without(q, t) = w
    BY <1>2 DEF Without
  <2> HIDE DEF i
  <2>3. Len(q) \in Nat /\ Len(q) - 1 \in Nat
    BY <2>1
  <2>4. w \in Seq(S) /\ Len(w) = Len(q) - 1
    BY <2>1, <2>3
  <2>5. \A j \in 1..Len(q) - 1 : w[j] = IF j < i THEN q[j] ELSE q[j + 1]
    OBVIOUS
  <2> HIDE DEF w
  <2>6. Distinct(w)
    BY <2>1, <2>3, <2>4, <2>5 DEF Distinct
  <2>7. ASSUME NEW u, InSeq(u, w)
        PROVE  InSeq(u, q) /\ u # t
    BY <2>1, <2>3, <2>4, <2>5, <2>7 DEF InSeq, Distinct
  <2>8. ASSUME NEW u, InSeq(u, q), u # t
        PROVE  InSeq(u, w)
    <3>1. PICK j \in 1..Len(q) : q[j] = u
      BY <2>8 DEF InSeq
    <3>2. j # i
      BY <2>1, <2>8, <3>1
    <3>3. CASE j < i
      <4>1. j \in 1..Len(q) - 1 /\ w[j] = u
        BY <2>1, <2>3, <2>5, <3>1, <3>3
      <4>2. QED
        BY <2>4, <4>1 DEF InSeq
    <3>4. CASE i < j
      <4>1. j - 1 \in 1..Len(q) - 1 /\ w[j - 1] = u
        BY <2>1, <2>3, <2>5, <3>1, <3>4
      <4>2. QED
        BY <2>4, <4>1 DEF InSeq
    <3>5. QED
      BY <2>1, <3>1, <3>2, <3>3, <3>4
  <2>9. QED
    BY <2>2, <2>4, <2>6, <2>7, <2>8
<1>3. QED
  BY <1>1, <1>2

LEMMA AppendSeq ==
  ASSUME NEW S, NEW q \in Seq(S), NEW t \in S
  PROVE  /\ Append(q, t) \in Seq(S)
         /\ Distinct(q) /\ ~ InSeq(t, q) => Distinct(Append(q, t))
         /\ \A u : InSeq(u, Append(q, t)) <=> InSeq(u, q) \/ u = t
<1>1. /\ Append(q, t) \in Seq(S) /\ Len(Append(q, t)) = Len(q) + 1 /\ Len(q) \in Nat
      /\ \A i \in 1..Len(q) : Append(q, t)[i] = q[i]
      /\ Append(q, t)[Len(q) + 1] = t
  OBVIOUS
<1>2. QED
  BY <1>1 DEF Distinct, InSeq

LEMMA TailSeq ==
  ASSUME NEW S, NEW q \in Seq(S), q # <<>>
  PROVE  /\ Tail(q) \in Seq(S) /\ Head(q) \in S /\ InSeq(Head(q), q)
         /\ Distinct(q) => /\ Distinct(Tail(q))
                           /\ \A u : InSeq(u, Tail(q)) <=> InSeq(u, q) /\ u # Head(q)
<1>1. /\ Tail(q) \in Seq(S) /\ Len(q) \in Nat \ {0} /\ Len(Tail(q)) = Len(q) - 1
      /\ Head(q) = q[1] /\ \A i \in 1..Len(q) - 1 : Tail(q)[i] = q[i + 1]
  OBVIOUS
<1>2. Head(q) \in S /\ InSeq(Head(q), q)
  BY <1>1 DEF InSeq
<1>3. ASSUME Distinct(q) PROVE Distinct(Tail(q))
  BY <1>1, <1>3 DEF Distinct
<1>4. ASSUME Distinct(q), NEW u, InSeq(u, Tail(q)) PROVE InSeq(u, q) /\ u # Head(q)
  BY <1>1, <1>4 DEF Distinct, InSeq
<1>5. ASSUME NEW u, InSeq(u, q), u # Head(q) PROVE InSeq(u, Tail(q))
  <2>1. PICK j \in 1..Len(q) : q[j] = u
    BY <1>5 DEF InSeq
  <2>2. j - 1 \in 1..Len(Tail(q)) /\ Tail(q)[j - 1] = u
    BY <1>1, <1>5, <2>1
  <2>3. QED
    BY <2>2 DEF InSeq
<1>6. QED
  BY <1>1, <1>2, <1>3, <1>4, <1>5

(* The queues after task_runq_remove and task_runq_push. *)
LEMMA Removes ==
  ASSUME NEW rq, Sorted(rq, cpu_affinity), cpu_affinity \in [Task -> CPU], NEW t \in Task
  PROVE  /\ Sorted(task_runq_remove(rq, t), cpu_affinity)
         /\ \A u \in Task, c \in CPU : InSeq(u, task_runq_remove(rq, t)[c]) <=> InSeq(u, rq[c]) /\ u # t
<1> DEFINE a == cpu_affinity[t]
           w == task_runq_remove(rq, t)
<1>1. a \in CPU /\ rq[a] \in Seq(Task) /\ Distinct(rq[a])
  BY DEF Sorted
<1>2. w = [rq EXCEPT ![a] = Without(rq[a], t)]
  BY DEF task_runq_remove
<1>3. /\ Without(rq[a], t) \in Seq(Task) /\ Distinct(Without(rq[a], t))
      /\ \A u : InSeq(u, Without(rq[a], t)) <=> InSeq(u, rq[a]) /\ u # t
  BY <1>1, WithoutSeq
<1>4. w \in [CPU -> Seq(Task)] /\ \A c \in CPU : w[c] = IF c = a THEN Without(rq[a], t) ELSE rq[c]
  BY <1>1, <1>2, <1>3 DEF Sorted
<1> HIDE DEF w
<1>5. \A u \in Task, c \in CPU : InSeq(u, w[c]) <=> InSeq(u, rq[c]) /\ u # t
  BY <1>1, <1>3, <1>4, Zenon DEF Sorted
<1>6. \A c \in CPU : Distinct(w[c])
  BY <1>3, <1>4 DEF Sorted
<1>7. QED
  BY <1>4, <1>5, <1>6 DEF Sorted, w

LEMMA Pushes ==
  ASSUME NEW rq, Sorted(rq, cpu_affinity), cpu_affinity \in [Task -> CPU], NEW t \in Task
  PROVE  /\ Sorted(WokenRunq(rq, t), cpu_affinity)
         /\ \A u \in Task, c \in CPU : InSeq(u, WokenRunq(rq, t)[c]) <=>
              (InSeq(u, rq[c]) /\ u # t) \/ (u = t /\ c = cpu_affinity[t])
<1> DEFINE a == cpu_affinity[t]
           r == task_runq_remove(rq, t)
           w == WokenRunq(rq, t)
<1>1. Sorted(r, cpu_affinity) /\ \A u \in Task, c \in CPU : InSeq(u, r[c]) <=> InSeq(u, rq[c]) /\ u # t
  BY Removes
<1>2. w = [r EXCEPT ![a] = Append(r[a], t)]
  BY DEF WokenRunq, task_runq_push
<1> HIDE DEF r, w
<1>3. a \in CPU /\ r[a] \in Seq(Task) /\ Distinct(r[a]) /\ ~ InSeq(t, r[a])
  BY <1>1 DEF Sorted
<1>4. /\ Append(r[a], t) \in Seq(Task) /\ Distinct(Append(r[a], t))
      /\ \A u : InSeq(u, Append(r[a], t)) <=> InSeq(u, r[a]) \/ u = t
  BY <1>3, AppendSeq
<1>5. w \in [CPU -> Seq(Task)] /\ \A c \in CPU : w[c] = IF c = a THEN Append(r[a], t) ELSE r[c]
  BY <1>1, <1>2, <1>3, <1>4 DEF Sorted
<1>6. \A u \in Task, c \in CPU : InSeq(u, w[c]) <=> (InSeq(u, rq[c]) /\ u # t) \/ (u = t /\ c = a)
  BY <1>1, <1>3, <1>4, <1>5, Zenon
<1>7. \A c \in CPU : Distinct(w[c])
  BY <1>1, <1>4, <1>5, Zenon DEF Sorted
<1>8. QED
  BY <1>1, <1>5, <1>6, <1>7 DEF Sorted, w

(* The queues after schedule() has taken the first of CPU d's. *)
LEMMA Pops ==
  ASSUME NEW rq, Sorted(rq, cpu_affinity), cpu_affinity \in [Task -> CPU],
         NEW d \in CPU, rq[d] # <<>>
  PROVE  /\ Sorted([rq EXCEPT ![d] = Tail(@)], cpu_affinity)
         /\ Head(rq[d]) \in Task /\ cpu_affinity[Head(rq[d])] = d /\ InSeq(Head(rq[d]), rq[d])
         /\ \A u \in Task, c \in CPU : InSeq(u, [rq EXCEPT ![d] = Tail(@)][c]) <=>
              InSeq(u, rq[c]) /\ u # Head(rq[d])
<1> DEFINE w == [rq EXCEPT ![d] = Tail(rq[d])]
<1>1. rq[d] \in Seq(Task) /\ Distinct(rq[d]) /\ rq \in [CPU -> Seq(Task)]
  BY DEF Sorted
<1>2. /\ Tail(rq[d]) \in Seq(Task) /\ Head(rq[d]) \in Task /\ InSeq(Head(rq[d]), rq[d])
      /\ Distinct(Tail(rq[d]))
      /\ \A u : InSeq(u, Tail(rq[d])) <=> InSeq(u, rq[d]) /\ u # Head(rq[d])
  BY <1>1, TailSeq
<1>3. cpu_affinity[Head(rq[d])] = d
  BY <1>2 DEF Sorted
<1>4. w \in [CPU -> Seq(Task)] /\ \A c \in CPU : w[c] = IF c = d THEN Tail(rq[d]) ELSE rq[c]
  BY <1>1, <1>2
<1> HIDE DEF w
<1>5. \A u \in Task, c \in CPU : InSeq(u, w[c]) <=> InSeq(u, rq[c]) /\ u # Head(rq[d])
  BY <1>2, <1>3, <1>4, Zenon DEF Sorted
<1>6. Sorted(w, cpu_affinity)
  BY <1>1, <1>2, <1>4, <1>5, Zenon DEF Sorted
<1>7. QED
  BY <1>2, <1>3, <1>5, <1>6 DEF w

-----------------------------------------------------------------------------
(* The kinds of steps. *)

(* schedule(), whoever calls it. *)
Turn(c) ==
  /\ phase[c] = "run" /\ schedule(c)
  /\ resched' = resched \/ resched' = [resched EXCEPT ![c] = FALSE]

(* What the current task of a CPU does, and what is done to a task, without   *)
(* schedule() and without freeing or making one.                              *)
Acts(c) == MarkBlocked(c) \/ CancelSleep(c) \/ Exit(c) \/ BeginReap(c) \/ ReapSpin(c) \/ TimerTick(c)

Wakes(t) == Wake(t) \/ PollSleepWakeups(t) \/ SignalPid(t)

Kills ==
  \/ \E t \in Task : KillNext(t)
  \/ \E t \in Killable, p \in Task, told \in BOOLEAN : TerminatePid(t, p, told)
  \/ \E S \in SUBSET Killable : KillPgrp(S)

LEMMA StepKinds ==
  ASSUME Next
  PROVE  \/ \E c \in CPU : \/ Acts(c) \/ Turn(c) \/ Fork(c) \/ ReapLocked(c)
                           \/ ContextSwitch(c) \/ FinishSwitch(c)
         \/ (\E t \in Task : Wakes(t)) \/ Kills
<1>1. ASSUME NEW c \in CPU, Yield(c) \/ SchedYield(c) \/ Preempt(c) \/ IdleLoop(c)
      PROVE  Turn(c)
  BY <1>1 DEF Turn, Yield, SchedYield, Preempt, IdleLoop, Runs
<1>2. QED
  BY <1>1 DEF Next, Acts, Wakes, Kills

(* What schedule() switches to. *)
LEMMA Picked ==
  ASSUME TypeOK, Queues, NEW c \in CPU, ScheduleSwitch(c)
  PROVE  \E n \in AnyTask, rq \in [CPU -> Seq(Task)] :
           /\ SwitchTo(c, n, rq) /\ Owns(c, n) /\ Sorted(rq, cpu_affinity)
           /\ \A u \in Task, d \in CPU : InSeq(u, rq[d]) <=> InSeq(u, runq[d]) /\ u # n
<1>1. CASE runq[c] # <<>> /\ SwitchTo(c, Head(runq[c]), [runq EXCEPT ![c] = Tail(@)])
  <2> DEFINE n == Head(runq[c])
             rq == [runq EXCEPT ![c] = Tail(@)]
  <2>1. /\ Sorted(rq, cpu_affinity) /\ n \in Task /\ cpu_affinity[n] = c /\ InSeq(n, runq[c])
        /\ \A u \in Task, d \in CPU : InSeq(u, rq[d]) <=> InSeq(u, runq[d]) /\ u # n
    BY <1>1, Pops, Zenon DEF Queues, TypeOK
  <2>2. SwitchTo(c, n, rq)
    BY <1>1
  <2> HIDE DEF n, rq
  <2>3. Owns(c, n)
    BY <2>1 DEF Owns, Queues
  <2>4. QED
    BY <2>1, <2>2, <2>3 DEF AnyTask, Sorted
<1>2. CASE SwitchTo(c, idle_task[c], runq)
  <2>1. idle_task[c] \in Idle
    BY DEF Idle
  <2>2. idle_task[c] \notin Task
    BY <2>1, ThreadsAssumption
  <2>3. QED
    BY <1>2, <2>1, <2>2 DEF AnyTask, Owns, Queues, Sorted
<1>3. QED
  BY <1>1, <1>2 DEF ScheduleSwitch

(* The queues after a switch from a task that still runs. *)
LEMMA Requeues ==
  ASSUME NEW rq, Sorted(rq, cpu_affinity), cpu_affinity \in [Task -> CPU], NEW t
  PROVE  /\ Sorted(Requeued(rq, t), cpu_affinity)
         /\ \A u \in Task, c \in CPU : InSeq(u, Requeued(rq, t)[c]) <=>
              \/ InSeq(u, rq[c]) /\ ~ (u = t /\ state[t] = "RUNNING")
              \/ u = t /\ state[t] = "RUNNING" /\ c = cpu_affinity[t]
<1>1. CASE state[t] = "RUNNING" /\ t \in Task
  <2>1. Requeued(rq, t) = WokenRunq(rq, t)
    BY <1>1 DEF Requeued, WokenRunq
  <2>2. QED
    BY <1>1, <2>1, Pushes
<1>2. CASE ~ (state[t] = "RUNNING" /\ t \in Task)
  BY <1>2 DEF Requeued
<1>3. QED
  BY <1>1, <1>2

-----------------------------------------------------------------------------
(* Types. *)

LEMMA TurnType ==
  ASSUME TypeOK, Queues, NEW c \in CPU, Turn(c)
  PROVE  TypeOK'
<1> USE DEF TypeOK
<1>1. current[c] \in AnyTask /\ resched' \in [CPU -> BOOLEAN] /\ Sorted(runq, cpu_affinity)
  BY Zenon DEF Turn, Queues, AnyTask
<1>2. Returned(current[c]) \in [Task -> {"run", "yield", "exit", "reap", "reap_lock"}]
  BY DEF Returned
<1>3. CASE ScheduleStays(c)
  BY <1>1, <1>2, <1>3 DEF ScheduleStays, taskVars, switchVars
<1>4. CASE ScheduleSelf(c)
  <2>1. [runq EXCEPT ![c] = Tail(@)] \in [CPU -> Seq(Task)]
    BY <1>1, <1>4, Pops DEF ScheduleSelf, Sorted
  <2>2. [state EXCEPT ![current[c]] = "RUNNING"] \in [Task \cup Idle -> States]
    BY DEF States
  <2>3. QED
    BY <1>1, <1>2, <1>4, <2>1, <2>2 DEF ScheduleSelf, switchVars
<1>5. CASE ScheduleSwitch(c)
  <2>1. PICK n \in AnyTask, rq \in [CPU -> Seq(Task)] : SwitchTo(c, n, rq) /\ Sorted(rq, cpu_affinity)
    BY <1>5, Picked
  <2>2. runq' \in [CPU -> Seq(Task)]
    BY <2>1, Requeues, Zenon DEF SwitchTo, Sorted
  <2>3. state' \in [Task \cup Idle -> States]
    BY <2>1, Zenon DEF SwitchTo, States, AnyTask
  <2>4. deadline' \in [Task -> BOOLEAN]
    BY <2>1, Zenon DEF SwitchTo
  <2>5. QED
    BY <1>1, <2>1, <2>2, <2>3, <2>4, Zenon DEF SwitchTo, AnyTask, codeVars
<1>6. QED
  BY <1>3, <1>4, <1>5 DEF Turn, schedule

LEMMA TypeStep ==
  ASSUME IInv, [Next]_vars
  PROVE  TypeOK'
<1> USE DEF TypeOK
<1>0. TypeOK /\ Queues /\ Phases /\ Callers /\ Sorted(runq, cpu_affinity)
  BY DEF IInv, Queues
<1>1. ASSUME NEW t \in Task
      PROVE  /\ task_runq_remove(runq, t) \in [CPU -> Seq(Task)]
             /\ WokenRunq(runq, t) \in [CPU -> Seq(Task)]
             /\ \A u \in Task : WokenRunq(task_runq_remove(runq, t), u) \in [CPU -> Seq(Task)]
  <2>1. Sorted(task_runq_remove(runq, t), cpu_affinity) /\ Sorted(WokenRunq(runq, t), cpu_affinity)
    BY <1>0, Removes, Pushes, Zenon
  <2>2. \A u \in Task : Sorted(WokenRunq(task_runq_remove(runq, t), u), cpu_affinity)
    BY <1>0, <2>1, Pushes, Zenon
  <2>3. QED
    BY <2>1, <2>2 DEF Sorted
<1>2. ASSUME NEW c \in CPU, Acts(c)
      PROVE  TypeOK'
  <2>1. CASE MarkBlocked(c)
    BY <1>0, <1>1, <2>1 DEF MarkBlocked, States, Asleep, switchVars
  <2>2. CASE CancelSleep(c)
    BY <1>0, <2>2 DEF CancelSleep, States, switchVars, codeVars
  <2>3. CASE Exit(c)
    <3>1. PICK t \in Task : /\ runq' = task_runq_remove(runq, t)
                            /\ state' = [state EXCEPT ![t] = "ZOMBIE"]
                            /\ doing' = [doing EXCEPT ![t] = "exit"]
      BY <2>3, Zenon DEF Exit
    <3>2. UNCHANGED <<deadline, cpu_affinity, switchVars, resched, victim, stale, killing>>
      BY <2>3 DEF Exit
    <3>3. QED
      BY <1>0, <1>1, <3>1, <3>2 DEF States, switchVars
  <2>4. CASE BeginReap(c)
    <3>1. PICK t \in Task, z \in Task : /\ doing' = [doing EXCEPT ![t] = "reap"]
                                       /\ victim' = [victim EXCEPT ![t] = z]
      BY <2>4, Zenon DEF BeginReap
    <3>2. UNCHANGED <<taskVars, switchVars, resched, stale, killing>>
      BY <2>4 DEF BeginReap
    <3>3. QED
      BY <1>0, <3>1, <3>2 DEF taskVars, switchVars
  <2>7. CASE ReapSpin(c)
    <3>1. PICK t \in Task : doing' = [doing EXCEPT ![t] = "reap_lock"]
      BY <2>7, Zenon DEF ReapSpin
    <3>2. UNCHANGED <<taskVars, switchVars, resched, victim, stale, killing>>
      BY <2>7 DEF ReapSpin
    <3>3. QED
      BY <1>0, <3>1, <3>2 DEF taskVars, switchVars
  <2>5. CASE TimerTick(c)
    BY <1>0, <2>5 DEF TimerTick, taskVars, switchVars, codeVars
  <2>6. QED
    BY <1>2, <2>1, <2>2, <2>3, <2>4, <2>5, <2>7 DEF Acts
<1>3. ASSUME NEW t \in Task, Wakes(t)
      PROVE  TypeOK'
  <2>1. stale' \in 0..MaxStale
    BY <1>0, <1>3, ThreadsAssumption DEF Wakes, Wake, PollSleepWakeups, SignalPid, codeVars
  <2>2. QED
    BY <1>0, <1>1, <1>3, <2>1, Zenon
       DEF Wakes, Wake, PollSleepWakeups, SignalPid, WokenState, States, switchVars, codeVars
<1>4. CASE Kills
  <2>0. Killable \subseteq Task
    BY ThreadsAssumption
  <2>1. ASSUME NEW t \in Task, KillNext(t)
        PROVE  TypeOK'
    BY <1>0, <1>1, <2>1, Zenon DEF KillNext, States, switchVars
  <2>2. ASSUME NEW t \in Killable, NEW p \in Task, NEW told \in BOOLEAN, TerminatePid(t, p, told)
        PROVE  TypeOK'
    BY <1>0, <1>1, <2>0, <2>2, Zenon DEF TerminatePid, States, switchVars, codeVars
  <2>3. CASE \E S \in SUBSET Killable : KillPgrp(S)
    BY <1>0, <2>0, <2>3 DEF KillPgrp, taskVars, switchVars
  <2>4. QED
    BY <1>4, <2>1, <2>2, <2>3, Zenon DEF Kills
<1>5. ASSUME NEW c \in CPU, Fork(c)
      PROVE  TypeOK'
  <2>1. PICK t \in Task, u \in Task : \E d \in SpawnCpus(cpu_affinity[t]) :
          /\ cpu_affinity' = [cpu_affinity EXCEPT ![u] = d]
          /\ runq' = [runq EXCEPT ![d] = Append(@, u)]
          /\ resched' = [resched EXCEPT ![d] = TRUE]
          /\ state' = [state EXCEPT ![u] = "READY"]
          /\ deadline' = [deadline EXCEPT ![u] = FALSE]
          /\ saved' = [saved EXCEPT ![u] = TRUE]
          /\ UNCHANGED <<current, on_cpu, switched_from, phase, stack, codeVars>>
    BY <1>5, Zenon DEF Fork
  <2>2. SpawnCpus(cpu_affinity[t]) \subseteq CPU
    BY DEF SpawnCpus
  <2>3. QED
    BY <1>0, <2>1, <2>2 DEF States, codeVars
<1>6. ASSUME NEW c \in CPU, ReapLocked(c)
      PROVE  TypeOK'
  <2>1. PICK t \in Task : /\ doing[t] = "reap_lock"
                          /\ LET z == victim[t] IN
                             IF Reapable(z)
                             THEN /\ state' = [state EXCEPT ![z] = "FREE"]
                                  /\ runq' = task_runq_remove(runq, z)
                                  /\ doing' = [doing EXCEPT ![t] = "run", ![z] = "run"]
                                  /\ victim' = [victim EXCEPT ![t] = None, ![z] = None]
                             ELSE /\ doing' = [doing EXCEPT ![t] = "run"]
                                  /\ victim' = [victim EXCEPT ![t] = None]
                                  /\ UNCHANGED <<state, runq>>
    BY <1>6 DEF ReapLocked
  <2>2. victim[t] \in Task
    BY <1>0, <2>1 DEF Callers
  <2>3. UNCHANGED <<deadline, cpu_affinity, switchVars, resched, stale, killing>>
    BY <1>6 DEF ReapLocked
  <2>4. /\ state' \in [Task \cup Idle -> States] /\ runq' \in [CPU -> Seq(Task)]
        /\ doing' \in [Task -> {"run", "yield", "exit", "reap", "reap_lock"}]
        /\ victim' \in [Task -> Task \cup {None}]
    <3>1. CASE Reapable(victim[t])
      <4>1. /\ runq' = task_runq_remove(runq, victim[t])
            /\ state' = [state EXCEPT ![victim[t]] = "FREE"]
            /\ doing' = [doing EXCEPT ![t] = "run", ![victim[t]] = "run"]
            /\ victim' = [victim EXCEPT ![t] = None, ![victim[t]] = None]
        BY <2>1, <3>1, Zenon
      <4>2. runq' \in [CPU -> Seq(Task)]
        BY <1>1, <2>2, <4>1, Zenon
      <4>3. QED
        BY <1>0, <2>2, <4>1, <4>2, Zenon DEF States
    <3>2. CASE ~ Reapable(victim[t])
      BY <1>0, <2>1, <3>2, Zenon
    <3>3. QED
      BY <3>1, <3>2
  <2>5. QED
    BY <1>0, <2>3, <2>4 DEF switchVars
<1>7. ASSUME NEW c \in CPU, ContextSwitch(c)
      PROVE  TypeOK'
  BY <1>0, <1>7, Zenon DEF ContextSwitch, Phases, taskVars, codeVars
<1>8. ASSUME NEW c \in CPU, FinishSwitch(c)
      PROVE  TypeOK'
  <2>1. Returned(current[c]) \in [Task -> {"run", "yield", "exit", "reap", "reap_lock"}]
    BY <1>0 DEF Returned
  <2>2. QED
    BY <1>0, <1>8, <2>1 DEF FinishSwitch, Phases, AnyTask, taskVars
<1>9. CASE UNCHANGED vars
  BY <1>0, <1>9 DEF vars, taskVars, switchVars, codeVars
<1>10. QED
  BY <1>0, <1>2, <1>3, <1>4, <1>5, <1>6, <1>7, <1>8, <1>9, StepKinds, TurnType, Zenon

-----------------------------------------------------------------------------
(* Steps that switch no CPU, and neither make nor free a task. *)
Quiet ==
  /\ UNCHANGED <<switchVars, cpu_affinity>>
  /\ \A t \in AnyTask :
       /\ state'[t] = "FREE" <=> state[t] = "FREE"
       /\ state'[t] = "RUNNING" => state[t] = "RUNNING" \/ \E c \in CPU : current[c] = t

LEMMA QuietKeeps ==
  ASSUME IInv, Quiet
  PROVE  Owned' /\ Phases' /\ Contexts' /\ NoTaskLost'
<1>2. \A c \in CPU : Uses(c)' = Uses(c)
  BY DEF Quiet, switchVars, Uses
<1>3. Owned'
  BY <1>2 DEF IInv, Owned, Owns, Quiet, switchVars, AnyTask
<1>4. Phases'
  BY DEF IInv, Phases, Quiet, switchVars
<1>5. Contexts'
  BY DEF IInv, Contexts, Quiet, switchVars
<1>6. NoTaskLost'
  BY DEF IInv, NoTaskLost, Quiet, switchVars, AnyTask
<1>7. QED
  BY <1>3, <1>4, <1>5, <1>6

(* The task a CPU in phase "run" is executing. *)
LEMMA RunningTask ==
  ASSUME IInv, NEW c \in CPU
  PROVE  /\ current[c] \in Uses(c) /\ current[c] \in AnyTask /\ Owns(c, current[c])
         /\ state[current[c]] = "FREE" => current[c] = idle_task[c]
         /\ stack[c] \in Uses(c) /\ Owns(c, stack[c])
<1>1. current[c] \in AnyTask /\ current[c] # None /\ stack[c] # None
  BY ThreadsAssumption DEF IInv, TypeOK, AnyTask
<1>2. current[c] \in Uses(c) /\ stack[c] \in Uses(c)
  BY <1>1 DEF Uses
<1>3. Owns(c, current[c]) /\ Owns(c, stack[c])
  BY <1>2 DEF IInv, Owned
<1>4. QED
  BY <1>1, <1>2, <1>3 DEF Owns

LEMMA ActsQuiet ==
  ASSUME IInv, NEW c \in CPU, Acts(c)
  PROVE  Quiet
<1> USE DEF AnyTask
<1>1. \A t \in Task : current[c] = t => state[t] # "FREE"
  BY RunningTask, ThreadsAssumption DEF Idle
<1>2. state \in [AnyTask -> States]
  BY DEF IInv, TypeOK
<1>3. CASE MarkBlocked(c)
  <2>1. PICK t \in Task, x \in Asleep : current[c] = t /\ state' = [state EXCEPT ![t] = x]
    BY <1>3, Zenon DEF MarkBlocked, Runs
  <2>2. QED
    BY <1>1, <1>2, <1>3, <2>1 DEF MarkBlocked, Quiet, Asleep
<1>4. CASE CancelSleep(c)
  <2>1. PICK t \in Task : current[c] = t /\ state' = [state EXCEPT ![t] = "RUNNING"]
    BY <1>4, Zenon DEF CancelSleep
  <2>2. QED
    BY <1>1, <1>2, <1>4, <2>1 DEF CancelSleep, Quiet
<1>5. CASE Exit(c)
  <2>1. PICK t \in Task : current[c] = t /\ state' = [state EXCEPT ![t] = "ZOMBIE"]
    BY <1>5, Zenon DEF Exit, Runs
  <2>2. QED
    BY <1>1, <1>2, <1>5, <2>1 DEF Exit, Quiet
<1>6. CASE BeginReap(c) \/ ReapSpin(c) \/ TimerTick(c)
  BY <1>6 DEF BeginReap, ReapSpin, TimerTick, Quiet, taskVars
<1>7. QED
  BY <1>3, <1>4, <1>5, <1>6 DEF Acts

LEMMA WakesQuiet ==
  ASSUME IInv, NEW t \in Task, Wakes(t)
  PROVE  Quiet
<1>1. state \in [AnyTask -> States] /\ t \in AnyTask
  BY DEF IInv, TypeOK, AnyTask
<1>2. state[t] # "FREE" /\ state' = [state EXCEPT ![t] = "READY"]
  BY DEF Wakes, Wake, Wakeable, PollSleepWakeups, SignalPid, Asleep, WokenState
<1>3. UNCHANGED <<switchVars, cpu_affinity>>
  BY DEF Wakes, Wake, PollSleepWakeups, SignalPid
<1>4. QED
  BY <1>1, <1>2, <1>3 DEF Quiet

LEMMA KillsQuiet ==
  ASSUME IInv, Kills
  PROVE  Quiet
<1>1. state \in [AnyTask -> States] /\ Killable \subseteq Task /\ Task \subseteq AnyTask
  BY ThreadsAssumption DEF IInv, TypeOK, AnyTask
<1>2. ASSUME NEW t \in Task, KillNext(t)
      PROVE  Quiet
  <2>1. state[t] # "FREE"
    BY <1>2 DEF KillNext, IInv, Callers
  <2>2. QED
    BY <1>1, <1>2, <2>1 DEF KillNext, Quiet
<1>3. ASSUME NEW t \in Killable, NEW p \in Task, NEW told \in BOOLEAN, TerminatePid(t, p, told)
      PROVE  Quiet
  BY <1>1, <1>3 DEF TerminatePid, Quiet
<1>4. CASE \E S \in SUBSET Killable : KillPgrp(S)
  BY <1>4 DEF KillPgrp, Quiet, taskVars
<1>5. QED
  BY <1>2, <1>3, <1>4 DEF Kills

LEMMA StaysQuiet ==
  ASSUME IInv, NEW c \in CPU, ScheduleStays(c) \/ ScheduleSelf(c)
  PROVE  Quiet
<1>1. state \in [AnyTask -> States]
  BY DEF IInv, TypeOK, AnyTask
<1>2. CASE ScheduleStays(c)
  BY <1>2 DEF ScheduleStays, Quiet, taskVars
<1>3. CASE ScheduleSelf(c)
  <2>1. current[c] \in AnyTask /\ current[c] \in Task
    BY <1>3, Pops, RunningTask DEF ScheduleSelf, IInv, Queues, TypeOK
  <2>2. state[current[c]] # "FREE"
    BY <2>1, RunningTask, ThreadsAssumption DEF Idle
  <2>3. QED
    BY <1>1, <1>3, <2>1, <2>2 DEF ScheduleSelf, Quiet
<1>4. QED
  BY <1>2, <1>3

(* No two CPUs own a task. *)
LEMMA OwnsOne ==
  ASSUME NEW c \in CPU, NEW d \in CPU, NEW t, Owns(c, t), Owns(d, t)
  PROVE  c = d
BY ThreadsAssumption DEF Owns, Idle

(* The steps of a switch. *)
LEMMA SwitchKeeps ==
  ASSUME IInv, NEW c \in CPU, phase[c] = "run", ScheduleSwitch(c)
  PROVE  Owned' /\ Phases' /\ Contexts' /\ NoTaskLost'
<1>1. PICK n \in AnyTask, rq \in [CPU -> Seq(Task)] : SwitchTo(c, n, rq) /\ Owns(c, n)
  BY Picked DEF IInv
<1>2. PICK p \in AnyTask : p = current[c] /\ Owns(c, p) /\ p \in Uses(c)
  BY RunningTask
<1>3. /\ n # p /\ current' = [current EXCEPT ![c] = n] /\ on_cpu' = [on_cpu EXCEPT ![n] = TRUE]
      /\ switched_from' = [switched_from EXCEPT ![c] = p] /\ phase' = [phase EXCEPT ![c] = "switch"]
      /\ state' = [state EXCEPT ![p] = IF state[p] = "RUNNING" /\ p \in Task THEN "READY" ELSE @,
                                ![n] = "RUNNING"]
      /\ UNCHANGED <<cpu_affinity, stack, saved>>
  BY <1>1, <1>2 DEF SwitchTo
<1>4. stack[c] = p /\ switched_from[c] = None
  BY <1>2 DEF IInv, Phases
<1>5. /\ state \in [AnyTask -> States] /\ current \in [CPU -> AnyTask] /\ on_cpu \in [AnyTask -> BOOLEAN]
      /\ switched_from \in [CPU -> AnyTask \cup {None}] /\ stack \in [CPU -> AnyTask]
      /\ phase \in [CPU -> {"run", "switch", "finish"}]
  BY DEF IInv, TypeOK, AnyTask
<1>6. \A t \in AnyTask : /\ state'[t] = "FREE" => state[t] = "FREE"
                         /\ state'[t] # "FREE" => state[t] # "FREE" \/ t = n
                         /\ state'[t] = "RUNNING" => t = n \/ (t # p /\ state[t] = "RUNNING") \/ t \notin Task
  BY <1>3, <1>5
<1>7. None \notin AnyTask
  BY ThreadsAssumption DEF AnyTask
<1>8. \A d \in CPU : Uses(d)' = IF d = c THEN {n, p} ELSE Uses(d)
  BY <1>2, <1>3, <1>4, <1>5, <1>7 DEF Uses
<1>9. \A d \in CPU : \A t : Owns(d, t) => Owns(d, t)'
  BY <1>3, <1>6, Zenon DEF Owns, AnyTask
<1>10. Owned'
  <2>1. ASSUME NEW d \in CPU, NEW t \in Uses(d), t \in Task \ {BootTask} PROVE on_cpu'[t]
    BY <1>3, <1>5, <2>1 DEF IInv, Owned, AnyTask
  <2>2. p \in Task \ {BootTask} => on_cpu'[p]
    BY <1>2, <2>1
  <2>3. n \in Task \ {BootTask} => on_cpu'[n]
    BY <1>3, <1>5
  <2>4. \A d \in CPU : \A t \in Uses(d)' : Owns(d, t)'
    BY <1>1, <1>2, <1>8, <1>9 DEF IInv, Owned
  <2>5. QED
    BY <1>8, <2>1, <2>2, <2>3, <2>4 DEF Owned
<1>11. saved[n]
  <2>1. SUFFICES ASSUME ~ saved[n] PROVE FALSE
    OBVIOUS
  <2>2. CASE state[n] # "FREE"
    <3>1. PICK d \in CPU : stack[d] = n
      BY <2>1, <2>2 DEF IInv, Contexts
    <3>2. Owns(d, n)
      BY <3>1, RunningTask
    <3>3. QED
      BY <1>1, <1>3, <1>4, <3>1, <3>2, OwnsOne
  <2>3. CASE state[n] = "FREE"
    BY <1>1, <2>3 DEF IInv, Owns, Callers
  <2>4. QED
    BY <2>2, <2>3
<1>12. Phases'
  BY <1>3, <1>4, <1>5, <1>11 DEF IInv, Phases
<1>13. Contexts'
  BY <1>3, <1>6, <1>11 DEF IInv, Contexts
<1>14. NoTaskLost'
  <2>1. ASSUME NEW t \in Task, state'[t] = "RUNNING" PROVE \E d \in CPU : current'[d] = t
    <3>1. CASE t = n
      BY <1>3, <1>5, <3>1
    <3>2. CASE t # n
      <4>1. t # p /\ state[t] = "RUNNING"
        BY <1>6, <2>1, <3>2 DEF AnyTask
      <4>2. PICK d \in CPU : current[d] = t
        BY <4>1 DEF IInv, NoTaskLost
      <4>3. QED
        BY <1>2, <1>3, <1>5, <4>1, <4>2
    <3>3. QED
      BY <3>1, <3>2
  <2>2. QED
    BY <2>1 DEF NoTaskLost
<1>15. QED
  BY <1>10, <1>12, <1>13, <1>14

LEMMA ContextKeeps ==
  ASSUME IInv, NEW c \in CPU, ContextSwitch(c)
  PROVE  Owned' /\ Phases' /\ Contexts' /\ NoTaskLost'
<1>1. PICK n \in AnyTask, p \in AnyTask :
        /\ n = current[c] /\ p = switched_from[c] /\ p = stack[c] /\ p # n /\ Owns(c, n) /\ Owns(c, p)
        /\ saved[n]
  <2>1. current[c] \in AnyTask /\ stack[c] \in AnyTask /\ Owns(c, current[c]) /\ Owns(c, stack[c])
    BY RunningTask DEF IInv, TypeOK, AnyTask
  <2>2. phase[c] = "switch"
    BY DEF ContextSwitch
  <2>3. QED
    BY <2>1, <2>2 DEF IInv, Phases
<1>2. /\ saved' = [saved EXCEPT ![p] = TRUE, ![n] = FALSE] /\ stack' = [stack EXCEPT ![c] = n]
      /\ phase' = [phase EXCEPT ![c] = "finish"]
      /\ UNCHANGED <<state, cpu_affinity, current, on_cpu, switched_from>>
  BY <1>1 DEF ContextSwitch, taskVars
<1>3. /\ saved \in [AnyTask -> BOOLEAN] /\ stack \in [CPU -> AnyTask] /\ current \in [CPU -> AnyTask]
      /\ phase \in [CPU -> {"run", "switch", "finish"}] /\ None \notin AnyTask
  BY ThreadsAssumption DEF IInv, TypeOK, AnyTask
<1>4. \A d \in CPU : Uses(d)' \subseteq Uses(d)
  BY <1>1, <1>2, <1>3 DEF Uses
<1>5. Owned'
  BY <1>2, <1>4 DEF IInv, Owned, Owns
<1>6. \A d \in CPU \ {c} : current[d] # n
  BY <1>1, OwnsOne, RunningTask
<1>7. Phases'
  <2>1. \A d \in CPU \ {c} : saved[current[d]] => saved'[current[d]]
    BY <1>2, <1>3, <1>6
  <2>2. QED
    BY <1>1, <1>2, <1>3, <2>1 DEF IInv, Phases
<1>8. Contexts'
  <2>1. ASSUME NEW t \in AnyTask, state[t] # "FREE", ~ saved'[t]
        PROVE  \E d \in CPU : stack'[d] = t
    <3>1. CASE t = n
      BY <1>2, <1>3, <3>1
    <3>2. CASE t # n
      <4>1. ~ saved[t] /\ t # p
        BY <1>1, <1>2, <1>3, <2>1, <3>2
      <4>2. PICK d \in CPU : stack[d] = t
        BY <2>1, <4>1 DEF IInv, Contexts
      <4>3. QED
        BY <1>1, <1>2, <1>3, <4>1, <4>2
    <3>3. QED
      BY <3>1, <3>2
  <2>2. QED
    BY <1>2, <2>1 DEF Contexts
<1>9. NoTaskLost'
  BY <1>2 DEF IInv, NoTaskLost
<1>10. QED
  BY <1>5, <1>7, <1>8, <1>9

LEMMA FinishKeeps ==
  ASSUME IInv, NEW c \in CPU, FinishSwitch(c)
  PROVE  Owned' /\ Phases' /\ Contexts' /\ NoTaskLost'
<1>1. PICK p \in AnyTask : p = switched_from[c] /\ p # current[c] /\ stack[c] = current[c] /\ p \in Uses(c)
  BY ThreadsAssumption DEF FinishSwitch, IInv, Phases, Uses, AnyTask
<1>2. /\ on_cpu' = [on_cpu EXCEPT ![p] = FALSE] /\ switched_from' = [switched_from EXCEPT ![c] = None]
      /\ phase' = [phase EXCEPT ![c] = "run"]
      /\ UNCHANGED <<state, cpu_affinity, current, stack, saved>>
  BY <1>1 DEF FinishSwitch, taskVars
<1>3. /\ on_cpu \in [AnyTask -> BOOLEAN] /\ switched_from \in [CPU -> AnyTask \cup {None}]
      /\ phase \in [CPU -> {"run", "switch", "finish"}] /\ Owns(c, p)
  BY <1>1 DEF IInv, TypeOK, AnyTask, Owned
<1>4. \A d \in CPU : Uses(d)' \subseteq Uses(d) \ {p}
  <2>1. Uses(c)' \subseteq Uses(c) \ {p}
    BY <1>1, <1>2, <1>3 DEF Uses
  <2>2. ASSUME NEW d \in CPU, d # c PROVE Uses(d)' = Uses(d) /\ p \notin Uses(d)
    BY <1>2, <1>3, <2>2, OwnsOne DEF Uses, IInv, Owned
  <2>3. QED
    BY <2>1, <2>2
<1>5. Owned'
  BY <1>2, <1>3, <1>4 DEF IInv, Owned, Owns, AnyTask
<1>6. Phases'
  BY <1>1, <1>2, <1>3 DEF IInv, Phases
<1>7. Contexts' /\ NoTaskLost'
  BY <1>2 DEF IInv, Contexts, NoTaskLost
<1>8. QED
  BY <1>5, <1>6, <1>7

(* A task that is made, and one that is freed. *)
LEMMA ForkKeeps ==
  ASSUME IInv, NEW c \in CPU, Fork(c)
  PROVE  Owned' /\ Phases' /\ Contexts' /\ NoTaskLost'
<1>1. PICK u \in Task :
        /\ state[u] = "FREE" /\ \E d : cpu_affinity' = [cpu_affinity EXCEPT ![u] = d]
        /\ state' = [state EXCEPT ![u] = "READY"] /\ saved' = [saved EXCEPT ![u] = TRUE]
  BY Zenon DEF Fork
<1>2. UNCHANGED <<current, on_cpu, switched_from, phase, stack>>
  BY DEF Fork
<1>3. /\ state \in [AnyTask -> States] /\ saved \in [AnyTask -> BOOLEAN] /\ Task \subseteq AnyTask
      /\ cpu_affinity \in [Task -> CPU] /\ current \in [CPU -> AnyTask]
  BY DEF IInv, TypeOK, AnyTask
<1>4. \A e \in CPU : Uses(e)' = Uses(e)
  BY <1>2 DEF Uses
<1>5. \A e \in CPU : \A t : Owns(e, t) => Owns(e, t)'
  BY <1>1, <1>3 DEF Owns
<1>6. Owned'
  BY <1>2, <1>4, <1>5 DEF IInv, Owned
<1>7. Phases'
  BY <1>1, <1>2, <1>3 DEF IInv, Phases
<1>8. Contexts'
  BY <1>1, <1>2, <1>3 DEF IInv, Contexts
<1>9. NoTaskLost'
  BY <1>1, <1>2, <1>3 DEF IInv, NoTaskLost
<1>10. QED
  BY <1>6, <1>7, <1>8, <1>9

(* task_reap_locked frees a zombie that no CPU uses, or nothing. *)
LEMMA Reaped ==
  ASSUME IInv, NEW c \in CPU, ReapLocked(c)
  PROVE  \/ state' = state /\ runq' = runq
         \/ \E z \in Task : /\ state[z] = "ZOMBIE" /\ ~ on_cpu[z]
                            /\ state' = [state EXCEPT ![z] = "FREE"]
                            /\ runq' = task_runq_remove(runq, z)
<1>1. PICK t \in Task : /\ doing[t] = "reap_lock"
                        /\ LET z == victim[t] IN
                           IF Reapable(z)
                           THEN state' = [state EXCEPT ![z] = "FREE"] /\ runq' = task_runq_remove(runq, z)
                           ELSE UNCHANGED <<state, runq>>
  BY DEF ReapLocked
<1>2. victim[t] \in Task
  BY <1>1 DEF IInv, Callers
<1>3. QED
  BY <1>1, <1>2 DEF Reapable

LEMMA ReapKeeps ==
  ASSUME IInv, NEW c \in CPU, ReapLocked(c)
  PROVE  Owned' /\ Phases' /\ Contexts' /\ NoTaskLost'
<1>1. UNCHANGED <<switchVars, cpu_affinity>>
  BY DEF ReapLocked
<1>2. CASE state' = state
  BY <1>1, <1>2, QuietKeeps DEF Quiet
<1>3. ASSUME NEW z \in Task, state[z] = "ZOMBIE", ~ on_cpu[z], state' = [state EXCEPT ![z] = "FREE"]
      PROVE  Owned' /\ Phases' /\ Contexts' /\ NoTaskLost'
  <2>1. z # BootTask
    BY <1>3 DEF IInv, Callers
  <2>2. \A d \in CPU : z \notin Uses(d) /\ Uses(d)' = Uses(d)
    BY <1>1, <1>3, <2>1 DEF IInv, Owned, Uses, switchVars
  <2>3. state \in [AnyTask -> States] /\ Task \subseteq AnyTask
    BY DEF IInv, TypeOK, AnyTask
  <2>4. Owned'
    BY <1>1, <1>3, <2>2, <2>3 DEF IInv, Owned, Owns, switchVars
  <2>5. Phases'
    BY <1>1 DEF IInv, Phases, switchVars
  <2>6. Contexts' /\ NoTaskLost'
    BY <1>1, <1>3, <2>3 DEF IInv, Contexts, NoTaskLost, switchVars
  <2>7. QED
    BY <2>4, <2>5, <2>6
<1>4. QED
  BY <1>2, <1>3, Reaped

LEMMA SwitchingStep ==
  ASSUME IInv, [Next]_vars
  PROVE  Owned' /\ Phases' /\ Contexts' /\ NoTaskLost'
<1>1. CASE UNCHANGED vars
  BY <1>1, QuietKeeps DEF vars, taskVars, Quiet
<1>2. ASSUME NEW c \in CPU, Turn(c)
      PROVE  Owned' /\ Phases' /\ Contexts' /\ NoTaskLost'
  BY <1>2, StaysQuiet, QuietKeeps, SwitchKeeps DEF Turn, schedule
<1>3. QED
  BY <1>1, <1>2, StepKinds, ActsQuiet, WakesQuiet, KillsQuiet, QuietKeeps, ForkKeeps, ReapKeeps,
     ContextKeeps, FinishKeeps

-----------------------------------------------------------------------------
(* The run queues. *)

(* A queue that keeps up with a change of states. *)
LEMMA QueuesKept ==
  ASSUME UNCHANGED cpu_affinity, Sorted(runq', cpu_affinity),
         \A t \in Task : state'[t] = "READY" <=> InSeq(t, runq'[cpu_affinity[t]])
  PROVE  Queues'
BY DEF Queues, Sorted, Distinct, InSeq

LEMMA ActsQueues ==
  ASSUME IInv, NEW c \in CPU, Acts(c)
  PROVE  Queues'
<1>1. /\ state \in [AnyTask -> States] /\ Task \subseteq AnyTask /\ cpu_affinity \in [Task -> CPU]
      /\ Sorted(runq, cpu_affinity)
      /\ \A t \in Task : state[t] = "READY" <=> InSeq(t, runq[cpu_affinity[t]])
  BY DEF IInv, TypeOK, AnyTask, Queues
<1>2. ASSUME NEW t \in Task, NEW x, x # "READY", runq' = task_runq_remove(runq, t),
             state' = [state EXCEPT ![t] = x], UNCHANGED cpu_affinity
      PROVE  Queues'
  BY <1>1, <1>2, Removes, QueuesKept
<1>3. CASE MarkBlocked(c)
  <2>1. PICK t \in Task, x \in Asleep :
          runq' = task_runq_remove(runq, t) /\ state' = [state EXCEPT ![t] = x] /\ UNCHANGED cpu_affinity
    BY <1>3, Zenon DEF MarkBlocked
  <2>2. QED
    BY <1>2, <2>1, Zenon DEF Asleep
<1>4. CASE Exit(c)
  BY <1>2, <1>4, Zenon DEF Exit
<1>5. CASE CancelSleep(c)
  <2>1. PICK t \in Task : state[t] \in Asleep /\ state' = [state EXCEPT ![t] = "RUNNING"]
    BY <1>5, Zenon DEF CancelSleep
  <2>2. UNCHANGED <<runq, cpu_affinity>>
    BY <1>5 DEF CancelSleep
  <2>3. QED
    BY <1>1, <2>1, <2>2, QueuesKept DEF Asleep
<1>6. CASE BeginReap(c) \/ ReapSpin(c) \/ TimerTick(c)
  <2>1. UNCHANGED <<state, runq, cpu_affinity>>
    BY <1>6 DEF BeginReap, ReapSpin, TimerTick, taskVars
  <2>2. QED
    BY <1>1, <2>1, QueuesKept
<1>7. QED
  BY <1>3, <1>4, <1>5, <1>6 DEF Acts

LEMMA WakesQueues ==
  ASSUME IInv, NEW t \in Task, Wakes(t)
  PROVE  Queues'
<1>1. /\ state \in [AnyTask -> States] /\ Task \subseteq AnyTask /\ cpu_affinity \in [Task -> CPU]
      /\ Sorted(runq, cpu_affinity)
      /\ \A u \in Task : state[u] = "READY" <=> InSeq(u, runq[cpu_affinity[u]])
  BY DEF IInv, TypeOK, AnyTask, Queues
<1>2. state' = [state EXCEPT ![t] = "READY"] /\ runq' = WokenRunq(runq, t) /\ UNCHANGED cpu_affinity
  BY DEF Wakes, Wake, PollSleepWakeups, SignalPid, WokenState
<1>3. QED
  BY <1>1, <1>2, Pushes, QueuesKept

LEMMA KillsQueues ==
  ASSUME IInv, Kills
  PROVE  Queues'
<1>1. /\ state \in [AnyTask -> States] /\ Task \subseteq AnyTask /\ cpu_affinity \in [Task -> CPU]
      /\ Sorted(runq, cpu_affinity) /\ Killable \subseteq Task
      /\ \A u \in Task : state[u] = "READY" <=> InSeq(u, runq[cpu_affinity[u]])
  BY ThreadsAssumption DEF IInv, TypeOK, AnyTask, Queues
<1>2. ASSUME NEW t \in Task, KillNext(t)
      PROVE  Queues'
  <2>1. /\ state' = [state EXCEPT ![t] = "ZOMBIE"] /\ runq' = task_runq_remove(runq, t)
        /\ UNCHANGED cpu_affinity
    BY <1>2 DEF KillNext
  <2>2. QED
    BY <1>1, <2>1, Removes, QueuesKept
<1>3. ASSUME NEW t \in Killable, NEW p \in Task, NEW told \in BOOLEAN, TerminatePid(t, p, told)
      PROVE  Queues'
  <2> DEFINE dead == task_runq_remove(runq, t)
  <2>1. t \in Task /\ p # t /\ UNCHANGED cpu_affinity
    BY <1>1, <1>3 DEF TerminatePid
  <2>2. /\ Sorted(dead, cpu_affinity)
        /\ \A u \in Task, c \in CPU : InSeq(u, dead[c]) <=> InSeq(u, runq[c]) /\ u # t
    BY <1>1, <2>1, Removes
  <2>3. \/ state' = [state EXCEPT ![t] = "ZOMBIE", ![p] = "READY"] /\ runq' = WokenRunq(dead, p)
        \/ state' = [state EXCEPT ![t] = "ZOMBIE", ![p] = @] /\ runq' = dead
    BY <1>3, Zenon DEF TerminatePid
  <2> HIDE DEF dead
  <2>4. CASE state' = [state EXCEPT ![t] = "ZOMBIE", ![p] = "READY"] /\ runq' = WokenRunq(dead, p)
    <3>1. /\ Sorted(runq', cpu_affinity)
          /\ \A u \in Task, c \in CPU : InSeq(u, runq'[c]) <=>
               (InSeq(u, dead[c]) /\ u # p) \/ (u = p /\ c = cpu_affinity[p])
      BY <1>1, <2>2, <2>4, Pushes
    <3>2. QED
      BY <1>1, <2>1, <2>2, <2>4, <3>1, QueuesKept
  <2>5. CASE state' = [state EXCEPT ![t] = "ZOMBIE", ![p] = @] /\ runq' = dead
    BY <1>1, <2>1, <2>2, <2>5, QueuesKept
  <2>6. QED
    BY <2>3, <2>4, <2>5
<1>4. CASE \E S \in SUBSET Killable : KillPgrp(S)
  <2>1. UNCHANGED <<state, runq, cpu_affinity>>
    BY <1>4 DEF KillPgrp, taskVars
  <2>2. QED
    BY <1>1, <2>1, QueuesKept
<1>5. QED
  BY <1>2, <1>3, <1>4 DEF Kills

LEMMA TurnQueues ==
  ASSUME IInv, NEW c \in CPU, Turn(c)
  PROVE  Queues'
<1>1. /\ state \in [AnyTask -> States] /\ Task \subseteq AnyTask /\ cpu_affinity \in [Task -> CPU]
      /\ Sorted(runq, cpu_affinity) /\ current[c] \in AnyTask
      /\ \A u \in Task : state[u] = "READY" <=> InSeq(u, runq[cpu_affinity[u]])
  BY DEF IInv, TypeOK, AnyTask, Queues
<1>2. CASE ScheduleStays(c)
  BY <1>1, <1>2, QueuesKept DEF ScheduleStays, taskVars
<1>3. CASE ScheduleSelf(c)
  <2> DEFINE w == [runq EXCEPT ![c] = Tail(@)]
  <2>1. /\ runq[c] # <<>> /\ Head(runq[c]) = current[c] /\ runq' = w
        /\ state' = [state EXCEPT ![current[c]] = "RUNNING"] /\ UNCHANGED cpu_affinity
    BY <1>3 DEF ScheduleSelf
  <2>2. /\ Sorted(w, cpu_affinity) /\ current[c] \in Task
        /\ \A u \in Task, d \in CPU : InSeq(u, w[d]) <=> InSeq(u, runq[d]) /\ u # current[c]
    <3>1. /\ Sorted(w, cpu_affinity) /\ Head(runq[c]) \in Task
          /\ \A u \in Task, d \in CPU : InSeq(u, w[d]) <=> InSeq(u, runq[d]) /\ u # Head(runq[c])
      BY <1>1, <2>1, Pops, Zenon
    <3> HIDE DEF w
    <3>2. QED
      BY <2>1, <3>1
  <2> HIDE DEF w
  <2>3. QED
    BY <1>1, <2>1, <2>2, QueuesKept
<1>4. CASE ScheduleSwitch(c)
  <2>1. PICK n \in AnyTask, rq \in [CPU -> Seq(Task)] :
          /\ SwitchTo(c, n, rq) /\ Sorted(rq, cpu_affinity)
          /\ \A u \in Task, d \in CPU : InSeq(u, rq[d]) <=> InSeq(u, runq[d]) /\ u # n
    BY <1>4, Picked DEF IInv
  <2>2. PICK p \in AnyTask : p = current[c]
    BY <1>1
  <2>3. /\ n # p /\ runq' = Requeued(rq, p) /\ UNCHANGED cpu_affinity
        /\ state' = [state EXCEPT ![p] = IF state[p] = "RUNNING" /\ p \in Task THEN "READY" ELSE @,
                                  ![n] = "RUNNING"]
    BY <2>1, <2>2 DEF SwitchTo
  <2>4. /\ Sorted(runq', cpu_affinity)
        /\ \A u \in Task, d \in CPU : InSeq(u, runq'[d]) <=>
             \/ InSeq(u, rq[d]) /\ ~ (u = p /\ state[p] = "RUNNING")
             \/ u = p /\ state[p] = "RUNNING" /\ d = cpu_affinity[p]
    <3>1. /\ Sorted(Requeued(rq, p), cpu_affinity)
          /\ \A u \in Task, d \in CPU : InSeq(u, Requeued(rq, p)[d]) <=>
               \/ InSeq(u, rq[d]) /\ ~ (u = p /\ state[p] = "RUNNING")
               \/ u = p /\ state[p] = "RUNNING" /\ d = cpu_affinity[p]
      <4>1. cpu_affinity \in [Task -> CPU] /\ Sorted(rq, cpu_affinity)
        BY <1>1, <2>1
      <4>2. QED
        BY <4>1, Requeues
    <3>2. runq' = Requeued(rq, p)
      BY <2>3
    <3>3. QED
      BY <3>1, <3>2, SMT
  <2>5. ASSUME NEW u \in Task
        PROVE  state'[u] = "READY" <=> InSeq(u, runq'[cpu_affinity[u]])
    <3>1. /\ cpu_affinity[u] \in CPU
          /\ InSeq(u, rq[cpu_affinity[u]]) <=> state[u] = "READY" /\ u # n
      BY <1>1, <2>1
    <3>2. state'[u] = IF u = n THEN "RUNNING" ELSE IF u = p /\ state[p] = "RUNNING" THEN "READY" ELSE state[u]
      BY <1>1, <2>2, <2>3
    <3>3. QED
      BY <2>3, <2>4, <3>1, <3>2
  <2>6. QED
    BY <2>3, <2>4, <2>5, QueuesKept, Zenon
<1>5. QED
  BY <1>2, <1>3, <1>4 DEF Turn, schedule

LEMMA ForkQueues ==
  ASSUME IInv, NEW c \in CPU, Fork(c)
  PROVE  Queues'
<1>1. /\ state \in [AnyTask -> States] /\ Task \subseteq AnyTask /\ cpu_affinity \in [Task -> CPU]
      /\ Sorted(runq, cpu_affinity)
      /\ \A u \in Task : state[u] = "READY" <=> InSeq(u, runq[cpu_affinity[u]])
  BY DEF IInv, TypeOK, AnyTask, Queues
<1>2. PICK u \in Task, d \in CPU :
        /\ state[u] = "FREE" /\ cpu_affinity' = [cpu_affinity EXCEPT ![u] = d]
        /\ runq' = [runq EXCEPT ![d] = Append(@, u)] /\ state' = [state EXCEPT ![u] = "READY"]
  <2>1. \A t \in Task : SpawnCpus(cpu_affinity[t]) \subseteq CPU
    BY DEF SpawnCpus
  <2>2. QED
    BY <2>1, Zenon DEF Fork
<1>3. d \in CPU
  OBVIOUS
<1>4. \A e \in CPU : ~ InSeq(u, runq[e])
  BY <1>1, <1>2 DEF Sorted
<1>5. runq[d] \in Seq(Task) /\ Distinct(runq[d]) /\ runq \in [CPU -> Seq(Task)]
  BY <1>1, <1>3 DEF Sorted
<1>6. /\ Append(runq[d], u) \in Seq(Task) /\ Distinct(Append(runq[d], u))
      /\ \A v : InSeq(v, Append(runq[d], u)) <=> InSeq(v, runq[d]) \/ v = u
  BY <1>3, <1>4, <1>5, AppendSeq
<1>7. /\ runq' \in [CPU -> Seq(Task)]
      /\ \A e \in CPU : runq'[e] = IF e = d THEN Append(runq[d], u) ELSE runq[e]
  BY <1>2, <1>3, <1>5, <1>6
<1>8. \A v \in Task, e \in CPU : InSeq(v, runq'[e]) <=> InSeq(v, runq[e]) \/ (v = u /\ e = d)
  BY <1>6, <1>7, Zenon
<1>9. \A e \in CPU : Distinct(runq'[e])
  BY <1>1, <1>6, <1>7, Zenon DEF Sorted
<1>10. /\ cpu_affinity' \in [Task -> CPU]
       /\ \A v \in Task : cpu_affinity'[v] = IF v = u THEN d ELSE cpu_affinity[v]
  BY <1>1, <1>2, <1>3
<1>11. \A v \in Task, e \in CPU : InSeq(v, runq'[e]) => cpu_affinity'[v] = e
  <2>1. \A v \in Task, e \in CPU : InSeq(v, runq[e]) => cpu_affinity[v] = e /\ v # u
    BY <1>1, <1>4 DEF Sorted
  <2>2. QED
    BY <1>8, <1>10, <2>1
<1>12. \A v \in Task : state'[v] = "READY" <=> InSeq(v, runq'[cpu_affinity'[v]])
  <2>1. \A v \in Task : state'[v] = IF v = u THEN "READY" ELSE state[v]
    BY <1>1, <1>2
  <2>2. QED
    BY <1>1, <1>3, <1>8, <1>10, <2>1
<1>13. QED
  BY <1>7, <1>9, <1>11, <1>12 DEF Queues, Sorted, Distinct, InSeq

LEMMA QueuesStep ==
  ASSUME IInv, [Next]_vars
  PROVE  Queues'
<1>1. /\ state \in [AnyTask -> States] /\ Task \subseteq AnyTask /\ cpu_affinity \in [Task -> CPU]
      /\ Sorted(runq, cpu_affinity)
      /\ \A u \in Task : state[u] = "READY" <=> InSeq(u, runq[cpu_affinity[u]])
  BY DEF IInv, TypeOK, AnyTask, Queues
<1>2. CASE UNCHANGED <<state, runq, cpu_affinity>>
  BY <1>1, <1>2, QueuesKept
<1>3. ASSUME NEW c \in CPU, ReapLocked(c)
      PROVE  Queues'
  <2>1. UNCHANGED cpu_affinity
    BY <1>3 DEF ReapLocked
  <2>2. ASSUME NEW z \in Task, state' = [state EXCEPT ![z] = "FREE"], runq' = task_runq_remove(runq, z)
        PROVE  Queues'
    BY <1>1, <2>1, <2>2, Removes, QueuesKept
  <2>3. QED
    BY <1>2, <1>3, <2>1, <2>2, Reaped
<1>4. ASSUME NEW c \in CPU, ContextSwitch(c) \/ FinishSwitch(c)
      PROVE  Queues'
  BY <1>2, <1>4 DEF ContextSwitch, FinishSwitch, taskVars
<1>5. CASE UNCHANGED vars
  BY <1>2, <1>5 DEF vars, taskVars
<1>6. QED
  BY <1>3, <1>4, <1>5, StepKinds, ActsQueues, WakesQueues, KillsQueues, TurnQueues, ForkQueues

-----------------------------------------------------------------------------
LEMMA CallersStep ==
  ASSUME IInv, [Next]_vars
  PROVE  Callers'
<1> USE DEF Callers
<1>0. /\ state \in [AnyTask -> States] /\ Task \subseteq AnyTask /\ Callers
      /\ doing \in [Task -> {"run", "yield", "exit", "reap", "reap_lock"}]
      /\ victim \in [Task -> Task \cup {None}] /\ BootTask \in Task /\ Killable \subseteq Task \ {BootTask}
      /\ \A c \in CPU : idle_task[c] \in AnyTask /\ idle_task[c] \notin Task
  BY ThreadsAssumption DEF IInv, TypeOK, AnyTask, Idle
<1>1. ASSUME NEW c \in CPU
      PROVE  \A t \in Task : Returned(current[c])[t] \in {"reap", "reap_lock"} => doing[t] \in {"reap", "reap_lock"}
  BY <1>0 DEF Returned
<1>2. ASSUME NEW c \in CPU, Acts(c)
      PROVE  Callers'
  <2>1. \A t \in AnyTask : state'[t] = "FREE" => state[t] = "FREE"
    BY <1>2, ActsQuiet DEF Quiet
  <2>2. state'[BootTask] # "ZOMBIE" /\ UNCHANGED killing
    BY <1>0, <1>2 DEF Acts, MarkBlocked, CancelSleep, Exit, BeginReap, ReapSpin, TimerTick, Asleep,
                      taskVars, codeVars
  <2>3. \A t \in Task : doing'[t] \in {"reap", "reap_lock"} => victim'[t] \in Task
    BY <1>0, <1>2 DEF Acts, MarkBlocked, CancelSleep, Exit, BeginReap, ReapSpin, TimerTick, codeVars
  <2>4. QED
    BY <1>0, <2>1, <2>2, <2>3
<1>3. ASSUME NEW t \in Task, Wakes(t)
      PROVE  Callers'
  <2>1. \A u \in AnyTask : state'[u] = "FREE" => state[u] = "FREE"
    BY <1>3, WakesQuiet DEF Quiet
  <2>2. state'[BootTask] # "ZOMBIE" /\ UNCHANGED <<doing, victim, killing>>
    BY <1>0, <1>3 DEF Wakes, Wake, PollSleepWakeups, SignalPid, WokenState, codeVars
  <2>3. QED
    BY <1>0, <2>1, <2>2
<1>4. CASE Kills
  <2>1. \A u \in AnyTask : state'[u] = "FREE" => state[u] = "FREE"
    BY <1>4, KillsQuiet DEF Quiet
  <2>2. state'[BootTask] # "ZOMBIE" /\ UNCHANGED <<doing, victim>>
    <3>1. ASSUME NEW t \in Task, KillNext(t) PROVE state'[BootTask] # "ZOMBIE" /\ UNCHANGED <<doing, victim>>
      BY <1>0, <3>1 DEF KillNext
    <3>2. ASSUME NEW t \in Killable, NEW p \in Task, NEW told \in BOOLEAN, TerminatePid(t, p, told)
          PROVE  state'[BootTask] # "ZOMBIE" /\ UNCHANGED <<doing, victim>>
      BY <1>0, <3>2 DEF TerminatePid, codeVars
    <3>3. ASSUME NEW S \in SUBSET Killable, KillPgrp(S)
          PROVE  state'[BootTask] # "ZOMBIE" /\ UNCHANGED <<doing, victim>>
      BY <1>0, <3>3 DEF KillPgrp, taskVars
    <3>4. QED
      BY <1>4, <3>1, <3>2, <3>3 DEF Kills
  <2>3. killing' \subseteq Killable /\ \A t \in killing' : state[t] # "FREE"
    BY <1>0, <1>4 DEF Kills, KillNext, TerminatePid, KillPgrp, Wakeable, codeVars
  <2>4. QED
    BY <1>0, <2>1, <2>2, <2>3
<1>5. ASSUME NEW c \in CPU, Turn(c)
      PROVE  Callers'
  <2>1. CASE ScheduleStays(c) \/ ScheduleSelf(c)
    <3>1. \A u \in AnyTask : state'[u] = "FREE" => state[u] = "FREE"
      BY <2>1, StaysQuiet DEF Quiet
    <3>2. state'[BootTask] # "ZOMBIE" /\ doing' = Returned(current[c]) /\ UNCHANGED <<victim, killing>>
      BY <1>0, <2>1 DEF ScheduleStays, ScheduleSelf, taskVars
    <3>3. QED
      BY <1>0, <1>1, <3>1, <3>2
  <2>2. CASE ScheduleSwitch(c)
    <3>1. PICK n \in AnyTask, rq \in [CPU -> Seq(Task)] : SwitchTo(c, n, rq)
      BY <2>2, Picked DEF IInv
    <3>2. \A u \in AnyTask : /\ state'[u] = "FREE" => state[u] = "FREE"
                             /\ state'[u] = "ZOMBIE" => state[u] = "ZOMBIE"
      BY <1>0, <3>1 DEF SwitchTo
    <3>3. UNCHANGED <<doing, victim, killing>>
      BY <3>1 DEF SwitchTo, codeVars
    <3>4. QED
      BY <1>0, <3>2, <3>3
  <2>3. QED
    BY <1>5, <2>1, <2>2 DEF Turn, schedule
<1>6. ASSUME NEW c \in CPU, Fork(c)
      PROVE  Callers'
  <2>1. PICK u \in Task : state' = [state EXCEPT ![u] = "READY"]
    BY <1>6, Zenon DEF Fork
  <2>2. UNCHANGED <<doing, victim, killing>>
    BY <1>6 DEF Fork, codeVars
  <2>3. QED
    BY <1>0, <2>1, <2>2
<1>7. ASSUME NEW c \in CPU, ReapLocked(c)
      PROVE  Callers'
  <2>1. killing = {} /\ UNCHANGED killing
    BY <1>7 DEF ReapLocked, LockFree
  <2>2. \A t \in Task : doing'[t] \in {"reap", "reap_lock"} => victim'[t] \in Task
    BY <1>0, <1>7 DEF ReapLocked
  <2>3. state' = state \/ \E z \in Task : state[z] = "ZOMBIE" /\ state' = [state EXCEPT ![z] = "FREE"]
    BY <1>7, Reaped
  <2>4. QED
    BY <1>0, <2>1, <2>2, <2>3
<1>8. ASSUME NEW c \in CPU, ContextSwitch(c) \/ FinishSwitch(c)
      PROVE  Callers'
  <2>1. (doing' = doing \/ doing' = Returned(current[c])) /\ UNCHANGED <<state, victim, killing>>
    BY <1>8 DEF ContextSwitch, FinishSwitch, taskVars, codeVars
  <2>2. QED
    BY <1>0, <1>1, <2>1
<1>9. CASE UNCHANGED vars
  BY <1>0, <1>9 DEF vars, taskVars, codeVars
<1>10. QED
  BY <1>2, <1>3, <1>4, <1>5, <1>6, <1>7, <1>8, <1>9, StepKinds

LEMMA InvInit ==
  ASSUME Init
  PROVE  IInv
<1>1. /\ BootTask \in Task /\ BootCpu \in CPU /\ Idle \cap Task = {} /\ None \notin Task \cup Idle
      /\ \A c \in CPU : idle_task[c] \in Idle /\ idle_task[c] \notin Task
  BY ThreadsAssumption DEF Idle
<1>2. TypeOK
  BY <1>1, ThreadsAssumption DEF Init, TypeOK, States
<1>3. Queues
  BY <1>1 DEF Init, Queues, Sorted, Distinct, InSeq
<1>4. Owned
  BY <1>1 DEF Init, Owned, Owns, Uses
<1>5. Phases
  BY DEF Init, Phases
<1>6. Contexts
  <2>1. ASSUME NEW t \in AnyTask, state[t] # "FREE", ~ saved[t]
        PROVE  \E c \in CPU : stack[c] = t
    <3>1. t # idle_task[BootCpu] /\ (t \in Idle \/ t = BootTask)
      BY <2>1, Zenon DEF Init, AnyTask
    <3>2. CASE t = BootTask
      BY <1>1, <3>2 DEF Init
    <3>3. CASE t \in Idle
      <4>1. PICK c \in CPU : t = idle_task[c]
        BY <3>3 DEF Idle
      <4>2. c # BootCpu
        BY <3>1, <4>1
      <4>3. QED
        BY <4>1, <4>2 DEF Init
    <3>4. QED
      BY <3>1, <3>2, <3>3
  <2>2. QED
    BY <2>1 DEF Contexts
<1>7. Callers
  BY <1>1 DEF Init, Callers
<1>8. NoTaskLost
  BY <1>1 DEF Init, NoTaskLost
<1>9. QED
  BY <1>2, <1>3, <1>4, <1>5, <1>6, <1>7, <1>8 DEF IInv

(* The invariant the theorems below are read off from. *)
THEOREM Invariant == Spec => []IInv
<1>1. Init => IInv
  BY InvInit
<1>2. IInv /\ [Next]_vars => IInv'
  BY TypeStep, QueuesStep, SwitchingStep, CallersStep DEF IInv
<1>3. QED
  BY <1>1, <1>2, PTL DEF Spec

(* The run queues of task_runq_push_locked and task_runq_remove_locked hold   *)
(* exactly the READY tasks, each once and on its own CPU.                     *)
THEOREM QueuesHoldReady == Spec => []RunqExact
<1>1. IInv => RunqExact
  <2>1. SUFFICES ASSUME IInv PROVE RunqExact
    OBVIOUS
  <2>2. \A t \in Task : state[t] = "READY" <=> OnRunq(t)
    BY <2>1 DEF IInv, Queues, OnRunq
  <2>3. \A c \in CPU : \A i, j \in 1..Len(runq[c]) : runq[c][i] = runq[c][j] => i = j
    BY <2>1 DEF IInv, Queues, Sorted, Distinct
  <2>4. ASSUME NEW c \in CPU, NEW i \in 1..Len(runq[c])
        PROVE  cpu_affinity[runq[c][i]] = c
    <3>1. runq[c] \in Seq(Task) /\ runq[c][i] \in Task
      BY <2>1 DEF IInv, TypeOK
    <3>2. InSeq(runq[c][i], runq[c])
      BY DEF InSeq
    <3>3. QED
      BY <2>1, <3>1, <3>2 DEF IInv, Queues, Sorted
  <2>5. QED
    BY <2>2, <2>3, <2>4 DEF RunqExact
<1>2. QED
  BY <1>1, Invariant, PTL

(* schedule(), task_wake and task_cancel_sleep leave no task RUNNING without  *)
(* a CPU that runs it.                                                        *)
THEOREM NothingLost == Spec => []NoTaskLost
<1>1. IInv => NoTaskLost
  BY DEF IInv
<1>2. QED
  BY <1>1, Invariant, PTL

(* Two CPUs are never on one kernel stack, however switches, wake-ups of      *)
(* tasks that are still switching out, and forks interleave.                  *)
THEOREM StacksApart == Spec => []OneStack
<1>1. IInv => OneStack
  BY RunningTask, OwnsOne DEF OneStack
<1>2. QED
  BY <1>1, Invariant, PTL

(* arch_context_switch loads only contexts that were saved: schedule() may    *)
(* drop g_task_lock before the switch.                                        *)
THEOREM ContextsFresh == Spec => []FreshContext
<1>1. IInv => FreshContext
  BY DEF IInv, Phases, FreshContext
<1>2. QED
  BY <1>1, Invariant, PTL

(* task_reap_locked frees no task that a CPU still uses, although a killed    *)
(* task goes on running and the spin on on_cpu is outside g_task_lock.        *)
THEOREM ReapedUnused == Spec => []ReapedIsUnused
<1>1. IInv => ReapedIsUnused
  <2>1. SUFFICES ASSUME IInv, NEW t \in Task, state[t] = "FREE", NEW c \in CPU
                 PROVE  stack[c] # t /\ current[c] # t /\ switched_from[c] # t /\ ~ InSeq(t, runq[c])
    BY DEF ReapedIsUnused
  <2>2. t \notin Uses(c)
    BY <2>1, ThreadsAssumption DEF IInv, Owned, Owns, Idle
  <2>3. stack[c] # t /\ current[c] # t /\ switched_from[c] # t
    BY <2>2, ThreadsAssumption DEF Uses
  <2>4. ~ InSeq(t, runq[c])
    BY <2>1 DEF IInv, Queues, Sorted
  <2>5. QED
    BY <2>3, <2>4
<1>2. QED
  BY <1>1, Invariant, PTL
=============================================================================
