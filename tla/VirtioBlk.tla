------------------------------ MODULE VirtioBlk ------------------------------
(* The interrupt-driven block driver kernel/x86_64/virtio_blk.c with what it  *)
(* stands on: the wait queues and completions of kernel/wait.c, the bottom    *)
(* halves of kernel/bottom_half.c and the big kernel lock.  Tasks issue       *)
(* requests; the device answers late, wrongly or never; an idle CPU runs      *)
(* bottom halves without the big kernel lock, interrupts run them with it.    *)
(* Every critical section of a spin lock is one step.                         *)
EXTENDS Integers, WaitQueue

CONSTANTS
  Task,
  g_vblk_request_count,
  BOTTOM_HALF_QUEUE_CAP,
  MaxCalls,                \* bound: requests a task makes
  MaxChunks,               \* bound: the pieces a buffer is split into
  idle, intr,              \* the other actors: an idle CPU, an interrupt
  None

ASSUME VblkAssumption ==
  /\ g_vblk_request_count \in Nat \ {0}
  /\ BOTTOM_HALF_QUEUE_CAP \in Nat \ {0} /\ MaxCalls \in Nat /\ MaxChunks \in Nat \ {0}
  /\ idle # intr /\ {idle, intr, None} \cap Task = {}

VARIABLES
  ready,                   \* g_vblk_ready (g_vblk_irq_enabled falls with it)
  in_use,                  \* of each slot, by whom
  done, status,            \* the completion of each slot
  status_byte,             \* what the device wrote for each slot
  used,                    \* the used ring from last_used_idx on
  held,                    \* the request of each slot the device holds, by task
  irq,                     \* the device asks for an interrupt
  idle_wait, comp_wait,    \* g_vblk_idle_wait, and the queue of each completion
  io_wait,                 \* tasks in TASK_IO_WAIT
  late,                    \* tasks whose deadline has passed
  bh,                      \* reclaiming queued as bottom half, so often
  bkl,                     \* who has the big kernel lock
  pc, back, batch, popped, \* per actor; back: where reclaiming returns to
  slot, ret, left, calls,  \* per task, inside a request
  served                   \* the device did the task's present request

device == <<status_byte, used, held, irq, served>>
compl  == <<done, status, comp_wait>>
locals == <<slot, ret, left, calls>>
vars   == <<ready, in_use, device, compl, idle_wait, io_wait, late, bh, bkl,
            pc, back, batch, popped, locals>>

Slot   == 0 .. g_vblk_request_count - 1
Actor  == Task \cup {idle, intr}
Orphan == idle             \* a request the device holds and no task waits for

Goto(a, l) == pc' = [pc EXCEPT ![a] = l]

(* A step of a at l; all but the idle CPU have the big kernel lock. *)
At(a, l) == pc[a] = l /\ (a # idle => bkl = a)

-----------------------------------------------------------------------------
(* vblk_reclaim_used, called by tasks, bottom halves and the interrupt.       *)

Reclaim(a, l) == Goto(a, "reclaim") /\ back' = [back EXCEPT ![a] = l]

ReclaimStarts(a) ==
  /\ At(a, "reclaim")
  /\ \/ ready /\ Goto(a, "collect")
     \/ ~ready /\ Goto(a, IF back[a] = "poll" THEN "failed" ELSE back[a])
  /\ UNCHANGED <<ready, in_use, device, compl, idle_wait, io_wait, late, bh, bkl,
                 back, batch, popped, locals>>

(* Mutant: last_used_idx is not moved on. *)
CollectsAgain(a) ==
  /\ At(a, "collect") /\ Goto(a, "complete")
  /\ batch' = [batch EXCEPT ![a] = [i \in DOMAIN used |-> <<used[i], 0>>]]
  /\ UNCHANGED <<ready, in_use, device, compl, idle_wait, io_wait, late, bh, bkl,
                 back, popped, locals>>

(* Under the lock: what the used ring holds, less what no slot in use claims. *)
Collect(a) ==
  LET Claimed(s) == in_use[s] # None
      claimed == SelectSeq(used, Claimed)
  IN  /\ At(a, "collect")
      /\ batch' = [batch EXCEPT ![a] =
           [i \in DOMAIN claimed |->
              <<claimed[i], IF status_byte[claimed[i]] = "OK" THEN 0 ELSE -1>>]]
      /\ used' = <<>>
      /\ Goto(a, "complete")
      /\ UNCHANGED <<ready, in_use, status_byte, held, irq, served, compl, idle_wait, io_wait,
                     late, bh, bkl, back, popped, locals>>

(* After it: complete_status for each, first the completion ... *)
complete_status(a) ==
  LET s == Head(batch[a])[1]
  IN  /\ At(a, "complete") /\ batch[a] # <<>>
      /\ done' = [done EXCEPT ![s] = @ + 1]
      /\ status' = [status EXCEPT ![s] = Head(batch[a])[2]]
      /\ Goto(a, "wake_one")
      /\ UNCHANGED <<ready, in_use, device, comp_wait, idle_wait, io_wait, late, bh, bkl,
                     back, batch, popped, locals>>

(* ... then wake_up_one: off the queue under the lock, woken after it. *)
WakePops(a) ==
  LET s == Head(batch[a])[1]
  IN  /\ At(a, "wake_one")
      /\ popped' = [popped EXCEPT ![a] = Popped(comp_wait[s], None)]
      /\ comp_wait' = [comp_wait EXCEPT ![s] = wait_queue_pop_locked(@)]
      /\ batch' = [batch EXCEPT ![a] = Tail(@)]
      /\ Goto(a, "wake")
      /\ UNCHANGED <<ready, in_use, device, done, status, idle_wait, io_wait, late, bh, bkl,
                     back, locals>>

TaskWakes(a) ==
  /\ At(a, "wake")
  /\ io_wait' = io_wait \ {popped[a]}
  /\ popped' = [popped EXCEPT ![a] = None]
  /\ Goto(a, "complete")
  /\ UNCHANGED <<ready, in_use, device, compl, idle_wait, late, bh, bkl, back, batch, locals>>

ReclaimEnds(a) ==
  /\ At(a, "complete") /\ batch[a] = <<>>
  /\ Goto(a, back[a])
  /\ UNCHANGED <<ready, in_use, device, compl, idle_wait, io_wait, late, bh, bkl,
                 back, batch, popped, locals>>
-----------------------------------------------------------------------------
(* Bottom halves: bottom_half_run in the idle loop and in the timer interrupt. *)

(* After it the timer's task_on_timer_tick wakes those past their deadline. *)
TimerEnds(a) ==
  /\ io_wait' = IF a = intr THEN io_wait \ late ELSE io_wait
  /\ bkl' = IF a = intr THEN None ELSE bkl

bottom_half_run(a) ==
  /\ At(a, "bh")
  /\ \/ bh = 0 /\ Goto(a, "off") /\ TimerEnds(a) /\ UNCHANGED <<bh, back>>
     \/ bh > 0 /\ bh' = bh - 1 /\ Reclaim(a, "bh") /\ UNCHANGED <<io_wait, bkl>>
  /\ UNCHANGED <<ready, in_use, device, compl, idle_wait, late, batch, popped, locals>>

IdleLoop ==
  /\ pc[idle] = "off" /\ bh > 0 /\ Goto(idle, "bh")
  /\ UNCHANGED <<ready, in_use, device, compl, idle_wait, io_wait, late, bh, bkl,
                 back, batch, popped, locals>>

(* The timer interrupt, when it finds something to do. *)
Timer ==
  /\ bkl = None /\ bkl' = intr /\ Goto(intr, "bh")
  /\ bh > 0 \/ io_wait \cap late # {}
  /\ UNCHANGED <<ready, in_use, device, compl, idle_wait, io_wait, late, bh, back, batch, popped, locals>>

virtio_blk_irq ==
  /\ irq /\ bkl = None /\ irq' = FALSE
  /\ \/ ~ready /\ UNCHANGED <<bh, bkl, pc, back>>
     \/ /\ ready /\ bh < BOTTOM_HALF_QUEUE_CAP
        /\ bh' = bh + 1 /\ UNCHANGED <<bkl, pc, back>>
     \/ /\ ready /\ bh = BOTTOM_HALF_QUEUE_CAP
        /\ bkl' = intr /\ Reclaim(intr, "eoi") /\ UNCHANGED bh
  /\ UNCHANGED <<ready, in_use, status_byte, used, held, served, compl, idle_wait, io_wait, late,
                 batch, popped, locals>>

IrqReturns ==
  /\ At(intr, "eoi") /\ bkl' = None /\ Goto(intr, "off")
  /\ UNCHANGED <<ready, in_use, device, compl, idle_wait, io_wait, late, bh,
                 back, batch, popped, locals>>
-----------------------------------------------------------------------------
(* vblk_request and its three ways: in one piece, or piece by piece.          *)

vblk_request(t) ==
  /\ pc[t] = "user" /\ bkl = None /\ calls[t] < MaxCalls
  /\ calls' = [calls EXCEPT ![t] = @ + 1]
  /\ \/ ~ready /\ ret' = [ret EXCEPT ![t] = -1] /\ UNCHANGED <<bkl, pc, left>>
     \/ /\ ready /\ bkl' = t /\ Goto(t, "acquire") /\ UNCHANGED ret
        /\ \E n \in 1 .. MaxChunks : left' = [left EXCEPT ![t] = n]
  /\ UNCHANGED <<ready, in_use, device, compl, idle_wait, io_wait, late, bh,
                 back, batch, popped, slot>>

Free == {s \in Slot : in_use[s] = None}

vblk_acquire_request(t) ==
  /\ At(t, "acquire")
  /\ \/ /\ Free = {} /\ Goto(t, "idle_wait")
        /\ UNCHANGED <<in_use, slot, done, status, status_byte, served>>
     \/ \E s \in Free :
          /\ \A r \in Free : s <= r
          /\ in_use' = [in_use EXCEPT ![s] = t]
          /\ slot' = [slot EXCEPT ![t] = s]
          /\ done' = [done EXCEPT ![s] = 0] /\ status' = [status EXCEPT ![s] = 0]
          /\ status_byte' = [status_byte EXCEPT ![s] = "FF"]
          /\ served' = served \ {t}
          /\ Goto(t, "submit")
  /\ UNCHANGED <<ready, used, held, irq, comp_wait, idle_wait, io_wait, late, bh, bkl,
                 back, batch, popped, ret, left, calls>>

(* wait_event on g_vblk_idle_wait: kernel_yield gives the lock up. *)
WaitsForSlot(t) ==
  /\ At(t, "idle_wait")
  /\ \/ /\ Free # {} /\ Goto(t, "acquire")
        /\ idle_wait' = wait_queue_remove_locked(idle_wait, t)
        /\ UNCHANGED <<io_wait, late, bkl>>
     \/ /\ Free = {} /\ io_wait' = io_wait \cup {t} /\ late' = late \ {t}
        /\ idle_wait' = wait_queue_add_current_locked(idle_wait, t)
        /\ bkl' = None /\ UNCHANGED pc
  /\ UNCHANGED <<ready, in_use, device, compl, bh, back, batch, popped, locals>>

(* schedule() comes back to a task that was woken, and kernel_yield to the lock. *)
Resumes(t) ==
  /\ pc[t] \in {"idle_wait", "comp_wait"} /\ t \notin io_wait
  /\ bkl = None /\ bkl' = t
  /\ UNCHANGED <<ready, in_use, device, compl, idle_wait, io_wait, late, bh,
                 pc, back, batch, popped, locals>>

vblk_submit_request(t) ==
  /\ At(t, "submit")
  /\ held' = [held EXCEPT ![slot[t]] = IF ready THEN t ELSE @]
  /\ Goto(t, IF ready THEN "comp_wait" ELSE "poll")
  /\ late' = late \ {t}
  /\ UNCHANGED <<ready, in_use, status_byte, used, irq, served, compl, idle_wait, io_wait, bh, bkl,
                 back, batch, popped, locals>>

(* Mutant: a wait that timed out stays on the queue. *)
WaitsAndStays(t) ==
  LET s == slot[t]
  IN  /\ At(t, "comp_wait")
      /\ \/ done[s] > 0 /\ Goto(t, "consume") /\ UNCHANGED <<back, io_wait, bkl, comp_wait>>
         \/ /\ done[s] = 0 /\ t \in late /\ Reclaim(t, "timeout")
            /\ UNCHANGED <<io_wait, bkl, comp_wait>>
         \/ /\ done[s] = 0 /\ t \notin late
            /\ comp_wait' = [comp_wait EXCEPT ![s] = wait_queue_add_current_locked(@, t)]
            /\ io_wait' = io_wait \cup {t} /\ bkl' = None /\ UNCHANGED <<pc, back>>
      /\ UNCHANGED <<ready, in_use, device, done, status, idle_wait, late, bh,
                     batch, popped, locals>>

(* wait_event_timeout on the completion; line 483 looks once more itself. *)
WaitsForCompletion(t) ==
  LET s == slot[t]
  IN  /\ At(t, "comp_wait")
      /\ \/ /\ done[s] > 0 /\ Goto(t, "consume") /\ UNCHANGED <<back, io_wait, bkl>>
            /\ comp_wait' = [comp_wait EXCEPT ![s] = wait_queue_remove_locked(@, t)]
         \/ /\ done[s] = 0 /\ t \in late /\ Reclaim(t, "timeout") /\ UNCHANGED <<io_wait, bkl>>
            /\ comp_wait' = [comp_wait EXCEPT ![s] = wait_queue_remove_locked(@, t)]
         \/ /\ done[s] = 0 /\ t \notin late
            /\ comp_wait' = [comp_wait EXCEPT ![s] = wait_queue_add_current_locked(@, t)]
            /\ io_wait' = io_wait \cup {t} /\ bkl' = None /\ UNCHANGED <<pc, back>>
      /\ UNCHANGED <<ready, in_use, device, done, status, idle_wait, late, bh,
                     batch, popped, locals>>

(* Mutant: the device is left running. *)
GivesUpAlone(t) ==
  /\ At(t, "timeout")
  /\ Goto(t, IF done[slot[t]] > 0 THEN "consume" ELSE "failed")
  /\ UNCHANGED <<ready, in_use, device, compl, idle_wait, io_wait, late, bh, bkl,
                 back, batch, popped, locals>>

(* Given up: the device is stopped, unless the completion is there after all. *)
GivesUp(t) ==
  /\ At(t, "timeout")
  /\ IF done[slot[t]] > 0 THEN Goto(t, "consume") /\ UNCHANGED ready
     ELSE Goto(t, "failed") /\ ready' = FALSE
  /\ UNCHANGED <<in_use, device, compl, idle_wait, io_wait, late, bh, bkl,
                 back, batch, popped, locals>>

(* With interrupts off: reclaim until the completion is there. *)
Polls(t) ==
  /\ At(t, "poll")
  /\ IF done[slot[t]] > 0 THEN Goto(t, "consume") /\ UNCHANGED back ELSE Reclaim(t, "poll")
  /\ UNCHANGED <<ready, in_use, device, compl, idle_wait, io_wait, late, bh, bkl,
                 batch, popped, locals>>

Consumes(t) ==
  /\ At(t, "consume")
  /\ done' = [done EXCEPT ![slot[t]] = @ - 1]
  /\ ret' = [ret EXCEPT ![t] = status[slot[t]]]
  /\ Goto(t, "release")
  /\ UNCHANGED <<ready, in_use, device, status, comp_wait, idle_wait, io_wait, late, bh, bkl,
                 back, batch, popped, slot, left, calls>>

Fails(t) ==
  /\ At(t, "failed")
  /\ ret' = [ret EXCEPT ![t] = -1] /\ Goto(t, "release")
  /\ UNCHANGED <<ready, in_use, device, compl, idle_wait, io_wait, late, bh, bkl,
                 back, batch, popped, slot, left, calls>>

vblk_release_request(t) ==
  /\ At(t, "release")
  /\ in_use' = [in_use EXCEPT ![slot[t]] = None]
  /\ held' = [held EXCEPT ![slot[t]] = IF @ = t THEN Orphan ELSE @]
  /\ Goto(t, "release_pop")
  /\ UNCHANGED <<ready, status_byte, used, irq, served, compl, idle_wait, io_wait, late, bh, bkl,
                 back, batch, popped, locals>>

(* Mutant: no wake_up_one after a release. *)
ReleaseWakesNone(t) ==
  /\ At(t, "release_pop") /\ Goto(t, "released")
  /\ UNCHANGED <<ready, in_use, device, compl, idle_wait, io_wait, late, bh, bkl,
                 back, batch, popped, locals>>

ReleasePops(t) ==
  /\ At(t, "release_pop")
  /\ popped' = [popped EXCEPT ![t] = Popped(idle_wait, None)]
  /\ idle_wait' = wait_queue_pop_locked(idle_wait)
  /\ Goto(t, "released")
  /\ UNCHANGED <<ready, in_use, device, compl, io_wait, late, bh, bkl, back, batch, locals>>

(* Wakes the one taken; then the next piece, or back to the caller. *)
Released(t) ==
  LET more == ret[t] = 0 /\ left[t] > 1
  IN  /\ At(t, "released")
      /\ io_wait' = io_wait \ {popped[t]}
      /\ popped' = [popped EXCEPT ![t] = None]
      /\ left' = [left EXCEPT ![t] = @ - 1]
      /\ slot' = [slot EXCEPT ![t] = None]
      /\ Goto(t, IF more THEN "acquire" ELSE "user")
      /\ bkl' = IF more THEN t ELSE None
      /\ UNCHANGED <<ready, in_use, device, compl, idle_wait, late, bh, back, batch, ret, calls>>
-----------------------------------------------------------------------------
(* Outside the driver: the device, which may have been told to stop and still *)
(* finish what it has, and the clock.                                         *)

DeviceDone(s) ==
  /\ held[s] # None
  /\ \E st \in {"OK", "IOERR"} : status_byte' = [status_byte EXCEPT ![s] = st]
  /\ used' = Append(used, s)
  /\ served' = served \cup ({held[s]} \cap Task)
  /\ held' = [held EXCEPT ![s] = None]
  /\ irq' = TRUE
  /\ UNCHANGED <<ready, in_use, compl, idle_wait, io_wait, late, bh, bkl,
                 pc, back, batch, popped, locals>>

DeadlinePasses(t) ==
  /\ pc[t] = "comp_wait" /\ t \notin late /\ late' = late \cup {t}
  /\ UNCHANGED <<ready, in_use, device, compl, idle_wait, io_wait, bh, bkl,
                 pc, back, batch, popped, locals>>
-----------------------------------------------------------------------------
Init ==
  /\ ready = TRUE
  /\ in_use = [s \in Slot |-> None] /\ done = [s \in Slot |-> 0] /\ status = [s \in Slot |-> 0]
  /\ status_byte = [s \in Slot |-> "FF"] /\ used = <<>> /\ held = [s \in Slot |-> None]
  /\ irq = FALSE /\ idle_wait = <<>> /\ comp_wait = [s \in Slot |-> <<>>]
  /\ io_wait = {} /\ late = {} /\ bh = 0 /\ bkl = None
  /\ pc = [a \in Actor |-> IF a \in Task THEN "user" ELSE "off"]
  /\ back = [a \in Actor |-> "off"] /\ batch = [a \in Actor |-> <<>>]
  /\ popped = [a \in Actor |-> None]
  /\ slot = [t \in Task |-> None] /\ ret = [t \in Task |-> 0]
  /\ left = [t \in Task |-> 0] /\ calls = [t \in Task |-> 0]
  /\ served = {}

Reclaims(a) ==
  ReclaimStarts(a) \/ Collect(a) \/ complete_status(a) \/ WakePops(a) \/ TaskWakes(a)
    \/ ReclaimEnds(a)

TaskStep(t) ==
  \/ vblk_acquire_request(t) \/ WaitsForSlot(t) \/ vblk_submit_request(t)
  \/ WaitsForCompletion(t) \/ GivesUp(t) \/ Polls(t) \/ Consumes(t) \/ Fails(t)
  \/ vblk_release_request(t) \/ ReleasePops(t) \/ Released(t) \/ Reclaims(t)

Next ==
  \/ \E t \in Task : vblk_request(t) \/ TaskStep(t) \/ Resumes(t) \/ DeadlinePasses(t)
  \/ \E a \in {idle, intr} : bottom_half_run(a) \/ Reclaims(a)
  \/ IdleLoop \/ Timer \/ virtio_blk_irq \/ IrqReturns
  \/ \E s \in Slot : DeviceDone(s)

Spec == Init /\ [][Next]_vars

(* Running tasks go on, and an interrupt ends; time passes; a CPU that spins  *)
(* for the big kernel lock gets it in the end.                                *)
LiveSpec ==
  /\ Spec
  /\ \A t \in Task :
       WF_vars(TaskStep(t)) /\ SF_vars(Resumes(t)) /\ WF_vars(DeadlinePasses(t))
  /\ WF_vars(bottom_half_run(intr) \/ Reclaims(intr) \/ IrqReturns) /\ SF_vars(Timer)
-----------------------------------------------------------------------------
\* One type invariant for the module: slots, completions, queues and locals.
TypeOK ==
  /\ ready \in BOOLEAN /\ irq \in BOOLEAN
  /\ in_use \in [Slot -> Task \cup {None}] /\ held \in [Slot -> Task \cup {None, Orphan}]
  /\ done \in [Slot -> 0 .. 1] /\ status \in [Slot -> {0, -1}]
  /\ status_byte \in [Slot -> {"FF", "OK", "IOERR"}]
  /\ used \in Seq(Slot) /\ Len(used) <= g_vblk_request_count
  /\ idle_wait \in Seq(Task) /\ comp_wait \in [Slot -> Seq(Task)]
  /\ io_wait \subseteq Task /\ late \subseteq Task /\ served \subseteq Task
  /\ bh \in 0 .. BOTTOM_HALF_QUEUE_CAP
  /\ bkl \in Task \cup {intr, None}
  /\ slot \in [Task -> Slot \cup {None}] /\ ret \in [Task -> {0, -1}]

\* A task is on at most one wait queue, once, and on none once wait_event or
\* wait_event_timeout has returned (the crossed lists kernel/wait.c:71 warns of).
OneQueue ==
  \A t \in Task, s \in Slot :
    /\ On(idle_wait, t) => pc[t] = "idle_wait"
    /\ On(comp_wait[s], t) => pc[t] = "comp_wait" /\ slot[t] = s
    /\ \A q \in {idle_wait, comp_wait[s]} : \A i, j \in DOMAIN q : q[i] = q[j] => i = j

\* While the device runs, a request that returns success is one that the device
\* did for this very request: no answer reaches the next user of the slot, and
\* no late one is taken twice (vblk_reclaim_used, vblk_wait_request).
SuccessServedWhileReady ==
  \A t \in Task : ready /\ pc[t] = "release" /\ ret[t] = 0 => t \in served

\* The same once the device was stopped: kernel/x86_64/virtio_blk.c:228 says that
\* from then on every read and write returns -1.
SuccessServed ==
  \A t \in Task : pc[t] = "release" /\ ret[t] = 0 => t \in served

\* Every request returns, whatever the device does: no wake-up of a task that
\* waits for a slot is lost, and the deadline ends every wait for the device.
RequestReturns == \A t \in Task : pc[t] = "acquire" ~> pc[t] = "user"
=============================================================================
