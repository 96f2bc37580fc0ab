------------------------------- MODULE Pipe -------------------------------
(* An anonymous pipe of kernel/fs.c: its ring buffer, its two wait arrays     *)
(* (fs_waitq_t of include/fs.h), the two open-file objects that fork shares,  *)
(* and the tasks that read, write, poll (linux_ppoll_wait), fork and close.   *)
(* Every critical section of pipe->lock is one step; waking the tasks taken   *)
(* from a wait array, and the reference count of an open file, are not under  *)
(* that lock.                                                                 *)
EXTENDS Integers, FiniteSets

CONSTANTS
  Task,
  Creator,         \* the task that called pipe(2)
  PIPE_BUF_SIZE,
  FS_WAITQ_MAX,
  MaxSent,         \* bound: bytes written in all
  Timeouts,        \* bound: the calls of ppoll, FALSE without and TRUE with a timeout
  BigKernelLock,   \* TRUE: system calls are entered under the big kernel lock
                   \* (x86_64); FALSE: they are not (aarch64)
  None

ASSUME PipeAssumption ==
  /\ Creator \in Task /\ None \notin Task /\ BigKernelLock \in BOOLEAN
  /\ PIPE_BUF_SIZE \in Nat \ {0} /\ FS_WAITQ_MAX \in Nat \ {0} /\ MaxSent \in Nat
  /\ Timeouts \subseteq BOOLEAN

VARIABLES
  buffer, read_pos, write_pos, count,   \* the ring
  ref_count, ends,                      \* pipe_t: ref_count, readers and writers
  waitq,                                \* read_wq and write_wq
  freed,                                \* the pipe's pages were given back
  file_ref,                             \* ref_count of the open file of each end
  fds,                                  \* the ends a task has open
  st, timed,                            \* asleep or ready; asleep with a deadline
  has_deadline,                         \* the ppoll a task is in was given a timeout
  pc, end, left, loaded, child, towake, next,   \* per task: inside a system call
  nsent, nrecv                          \* bytes ever written and read

ring   == <<buffer, read_pos, write_pos, count, nsent, nrecv>>
refs   == <<ref_count, ends, freed, file_ref, fds>>
sleeps == <<st, timed>>
vars   == <<ring, refs, sleeps, has_deadline, waitq, pc, end, left, loaded, child, towake, next>>

End == {"r", "w"}

Goto(t, l) == pc' = [pc EXCEPT ![t] = l]

Ready(t) == st[t] = "READY"

(* A step of task t, at l, with a CPU. *)
At(t, l) == pc[t] = l /\ Ready(t)

(* t goes on to wake W, and then to l. *)
WakeThen(t, W, l) ==
  /\ towake' = [towake EXCEPT ![t] = W]
  /\ next' = [next EXCEPT ![t] = l]
  /\ Goto(t, "wake")

-----------------------------------------------------------------------------
(* fs_waitq_add, fs_waitq_remove, fs_waitq_take_all.                         *)

Room(e, t) == t \in waitq[e] \/ Cardinality(waitq[e]) < FS_WAITQ_MAX

fs_waitq_add(e, t) ==
  waitq' = [waitq EXCEPT ![e] = IF Room(e, t) THEN @ \cup {t} ELSE @]

fs_waitq_remove(e, t) == waitq' = [waitq EXCEPT ![e] = @ \ {t}]

fs_waitq_take_all(e) == waitq' = [waitq EXCEPT ![e] = {}]

(* pipe_wake_list: one task at a time, and only one that is still asleep. *)
WakeOne(t) ==
  /\ At(t, "wake")
  /\ \E u \in towake[t] :
       /\ st' = [st EXCEPT ![u] = "READY"]
       /\ timed' = [timed EXCEPT ![u] = FALSE]
       /\ towake' = [towake EXCEPT ![t] = @ \ {u}]
  /\ UNCHANGED <<ring, has_deadline, refs, waitq, pc, end, left, loaded, child, next>>

WakeDone(t) ==
  /\ At(t, "wake")
  /\ towake[t] = {}
  /\ Goto(t, next[t])
  /\ next' = [next EXCEPT ![t] = "user"]
  /\ UNCHANGED <<ring, has_deadline, refs, sleeps, waitq, end, left, loaded, child, towake>>

-----------------------------------------------------------------------------
(* fs_read and fs_write on a pipe.                                          *)

CallIo(t, e) ==
  /\ At(t, "user") /\ e \in fds[t]
  /\ end' = [end EXCEPT ![t] = e]
  /\ \E n \in 1..PIPE_BUF_SIZE + 1 : left' = [left EXCEPT ![t] = n]
  /\ Goto(t, "io")
  /\ UNCHANGED <<ring, has_deadline, refs, sleeps, waitq, loaded, child, towake, next>>

(* The system call is over. *)
Return(t) == Goto(t, "user") /\ left' = [left EXCEPT ![t] = 0]

(* The other side is gone: end of file, or EPIPE. *)
Ended(e) == IF e = "r" THEN count = 0 /\ ends["w"] = 0 ELSE ends["r"] = 0

Blocked(e) == IF e = "r" THEN count = 0 ELSE count = PIPE_BUF_SIZE

IoEnds(t) ==
  /\ At(t, "io") /\ Ended(end[t])
  /\ Return(t)
  /\ UNCHANGED <<ring, has_deadline, refs, sleeps, waitq, end, loaded, child, towake, next>>

IoSleeps(t) ==
  /\ At(t, "io") /\ ~ Ended(end[t]) /\ Blocked(end[t])
  /\ st' = [st EXCEPT ![t] = "ASLEEP"]
  /\ fs_waitq_add(end[t], t)
  /\ Goto(t, "io_wake")
  /\ UNCHANGED <<ring, has_deadline, refs, timed, end, left, loaded, child, towake, next>>

(* Back from kernel_yield. *)
IoWoken(t) ==
  /\ At(t, "io_wake")
  /\ fs_waitq_remove(end[t], t)
  /\ Goto(t, "io")
  /\ UNCHANGED <<ring, has_deadline, refs, sleeps, end, left, loaded, child, towake, next>>

Least(m, n) == IF m < n THEN m ELSE n

(* Which byte of the copy loop of fs_write goes to buffer[i]. *)
Ahead(i) == (i - write_pos) % PIPE_BUF_SIZE

(* Mutant of Write: the test for a full ring is left out of the copy loop. *)
WriteOverruns(t) ==
  LET n == left[t] IN
  /\ At(t, "io") /\ end[t] = "w" /\ ~ Ended("w") /\ ~ Blocked("w")
  /\ nsent + n <= MaxSent
  /\ buffer' = [i \in 0..PIPE_BUF_SIZE - 1 |->
                  IF Ahead(i) < n THEN nsent + Ahead(i) + 1 ELSE buffer[i]]
  /\ write_pos' = (write_pos + n) % PIPE_BUF_SIZE
  /\ count' = count + n
  /\ nsent' = nsent + n
  /\ left' = [left EXCEPT ![t] = @ - n]
  /\ fs_waitq_take_all("r")
  /\ WakeThen(t, waitq["r"], IF n < left[t] THEN "io" ELSE "user")
  /\ UNCHANGED <<has_deadline, read_pos, nrecv, refs, sleeps, end, loaded, child>>

(* The bytes of a write are numbered, so that their order can be told. *)
Write(t) ==
  LET n == Least(left[t], PIPE_BUF_SIZE - count) IN
  /\ At(t, "io") /\ end[t] = "w" /\ ~ Ended("w") /\ ~ Blocked("w")
  /\ nsent + n <= MaxSent
  /\ buffer' = [i \in 0..PIPE_BUF_SIZE - 1 |->
                  IF Ahead(i) < n THEN nsent + Ahead(i) + 1 ELSE buffer[i]]
  /\ write_pos' = (write_pos + n) % PIPE_BUF_SIZE
  /\ count' = count + n
  /\ nsent' = nsent + n
  /\ left' = [left EXCEPT ![t] = @ - n]
  /\ fs_waitq_take_all("r")
  /\ WakeThen(t, waitq["r"], IF n < left[t] THEN "io" ELSE "user")
  /\ UNCHANGED <<has_deadline, read_pos, nrecv, refs, sleeps, end, loaded, child>>

(* Mutants of Read: read_pos moves by what was asked for; writers are woken  *)
(* only when the ring has become empty.                                      *)
ReadSkips(t) ==
  LET n == Least(left[t], count) IN
  /\ At(t, "io") /\ end[t] = "r" /\ ~ Blocked("r")
  /\ read_pos' = (read_pos + left[t]) % PIPE_BUF_SIZE
  /\ count' = count - n
  /\ nrecv' = nrecv + n
  /\ left' = [left EXCEPT ![t] = 0]
  /\ fs_waitq_take_all("w")
  /\ WakeThen(t, waitq["w"], "user")
  /\ UNCHANGED <<has_deadline, buffer, write_pos, nsent, refs, sleeps, end, loaded, child>>

ReadWakesAtEmpty(t) ==
  LET n == Least(left[t], count) IN
  /\ At(t, "io") /\ end[t] = "r" /\ ~ Blocked("r")
  /\ read_pos' = (read_pos + n) % PIPE_BUF_SIZE
  /\ count' = count - n
  /\ nrecv' = nrecv + n
  /\ left' = [left EXCEPT ![t] = 0]
  /\ waitq' = IF n = count THEN [waitq EXCEPT !["w"] = {}] ELSE waitq
  /\ WakeThen(t, IF n = count THEN waitq["w"] ELSE {}, "user")
  /\ UNCHANGED <<has_deadline, buffer, write_pos, nsent, refs, sleeps, end, loaded, child>>

Read(t) ==
  LET n == Least(left[t], count) IN
  /\ At(t, "io") /\ end[t] = "r" /\ ~ Blocked("r")
  /\ read_pos' = (read_pos + n) % PIPE_BUF_SIZE
  /\ count' = count - n
  /\ nrecv' = nrecv + n
  /\ left' = [left EXCEPT ![t] = 0]
  /\ fs_waitq_take_all("w")
  /\ WakeThen(t, waitq["w"], "user")
  /\ UNCHANGED <<has_deadline, buffer, write_pos, nsent, refs, sleeps, end, loaded, child>>

-----------------------------------------------------------------------------
(* linux_ppoll_wait on one end of the pipe: POLLIN or POLLOUT.               *)

(* linux_poll_fd_revents. *)
PollReady(e) == \/ e = "r" /\ count > 0
                \/ e = "w" /\ (count < PIPE_BUF_SIZE \/ ends["r"] = 0)
                \/ ends["w"] = 0

CallPoll(t, e) ==
  /\ At(t, "user") /\ e \in fds[t]
  /\ end' = [end EXCEPT ![t] = e]
  /\ \E d \in Timeouts : has_deadline' = [has_deadline EXCEPT ![t] = d]
  /\ Goto(t, "poll")
  /\ UNCHANGED <<ring, refs, sleeps, waitq, left, loaded, child, towake, next>>

(* The first scan: return, because of the pipe or because the time is up, or  *)
(* go on.                                                                     *)
PollReturns(t) ==
  /\ At(t, "poll") /\ (PollReady(end[t]) \/ has_deadline[t])
  /\ has_deadline' = [has_deadline EXCEPT ![t] = FALSE]
  /\ Goto(t, "user")
  /\ UNCHANGED <<ring, refs, sleeps, waitq, end, left, loaded, child, towake, next>>

PollScans(t) ==
  /\ At(t, "poll") /\ ~ PollReady(end[t])
  /\ Goto(t, "poll_add")
  /\ UNCHANGED <<ring, has_deadline, refs, sleeps, waitq, end, left, loaded, child, towake, next>>

PollRegisters(t) ==
  /\ At(t, "poll_add")
  /\ fs_waitq_add(end[t], t)
  /\ Goto(t, IF Room(end[t], t) THEN "poll_mark" ELSE "poll_mark_timed")
  /\ UNCHANGED <<ring, has_deadline, refs, sleeps, end, left, loaded, child, towake, next>>

PollMarks(t) ==
  \E l \in {"poll_mark", "poll_mark_timed"} :
    /\ At(t, l)
    /\ st' = [st EXCEPT ![t] = "ASLEEP"]
    /\ timed' = [timed EXCEPT ![t] = has_deadline[t] \/ l = "poll_mark_timed"]
    /\ Goto(t, "poll_rescan")
    /\ UNCHANGED <<ring, has_deadline, refs, waitq, end, left, loaded, child, towake, next>>

(* The task still runs, although it is marked: a second scan, and             *)
(* task_cancel_sleep if something has come.                                   *)
PollRescans(t) ==
  /\ pc[t] = "poll_rescan"
  /\ IF PollReady(end[t])
     THEN st' = [st EXCEPT ![t] = "READY"] /\ timed' = [timed EXCEPT ![t] = FALSE]
     ELSE UNCHANGED sleeps
  /\ Goto(t, "poll_clear")
  /\ UNCHANGED <<ring, has_deadline, refs, waitq, end, left, loaded, child, towake, next>>

(* Back from kernel_yield. *)
PollClears(t) ==
  /\ At(t, "poll_clear")
  /\ fs_waitq_remove(end[t], t)
  /\ Goto(t, "poll")
  /\ UNCHANGED <<ring, has_deadline, refs, sleeps, end, left, loaded, child, towake, next>>

(* task_poll_sleep_wakeups. *)
Deadline(t) ==
  /\ st[t] = "ASLEEP" /\ timed[t]
  /\ st' = [st EXCEPT ![t] = "READY"]
  /\ timed' = [timed EXCEPT ![t] = FALSE]
  /\ UNCHANGED <<ring, has_deadline, refs, waitq, pc, end, left, loaded, child, towake, next>>

-----------------------------------------------------------------------------
(* fork and close: fs_file_get and fs_file_put.                             *)

(* ref_count++ and ref_count-- are a load and a store; under the big kernel   *)
(* lock nobody else is between the two.                                       *)
RefBusy == \E u \in Task : pc[u] \in {"get_store", "put_store"}

(* Mutant of RefMayLoad: the system call is entered without the lock. *)
RefMayLoadAnyTime == TRUE

RefMayLoad == BigKernelLock => ~ RefBusy

CallFork(t, c) ==
  /\ At(t, "user") /\ fds[t] # {}
  /\ child' = [child EXCEPT ![t] = c]
  /\ Goto(t, "get")
  /\ pc[c] = "none" /\ \A u \in Task : child[u] # c
  /\ UNCHANGED <<ring, has_deadline, refs, sleeps, waitq, end, left, loaded, towake, next>>

(* fs_clone_fd of one descriptor: the load of ref_count++ ... *)
GetLoad(t) ==
  /\ At(t, "get") /\ RefMayLoad
  /\ \E e \in fds[t] \ fds[child[t]] :
       /\ end' = [end EXCEPT ![t] = e]
       /\ loaded' = [loaded EXCEPT ![t] = file_ref[e]]
  /\ Goto(t, "get_store")
  /\ UNCHANGED <<ring, has_deadline, refs, sleeps, waitq, left, child, towake, next>>

(* ... and its store. *)
GetStore(t) ==
  /\ At(t, "get_store")
  /\ file_ref' = [file_ref EXCEPT ![end[t]] = loaded[t] + 1]
  /\ fds' = [fds EXCEPT ![child[t]] = @ \cup {end[t]}]
  /\ loaded' = [loaded EXCEPT ![t] = 0]
  /\ Goto(t, "get")
  /\ UNCHANGED <<ring, has_deadline, ref_count, ends, freed, sleeps, waitq, end, left, child,
                 towake, next>>

(* The child is put into the task list. *)
Publish(t) ==
  /\ At(t, "get") /\ fds[child[t]] = fds[t]
  /\ pc' = [pc EXCEPT ![t] = "user", ![child[t]] = "user"]
  /\ child' = [child EXCEPT ![t] = None]
  /\ UNCHANGED <<ring, has_deadline, refs, sleeps, waitq, end, left, loaded, towake, next>>

CallClose(t, e) ==
  /\ At(t, "user") /\ e \in fds[t] /\ RefMayLoad
  /\ end' = [end EXCEPT ![t] = e]
  /\ loaded' = [loaded EXCEPT ![t] = file_ref[e]]
  /\ Goto(t, "put_store")
  /\ UNCHANGED <<ring, has_deadline, refs, sleeps, waitq, left, child, towake, next>>

PutStore(t) ==
  /\ At(t, "put_store")
  /\ file_ref' = [file_ref EXCEPT ![end[t]] = loaded[t] - 1]
  /\ loaded' = [loaded EXCEPT ![t] = 0]
  /\ fds' = [fds EXCEPT ![t] = @ \ {end[t]}]
  /\ Goto(t, IF loaded[t] - 1 > 0 THEN "user" ELSE "release")
  /\ UNCHANGED <<ring, has_deadline, ref_count, ends, freed, sleeps, waitq, end, left, child,
                 towake, next>>

(* Mutant of Release: only the waiters of the closed end are woken. *)
ReleaseWakesOwn(t) ==
  /\ At(t, "release")
  /\ ref_count' = ref_count - 1
  /\ ends' = [ends EXCEPT ![end[t]] = IF @ > 0 THEN @ - 1 ELSE @]
  /\ waitq' = [waitq EXCEPT ![end[t]] = {}]
  /\ WakeThen(t, waitq[end[t]], IF ref_count = 1 THEN "free" ELSE "user")
  /\ UNCHANGED <<ring, has_deadline, freed, file_ref, fds, sleeps, end, left, loaded, child>>

(* fs_release_pipe_file. *)
Release(t) ==
  /\ At(t, "release")
  /\ ref_count' = ref_count - 1
  /\ ends' = [ends EXCEPT ![end[t]] = IF @ > 0 THEN @ - 1 ELSE @]
  /\ waitq' = [e \in End |-> {}]
  /\ WakeThen(t, waitq["r"] \cup waitq["w"], IF ref_count = 1 THEN "free" ELSE "user")
  /\ UNCHANGED <<ring, has_deadline, freed, file_ref, fds, sleeps, end, left, loaded, child>>

Free(t) ==
  /\ At(t, "free")
  /\ freed' = TRUE
  /\ Goto(t, "user")
  /\ UNCHANGED <<ring, has_deadline, ref_count, ends, file_ref, fds, sleeps, waitq, end, left, loaded,
                 child, towake, next>>

-----------------------------------------------------------------------------
Init ==
  /\ buffer = [i \in 0..PIPE_BUF_SIZE - 1 |-> 0]
  /\ read_pos = 0 /\ write_pos = 0 /\ count = 0
  /\ nsent = 0 /\ nrecv = 0
  /\ ref_count = 2 /\ ends = [e \in End |-> 1] /\ freed = FALSE
  /\ waitq = [e \in End |-> {}]
  /\ file_ref = [e \in End |-> 1]
  /\ fds = [t \in Task |-> IF t = Creator THEN End ELSE {}]
  /\ st = [t \in Task |-> "READY"] /\ timed = [t \in Task |-> FALSE]
  /\ has_deadline = [t \in Task |-> FALSE]
  /\ pc = [t \in Task |-> IF t = Creator THEN "user" ELSE "none"]
  /\ end = [t \in Task |-> "r"] /\ left = [t \in Task |-> 0]
  /\ loaded = [t \in Task |-> 0] /\ child = [t \in Task |-> None]
  /\ towake = [t \in Task |-> {}] /\ next = [t \in Task |-> "user"]

(* What a task does by itself once it is in the kernel. *)
InKernel(t) ==
  \/ WakeOne(t) \/ WakeDone(t)
  \/ IoEnds(t) \/ IoSleeps(t) \/ IoWoken(t) \/ Write(t) \/ Read(t)
  \/ PollReturns(t) \/ PollScans(t) \/ PollRegisters(t) \/ PollMarks(t)
  \/ PollRescans(t) \/ PollClears(t)
  \/ GetLoad(t) \/ GetStore(t) \/ Publish(t) \/ PutStore(t) \/ Release(t) \/ Free(t)

Next ==
  \E t \in Task :
    \/ InKernel(t) \/ Deadline(t)
    \/ \E e \in End : CallIo(t, e) \/ CallPoll(t, e) \/ CallClose(t, e)
    \/ \E c \in Task : CallFork(t, c)

Spec == Init /\ [][Next]_vars

(* A task in the kernel goes on, and the timer polls deadlines. *)
FairSpec == Spec /\ \A t \in Task : WF_vars(InKernel(t)) /\ WF_vars(Deadline(t))

-----------------------------------------------------------------------------
Labels == {"none", "user", "wake", "io", "io_wake", "poll", "poll_add", "poll_mark",
           "poll_mark_timed", "poll_rescan", "poll_clear", "get", "get_store",
           "put_store", "release", "free"}

(* The variables stay in their ranges; positions stay inside the ring, no     *)
(* wait array holds more than FS_WAITQ_MAX tasks.                             *)
TypeOK ==
  /\ buffer \in [0..PIPE_BUF_SIZE - 1 -> Nat]
  /\ read_pos \in 0..PIPE_BUF_SIZE - 1 /\ write_pos \in 0..PIPE_BUF_SIZE - 1
  /\ count \in 0..PIPE_BUF_SIZE /\ nsent \in Nat /\ nrecv \in Nat
  /\ ref_count \in 0..2 /\ ends \in [End -> 0..1] /\ freed \in BOOLEAN
  /\ waitq \in [End -> SUBSET Task]
  /\ \A e \in End : Cardinality(waitq[e]) <= FS_WAITQ_MAX
  /\ file_ref \in [End -> Nat] /\ fds \in [Task -> SUBSET End]
  /\ st \in [Task -> {"READY", "ASLEEP"}] /\ timed \in [Task -> BOOLEAN]
  /\ has_deadline \in [Task -> BOOLEAN]
  /\ pc \in [Task -> Labels] /\ end \in [Task -> End]
  /\ left \in [Task -> 0..PIPE_BUF_SIZE + 1] /\ loaded \in [Task -> Nat]
  /\ child \in [Task -> Task \cup {None}] /\ towake \in [Task -> SUBSET Task]
  /\ next \in [Task -> Labels]

(* What was written and not yet read is in the ring, in order, from read_pos  *)
(* on: whatever readers and writers interleave and wherever the ring wraps,   *)
(* no byte of fs_write is lost, doubled or overtaken.                         *)
StreamIntact ==
  /\ count = nsent - nrecv
  /\ \A i \in 0..count - 1 : buffer[(read_pos + i) % PIPE_BUF_SIZE] = nrecv + i + 1

(* No wake-up is lost: a task asleep in read or write on an end that has      *)
(* become ready is on the list of someone about to wake it.                   *)
WakePending ==
  \A t \in Task : pc[t] = "io_wake" /\ st[t] = "ASLEEP" /\ (Ended(end[t]) \/ ~ Blocked(end[t]))
                    => \E u \in Task : t \in towake[u]

(* The same of a task asleep in ppoll ("whatever comes in between, nothing is *)
(* missed"), unless it sleeps with a deadline.                                *)
PollWakePending ==
  \A t \in Task : pc[t] = "poll_clear" /\ st[t] = "ASLEEP" /\ PollReady(end[t])
                    => timed[t] \/ \E u \in Task : t \in towake[u]

(* Open files and pipe ends are counted exactly: an open file has as many     *)
(* references as descriptors (no close of a fork's descriptors is missed, so  *)
(* that end of file and EPIPE come), and the pipe is freed with the last.     *)
RefExact ==
  /\ \A e \in End :
       /\ ~ RefBusy => file_ref[e] = Cardinality({t \in Task : e \in fds[t]})
       /\ ends[e] = 0 => \A t \in Task : e \notin fds[t]
  /\ freed => \A t \in Task : fds[t] = {}

(* End of file and EPIPE reach everyone: a task in read when the last writer  *)
(* has closed, or in write when the last reader has, returns.                 *)
EndReaches == \A t \in Task : (pc[t] \in {"io", "io_wake"} /\ ends[IF end[t] = "r" THEN "w" ELSE "r"] = 0)
                                ~> pc[t] = "user"
============================================================================
