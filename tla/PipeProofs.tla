----------------------------- MODULE PipeProofs -----------------------------
(* Proofs about Pipe, for any number of tasks and any size of the ring: the   *)
(* stream is intact, no wake-up of a reader or writer is lost as long as the  *)
(* wait arrays have a place for every task, and under the big kernel lock     *)
(* references are exact and every variable keeps its type.                    *)
EXTENDS Pipe, FiniteSetTheorems, TLAPS

\* The provers of the steps below that name none, and their time limits.
USE SMTT(15), Z3T(15), ZenonT(20)

(* What the proofs need of the variables' types. *)
Typed ==
  /\ waitq \in [End -> SUBSET Task] /\ ends \in [End -> 0 .. 1] /\ ref_count \in Int
  /\ file_ref \in [End -> Int] /\ loaded \in [Task -> Int] /\ fds \in [Task -> SUBSET End]
  /\ st \in [Task -> {"READY", "ASLEEP"}] /\ pc \in [Task -> Labels] /\ end \in [Task -> End]
  /\ child \in [Task -> Task \cup {None}] /\ towake \in [Task -> SUBSET Task]
  /\ next \in [Task -> {"user", "io", "free"}]

(* A child that is being made is not running and has one parent; a task that  *)
(* is not in pipe_wake_list has nobody to wake.                               *)
Forks ==
  \A t \in Task : pc[t] \in {"get", "get_store"} =>
    /\ child[t] \in Task /\ pc[child[t]] = "none"
    /\ \A u \in Task \ {t} : child[u] # child[t]

Lists == \A t \in Task : pc[t] # "wake" => towake[t] = {}

(* A task asleep in read or write has its place in the wait array, and then   *)
(* there is nothing for it yet, or it is on somebody's list.                  *)
Waits ==
  \A t \in Task : pc[t] = "io_wake" /\ st[t] = "ASLEEP" =>
    \/ t \in waitq[end[t]] /\ ~ Ended(end[t]) /\ Blocked(end[t])
    \/ \E u \in Task : t \in towake[u]

-----------------------------------------------------------------------------
(* Steps that leave the children and the descriptors alone. *)
Plain(t) ==
  \/ WakeOne(t) \/ WakeDone(t) \/ IoEnds(t) \/ IoSleeps(t) \/ IoWoken(t) \/ Write(t) \/ Read(t)
  \/ PollReturns(t) \/ PollScans(t) \/ PollRegisters(t) \/ PollMarks(t)
  \/ PollRescans(t) \/ PollClears(t)
  \/ \E e \in End : CallIo(t, e) \/ CallPoll(t, e)

Counting(t) ==
  \/ GetLoad(t) \/ GetStore(t) \/ Publish(t) \/ PutStore(t) \/ Release(t) \/ Free(t)
  \/ (\E e \in End : CallClose(t, e)) \/ \E c \in Task : CallFork(t, c)

LEMMA StepKinds == Next <=> \E t \in Task : Plain(t) \/ Counting(t) \/ Deadline(t)
  BY DEF Next, InKernel, Plain, Counting

LEMMA TypedStep ==
  ASSUME Typed, [Next]_vars
  PROVE  Typed'
<1>1. CASE UNCHANGED vars
  BY <1>1 DEF vars, ring, refs, sleeps, Typed
<1>2. ASSUME NEW t \in Task, Plain(t)
      PROVE  Typed'
  <2> USE DEF Typed, End, Labels, At, Ready, Goto
  <2>1. CASE WakeOne(t) \/ WakeDone(t)
    BY <2>1 DEF WakeOne, WakeDone, refs, sleeps
  <2>2. CASE IoEnds(t) \/ IoSleeps(t) \/ IoWoken(t)
    BY <2>2 DEF IoEnds, IoSleeps, IoWoken, Return, fs_waitq_add, fs_waitq_remove, refs, sleeps
  <2>3. CASE Write(t)
    BY <2>3 DEF Write, fs_waitq_take_all, WakeThen, refs, sleeps
  <2>4. CASE Read(t)
    BY <2>4 DEF Read, fs_waitq_take_all, WakeThen, refs, sleeps
  <2>5. CASE PollReturns(t) \/ PollScans(t) \/ PollRegisters(t)
    BY <2>5 DEF PollReturns, PollScans, PollRegisters, fs_waitq_add, refs, sleeps
  <2>6. CASE PollMarks(t) \/ PollRescans(t) \/ PollClears(t)
    BY <2>6 DEF PollMarks, PollRescans, PollClears, fs_waitq_remove, refs, sleeps
  <2>7. CASE \E e \in End : CallIo(t, e) \/ CallPoll(t, e)
    BY <2>7 DEF CallIo, CallPoll, refs, sleeps
  <2>8. QED
    BY <1>2, <2>1, <2>2, <2>3, <2>4, <2>5, <2>6, <2>7 DEF Plain
<1>3. ASSUME NEW t \in Task, Counting(t)
      PROVE  Typed'
  <2> USE DEF Typed, End, Labels, At, Ready, Goto
  <2>1. CASE GetLoad(t) \/ Publish(t) \/ Free(t)
    BY <2>1 DEF GetLoad, Publish, Free, refs, sleeps
  <2>2. CASE GetStore(t) \/ PutStore(t)
    BY <2>2 DEF GetStore, PutStore, sleeps
  <2>3. CASE Release(t)
    BY <2>3 DEF Release, WakeThen, sleeps
  <2>4. CASE (\E e \in End : CallClose(t, e)) \/ \E c \in Task : CallFork(t, c)
    BY <2>4 DEF CallClose, CallFork, refs, sleeps
  <2>5. QED
    BY <1>3, <2>1, <2>2, <2>3, <2>4 DEF Counting
<1>4. ASSUME NEW t \in Task, Deadline(t)
      PROVE  Typed'
  BY <1>4 DEF Deadline, Typed, refs
<1>5. QED
  BY <1>1, <1>2, <1>3, <1>4, StepKinds

(* Where the task that makes a step stands, before and after it. *)
LEMMA PlainMoves ==
  ASSUME Typed, NEW t \in Task, Plain(t)
  PROVE  /\ pc[t] \notin {"none", "get", "get_store", "put_store", "release", "free"}
         /\ \E l \in {pc[t], next[t], "user", "wake", "io", "io_wake", "poll", "poll_add", "poll_mark",
                      "poll_mark_timed", "poll_rescan", "poll_clear"} : pc' = [pc EXCEPT ![t] = l]
         /\ \A u \in Task \ {t} : end'[u] = end[u] /\ next'[u] = next[u]
         /\ next'[t] = "free" => next[t] = "free"
         /\ UNCHANGED <<child, ref_count, ends, freed, file_ref, fds, loaded>>
<1>1. pc = [pc EXCEPT ![t] = pc[t]] /\ next[t] \in {"user", "io", "free"}
  BY DEF Typed
<1> USE DEF Typed, At, Ready, Goto
<1>2. CASE WakeOne(t) \/ WakeDone(t)
  BY <1>1, <1>2 DEF WakeOne, WakeDone, refs
<1>3. CASE IoEnds(t) \/ IoSleeps(t) \/ IoWoken(t)
  BY <1>3 DEF IoEnds, IoSleeps, IoWoken, Return, refs
<1>4. CASE Write(t) \/ Read(t)
  BY <1>4 DEF Write, Read, WakeThen, refs
<1>5. CASE PollReturns(t) \/ PollScans(t) \/ PollRegisters(t)
  BY <1>5 DEF PollReturns, PollScans, PollRegisters, refs
<1>6. CASE PollMarks(t) \/ PollRescans(t) \/ PollClears(t)
  BY <1>6 DEF PollMarks, PollRescans, PollClears, refs
<1>7. CASE \E e \in End : CallIo(t, e) \/ CallPoll(t, e)
  BY <1>7 DEF CallIo, CallPoll, refs
<1>8. QED
  BY <1>2, <1>3, <1>4, <1>5, <1>6, <1>7 DEF Plain

LEMMA ForksStep ==
  ASSUME Typed, Forks, [Next]_vars
  PROVE  Forks'
<1>1. CASE UNCHANGED vars
  BY <1>1 DEF vars, Forks
<1>2. ASSUME NEW t \in Task, Plain(t)
      PROVE  Forks'
  <2>1. PICK l : /\ l \notin {"get", "get_store"} /\ pc' = [pc EXCEPT ![t] = l]
                 /\ pc[t] # "none" /\ child' = child
    BY <1>2, PlainMoves DEF Typed
  <2>2. QED
    BY <2>1 DEF Forks, Typed
<1>3. ASSUME NEW t \in Task, Counting(t)
      PROVE  Forks'
  <2> USE PipeAssumption DEF Forks, Typed, At, Goto
  <2>1. CASE GetLoad(t) \/ GetStore(t)
    BY <2>1 DEF GetLoad, GetStore
  <2>2. CASE Publish(t)
    BY <2>2 DEF Publish
  <2>3. CASE PutStore(t) \/ Free(t) \/ \E e \in End : CallClose(t, e)
    BY <2>3 DEF PutStore, Free, CallClose
  <2>4. CASE Release(t)
    BY <2>4 DEF Release, WakeThen
  <2>5. CASE \E c \in Task : CallFork(t, c)
    BY <2>5 DEF CallFork
  <2>6. QED
    BY <1>3, <2>1, <2>2, <2>3, <2>4, <2>5 DEF Counting
<1>4. ASSUME NEW t \in Task, Deadline(t)
      PROVE  Forks'
  BY <1>4 DEF Deadline, Forks
<1>5. QED
  BY <1>1, <1>2, <1>3, <1>4, StepKinds

LEMMA ListsStep ==
  ASSUME Typed, Forks, Lists, [Next]_vars
  PROVE  Lists'
<1>1. CASE UNCHANGED vars
  BY <1>1 DEF vars, Lists
<1> USE DEF Typed, Lists, At, Goto
<1>2. ASSUME NEW t \in Task, Plain(t)
      PROVE  Lists'
  <2>1. CASE WakeOne(t) \/ WakeDone(t)
    BY <2>1 DEF WakeOne, WakeDone
  <2>2. CASE IoEnds(t) \/ IoSleeps(t) \/ IoWoken(t)
    BY <2>2 DEF IoEnds, IoSleeps, IoWoken, Return
  <2>3. CASE Write(t) \/ Read(t)
    BY <2>3 DEF Write, Read, WakeThen
  <2>4. CASE PollReturns(t) \/ PollScans(t) \/ PollRegisters(t)
    BY <2>4 DEF PollReturns, PollScans, PollRegisters
  <2>5. CASE PollMarks(t) \/ PollRescans(t) \/ PollClears(t)
    BY <2>5 DEF PollMarks, PollRescans, PollClears
  <2>6. CASE \E e \in End : CallIo(t, e) \/ CallPoll(t, e)
    BY <2>6 DEF CallIo, CallPoll
  <2>7. QED
    BY <1>2, <2>1, <2>2, <2>3, <2>4, <2>5, <2>6 DEF Plain
<1>3. ASSUME NEW t \in Task, Counting(t)
      PROVE  Lists'
  <2>1. CASE GetLoad(t) \/ GetStore(t)
    BY <2>1 DEF GetLoad, GetStore
  <2>2. CASE Publish(t)
    BY <2>2 DEF Publish, Forks
  <2>3. CASE PutStore(t) \/ Free(t) \/ \E e \in End : CallClose(t, e)
    BY <2>3 DEF PutStore, Free, CallClose
  <2>4. CASE Release(t)
    BY <2>4 DEF Release, WakeThen
  <2>5. CASE \E c \in Task : CallFork(t, c)
    BY <2>5 DEF CallFork
  <2>6. QED
    BY <1>3, <2>1, <2>2, <2>3, <2>4, <2>5 DEF Counting
<1>4. ASSUME NEW t \in Task, Deadline(t)
      PROVE  Lists'
  BY <1>4 DEF Deadline
<1>5. QED
  BY <1>1, <1>2, <1>3, <1>4, StepKinds

-----------------------------------------------------------------------------
(* With a place for every task, fs_waitq_add never finds the array full. *)
LEMMA AlwaysRoom ==
  ASSUME IsFiniteSet(Task), Cardinality(Task) <= FS_WAITQ_MAX, Typed,
         NEW e \in End, NEW t \in Task
  PROVE  Room(e, t)
<1>1. CASE t \in waitq[e]
  BY <1>1 DEF Room
<1>2. CASE t \notin waitq[e]
  <2>1. waitq[e] \subseteq Task /\ waitq[e] # Task
    BY <1>2 DEF Typed
  <2>2. Cardinality(waitq[e]) < Cardinality(Task) /\ Cardinality(waitq[e]) \in Nat
    BY <2>1, FS_Subset, FS_CardinalityType
  <2>3. Cardinality(Task) \in Nat /\ FS_WAITQ_MAX \in Nat
    BY FS_CardinalityType, PipeAssumption
  <2>4. QED
    BY <2>2, <2>3 DEF Room
<1>3. QED
  BY <1>1, <1>2

(* A step that wakes nobody from the arrays and moves no byte. *)
LEMMA QuietWaits ==
  ASSUME Typed, Waits, NEW t \in Task,
         UNCHANGED <<count, ends, towake>>,
         \A u \in Task \ {t} : /\ pc'[u] = "io_wake" => pc[u] = "io_wake"
                               /\ end'[u] = end[u] /\ st'[u] = st[u]
                               /\ \A e \in End : u \in waitq[e] => u \in waitq'[e],
         pc'[t] # "io_wake"
  PROVE  Waits'
  BY DEF Waits, Typed, Ended, Blocked

LEMMA WaitsStep ==
  ASSUME IsFiniteSet(Task), Cardinality(Task) <= FS_WAITQ_MAX,
         Typed, Forks, Lists, Waits, [Next]_vars
  PROVE  Waits'
<1>1. CASE UNCHANGED vars
  BY <1>1 DEF vars, ring, refs, sleeps, Waits, Ended, Blocked
<1>2. ASSUME NEW t \in Task, Plain(t)
      PROVE  Waits'
  <2> USE DEF Typed, At, Ready, Goto
  <2>1. CASE WakeOne(t)
    BY <2>1 DEF WakeOne, Waits, Ended, Blocked, ring, refs
  <2>2. CASE WakeDone(t)
    BY <2>2, QuietWaits DEF WakeDone, ring, refs, sleeps
  <2>3. CASE IoEnds(t) \/ IoWoken(t)
    BY <2>3, QuietWaits DEF IoEnds, IoWoken, Return, fs_waitq_remove, ring, refs, sleeps
  <2>4. CASE IoSleeps(t)
    <3>1. Room(end[t], t)
      BY AlwaysRoom
    <3>2. QED
      BY <2>4, <3>1 DEF IoSleeps, fs_waitq_add, Waits, Ended, Blocked, ring, refs
  <2>5. CASE Write(t)
    <3>1. /\ towake' = [towake EXCEPT ![t] = waitq["r"]] /\ pc' = [pc EXCEPT ![t] = "wake"]
          /\ waitq' = [waitq EXCEPT !["r"] = {}] /\ UNCHANGED <<end, st, ends>>
          /\ ~ Blocked("w") /\ towake[t] = {}
      BY <2>5, Zenon DEF Write, WakeThen, fs_waitq_take_all, refs, sleeps, Lists
    <3>2. QED
      BY <3>1 DEF Waits, End
  <2>6. CASE Read(t)
    <3>1. /\ towake' = [towake EXCEPT ![t] = waitq["w"]] /\ pc' = [pc EXCEPT ![t] = "wake"]
          /\ waitq' = [waitq EXCEPT !["w"] = {}] /\ UNCHANGED <<end, st, ends>>
          /\ ~ Blocked("r") /\ towake[t] = {}
      BY <2>6 DEF Read, WakeThen, fs_waitq_take_all, refs, sleeps, Lists
    <3>2. QED
      BY <3>1 DEF Waits, End
  <2>7. CASE PollReturns(t) \/ PollScans(t) \/ PollRegisters(t)
    BY <2>7, QuietWaits DEF PollReturns, PollScans, PollRegisters, fs_waitq_add, ring, refs, sleeps
  <2>8. CASE PollMarks(t) \/ PollRescans(t) \/ PollClears(t)
    BY <2>8, QuietWaits DEF PollMarks, PollRescans, PollClears, fs_waitq_remove, ring, refs, sleeps
  <2>9. CASE \E e \in End : CallIo(t, e) \/ CallPoll(t, e)
    BY <2>9, QuietWaits DEF CallIo, CallPoll, ring, refs, sleeps
  <2>10. QED
    BY <1>2, <2>1, <2>2, <2>3, <2>4, <2>5, <2>6, <2>7, <2>8, <2>9 DEF Plain
<1>3. ASSUME NEW t \in Task, Counting(t)
      PROVE  Waits'
  <2> USE DEF Typed, At, Ready, Goto
  <2>1. CASE GetLoad(t) \/ GetStore(t) \/ PutStore(t) \/ Free(t)
    BY <2>1, QuietWaits DEF GetLoad, GetStore, PutStore, Free, ring, refs, sleeps
  <2>2. CASE Publish(t)
    BY <2>2, QuietWaits DEF Publish, ring, refs, sleeps
  <2>3. CASE (\E e \in End : CallClose(t, e)) \/ \E c \in Task : CallFork(t, c)
    BY <2>3, QuietWaits DEF CallClose, CallFork, ring, refs, sleeps
  <2>4. CASE Release(t)
    <3>1. /\ towake' = [towake EXCEPT ![t] = waitq["r"] \cup waitq["w"]]
          /\ pc' = [pc EXCEPT ![t] = "wake"] /\ UNCHANGED <<end, st>> /\ towake[t] = {}
      BY <2>4 DEF Release, WakeThen, sleeps, Lists
    <3>2. QED
      BY <3>1 DEF Waits, End
  <2>5. QED
    BY <1>3, <2>1, <2>2, <2>3, <2>4 DEF Counting
<1>4. ASSUME NEW t \in Task, Deadline(t)
      PROVE  Waits'
  BY <1>4 DEF Deadline, Waits, Typed, Ended, Blocked, ring, refs
<1>5. QED
  BY <1>1, <1>2, <1>3, <1>4, StepKinds

LEMMA BasicInit == Init => Typed /\ Forks /\ Lists /\ Waits
  BY PipeAssumption DEF Init, Typed, Forks, Lists, Waits, End, Labels

(* With a place for every task in the wait arrays (FS_WAITQ_MAX) no wake-up   *)
(* of fs_read or fs_write is lost, however many tasks read, write, poll, fork *)
(* and close, and with or without the big kernel lock.                        *)
THEOREM WakesArePending ==
  ASSUME IsFiniteSet(Task), Cardinality(Task) <= FS_WAITQ_MAX
  PROVE  Spec => []WakePending
<1> DEFINE Inv == Typed /\ Forks /\ Lists /\ Waits
<1>1. Init => Inv
  BY BasicInit
<1>2. Inv /\ [Next]_vars => Inv'
  BY TypedStep, ForksStep, ListsStep, WaitsStep
<1>3. Inv => WakePending
  BY DEF WakePending, Waits
<1>4. QED
  BY <1>1, <1>2, <1>3, PTL DEF Spec

-----------------------------------------------------------------------------
Holders(f, e) == {t \in Task : e \in f[t]}

Storing == {"get_store", "put_store"}

(* One task at most is between a load and a store, what it loaded is still    *)
(* the count, and the descriptor it copies or closes is there.                *)
Loads ==
  /\ \A t, u \in Task : pc[t] \in Storing /\ pc[u] \in Storing => t = u
  /\ \A t \in Task : pc[t] \in Storing => loaded[t] = file_ref[end[t]] /\ end[t] \in fds[t]
  /\ \A t \in Task : pc[t] = "get_store" => end[t] \notin fds[child[t]]
  /\ \A e \in End : file_ref[e] = Cardinality(Holders(fds, e))

(* An end is released once, by the task that closed its last descriptor, and  *)
(* the pipe is freed after both.                                              *)
Closed ==
  /\ ref_count = ends["r"] + ends["w"]
  /\ \A t \in Task : pc[t] = "release" => ends[end[t]] = 1 /\ Holders(fds, end[t]) = {}
  /\ \A t, u \in Task : pc[t] = "release" /\ pc[u] = "release" /\ end[t] = end[u] => t = u
  /\ \A e \in End : ends[e] = 0 => Holders(fds, e) = {}
  /\ \A t \in Task : pc[t] = "free" \/ next[t] = "free" => \A e \in End : Holders(fds, e) = {}
  /\ freed => \A e \in End : Holders(fds, e) = {}

RefInv == Typed /\ Forks /\ Loads /\ Closed

(* A step that neither counts nor releases. *)
LEMMA QuietRefs ==
  ASSUME RefInv, NEW t \in Task, NEW l \in Labels \ (Storing \cup {"release"}),
         pc' = [pc EXCEPT ![t] = l], pc[t] \notin Storing \cup {"release"},
         l = "free" => pc[t] = "free" \/ next[t] = "free",
         next'[t] = "free" => next[t] = "free",
         \A u \in Task \ {t} : end'[u] = end[u] /\ next'[u] = next[u] /\ child'[u] = child[u],
         UNCHANGED <<ref_count, ends, freed, file_ref, fds, loaded>>
  PROVE  Loads' /\ Closed'
<1>1. \A e : Holders(fds', e) = Holders(fds, e)
  OBVIOUS
<1>2. Loads'
  BY <1>1 DEF RefInv, Typed, Loads, Storing
<1>3. Closed'
  BY <1>1 DEF RefInv, Typed, Closed, Storing
<1>4. QED
  BY <1>2, <1>3

LEMMA PlainRefs ==
  ASSUME RefInv, NEW t \in Task, Plain(t)
  PROVE  Loads' /\ Closed'
<1>1. Typed
  BY DEF RefInv
<1>2. PICK l \in {pc[t], next[t], "user", "wake", "io", "io_wake", "poll", "poll_add", "poll_mark",
                  "poll_mark_timed", "poll_rescan", "poll_clear"} : pc' = [pc EXCEPT ![t] = l]
  BY <1>1, PlainMoves
<1>3. /\ pc[t] \notin Storing \cup {"release"}
      /\ l \in Labels \ (Storing \cup {"release"})
      /\ l = "free" => pc[t] = "free" \/ next[t] = "free"
  BY <1>1, PlainMoves DEF Typed, Labels, Storing
<1>4. /\ next'[t] = "free" => next[t] = "free"
      /\ \A u \in Task \ {t} : end'[u] = end[u] /\ next'[u] = next[u] /\ child'[u] = child[u]
      /\ UNCHANGED <<ref_count, ends, freed, file_ref, fds, loaded>>
  BY <1>1, PlainMoves
<1>5. QED
  BY <1>2, <1>3, <1>4, QuietRefs, Zenon

(* ref_count++ and ref_count-- with the descriptor that goes with them. *)
LEMMA GetStoreRefs ==
  ASSUME IsFiniteSet(Task), RefInv, NEW t \in Task, GetStore(t)
  PROVE  Loads' /\ Closed'
<1>0. PICK x \in End, c \in Task : x = end[t] /\ c = child[t]
  BY DEF GetStore, At, RefInv, Typed, Forks
<1>1. /\ pc[t] = "get_store" /\ x \in fds[t] /\ x \notin fds[c]
      /\ loaded[t] = file_ref[x] /\ file_ref[x] = Cardinality(Holders(fds, x))
  BY <1>0 DEF GetStore, At, RefInv, Typed, Forks, Loads, Storing
<1>2. /\ fds' = [fds EXCEPT ![c] = @ \cup {x}] /\ pc' = [pc EXCEPT ![t] = "get"]
      /\ file_ref' = [file_ref EXCEPT ![x] = loaded[t] + 1]
      /\ UNCHANGED <<ref_count, ends, freed, end, child, next>>
  BY <1>0 DEF GetStore, Goto
<1>3. Holders(fds', x) = Holders(fds, x) \cup {c} /\ \A e \in End \ {x} : Holders(fds', e) = Holders(fds, e)
  BY <1>1, <1>2 DEF Holders, RefInv, Typed
<1>4. IsFiniteSet(Holders(fds, x)) /\ c \notin Holders(fds, x)
  BY <1>1, FS_Subset DEF Holders
<1>5. Cardinality(Holders(fds', x)) = Cardinality(Holders(fds, x)) + 1
  BY <1>3, <1>4, FS_AddElement, ZenonT(20)
<1>6. ASSUME NEW e \in End
      PROVE  file_ref'[e] = Cardinality(Holders(fds', e))
  <2>1. file_ref \in [End -> Int] /\ file_ref[e] = Cardinality(Holders(fds, e))
    BY DEF RefInv, Typed, Loads
  <2>2. CASE e = x
    BY <1>1, <1>2, <1>5, <2>1, <2>2
  <2>3. CASE e # x
    <3>1. file_ref'[e] = file_ref[e] /\ Holders(fds', e) = Holders(fds, e)
      BY <1>2, <1>3, <2>1, <2>3, Zenon
    <3>2. QED
      BY <2>1, <3>1
  <2>4. QED
    BY <2>2, <2>3
<1>7. \A u \in Task : pc'[u] \notin Storing
  BY <1>1, <1>2 DEF RefInv, Typed, Loads, Storing
<1>8. Loads'
  BY <1>6, <1>7 DEF Loads, Storing
<1>9. \A e \in End : Holders(fds, e) = {} => Holders(fds', e) = {}
  BY <1>1, <1>3 DEF Holders
<1>10. Closed'
  BY <1>0, <1>1, <1>2, <1>9, ZenonT(20) DEF RefInv, Typed, Closed
<1>11. QED
  BY <1>8, <1>10

LEMMA PutStoreRefs ==
  ASSUME IsFiniteSet(Task), RefInv, NEW t \in Task, PutStore(t)
  PROVE  Loads' /\ Closed'
<1>0. PICK x \in End : x = end[t]
  BY DEF RefInv, Typed
<1> DEFINE l == IF loaded[t] - 1 > 0 THEN "user" ELSE "release"
<1>1. /\ pc[t] = "put_store" /\ x \in fds[t]
      /\ loaded[t] = file_ref[x] /\ file_ref[x] = Cardinality(Holders(fds, x))
  BY <1>0 DEF PutStore, At, RefInv, Typed, Loads, Storing
<1>2. /\ fds' = [fds EXCEPT ![t] = @ \ {x}] /\ pc' = [pc EXCEPT ![t] = l]
      /\ file_ref' = [file_ref EXCEPT ![x] = loaded[t] - 1]
      /\ UNCHANGED <<ref_count, ends, freed, end, child, next>>
  BY <1>0 DEF PutStore, Goto
<1>3. Holders(fds', x) = Holders(fds, x) \ {t} /\ \A e \in End \ {x} : Holders(fds', e) = Holders(fds, e)
  BY <1>1, <1>2 DEF Holders, RefInv, Typed
<1>4. IsFiniteSet(Holders(fds, x)) /\ t \in Holders(fds, x) /\ IsFiniteSet(Holders(fds', x))
      /\ Cardinality(Holders(fds, x)) \in Nat
  BY <1>1, <1>3, FS_Subset, FS_CardinalityType DEF Holders
<1>5. Cardinality(Holders(fds', x)) = Cardinality(Holders(fds, x)) - 1 /\ Cardinality(Holders(fds', x)) \in Nat
  BY <1>3, <1>4, FS_RemoveElement, FS_CardinalityType
<1>6. ASSUME NEW e \in End
      PROVE  file_ref'[e] = Cardinality(Holders(fds', e))
  <2>1. file_ref \in [End -> Int] /\ file_ref[e] = Cardinality(Holders(fds, e))
    BY DEF RefInv, Typed, Loads
  <2>2. CASE e = x
    BY <1>1, <1>2, <1>5, <2>1, <2>2
  <2>3. CASE e # x
    <3>1. file_ref'[e] = file_ref[e] /\ Holders(fds', e) = Holders(fds, e)
      BY <1>2, <1>3, <2>1, <2>3, Zenon
    <3>2. QED
      BY <2>1, <3>1
  <2>4. QED
    BY <2>2, <2>3
<1>7. \A u \in Task : pc'[u] \notin Storing
  BY <1>1, <1>2 DEF RefInv, Typed, Loads, Storing
<1>8. Loads'
  BY <1>6, <1>7 DEF Loads, Storing
<1>9. \A e \in End : Holders(fds, e) = {} => Holders(fds', e) = {}
  BY <1>1, <1>3 DEF Holders
<1>10. l = "release" => Holders(fds', x) = {}
  <2>1. l = "release" => Cardinality(Holders(fds', x)) = 0
    BY <1>1, <1>4, <1>5
  <2>2. QED
    BY <2>1, <1>4, FS_EmptySet
<1>11. ends[x] = 1 /\ \A u \in Task : pc[u] = "release" => end[u] # x
  BY <1>0, <1>1, <1>4 DEF RefInv, Typed, Closed
<1>12. Closed'
  <2>1. /\ ref_count' = ends'["r"] + ends'["w"]
        /\ \A e \in End : ends'[e] = 0 => Holders(fds', e) = {}
        /\ freed' => \A e \in End : Holders(fds', e) = {}
    BY <1>2, <1>9, Zenon DEF RefInv, Closed
  <2>2. \A u \in Task : pc'[u] = "free" \/ next'[u] = "free" => \A e \in End : Holders(fds', e) = {}
    BY <1>2, <1>9, Zenon DEF RefInv, Typed, Closed
  <2>3. \A u \in Task : pc'[u] = "release" =>
          \/ u = t /\ end'[u] = x /\ Holders(fds', x) = {}
          \/ u # t /\ pc[u] = "release" /\ end'[u] = end[u] /\ end[u] \in End
    BY <1>0, <1>2, <1>10, Zenon DEF RefInv, Typed
  <2>4. \A u \in Task : pc'[u] = "release" => ends'[end'[u]] = 1 /\ Holders(fds', end'[u]) = {}
    BY <1>2, <1>9, <1>11, <2>3, ZenonT(20) DEF RefInv, Closed
  <2>5. \A u, v \in Task : pc'[u] = "release" /\ pc'[v] = "release" /\ end'[u] = end'[v] => u = v
    BY <1>11, <2>3 DEF RefInv, Closed
  <2>6. QED
    BY <2>1, <2>2, <2>4, <2>5 DEF Closed
<1>13. QED
  BY <1>8, <1>12

(* The two loads, each with nobody else between a load and a store. *)
LEMMA LoadRefs ==
  ASSUME RefInv, BigKernelLock, NEW t \in Task,
         GetLoad(t) \/ \E e \in End : CallClose(t, e)
  PROVE  Loads' /\ Closed'
<1>1. PICK e \in fds[t], l \in Storing :
        /\ pc' = [pc EXCEPT ![t] = l] /\ end' = [end EXCEPT ![t] = e]
        /\ loaded' = [loaded EXCEPT ![t] = file_ref[e]]
        /\ l = "get_store" => e \notin fds[child[t]]
        /\ pc[t] \in {"get", "user"}
        /\ \A u \in Task : pc[u] \notin Storing
        /\ UNCHANGED <<ref_count, ends, freed, file_ref, fds, child, next>>
  BY DEF GetLoad, CallClose, At, Goto, RefMayLoad, RefBusy, Storing, refs
<1>2. e \in End
  BY <1>1 DEF RefInv, Typed
<1>3. Loads'
  BY <1>1, <1>2 DEF RefInv, Typed, Loads, Storing
<1>4. Closed'
  BY <1>1 DEF RefInv, Typed, Closed, Storing
<1>5. QED
  BY <1>3, <1>4

LEMMA ReleaseRefs ==
  ASSUME RefInv, NEW t \in Task, Release(t)
  PROVE  Loads' /\ Closed'
<1>0. PICK x \in End : x = end[t]
  BY DEF RefInv, Typed
<1> DEFINE l == IF ref_count = 1 THEN "free" ELSE "user"
<1>1. pc[t] = "release" /\ ends[x] = 1 /\ Holders(fds, x) = {}
  <2>1. pc[t] = "release"
    BY DEF Release, At
  <2>2. QED
    BY <1>0, <2>1, ZenonT(20) DEF RefInv, Closed
<1>2. /\ pc' = [pc EXCEPT ![t] = "wake"] /\ next' = [next EXCEPT ![t] = l]
      /\ ref_count' = ref_count - 1 /\ ends' = [ends EXCEPT ![x] = 0]
      /\ UNCHANGED <<freed, file_ref, fds, end, loaded, child>>
  BY <1>0, <1>1 DEF Release, WakeThen, Goto, RefInv, Typed
<1>3. Loads'
  BY <1>1, <1>2 DEF RefInv, Typed, Loads, Storing
<1>4. /\ ref_count' = ends'["r"] + ends'["w"]
      /\ ref_count = 1 => \A e \in End : Holders(fds, e) = {}
  BY <1>0, <1>1, <1>2 DEF RefInv, Typed, Closed, End
<1>5. \A u \in Task : pc'[u] = "release" => pc[u] = "release" /\ end[u] # x /\ u # t
  BY <1>0, <1>1, <1>2 DEF RefInv, Typed, Closed
<1>6. \A u \in Task : pc'[u] = "free" \/ next'[u] = "free" => \A e \in End : Holders(fds, e) = {}
  BY <1>2, <1>4 DEF RefInv, Typed, Closed
<1>7. \A u \in Task : pc'[u] = "release" => ends'[end'[u]] = 1 /\ Holders(fds', end'[u]) = {}
  BY <1>2, <1>5 DEF RefInv, Typed, Closed
<1>8. \A e \in End : ends'[e] = 0 => Holders(fds', e) = {}
  BY <1>1, <1>2 DEF RefInv, Typed, Closed
<1>9. Closed'
  BY <1>2, <1>4, <1>5, <1>6, <1>7, <1>8 DEF RefInv, Closed
<1>10. QED
  BY <1>3, <1>9

LEMMA OtherRefs ==
  ASSUME RefInv, NEW t \in Task, Publish(t) \/ Free(t) \/ \E c \in Task : CallFork(t, c)
  PROVE  Loads' /\ Closed'
<1>1. CASE Publish(t)
  <2>1. /\ pc[t] = "get" /\ pc' = [pc EXCEPT ![t] = "user", ![child[t]] = "user"]
        /\ child' = [child EXCEPT ![t] = None]
        /\ UNCHANGED <<ref_count, ends, freed, file_ref, fds, end, loaded, next>>
    BY <1>1 DEF Publish, At, refs
  <2>2. Loads'
    BY <2>1 DEF RefInv, Typed, Loads, Storing
  <2>3. Closed'
    BY <2>1 DEF RefInv, Typed, Closed
  <2>4. QED
    BY <2>2, <2>3
<1>2. CASE Free(t)
  <2>1. /\ pc[t] = "free" /\ pc' = [pc EXCEPT ![t] = "user"] /\ freed'
        /\ UNCHANGED <<ref_count, ends, file_ref, fds, end, loaded, next, child>>
    BY <1>2 DEF Free, At, Goto
  <2>2. Loads'
    BY <2>1 DEF RefInv, Typed, Loads, Storing
  <2>3. Closed'
    BY <2>1 DEF RefInv, Typed, Closed
  <2>4. QED
    BY <2>2, <2>3
<1>3. CASE \E c \in Task : CallFork(t, c)
  <2>1. /\ pc[t] = "user" /\ pc' = [pc EXCEPT ![t] = "get"]
        /\ \A u \in Task \ {t} : end'[u] = end[u] /\ next'[u] = next[u] /\ child'[u] = child[u]
        /\ UNCHANGED <<ref_count, ends, freed, file_ref, fds, loaded, next>>
    BY <1>3 DEF CallFork, At, Goto, refs, RefInv, Typed
  <2>2. "get" \in Labels \ (Storing \cup {"release"}) /\ pc[t] \notin Storing \cup {"release"}
    BY <2>1 DEF Labels, Storing
  <2>3. QED
    BY <2>1, <2>2, QuietRefs, Zenon
<1>4. QED
  BY <1>1, <1>2, <1>3

LEMMA RefStep ==
  ASSUME IsFiniteSet(Task), BigKernelLock, RefInv, [Next]_vars
  PROVE  RefInv'
<1>1. Typed' /\ Forks'
  BY TypedStep, ForksStep DEF RefInv
<1>2. CASE UNCHANGED vars
  BY <1>1, <1>2 DEF vars, refs, RefInv, Loads, Closed
<1>3. ASSUME NEW t \in Task, Plain(t)
      PROVE  Loads' /\ Closed'
  BY <1>3, PlainRefs
<1>4. ASSUME NEW t \in Task, Counting(t)
      PROVE  Loads' /\ Closed'
  BY <1>4, GetStoreRefs, PutStoreRefs, LoadRefs, ReleaseRefs, OtherRefs DEF Counting
<1>5. ASSUME NEW t \in Task, Deadline(t)
      PROVE  Loads' /\ Closed'
  BY <1>5 DEF Deadline, refs, RefInv, Loads, Closed
<1>6. QED
  BY <1>1, <1>2, <1>3, <1>4, <1>5, StepKinds DEF RefInv

LEMMA RefInit ==
  ASSUME Init
  PROVE  RefInv
<1>1. \A e \in End : Holders(fds, e) = {Creator}
  BY PipeAssumption DEF Init, Holders
<1>2. Cardinality({Creator}) = 1
  BY FS_Singleton
<1>3. Loads
  BY <1>1, <1>2, Zenon DEF Init, Loads, Storing
<1>4. Closed
  BY DEF Init, Closed, End
<1>5. QED
  BY <1>3, <1>4, BasicInit DEF RefInv

(* Where system calls run under the big kernel lock, open files and pipe ends *)
(* are counted exactly, however many tasks fork and close, and the pipe is    *)
(* freed only after the last descriptor (fs_file_get, fs_file_put,            *)
(* fs_release_pipe_file).                                                     *)
THEOREM CountsAreExact ==
  ASSUME IsFiniteSet(Task), BigKernelLock
  PROVE  Spec => []RefExact
<1>1. Init => RefInv
  BY RefInit
<1>2. RefInv /\ [Next]_vars => RefInv'
  BY RefStep
<1>3. RefInv => RefExact
  <2>1. SUFFICES ASSUME RefInv PROVE RefExact
    OBVIOUS
  <2>2. \A e \in End : Holders(fds, e) = {t \in Task : e \in fds[t]}
    BY DEF Holders
  <2>3. \A e \in End : file_ref[e] = Cardinality({t \in Task : e \in fds[t]})
    BY <2>1, Zenon DEF RefInv, Loads, Holders
  <2>4. \A e \in End : ends[e] = 0 => \A t \in Task : e \notin fds[t]
    BY <2>1, <2>2 DEF RefInv, Closed
  <2>5. freed => \A t \in Task : fds[t] = {}
    BY <2>1, <2>2 DEF RefInv, Closed, Typed
  <2>6. QED
    BY <2>3, <2>4, <2>5 DEF RefExact
<1>4. QED
  BY <1>1, <1>2, <1>3, PTL DEF Spec

-----------------------------------------------------------------------------
(* Positions in a ring of n places. *)
LEMMA Wrap ==
  ASSUME NEW n \in Nat \ {0}, NEW x \in Int, -n < x, x < 2 * n
  PROVE  x % n = IF x < 0 THEN x + n ELSE IF x < n THEN x ELSE x - n
<1>1. CASE x < 0
  BY <1>1
<1>2. CASE 0 <= x /\ x < n
  BY <1>2
<1>3. CASE n <= x
  BY <1>3
<1>4. QED
  BY <1>1, <1>2, <1>3

LEMMA Advance ==
  ASSUME NEW n \in Nat \ {0}, NEW p \in 0 .. n - 1, NEW a \in Nat, NEW b \in Nat, a + b <= n
  PROVE  /\ (p + a) % n \in 0 .. n - 1
         /\ (((p + a) % n) + b) % n = (p + (a + b)) % n
<1>1. PICK x \in Int : x = p + a /\ -n < x /\ x < 2 * n /\ ~ (x < 0)
  OBVIOUS
<1>2. PICK y \in Int : y = p + (a + b) /\ -n < y /\ y < 2 * n /\ ~ (y < 0)
  OBVIOUS
<1>3. PICK r \in Int : r = x % n /\ r = IF x < n THEN x ELSE x - n
  <2>1. x % n = IF x < n THEN x ELSE x - n
    BY <1>1, Wrap, Zenon
  <2>2. QED
    BY <1>1, <2>1
<1>4. PICK z \in Int : z = r + b /\ -n < z /\ z < 2 * n /\ ~ (z < 0)
  BY <1>1, <1>3
<1>5. z % n = (IF z < n THEN z ELSE z - n) /\ y % n = (IF y < n THEN y ELSE y - n)
  BY <1>2, <1>4, Wrap, Zenon
<1>6. z % n = y % n /\ r \in 0 .. n - 1
  BY <1>1, <1>2, <1>3, <1>4, <1>5
<1>7. QED
  BY <1>1, <1>2, <1>3, <1>4, <1>6

LEMMA Place ==
  ASSUME NEW n \in Nat \ {0}, NEW p \in 0 .. n - 1, NEW a \in 0 .. n
  PROVE  (p + a) % n = IF p + a < n THEN p + a ELSE p + a - n
<1>1. PICK x \in Int : x = p + a /\ -n < x /\ x < 2 * n /\ ~ (x < 0)
  OBVIOUS
<1>2. x % n = IF x < n THEN x ELSE x - n
  BY <1>1, Wrap, Zenon
<1>3. QED
  BY <1>1, <1>2

LEMMA Distance ==
  ASSUME NEW n \in Nat \ {0}, NEW p \in 0 .. n - 1, NEW i \in 0 .. n - 1, NEW c \in 0 .. n,
         NEW r \in Int, NEW q \in Int,
         r = IF p + i < n THEN p + i ELSE p + i - n, q = IF p + c < n THEN p + c ELSE p + c - n
  PROVE  (r - q) % n = IF i < c THEN i - c + n ELSE i - c
<1>1. PICK z \in Int : z = r - q /\ -n < z /\ z < 2 * n
  <2>1. r \in 0 .. n - 1
    OBVIOUS
  <2>2. q \in 0 .. n - 1
    OBVIOUS
  <2>3. r - q \in Int /\ -n < r - q /\ r - q < 2 * n
    BY <2>1, <2>2
  <2>4. QED
    BY <2>3, Zenon
<1>2. z % n = IF z < 0 THEN z + n ELSE IF z < n THEN z ELSE z - n
  BY <1>1, Wrap, Zenon
<1>3. (IF z < 0 THEN z + n ELSE IF z < n THEN z ELSE z - n) = IF i < c THEN i - c + n ELSE i - c
  BY <1>1
<1>4. QED
  BY <1>1, <1>2, <1>3

(* The write position is as far ahead of the read position as the ring is     *)
(* full.                                                                      *)
Ring ==
  /\ buffer \in [0 .. PIPE_BUF_SIZE - 1 -> Nat] /\ left \in [Task -> 0 .. PIPE_BUF_SIZE + 1]
  /\ read_pos \in 0 .. PIPE_BUF_SIZE - 1 /\ write_pos \in 0 .. PIPE_BUF_SIZE - 1
  /\ count \in 0 .. PIPE_BUF_SIZE /\ nsent \in Nat /\ nrecv \in Nat
  /\ write_pos = (read_pos + count) % PIPE_BUF_SIZE
  /\ StreamIntact

LEMMA WriteRing ==
  ASSUME Ring, NEW t \in Task, Write(t)
  PROVE  Ring'
<1>1. PICK N \in Nat \ {0}, p \in Nat, c \in Nat, q \in Nat, s \in Nat, r \in Nat, w \in 0 .. PIPE_BUF_SIZE + 1 :
        /\ N = PIPE_BUF_SIZE /\ p = read_pos /\ c = count /\ q = write_pos
        /\ s = nsent /\ r = nrecv /\ w = left[t]
  <2>1. /\ PIPE_BUF_SIZE \in Nat \ {0} /\ read_pos \in Nat /\ count \in Nat /\ write_pos \in Nat
        /\ nsent \in Nat /\ nrecv \in Nat /\ left[t] \in 0 .. PIPE_BUF_SIZE + 1
    BY PipeAssumption DEF Ring
  <2>2. QED
    BY <2>1, Zenon
<1>2. p \in 0 .. N - 1 /\ c \in 0 .. N /\ q \in 0 .. N - 1 /\ c = s - r
  BY <1>1 DEF Ring, StreamIntact
<1>q. q = (p + c) % N
  BY <1>1 DEF Ring
<1>3. PICK n \in Nat : n = Least(w, N - c) /\ c + n <= N /\ n <= w
  BY <1>1, <1>2 DEF Least
<1>4. /\ write_pos' = (q + n) % N /\ count' = c + n /\ nsent' = s + n
      /\ left' = [left EXCEPT ![t] = @ - n] /\ read_pos' = p /\ nrecv' = r
  BY <1>1, <1>3 DEF Write
<1>5. \A i \in 0 .. N - 1 : Ahead(i) = (i - q) % N /\ Ahead(i) \in 0 .. N - 1
  <2>1. \A i \in 0 .. N - 1 : (i - q) % N \in 0 .. N - 1
    BY <1>2
  <2>2. \A i \in 0 .. N - 1 : Ahead(i) = (i - q) % N
    BY <1>1 DEF Ahead
  <2>3. QED
    BY <2>1, <2>2
<1>6. /\ buffer' = [i \in 0 .. N - 1 |-> buffer'[i]]
      /\ \A i \in 0 .. N - 1 : buffer'[i] = IF Ahead(i) < n THEN s + Ahead(i) + 1 ELSE buffer[i]
  <2>1. buffer' = [i \in 0 .. PIPE_BUF_SIZE - 1 |->
                     IF Ahead(i) < Least(left[t], PIPE_BUF_SIZE - count)
                     THEN nsent + Ahead(i) + 1 ELSE buffer[i]]
    BY SMT DEF Write
  <2>2. Least(left[t], PIPE_BUF_SIZE - count) = n
    BY <1>1, <1>3, Zenon
  <2>3. buffer' = [i \in 0 .. N - 1 |-> IF Ahead(i) < n THEN s + Ahead(i) + 1 ELSE buffer[i]]
    BY <1>1, <2>1, <2>2, Zenon
  <2>4. QED
    BY <2>3, Zenon
<1>7. (q + n) % N = (p + (c + n)) % N /\ (q + n) % N \in 0 .. N - 1
  <2>1. p \in 0 .. N - 1 /\ q \in 0 .. N - 1 /\ c + n <= N /\ n + 0 <= N
    BY <1>2, <1>3
  <2>2. (((p + c) % N) + n) % N = (p + (c + n)) % N
    BY <2>1, Advance, ZenonT(20)
  <2>3. (q + n) % N \in 0 .. N - 1
    BY <2>1, Advance
  <2>4. QED
    BY <1>q, <2>2, <2>3
<1>8. buffer' \in [0 .. N - 1 -> Nat]
  <2>1. \A i \in 0 .. N - 1 : buffer[i] \in Nat
    BY <1>1 DEF Ring
  <2>2. \A i \in 0 .. N - 1 : buffer'[i] \in Nat
    <3>1. SUFFICES ASSUME NEW i \in 0 .. N - 1 PROVE buffer'[i] \in Nat
      OBVIOUS
    <3>2. PICK d \in Nat : d = Ahead(i)
      BY <1>5
    <3>3. buffer'[i] = IF d < n THEN s + d + 1 ELSE buffer[i]
      <4>1. buffer'[i] = IF Ahead(i) < n THEN s + Ahead(i) + 1 ELSE buffer[i]
        BY <1>6
      <4>2. QED
        BY <3>2, <4>1
    <3>4. QED
      BY <2>1, <3>3
  <2>3. QED
    BY <1>6, <2>2, Zenon
<1>9. ASSUME NEW i \in 0 .. (c + n) - 1
      PROVE  buffer'[(p + i) % N] = r + i + 1
  <2>1. i \in Int /\ i \in 0 .. N - 1 /\ i \in 0 .. N
    BY <1>1, <1>2, <1>3
  <2>2. PICK j \in 0 .. N - 1 : j = (p + i) % N
    BY <1>1, <1>2, <2>1
  <2>3. PICK d \in Int : d = Ahead(j) /\ d = (j - q) % N
    BY <1>5, <2>2
  <2>4. d = IF i < c THEN i - c + N ELSE i - c
    <3>1. (p + i) % N = IF p + i < N THEN p + i ELSE p + i - N
      BY <1>2, <2>1, Place, Zenon
    <3>2. (p + c) % N = IF p + c < N THEN p + c ELSE p + c - N
      BY <1>2, Place, Zenon
    <3>3. j = IF p + i < N THEN p + i ELSE p + i - N
      BY <2>2, <3>1, Zenon
    <3>4. q = IF p + c < N THEN p + c ELSE p + c - N
      BY <1>q, <3>2, Zenon
    <3>5. (j - q) % N = IF i < c THEN i - c + N ELSE i - c
      BY <1>2, <2>1, <3>3, <3>4, Distance
    <3>6. QED
      BY <2>3, <3>5, Zenon
  <2>5. buffer'[j] = IF d < n THEN s + d + 1 ELSE buffer[j]
    <3>1. buffer'[j] = IF Ahead(j) < n THEN s + Ahead(j) + 1 ELSE buffer[j]
      BY <1>6
    <3>2. QED
      BY <2>3, <3>1, Zenon
  <2>6. CASE i < c
    <3>1. ~ (d < n)
      BY <1>2, <1>3, <2>1, <2>4, <2>6
    <3>2. buffer[(p + i) % N] = r + i + 1
      <4>1. i \in 0 .. c - 1
        BY <1>1, <2>1, <2>6
      <4>2. QED
        BY <1>1, <4>1, Zenon DEF Ring, StreamIntact
    <3>3. QED
      BY <2>2, <2>5, <3>1, <3>2
  <2>7. CASE ~ (i < c)
    <3>1. d < n /\ s + d + 1 = r + i + 1
      BY <1>2, <1>3, <2>1, <2>4, <2>7
    <3>2. QED
      BY <2>2, <2>5, <3>1
  <2>8. QED
    BY <2>6, <2>7
<1>10. StreamIntact'
  <2>1. c + n = (s + n) - r
    BY <1>1, <1>2, <1>3
  <2>2. QED
    BY <1>1, <1>4, <1>9, <2>1 DEF StreamIntact
<1>11. left' \in [Task -> 0 .. PIPE_BUF_SIZE + 1]
  <2>1. left \in [Task -> 0 .. PIPE_BUF_SIZE + 1] /\ left' = [left EXCEPT ![t] = left[t] - n]
    BY <1>4 DEF Ring
  <2>2. left[t] - n \in 0 .. PIPE_BUF_SIZE + 1
    BY <1>1, <1>3
  <2>3. QED
    BY <2>1, <2>2
<1>12. count' \in 0 .. N /\ nsent' \in Nat
  BY <1>1, <1>2, <1>3, <1>4
<1>13. QED
  BY <1>1, <1>2, <1>4, <1>7, <1>8, <1>10, <1>11, <1>12, Zenon DEF Ring

LEMMA ReadRing ==
  ASSUME Ring, NEW t \in Task, Read(t)
  PROVE  Ring'
<1>1. PICK N \in Nat \ {0}, p \in Nat, c \in Nat, s \in Nat, r \in Nat, w \in 0 .. PIPE_BUF_SIZE + 1 :
        /\ N = PIPE_BUF_SIZE /\ p = read_pos /\ c = count
        /\ s = nsent /\ r = nrecv /\ w = left[t]
  <2>1. /\ PIPE_BUF_SIZE \in Nat \ {0} /\ read_pos \in Nat /\ count \in Nat
        /\ nsent \in Nat /\ nrecv \in Nat /\ left[t] \in 0 .. PIPE_BUF_SIZE + 1
    BY PipeAssumption DEF Ring
  <2>2. QED
    BY <2>1, Zenon
<1>2. p \in 0 .. N - 1 /\ c \in 0 .. N /\ c = s - r
  BY <1>1 DEF Ring, StreamIntact
<1>q. write_pos = (p + c) % N
  BY <1>1 DEF Ring
<1>3. PICK n \in Nat, m \in Nat : n = Least(w, c) /\ n + m = c
  <2>1. Least(w, c) \in Nat /\ c - Least(w, c) \in Nat
    BY <1>1 DEF Least
  <2>2. Least(w, c) + (c - Least(w, c)) = c
    BY <1>1, <2>1
  <2>3. QED
    BY <2>1, <2>2
<1>4. /\ read_pos' = (p + n) % N /\ count' = m /\ nrecv' = r + n
      /\ left' = [left EXCEPT ![t] = 0] /\ UNCHANGED <<buffer, write_pos, nsent>>
  <2>1. count' = c - n
    BY <1>1, <1>3 DEF Read
  <2>2. c - n = m
    BY <1>3
  <2>3. QED
    BY <1>1, <1>3, <2>1, <2>2 DEF Read
<1>5. ASSUME NEW i \in Nat, i <= m
      PROVE  (p + n) % N \in 0 .. N - 1 /\ (((p + n) % N) + i) % N = (p + (n + i)) % N
  <2>1. p \in 0 .. N - 1 /\ i \in Nat /\ n + i <= N
    BY <1>1, <1>2, <1>3, <1>5
  <2>2. QED
    BY <2>1, Advance, ZenonT(20)
<1>6. write_pos' = (read_pos' + count') % N
  <2>1. (((p + n) % N) + m) % N = (p + (n + m)) % N
    BY <1>3, <1>5
  <2>2. QED
    BY <1>q, <1>3, <1>4, <2>1, Zenon
<1>7. ASSUME NEW i \in 0 .. m - 1
      PROVE  buffer[(((p + n) % N) + i) % N] = (r + n) + i + 1
  <2>1. i \in Nat /\ i <= m
    BY <1>3
  <2>2. PICK j \in 0 .. c - 1 : j = n + i
    BY <1>1, <1>3, <2>1
  <2>3. buffer[(p + j) % N] = r + j + 1
    BY <1>1, <2>2, Zenon DEF Ring, StreamIntact
  <2>4. r + j + 1 = (r + n) + i + 1
    BY <1>1, <1>3, <2>1, <2>2
  <2>5. QED
    BY <1>5, <2>1, <2>2, <2>3, <2>4, Zenon
<1>8. StreamIntact'
  <2>1. m = s - (r + n)
    BY <1>1, <1>2, <1>3
  <2>2. QED
    BY <1>1, <1>4, <1>7, <2>1, Zenon DEF StreamIntact
<1>9. read_pos' \in 0 .. N - 1 /\ count' \in 0 .. N /\ nrecv' \in Nat
  <2>1. read_pos' \in 0 .. N - 1
    BY <1>3, <1>4, <1>5
  <2>2. QED
    BY <1>1, <1>2, <1>3, <1>4, <2>1
<1>10. left' \in [Task -> 0 .. PIPE_BUF_SIZE + 1]
  BY <1>1, <1>4 DEF Ring
<1>11. QED
  BY <1>1, <1>4, <1>6, <1>8, <1>9, <1>10, Zenon DEF Ring

(* Every other step leaves the ring alone. *)
LEMMA RingStep ==
  ASSUME Ring, [Next]_vars
  PROVE  Ring'
<1>1. CASE UNCHANGED <<ring, left>>
  BY <1>1 DEF ring, Ring, StreamIntact
<1>2. ASSUME NEW t \in Task, IoEnds(t) \/ \E e \in End : CallIo(t, e)
      PROVE  Ring'
  <2>1. UNCHANGED ring /\ left' \in [Task -> 0 .. PIPE_BUF_SIZE + 1]
    BY <1>2, PipeAssumption DEF IoEnds, CallIo, Return, Ring
  <2>2. QED
    BY <2>1 DEF ring, Ring, StreamIntact
<1>3. CASE UNCHANGED vars
  BY <1>1, <1>3 DEF vars
<1>4. ASSUME NEW t \in Task, Plain(t)
      PROVE  Ring'
  BY <1>1, <1>2, <1>4, WriteRing, ReadRing
     DEF Plain, WakeOne, WakeDone, IoSleeps, IoWoken, PollReturns, PollScans, PollRegisters,
         PollMarks, PollRescans, PollClears, CallPoll
<1>5. ASSUME NEW t \in Task, Counting(t) \/ Deadline(t)
      PROVE  Ring'
  BY <1>1, <1>5, Zenon DEF Counting, Deadline, GetLoad, GetStore, Publish, PutStore, Release, Free,
                    CallClose, CallFork
<1>6. QED
  BY <1>3, <1>4, <1>5, StepKinds

LEMMA RingInit ==
  ASSUME Init
  PROVE  Ring
<1>1. 0 % PIPE_BUF_SIZE = 0
  BY PipeAssumption
<1>2. QED
  BY <1>1, PipeAssumption DEF Init, Ring, StreamIntact

(* The bytes of a pipe arrive complete, once and in order, for any size of    *)
(* the ring, any number of readers and writers and any sizes of their reads   *)
(* and writes (fs_read, fs_write).                                            *)
THEOREM StreamStaysIntact == Spec => []StreamIntact
<1>1. Init => Ring
  BY RingInit
<1>2. Ring /\ [Next]_vars => Ring'
  BY RingStep
<1>3. Ring => StreamIntact
  BY DEF Ring
<1>4. QED
  BY <1>1, <1>2, <1>3, PTL DEF Spec

-----------------------------------------------------------------------------
(* What TypeOK says beyond Typed and Ring. *)
Bounded ==
  /\ loaded \in [Task -> Nat] /\ freed \in BOOLEAN
  /\ timed \in [Task -> BOOLEAN] /\ has_deadline \in [Task -> BOOLEAN]
  /\ \A e \in End : Cardinality(waitq[e]) <= FS_WAITQ_MAX

LEMMA CountOne ==
  ASSUME IsFiniteSet(Task), NEW W \in SUBSET Task, NEW t \in Task, Cardinality(W) <= FS_WAITQ_MAX
  PROVE  /\ Cardinality(W \ {t}) <= FS_WAITQ_MAX
         /\ t \in W \/ Cardinality(W) < FS_WAITQ_MAX => Cardinality(W \cup {t}) <= FS_WAITQ_MAX
<1>1. IsFiniteSet(W) /\ Cardinality(W) \in Nat /\ FS_WAITQ_MAX \in Nat
  BY PipeAssumption, FS_Subset, FS_CardinalityType
<1>2. IsFiniteSet(W \ {t}) /\ Cardinality(W \ {t}) <= Cardinality(W)
  BY <1>1, FS_Subset
<1>3. Cardinality(W \ {t}) \in Nat
  BY <1>2, FS_CardinalityType
<1>4. CASE t \in W
  <2>1. W \cup {t} = W
    BY <1>4
  <2>2. QED
    BY <1>1, <1>2, <1>3, <2>1
<1>5. CASE t \notin W
  <2>1. Cardinality(W \cup {t}) = Cardinality(W) + 1
    BY <1>1, <1>5, FS_AddElement, Zenon
  <2>2. QED
    BY <1>1, <1>2, <1>3, <1>5, <2>1
<1>6. QED
  BY <1>4, <1>5

LEMMA WaitqBound ==
  ASSUME IsFiniteSet(Task), Typed, Bounded, NEW e \in End, NEW t \in Task,
         \/ UNCHANGED waitq \/ fs_waitq_add(e, t) \/ fs_waitq_remove(e, t) \/ fs_waitq_take_all(e)
         \/ waitq' = [x \in End |-> {}]
  PROVE  \A x \in End : Cardinality(waitq'[x]) <= FS_WAITQ_MAX
<1>1. waitq \in [End -> SUBSET Task] /\ \A x \in End : Cardinality(waitq[x]) <= FS_WAITQ_MAX
  BY DEF Typed, Bounded
<1>2. Cardinality({}) <= FS_WAITQ_MAX
  BY FS_EmptySet, PipeAssumption
<1>3. /\ Cardinality(waitq[e] \ {t}) <= FS_WAITQ_MAX
      /\ Room(e, t) => Cardinality(waitq[e] \cup {t}) <= FS_WAITQ_MAX
  BY <1>1, CountOne DEF Room
<1>4. CASE UNCHANGED waitq \/ waitq' = [x \in End |-> {}]
  BY <1>1, <1>2, <1>4
<1>5. CASE fs_waitq_add(e, t)
  BY <1>1, <1>3, <1>5 DEF fs_waitq_add
<1>6. CASE fs_waitq_remove(e, t)
  BY <1>1, <1>3, <1>6 DEF fs_waitq_remove
<1>7. CASE fs_waitq_take_all(e)
  BY <1>1, <1>2, <1>7 DEF fs_waitq_take_all
<1>8. QED
  BY <1>4, <1>5, <1>6, <1>7

LEMMA BoundedStep ==
  ASSUME IsFiniteSet(Task), RefInv, Bounded, [Next]_vars
  PROVE  Bounded'
<1>0. /\ end \in [Task -> End] /\ "r" \in End /\ "w" \in End /\ Typed
      /\ \A e \in End : file_ref[e] \in Nat
  <2>1. \A e \in End : IsFiniteSet(Holders(fds, e))
    BY FS_Subset DEF Holders
  <2>2. \A e \in End : file_ref[e] = Cardinality(Holders(fds, e))
    BY DEF RefInv, Loads
  <2>3. QED
    BY <2>1, <2>2, FS_CardinalityType DEF RefInv, Typed, End
<1>1. CASE UNCHANGED vars
  BY <1>1 DEF vars, refs, sleeps, Bounded
<1>2. ASSUME NEW t \in Task, Plain(t) \/ Counting(t) \/ Deadline(t)
      PROVE  \/ UNCHANGED waitq \/ fs_waitq_add(end[t], t) \/ fs_waitq_remove(end[t], t)
             \/ fs_waitq_take_all("r") \/ fs_waitq_take_all("w") \/ waitq' = [x \in End |-> {}]
  BY <1>2, Zenon DEF Plain, Counting, Deadline, WakeOne, WakeDone, IoEnds, IoSleeps, IoWoken, Write, Read,
              PollReturns, PollScans, PollRegisters, PollMarks, PollRescans, PollClears, CallIo, CallPoll,
              GetLoad, GetStore, Publish, PutStore, Release, Free, CallClose, CallFork
<1>3. ASSUME NEW t \in Task, Plain(t) \/ Counting(t) \/ Deadline(t)
      PROVE  \A x \in End : Cardinality(waitq'[x]) <= FS_WAITQ_MAX
  <2>1. end[t] \in End
    BY <1>0
  <2>2. QED
    BY <1>0, <1>2, <1>3, <2>1, WaitqBound
<1>4. ASSUME NEW t \in Task, Plain(t) \/ Deadline(t)
      PROVE  /\ UNCHANGED <<loaded, freed>>
             /\ timed' \in [Task -> BOOLEAN] /\ has_deadline' \in [Task -> BOOLEAN]
  <2> USE DEF Bounded
  <2>1. CASE Deadline(t) \/ WakeOne(t) \/ WakeDone(t)
    BY <2>1, ZenonT(20) DEF Deadline, WakeOne, WakeDone, refs, sleeps
  <2>2. CASE IoEnds(t) \/ IoSleeps(t) \/ IoWoken(t)
    BY <2>2 DEF IoEnds, IoSleeps, IoWoken, refs, sleeps
  <2>3. CASE Write(t) \/ Read(t)
    BY <2>3 DEF Write, Read, refs, sleeps
  <2>4. CASE PollReturns(t) \/ PollScans(t) \/ PollRegisters(t) \/ PollRescans(t) \/ PollClears(t)
    BY <2>4, Zenon DEF PollReturns, PollScans, PollRegisters, PollRescans, PollClears, refs, sleeps
  <2>5. CASE PollMarks(t)
    <3>1. PICK l : timed' = [timed EXCEPT ![t] = has_deadline[t] \/ l = "poll_mark_timed"]
      BY <2>5, Zenon DEF PollMarks
    <3>2. timed' \in [Task -> BOOLEAN]
      BY <3>1
    <3>3. QED
      BY <2>5, <3>2 DEF PollMarks, refs
  <2>6. CASE \E e \in End : CallIo(t, e) \/ CallPoll(t, e)
    BY <2>6, PipeAssumption DEF CallIo, CallPoll, refs, sleeps
  <2>7. QED
    BY <1>4, <2>1, <2>2, <2>3, <2>4, <2>5, <2>6 DEF Plain
<1>5. ASSUME NEW t \in Task, Counting(t)
      PROVE  /\ loaded' \in [Task -> Nat] /\ freed' \in BOOLEAN
             /\ timed' \in [Task -> BOOLEAN] /\ has_deadline' \in [Task -> BOOLEAN]
  <2>1. CASE GetLoad(t) \/ \E e \in End : CallClose(t, e)
    <3>1. PICK e \in End : loaded' = [loaded EXCEPT ![t] = file_ref[e]]
      BY <1>0, <2>1 DEF GetLoad, CallClose, Typed
    <3>2. loaded' \in [Task -> Nat]
      BY <1>0, <3>1 DEF Bounded
    <3>3. QED
      BY <2>1, <3>2, ZenonT(20) DEF GetLoad, CallClose, refs, sleeps, Bounded
  <2>2. CASE GetStore(t) \/ PutStore(t)
    BY <2>2 DEF GetStore, PutStore, sleeps, Bounded
  <2>3. CASE Publish(t) \/ Release(t) \/ Free(t) \/ \E c \in Task : CallFork(t, c)
    BY <2>3, Zenon DEF Publish, Release, Free, CallFork, refs, sleeps, Bounded
  <2>4. QED
    BY <1>5, <2>1, <2>2, <2>3 DEF Counting
<1>6. QED
  BY <1>1, <1>3, <1>4, <1>5, StepKinds DEF Bounded

(* Positions stay in the ring, counts in their ranges, and no wait array of   *)
(* fs_waitq_add is filled beyond FS_WAITQ_MAX. Without the big kernel lock    *)
(* fs_file_put may take a count below zero.                                   *)
THEOREM TypesHold ==
  ASSUME IsFiniteSet(Task), BigKernelLock
  PROVE  Spec => []TypeOK
<1> DEFINE Inv == RefInv /\ Ring /\ Bounded
<1>1. Init => Inv
  <2>1. SUFFICES ASSUME Init PROVE Bounded
    BY RefInit, RingInit
  <2>2. Cardinality({}) = 0 /\ 0 <= FS_WAITQ_MAX
    BY FS_EmptySet, PipeAssumption
  <2>3. \A e \in End : waitq[e] = {}
    BY <2>1 DEF Init
  <2>4. loaded \in [Task -> Nat] /\ freed \in BOOLEAN
    BY <2>1, Zenon DEF Init
  <2>5. timed \in [Task -> BOOLEAN] /\ has_deadline \in [Task -> BOOLEAN]
    BY <2>1 DEF Init
  <2>6. QED
    BY <2>2, <2>3, <2>4, <2>5 DEF Bounded
<1>2. Inv /\ [Next]_vars => Inv'
  BY RefStep, RingStep, BoundedStep
<1>3. Inv => TypeOK
  <2>1. SUFFICES ASSUME Inv PROVE TypeOK
    OBVIOUS
  <2>2. ref_count \in 0 .. 2
    BY <2>1 DEF RefInv, Typed, Closed, End
  <2>3. file_ref \in [End -> Nat]
    <3>1. \A e \in End : IsFiniteSet(Holders(fds, e))
      BY FS_Subset DEF Holders
    <3>2. \A e \in End : file_ref[e] \in Nat
      BY <2>1, <3>1, FS_CardinalityType DEF RefInv, Loads
    <3>3. QED
      BY <2>1, <3>2 DEF RefInv, Typed
  <2>4. next \in [Task -> Labels]
    BY <2>1 DEF RefInv, Typed, Labels
  <2>5. QED
    BY <2>1, <2>2, <2>3, <2>4 DEF RefInv, Typed, Ring, Bounded, TypeOK
<1>4. QED
  BY <1>1, <1>2, <1>3, PTL DEF Spec
=============================================================================
