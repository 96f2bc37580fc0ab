------------------------------- MODULE Xv6Log -------------------------------
(***************************************************************************)
(* The journal of the xv6 file system: kernel/xv6log.c over the buffer     *)
(* cache of kernel/xv6bio.c, with power failures and recovery.             *)
(*                                                                         *)
(* A task brackets its block writes with begin_op and end_op; the blocks   *)
(* stay pinned in the cache and are only listed in lg.lh.  A later         *)
(* begin_op that does not fit, or sync(2), writes the listed blocks to the *)
(* log area, then the log header (the commit point), then the home blocks, *)
(* then an empty header.  After a crash, mounting replays the log.         *)
(*                                                                         *)
(* While the device executes a write, the blocks it covers hold anything   *)
(* (the command may be reordered, partial or torn by a power failure); the *)
(* header fits in one 512-byte sector and is written atomically.           *)
(***************************************************************************)
EXTENDS Naturals, Sequences, FiniteSets

CONSTANTS Proc,            \* tasks
          Block,           \* home block numbers
          Val,             \* block contents
          NoVal,           \* "not in the buffer cache" / "not staged"
          LOGBLOCKS,       \* XV6FS_LOGBLOCKS
          MaxBlocks,       \* the max_blocks arguments callers pass to begin_op
          Slack,           \* blocks every caller declares beyond what it dirties
          HaveStage,       \* g_stage could be allocated
          RunMayFail,      \* a multi-block command may fail
          EvictUnwritten   \* the cache is so small that a buffer unpinned by
                           \* install_trans can be recycled before it is written

ASSUME LogAssumption == /\ LOGBLOCKS \in Nat \ {0}
                        /\ Block \subseteq Nat
                        /\ Val # {}
                        /\ NoVal \notin Val
                        /\ MaxBlocks \subseteq Nat
                        /\ Slack \in Nat \ {0}
                        /\ HaveStage \in BOOLEAN
                        /\ RunMayFail \in BOOLEAN
                        /\ EvictUnwritten \in BOOLEAN
                        /\ IsFiniteSet(Proc)
                        /\ Proc # {}

VARIABLES
  outstanding, reserved, committing, lh,   \* struct xv6log
  stage, stage_valid,                      \* g_stage, g_stage_valid
  disk, logarea, head,                     \* on disk: home blocks, log, header
  cache, pinned,                           \* buffers: contents, xv6bpin
  mounted,                                 \* xv6log_init has returned
  pc, need, used,                          \* per task: position, reservation,
                                           \* entries it has added to lh
  caller, tail, runend,                    \* per task inside commit()/recovery
  unsynced    \* tasks that have logged a write that is not yet durable

logvars   == <<outstanding, reserved, committing, lh>>
stagevars == <<stage, stage_valid>>
diskvars  == <<disk, logarea, head>>
cachevars == <<cache, pinned>>
opvars    == <<need, used>>
instvars  == <<caller, tail, runend>>
vars == <<logvars, stagevars, diskvars, cachevars, opvars, instvars,
          mounted, pc, unsynced>>

Slot == 1..LOGBLOCKS

Labels == {"down", "idle", "begin", "check", "asleep", "op", "end_wake",
           "flushed", "gather", "log_run", "log_blk", "head", "inst",
           "inst_cache", "inst_run", "inst_blk", "inst_one", "clear",
           "uncommit", "commit_wake"}

RangeOf(s) == {s[i] : i \in DOMAIN s}

Goto(p, l) == pc' = [pc EXCEPT ![p] = l]

\* wake_up_all(&lg_wait): the woken tasks re-evaluate their condition
WakeAllAnd(p, l) ==
  pc' = [q \in Proc |-> IF q = p THEN l
                        ELSE IF pc[q] = "asleep" THEN "check" ELSE pc[q]]
-----------------------------------------------------------------------------
(* begin_op, end_op, log_write                                             *)

Clamp(m) == IF m < 1 THEN 1 ELSE IF m > LOGBLOCKS THEN LOGBLOCKS ELSE m

BATCH_MAX == LOGBLOCKS   \* XV6LOG_BATCH_MAX

\* mutant of Fits: the blocks other open operations may still log are forgotten
FitsIgnoringReserved(k) == ~committing /\ Len(lh) + k <= LOGBLOCKS

Fits(k) == /\ ~committing
           /\ Len(lh) + reserved + k <= LOGBLOCKS
           /\ lh = <<>> \/ Len(lh) + reserved + k <= BATCH_MAX

\* mutant of CanCommit: commits under an open operation
CanCommitAnyTime == ~committing /\ lh # <<>>

CanCommit == ~committing /\ outstanding = 0 /\ lh # <<>>

RoomHint(k) == /\ ~committing
               /\ \/ outstanding = 0 /\ lh # <<>>
                  \/ /\ Len(lh) + reserved + k <= LOGBLOCKS
                     /\ lh = <<>> \/ Len(lh) + reserved + k <= BATCH_MAX

BeginOp(p) == /\ pc[p] = "idle" /\ mounted
              /\ \E m \in MaxBlocks : need' = [need EXCEPT ![p] = Clamp(m)]
              /\ Goto(p, "begin")
              /\ UNCHANGED <<logvars, stagevars, diskvars, cachevars, used,
                             instvars, mounted, unsynced>>

Admit(p) == /\ pc[p] = "begin"
            /\ Fits(need[p])
            /\ outstanding' = outstanding + 1
            /\ reserved' = reserved + need[p]
            /\ Goto(p, "op")
            /\ UNCHANGED <<committing, lh, stagevars, diskvars, cachevars,
                           opvars, instvars, mounted, unsynced>>

BeginCommit(p) == /\ pc[p] = "begin"
                  /\ ~Fits(need[p])
                  /\ CanCommit
                  /\ committing' = TRUE
                  /\ caller' = [caller EXCEPT ![p] = "begin"]
                  /\ Goto(p, "gather")
                  /\ UNCHANGED <<outstanding, reserved, lh, stagevars, diskvars,
                                 cachevars, opvars, tail, runend, mounted, unsynced>>

BeginWait(p) == /\ pc[p] = "begin"
                /\ ~Fits(need[p])
                /\ ~CanCommit
                /\ Goto(p, "check")
                /\ UNCHANGED <<logvars, stagevars, diskvars, cachevars, opvars,
                               instvars, mounted, unsynced>>

\* wait_event(&lg_wait, xv6log_room_hint, &need), under lg_wait.lock
WaitCheck(p) == /\ pc[p] = "check"
                /\ Goto(p, IF RoomHint(need[p]) THEN "begin" ELSE "asleep")
                /\ UNCHANGED <<logvars, stagevars, diskvars, cachevars, opvars,
                               instvars, mounted, unsynced>>

\* A caller changes a buffer it holds and logs it.  A block already listed is
\* absorbed; a new one must be within what the caller declared, less Slack.
LogWrite(p, b, v) ==
  /\ pc[p] = "op"
  /\ cache' = [cache EXCEPT ![b] = v]
  /\ IF b \in RangeOf(lh)
       THEN UNCHANGED <<lh, pinned, used>>
       ELSE /\ used[p] + 1 + Slack <= need[p]
            /\ lh' = Append(lh, b)
            /\ pinned' = pinned \cup {b}
            /\ used' = [used EXCEPT ![p] = @ + 1]
  /\ unsynced' = unsynced \cup {p}
  /\ UNCHANGED <<outstanding, reserved, committing, stagevars, diskvars, need,
                 instvars, mounted, pc>>

\* mutant of EndOp: gives back the whole log instead of the declared blocks
EndOpFull(p) == /\ pc[p] = "op"
                /\ outstanding' = outstanding - 1
                /\ reserved' = reserved - LOGBLOCKS
                /\ need' = [need EXCEPT ![p] = 0]
                /\ used' = [used EXCEPT ![p] = 0]
                /\ Goto(p, "end_wake")
                /\ UNCHANGED <<committing, lh, stagevars, diskvars, cachevars,
                               instvars, mounted, unsynced>>

\* mutant of EndOp: keeps the reservation
EndOpLeaks(p) == /\ pc[p] = "op"
                 /\ outstanding' = outstanding - 1
                 /\ need' = [need EXCEPT ![p] = 0]
                 /\ used' = [used EXCEPT ![p] = 0]
                 /\ Goto(p, "end_wake")
                 /\ UNCHANGED <<reserved, committing, lh, stagevars, diskvars,
                                cachevars, instvars, mounted, unsynced>>

\* end_op releases the reservation and never commits; the waiters are woken
\* in a step of its own, after lg.lock is released.
EndOp(p) == /\ pc[p] = "op"
            /\ outstanding' = outstanding - 1
            /\ reserved' = IF reserved < need[p] THEN 0 ELSE reserved - need[p]
            /\ need' = [need EXCEPT ![p] = 0]
            /\ used' = [used EXCEPT ![p] = 0]
            /\ Goto(p, "end_wake")
            /\ UNCHANGED <<committing, lh, stagevars, diskvars, cachevars,
                           instvars, mounted, unsynced>>

\* mutant of EndWake: no wake_up_all
EndNoWake(p) == /\ pc[p] = "end_wake"
                /\ Goto(p, "idle")
                /\ UNCHANGED <<logvars, stagevars, diskvars, cachevars, opvars,
                               instvars, mounted, unsynced>>

EndWake(p) == /\ pc[p] = "end_wake"
              /\ WakeAllAnd(p, "idle")
              /\ UNCHANGED <<logvars, stagevars, diskvars, cachevars, opvars,
                             instvars, mounted, unsynced>>
-----------------------------------------------------------------------------
(* sync(2): xv6log_flush = xv6log_commit_if_idle                           *)

FlushCommit(p) == /\ pc[p] = "idle" /\ mounted
                  /\ CanCommit
                  /\ committing' = TRUE
                  /\ caller' = [caller EXCEPT ![p] = "flush"]
                  /\ Goto(p, "gather")
                  /\ UNCHANGED <<outstanding, reserved, lh, stagevars, diskvars,
                                 cachevars, opvars, tail, runend, mounted, unsynced>>

FlushSkip(p) == /\ pc[p] = "idle" /\ mounted
                /\ ~CanCommit
                /\ Goto(p, "flushed")
                /\ UNCHANGED <<logvars, stagevars, diskvars, cachevars, opvars,
                               instvars, mounted, unsynced>>

FlushReturn(p) == /\ pc[p] = "flushed"
                  /\ Goto(p, "idle")
                  /\ UNCHANGED <<logvars, stagevars, diskvars, cachevars, opvars,
                                 instvars, mounted, unsynced>>
-----------------------------------------------------------------------------
(* commit(): sort_log_blocks, write_log, write_head                        *)

\* The increasing arrangement of the listed blocks (they are distinct).
Sorted(s) == {t \in [DOMAIN s -> RangeOf(s)] :
                /\ RangeOf(t) = RangeOf(s)
                /\ \A i, j \in DOMAIN s : i < j => t[i] < t[j]}

\* sort_log_blocks, then write_log copies the buffers into g_stage
Gather(p) == /\ pc[p] = "gather"
             /\ lh' \in Sorted(lh)
             /\ IF HaveStage
                  THEN /\ stage' = [i \in Slot |-> IF i \in DOMAIN lh
                                                    THEN cache[lh'[i]] ELSE NoVal]
                       /\ Goto(p, "log_run")
                  ELSE /\ Goto(p, "log_blk")
                       /\ UNCHANGED stage
             /\ tail' = [tail EXCEPT ![p] = 1]
             /\ UNCHANGED <<outstanding, reserved, committing, stage_valid,
                            diskvars, cachevars, opvars, caller, runend,
                            mounted, unsynced>>

WriteLogRun(p) == /\ pc[p] = "log_run"
                  /\ logarea' = [i \in Slot |-> IF i \in DOMAIN lh
                                                 THEN stage[i] ELSE logarea[i]]
                  /\ stage_valid' = TRUE
                  /\ Goto(p, "head")
                  /\ UNCHANGED <<logvars, stage, disk, head, cachevars, opvars,
                                 instvars, mounted, unsynced>>

\* mutant of WriteLogRunFails: no fallback, the header is written at once
WriteLogRunIgnored(p) == /\ pc[p] = "log_run"
                         /\ RunMayFail
                         /\ stage_valid' = FALSE
                         /\ Goto(p, "head")
                         /\ UNCHANGED <<logvars, stage, diskvars, cachevars,
                                        opvars, instvars, mounted, unsynced>>

WriteLogRunFails(p) == /\ pc[p] = "log_run"
                       /\ RunMayFail
                       /\ stage_valid' = FALSE
                       /\ Goto(p, "log_blk")
                       /\ UNCHANGED <<logvars, stage, diskvars, cachevars, opvars,
                                      instvars, mounted, unsynced>>

WriteLogBlock(p) == /\ pc[p] = "log_blk"
                    /\ tail[p] <= Len(lh)
                    /\ logarea' = [logarea EXCEPT ![tail[p]] = cache[lh[tail[p]]]]
                    /\ tail' = [tail EXCEPT ![p] = @ + 1]
                    /\ Goto(p, IF tail[p] = Len(lh) THEN "head" ELSE "log_blk")
                    /\ UNCHANGED <<logvars, stagevars, disk, head, cachevars,
                                   opvars, caller, runend, mounted, unsynced>>

\* The commit point: one sector, so it is written whole or not at all.
WriteHead(p) == /\ pc[p] = "head"
                /\ head' = lh
                /\ unsynced' = {}
                /\ Goto(p, "inst")
                /\ UNCHANGED <<logvars, stagevars, disk, logarea, cachevars,
                               opvars, instvars, mounted>>
-----------------------------------------------------------------------------
(* install_trans, for commit() and for recovery (caller[p] = "boot")       *)

\* t .. e - 1 are the positions from t on whose blocks are consecutive.
IsRun(t, e) == /\ \A i \in t .. e - 1 : lh[i] = lh[t] + (i - t)
               /\ e <= Len(lh) => lh[e] # lh[t] + (e - t)

Start(p, l) == Goto(p, l) /\ tail' = [tail EXCEPT ![p] = 1]

\* write_log left the contents in g_stage
InstallStaged(p) == /\ pc[p] = "inst"
                    /\ HaveStage /\ lh # <<>>
                    /\ caller[p] # "boot" /\ stage_valid
                    /\ Start(p, "inst_cache")
                    /\ UNCHANGED <<logvars, stagevars, diskvars, cachevars, opvars,
                                   caller, runend, mounted, unsynced>>

\* otherwise the log area is read back with one command
InstallReadLog(p) == /\ pc[p] = "inst"
                     /\ HaveStage /\ lh # <<>>
                     /\ caller[p] = "boot" \/ ~stage_valid
                     /\ stage' = [i \in Slot |-> IF i \in DOMAIN lh
                                                 THEN logarea[i] ELSE NoVal]
                     /\ Start(p, "inst_cache")
                     /\ UNCHANGED <<logvars, stage_valid, diskvars, cachevars,
                                    opvars, caller, runend, mounted, unsynced>>

\* no g_stage, nothing to install, or that command failed
InstallUnstaged(p) == /\ pc[p] = "inst"
                      /\ \/ ~HaveStage \/ lh = <<>>
                         \/ RunMayFail /\ (caller[p] = "boot" \/ ~stage_valid)
                      /\ Start(p, "inst_one")
                      /\ UNCHANGED <<logvars, stagevars, diskvars, cachevars,
                                     opvars, caller, runend, mounted, unsynced>>

\* The buffers of one run are updated and, in a commit, unpinned ...
InstallCache(p) ==
  /\ pc[p] = "inst_cache"
  /\ tail[p] <= Len(lh)
  /\ \E e \in tail[p] + 1 .. Len(lh) + 1 :
       /\ IsRun(tail[p], e)
       /\ runend' = [runend EXCEPT ![p] = e]
       /\ LET run == {lh[i] : i \in tail[p] .. e - 1}
          IN /\ cache' = [b \in Block |->
                            IF b \in run THEN stage[tail[p] + (b - lh[tail[p]])]
                                         ELSE cache[b]]
             /\ pinned' = IF caller[p] = "boot" THEN pinned ELSE pinned \ run
  /\ Goto(p, "inst_run")
  /\ UNCHANGED <<logvars, stagevars, diskvars, opvars, caller, tail, mounted,
                 unsynced>>

\* mutant of InstallRun: one block short
InstallRunShort(p) ==
  /\ pc[p] = "inst_run"
  /\ disk' = [b \in Block |->
                IF \E i \in tail[p] .. runend[p] - 2 : lh[i] = b
                  THEN stage[tail[p] + (b - lh[tail[p]])] ELSE disk[b]]
  /\ tail' = [tail EXCEPT ![p] = runend[p]]
  /\ Goto(p, "inst_cache")
  /\ UNCHANGED <<logvars, stagevars, logarea, head, cachevars, opvars, caller,
                 runend, mounted, unsynced>>

\* ... and then written home with one command,
InstallRun(p) ==
  /\ pc[p] = "inst_run"
  /\ disk' = [b \in Block |->
                IF \E i \in tail[p] .. runend[p] - 1 : lh[i] = b
                  THEN stage[tail[p] + (b - lh[tail[p]])] ELSE disk[b]]
  /\ tail' = [tail EXCEPT ![p] = runend[p]]
  /\ Goto(p, "inst_cache")
  /\ UNCHANGED <<logvars, stagevars, logarea, head, cachevars, opvars, caller,
                 runend, mounted, unsynced>>

InstallRunFails(p) == /\ pc[p] = "inst_run"
                      /\ RunMayFail
                      /\ Goto(p, "inst_blk")
                      /\ UNCHANGED <<logvars, stagevars, diskvars, cachevars,
                                     opvars, instvars, mounted, unsynced>>

\* what xv6bread(b) returns
Bread(b) == IF cache[b] = NoVal THEN disk[b] ELSE cache[b]

\* or, if that command fails, block by block from the cache.
InstallBlock(p) ==
  /\ pc[p] = "inst_blk"
  /\ LET b == lh[tail[p]] IN /\ cache' = [cache EXCEPT ![b] = Bread(b)]
                             /\ disk' = [disk EXCEPT ![b] = Bread(b)]
  /\ tail' = [tail EXCEPT ![p] = @ + 1]
  /\ Goto(p, IF tail[p] + 1 = runend[p] THEN "inst_cache" ELSE "inst_blk")
  /\ UNCHANGED <<logvars, stagevars, logarea, head, pinned, opvars, caller,
                 runend, mounted, unsynced>>

\* Without g_stage each block is copied from the log, written, then unpinned.
InstallOne(p) ==
  /\ pc[p] = "inst_one"
  /\ tail[p] <= Len(lh)
  /\ LET b == lh[tail[p]]
     IN /\ cache' = [cache EXCEPT ![b] = logarea[tail[p]]]
        /\ disk' = [disk EXCEPT ![b] = logarea[tail[p]]]
        /\ pinned' = IF caller[p] = "boot" THEN pinned ELSE pinned \ {b}
  /\ tail' = [tail EXCEPT ![p] = @ + 1]
  /\ UNCHANGED <<logvars, stagevars, logarea, head, opvars, caller, runend,
                 mounted, pc, unsynced>>

\* (the stale contents of g_stage are forgotten: no one reads them)
InstallDone(p) == /\ pc[p] \in {"inst_cache", "inst_one"}
                  /\ tail[p] > Len(lh)
                  /\ stage_valid' = FALSE
                  /\ stage' = [i \in Slot |-> NoVal]
                  /\ Goto(p, "clear")
                  /\ UNCHANGED <<logvars, diskvars, cachevars, opvars, instvars,
                                 mounted, unsynced>>

\* lg.lh.n = 0; write_head(): the log is empty again.  Recovery ends here.
ClearHead(p) == /\ pc[p] = "clear"
                /\ lh' = <<>>
                /\ head' = <<>>
                /\ tail' = [tail EXCEPT ![p] = 1]
                /\ runend' = [runend EXCEPT ![p] = 1]
                /\ IF caller[p] = "boot"
                     THEN /\ mounted' = TRUE
                          /\ pc' = [q \in Proc |-> "idle"]
                     ELSE /\ Goto(p, "uncommit")
                          /\ UNCHANGED mounted
                /\ UNCHANGED <<outstanding, reserved, committing, stagevars, disk,
                               logarea, cachevars, opvars, caller, unsynced>>

Uncommit(p) == /\ pc[p] = "uncommit"
               /\ committing' = FALSE
               /\ Goto(p, "commit_wake")
               /\ UNCHANGED <<outstanding, reserved, lh, stagevars, diskvars,
                              cachevars, opvars, instvars, mounted, unsynced>>

CommitWake(p) == /\ pc[p] = "commit_wake"
                 /\ WakeAllAnd(p, IF caller[p] = "begin" THEN "begin" ELSE "flushed")
                 /\ UNCHANGED <<logvars, stagevars, diskvars, cachevars, opvars,
                                instvars, mounted, unsynced>>
-----------------------------------------------------------------------------
(* The device, the buffer cache, power failure and mount                   *)

LogInFlight(p) == CASE pc[p] = "log_run" -> DOMAIN lh
                    [] pc[p] = "log_blk" -> {tail[p]} \cap DOMAIN lh
                    [] OTHER -> {}

HomeInFlight(p) == CASE pc[p] = "inst_run" -> {lh[i] : i \in tail[p] .. runend[p] - 1}
                     [] pc[p] \in {"inst_blk", "inst_one"} ->
                          {lh[i] : i \in {tail[p]} \cap DOMAIN lh}
                     [] OTHER -> {}

\* Buffers of a run that install_trans has unpinned and not yet written.
Unwritten == UNION {{lh[i] : i \in tail[p] .. runend[p] - 1} :
                      p \in {q \in Proc : pc[q] \in {"inst_run", "inst_blk"}}}

\* A block covered by a command in progress holds anything.
DeviceWrites(p) ==
  /\ \E v \in Val :
       \/ /\ \E i \in LogInFlight(p) : logarea' = [logarea EXCEPT ![i] = v]
          /\ UNCHANGED disk
       \/ /\ \E b \in HomeInFlight(p) : disk' = [disk EXCEPT ![b] = v]
          /\ UNCHANGED logarea
  /\ UNCHANGED <<logvars, stagevars, head, cachevars, opvars, instvars, mounted,
                 pc, unsynced>>

\* Any task reads a block that is not in the cache (xv6bread, fill_cache).
ReadBlock(b) == /\ mounted
                /\ cache[b] = NoVal
                /\ cache' = [cache EXCEPT ![b] = disk[b]]
                /\ UNCHANGED <<logvars, stagevars, diskvars, pinned, opvars,
                               instvars, mounted, pc, unsynced>>

\* bget recycles an unreferenced buffer (any of them, not only the oldest).
RecycleBuffer(b) == /\ mounted
                    /\ cache[b] # NoVal
                    /\ b \notin pinned
                    /\ EvictUnwritten \/ b \notin Unwritten
                    /\ cache' = [cache EXCEPT ![b] = NoVal]
                    /\ UNCHANGED <<logvars, stagevars, diskvars, pinned, opvars,
                                   instvars, mounted, pc, unsynced>>

\* The machine before the file system is mounted.
PowerOff == /\ outstanding = 0
            /\ reserved = 0
            /\ committing = FALSE
            /\ lh = <<>>
            /\ stage = [i \in Slot |-> NoVal]
            /\ stage_valid = FALSE
            /\ cache = [b \in Block |-> NoVal]
            /\ pinned = {}
            /\ mounted = FALSE
            /\ pc = [p \in Proc |-> "down"]
            /\ need = [p \in Proc |-> 0]
            /\ used = [p \in Proc |-> 0]
            /\ caller = [p \in Proc |-> "boot"]
            /\ tail = [p \in Proc |-> 1]
            /\ runend = [p \in Proc |-> 1]
            /\ unsynced = {}

\* A power failure: everything in memory is lost.
Crash == /\ outstanding' = 0
         /\ reserved' = 0
         /\ committing' = FALSE
         /\ lh' = <<>>
         /\ stage' = [i \in Slot |-> NoVal]
         /\ stage_valid' = FALSE
         /\ cache' = [b \in Block |-> NoVal]
         /\ pinned' = {}
         /\ mounted' = FALSE
         /\ pc' = [p \in Proc |-> "down"]
         /\ need' = [p \in Proc |-> 0]
         /\ used' = [p \in Proc |-> 0]
         /\ caller' = [p \in Proc |-> "boot"]
         /\ tail' = [p \in Proc |-> 1]
         /\ runend' = [p \in Proc |-> 1]
         /\ unsynced' = {}
         /\ UNCHANGED diskvars

\* xv6log_init: read_head, then install_trans(1)
Mount(p) == /\ \A q \in Proc : pc[q] = "down"
            /\ lh' = head
            /\ caller' = [caller EXCEPT ![p] = "boot"]
            /\ Goto(p, "inst")
            /\ UNCHANGED <<outstanding, reserved, committing, stagevars, diskvars,
                           cachevars, opvars, tail, runend, mounted, unsynced>>
-----------------------------------------------------------------------------
\* A formatted disk with an empty log.
Init == /\ PowerOff
        /\ disk \in [Block -> Val]
        /\ logarea \in [Slot -> Val]
        /\ head = <<>>

CommitStep(p) ==
  \/ Gather(p) \/ WriteLogRun(p) \/ WriteLogRunFails(p) \/ WriteLogBlock(p)
  \/ WriteHead(p) \/ InstallStaged(p) \/ InstallReadLog(p) \/ InstallUnstaged(p)
  \/ InstallCache(p) \/ InstallRun(p) \/ InstallRunFails(p) \/ InstallBlock(p)
  \/ InstallOne(p) \/ InstallDone(p) \/ ClearHead(p) \/ Uncommit(p)
  \/ CommitWake(p)

\* the steps a task takes by itself once it has called begin_op or sync(2)
TaskStep(p) == \/ Admit(p) \/ BeginCommit(p) \/ BeginWait(p) \/ WaitCheck(p)
               \/ EndOp(p) \/ EndWake(p) \/ FlushReturn(p) \/ CommitStep(p)

Running == \/ \E p \in Proc : \/ BeginOp(p) \/ FlushCommit(p) \/ FlushSkip(p)
                             \/ TaskStep(p) \/ DeviceWrites(p) \/ Mount(p)
                             \/ \E b \in Block, v \in Val : LogWrite(p, b, v)
           \/ \E b \in Block : ReadBlock(b) \/ RecycleBuffer(b)

Next == Running \/ Crash

Spec == Init /\ [][Next]_vars

\* Between power failures: a task that can run runs, the device finishes its
\* commands, and an operation ends (EndOp is a step of TaskStep).
LiveSpec == Init /\ [][Running]_vars /\ \A p \in Proc : WF_vars(TaskStep(p))
-----------------------------------------------------------------------------
(* Properties                                                              *)

\* The variables stay in their ranges: counts are natural numbers, lg.lh lists
\* home blocks and fits in its array, every buffer holds a value or is empty.
TypeOK ==
  /\ outstanding \in Nat /\ reserved \in Nat /\ committing \in BOOLEAN
  /\ lh \in Seq(Block) /\ Len(lh) <= LOGBLOCKS
  /\ stage \in [Slot -> Val \cup {NoVal}] /\ stage_valid \in BOOLEAN
  /\ disk \in [Block -> Val] /\ logarea \in [Slot -> Val]
  /\ head \in Seq(Block) /\ Len(head) <= LOGBLOCKS
  /\ cache \in [Block -> Val \cup {NoVal}] /\ pinned \subseteq Block
  /\ mounted \in BOOLEAN /\ pc \in [Proc -> Labels]
  /\ need \in [Proc -> Nat] /\ used \in [Proc -> Nat]
  /\ caller \in [Proc -> {"begin", "flush", "boot"}]
  /\ tail \in [Proc -> Nat \ {0}] /\ runend \in [Proc -> Nat \ {0}]
  /\ unsynced \subseteq Proc

CommitLabels == {"gather", "log_run", "log_blk", "head", "inst", "inst_cache",
                 "inst_run", "inst_blk", "inst_one", "clear", "uncommit"}

\* KASSERT(lg.lh.n < XV6FS_LOGBLOCKS) of xv6log_write: however the admissions,
\* absorptions and ends of operations interleave, the log has room whenever an
\* admitted operation that keeps to its declaration logs a block.
LogHasRoom == \A p \in Proc : pc[p] = "op" => Len(lh) < LOGBLOCKS

\* KASSERT(lg.outstanding >= 1) of xv6log_write, KASSERT(!lg.committing) of
\* end_op, and what commit() relies on without a lock: while one task commits
\* (or recovers), no operation is open and no other task commits.
CommitIsAlone ==
  \A p \in Proc : pc[p] \in CommitLabels =>
     /\ outstanding = 0
     /\ \A q \in Proc \ {p} : pc[q] \notin CommitLabels \cup {"op"}

\* The log space promised to the open operations, one pair per block.
Claims == {c \in Proc \X Slot : pc[c[1]] = "op" /\ c[2] <= need[c[1]]}

\* lg.outstanding and lg.reserved count exactly the open operations and the
\* blocks they declared (clamped alike in begin_op and end_op), so that the
\* "if (lg.reserved < 0)" of end_op hides no imbalance and no space leaks.
ReservationExact == /\ outstanding = Cardinality({p \in Proc : pc[p] = "op"})
                    /\ reserved = Cardinality(Claims)

\* A buffer whose block is not in the log agrees with the disk, so that
\* recycling it loses nothing and reading it is reading the disk; install_trans
\* says of its order "the cache and the disk agree".
CacheAgrees == mounted =>
  \A b \in Block : cache[b] # NoVal /\ b \notin RangeOf(lh) => cache[b] = disk[b]

\* What the next mount makes of the disk: the logged blocks if the header
\* lists any, the home blocks otherwise.
Recovered == [b \in Block |-> IF b \in RangeOf(head)
                               THEN logarea[CHOOSE i \in DOMAIN head : head[i] = b]
                               ELSE disk[b]]

Seen == [b \in Block |-> IF mounted THEN Bread(b) ELSE Recovered[b]]

AD == INSTANCE AtomicDisk WITH durable <- Recovered, current <- Seen,
                               open <- {p \in Proc : pc[p] = "op"}

\* The journal implements the atomic disk: whatever a power failure interrupts
\* (the log writes, the header, the installation, the recovery itself), the
\* next mount finds the blocks as they were at a moment when no operation was
\* open, and a running task always reads the latest write.
CrashAtomic == AD!Spec

\* xv6log_flush ("always puts the gathered log out", include/xv6fs.h): when a
\* task returns from sync(2), every write it had logged is durable.
FlushDurable == \A p \in Proc : pc[p] = "flushed" => p \notin unsynced

\* begin_op returns: a task waiting for log space is neither forgotten by a
\* wake-up nor left behind by a commit, once no new operation overtakes it
\* (under a stream of small operations a large one can starve).
BeginReturns == <>[][\A p \in Proc : ~BeginOp(p)]_vars
                  => \A p \in Proc : pc[p] = "begin" ~> pc[p] = "op"
=============================================================================
