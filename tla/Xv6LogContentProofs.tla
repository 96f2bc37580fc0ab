------------------------ MODULE Xv6LogContentProofs -------------------------
(***************************************************************************)
(* Proofs about the contents of blocks in the journal (Xv6Log): every      *)
(* variable keeps its type.  They rest on the admission invariant of       *)
(* Xv6LogProofs, and Xv6LogCrashProofs rests on them.                      *)
(***************************************************************************)
EXTENDS Xv6LogProofs

Pos == DOMAIN lh

ContentTypeOK ==
  /\ stage \in [Slot -> Val \cup {NoVal}] /\ stage_valid \in BOOLEAN
  /\ disk \in [Block -> Val] /\ logarea \in [Slot -> Val]
  /\ cache \in [Block -> Val \cup {NoVal}] /\ pinned \subseteq Block

Staged == {"head", "inst", "inst_cache", "inst_run", "inst_blk", "inst_one"}

\* g_stage is whole where install_trans or the log command reads it.
StageInv ==
  /\ (\A p \in Proc : pc[p] \notin Staged) => stage_valid = FALSE
  /\ \A p \in Proc :
       \/ pc[p] \in {"log_run", "inst_cache", "inst_run", "inst_blk"}
       \/ pc[p] \in {"head", "inst"} /\ mounted /\ stage_valid
       => \A i \in Pos : stage[i] \in Val

\* A listed block stays pinned, and so in the cache, until it is installed.
PinInv ==
  /\ \A b \in pinned : cache[b] \in Val
  /\ mounted /\ (\A p \in Proc : pc[p] \notin BootLabels) => RangeOf(lh) \subseteq pinned

\* Between updating the buffers of a run and writing them, tail .. runend - 1 are
\* positions whose blocks are consecutive.
RunInv ==
  \A p \in Proc : pc[p] \in {"inst_run", "inst_blk"} =>
     /\ tail[p] < runend[p] /\ runend[p] <= Len(lh) + 1
     /\ \A i \in tail[p] .. runend[p] - 1 : lh[i] = lh[tail[p]] + (i - tail[p])

ContentInv == ContentTypeOK /\ StageInv /\ PinInv /\ RunInv

\* Labels at which a task neither reads nor writes contents.
Plain == {"idle", "begin", "check", "asleep", "op", "end_wake", "flushed",
          "gather", "uncommit", "commit_wake"}
-----------------------------------------------------------------------------
(* Facts used throughout                                                   *)

\* The provers of the steps below that name none, and their time limits.
USE SMTT(15), Z3T(15), ZenonT(20)

\* The positions of lg.lh are positions of the log area and hold home blocks.
LEMMA Positions ==
  ASSUME AdmissionInv
  PROVE  /\ Pos = 1..Len(lh) /\ Len(lh) \in Nat /\ LOGBLOCKS \in Nat
         /\ \A i \in Pos : i \in Slot /\ i \in Nat /\ lh[i] \in Block
         /\ \A i \in Pos : lh[i] \in Nat
         /\ RangeOf(lh) = {lh[i] : i \in Pos}
<1>1. lh \in Seq(Block) /\ Len(lh) <= LOGBLOCKS
  BY DEF AdmissionInv, ControlTypeOK
<1>2. Pos = 1..Len(lh) /\ Len(lh) \in Nat /\ LOGBLOCKS \in Nat
  BY <1>1, LogAssumption DEF Pos
<1>3. \A i \in Pos : i \in Slot /\ i \in Nat /\ lh[i] \in Block
  BY <1>1, <1>2 DEF Slot
<1>4. RangeOf(lh) = {lh[i] : i \in Pos}
  BY DEF RangeOf, Pos
<1> QED BY <1>2, <1>3, <1>4, LogAssumption, Zenon

\* While p commits or recovers, no other task does.
LEMMA Others ==
  ASSUME AdmissionInv, NEW p \in Proc, pc[p] \in CommitLabels
  PROVE  \A q \in Proc \ {p} : pc[q] \notin CommitLabels
  BY DEF AdmissionInv, Control

\* A step that moves tasks between plain labels and leaves contents alone.
PlainStep ==
  /\ \A q \in Proc : pc'[q] # pc[q] => pc[q] \in Plain /\ pc'[q] \in Plain
  /\ UNCHANGED <<lh, stage, stage_valid, disk, logarea, head, cache, pinned, mounted,
                 tail, runend>>

LEMMA PlainContent ==
  ASSUME ContentInv, PlainStep
  PROVE  ContentInv'
<1> USE DEF PlainStep, ContentInv, Plain
<1>1. ContentTypeOK'
  BY DEF ContentTypeOK
<1>2. StageInv'
  BY DEF StageInv, Staged, Pos
<1>3. PinInv'
  BY DEF PinInv, BootLabels
<1>4. RunInv'
  BY DEF RunInv
<1> QED BY <1>1, <1>2, <1>3, <1>4

\* begin_op, end_op, sync(2) and the ends of a commit are such steps.
LEMMA PlainActions ==
  ASSUME AdmissionInv, NEW p \in Proc,
         \/ BeginOp(p) \/ Admit(p) \/ BeginCommit(p) \/ BeginWait(p) \/ WaitCheck(p)
         \/ EndOp(p) \/ EndWake(p) \/ FlushCommit(p) \/ FlushSkip(p) \/ FlushReturn(p)
         \/ Uncommit(p) \/ CommitWake(p)
  PROVE  PlainStep
<1>t. pc \in [Proc -> Labels]
  BY DEF AdmissionInv, ControlTypeOK
<1> USE <1>t DEF PlainStep, Plain, Goto, logvars, stagevars, diskvars, cachevars, instvars
<1>1. CASE BeginOp(p) \/ Admit(p) \/ BeginWait(p)
  BY <1>1 DEF BeginOp, Admit, BeginWait
<1>2. CASE WaitCheck(p)
  BY <1>2 DEF WaitCheck
<1>3. CASE BeginCommit(p) \/ FlushCommit(p)
  BY <1>3 DEF BeginCommit, FlushCommit
<1>4. CASE EndOp(p) \/ FlushSkip(p) \/ FlushReturn(p) \/ Uncommit(p)
  BY <1>4 DEF EndOp, FlushSkip, FlushReturn, Uncommit
<1>5. CASE EndWake(p)
  BY <1>5 DEF EndWake, WakeAllAnd
<1>6. CASE CommitWake(p)
  BY <1>6 DEF CommitWake, WakeAllAnd
<1> QED BY <1>1, <1>2, <1>3, <1>4, <1>5, <1>6
-----------------------------------------------------------------------------
(* The contents keep their types                                           *)

\* A committing or recovering task is at l after the step, the others commit
\* neither before nor after it.
MovesTo(p, l) == /\ pc'[p] = l
                 /\ \A q \in Proc \ {p} : pc'[q] = pc[q] /\ pc[q] \notin CommitLabels

LEMMA CommitGoto ==
  ASSUME AdmissionInv, NEW p \in Proc, NEW l, pc[p] \in CommitLabels, Goto(p, l)
  PROVE  MovesTo(p, l)
<1>1. pc \in [Proc -> Labels]
  BY DEF AdmissionInv, ControlTypeOK
<1> QED BY <1>1, Others DEF MovesTo, Goto

\* The labels of commit() that recovery does not pass are reached only mounted.
LEMMA MountedLabels ==
  ASSUME AdmissionInv, NEW p \in Proc,
         pc[p] \notin BootLabels, pc[p] # "down"
  PROVE  mounted
  BY DEF AdmissionInv, Control

LEMMA AppendRange ==
  ASSUME NEW s \in Seq(Block), NEW b \in Block
  PROVE  /\ RangeOf(Append(s, b)) = RangeOf(s) \cup {b}
         /\ DOMAIN Append(s, b) = 1..(Len(s) + 1) /\ DOMAIN s = 1..Len(s)
         /\ \A i \in 1..Len(s) : Append(s, b)[i] = s[i]
         /\ Append(s, b)[Len(s) + 1] = b /\ Len(s) \in Nat
<1>1. /\ DOMAIN Append(s, b) = 1..(Len(s) + 1) /\ DOMAIN s = 1..Len(s)
      /\ \A i \in 1..Len(s) : Append(s, b)[i] = s[i]
      /\ Append(s, b)[Len(s) + 1] = b /\ Len(s) \in Nat
  OBVIOUS
<1> DEFINE t == Append(s, b)
<1> HIDE DEF t
<1>2. 1..(Len(s) + 1) = 1..Len(s) \cup {Len(s) + 1}
  BY <1>1
<1>3. RangeOf(t) = RangeOf(s) \cup {b}
  BY <1>1, <1>2 DEF RangeOf, t
<1> QED BY <1>1, <1>3 DEF t

LEMMA LogWriteContent ==
  ASSUME AdmissionInv, ContentInv, NEW p \in Proc, NEW b \in Block, NEW v \in Val,
         LogWrite(p, b, v)
  PROVE  ContentInv'
<1>1. /\ pc[p] = "op" /\ pc' = pc /\ mounted' = mounted /\ tail' = tail
      /\ runend' = runend /\ stage' = stage /\ stage_valid' = stage_valid
      /\ disk' = disk /\ logarea' = logarea /\ cache' = [cache EXCEPT ![b] = v]
  BY DEF LogWrite, stagevars, diskvars, instvars
<1>2. \A q \in Proc : pc[q] \notin CommitLabels
  BY <1>1 DEF AdmissionInv, Control
<1>3. \/ lh' = lh /\ pinned' = pinned
      \/ lh' = Append(lh, b) /\ pinned' = pinned \cup {b}
  BY DEF LogWrite
<1>4. RangeOf(lh') \subseteq RangeOf(lh) \cup {b} /\ pinned' \subseteq pinned \cup {b}
  <2>1. lh \in Seq(Block)
    BY DEF AdmissionInv, ControlTypeOK
  <2>2. RangeOf(Append(lh, b)) = RangeOf(lh) \cup {b}
    BY <2>1, AppendRange
  <2> QED BY <1>3, <2>2, Zenon
<1>5. ContentTypeOK'
  BY <1>1, <1>4 DEF ContentInv, ContentTypeOK
<1>6. StageInv'
  BY <1>1, <1>2 DEF ContentInv, StageInv, Staged, CommitLabels
<1>7. PinInv'
  <2>1. \A c \in pinned' : cache'[c] \in Val
    BY <1>1, <1>4 DEF ContentInv, ContentTypeOK, PinInv
  <2>2. \A q \in Proc : pc[q] \notin BootLabels
    BY <1>2 DEF BootLabels, CommitLabels
  <2>3. mounted => RangeOf(lh') \subseteq pinned'
    BY <1>3, <1>4, <2>2 DEF ContentInv, PinInv
  <2> QED BY <1>1, <2>1, <2>3 DEF PinInv
<1>8. RunInv'
  BY <1>1, <1>2 DEF RunInv, CommitLabels
<1> QED BY <1>5, <1>6, <1>7, <1>8 DEF ContentInv

LEMMA GatherContent ==
  ASSUME AdmissionInv, ContentInv, NEW p \in Proc, Gather(p)
  PROVE  ContentInv'
<1>1. /\ pc[p] = "gather" /\ lh' \in Sorted(lh) /\ mounted' = mounted
      /\ stage_valid' = stage_valid /\ disk' = disk /\ logarea' = logarea
      /\ cache' = cache /\ pinned' = pinned
  BY DEF Gather, diskvars, cachevars
<1>2. /\ lh' \in Seq(Block) /\ Len(lh') = Len(lh) /\ RangeOf(lh') = RangeOf(lh)
      /\ Pos' = Pos
  BY <1>1, SortedSeq, Positions DEF AdmissionInv, ControlTypeOK, Pos
<1>3. \E l \in {"log_run", "log_blk"} : MovesTo(p, l)
  BY <1>1, CommitGoto DEF Gather, CommitLabels
<1>4. mounted /\ \A q \in Proc : pc[q] \notin Staged \cup BootLabels
  BY <1>1, Others, MountedLabels DEF CommitLabels, BootLabels, Staged
<1>5. \A i \in Pos : cache[lh'[i]] \in Val
  <2>1. \A i \in Pos : lh'[i] \in RangeOf(lh')
    BY <1>2 DEF RangeOf, Pos
  <2> QED BY <1>2, <1>4, <2>1 DEF ContentInv, PinInv
<1>6. HaveStage => \A i \in Pos : stage'[i] = cache[lh'[i]]
  BY Positions DEF Gather, Pos
<1>7. ContentTypeOK'
  <2>1. stage' \in [Slot -> Val \cup {NoVal}]
    BY <1>5, Positions DEF Gather, ContentInv, ContentTypeOK, Pos
  <2> QED BY <1>1, <2>1 DEF ContentInv, ContentTypeOK
<1>8. StageInv'
  <2>1. stage_valid' = FALSE
    BY <1>1, <1>4 DEF ContentInv, StageInv
  <2>2. pc'[p] = "log_run" => HaveStage
    BY <1>3 DEF Gather, Goto, AdmissionInv, ControlTypeOK
  <2>3. \A q \in Proc \ {p} : pc'[q] \notin CommitLabels
    BY <1>3 DEF MovesTo
  <2>4. pc'[p] \in {"log_run", "log_blk"}
    BY <1>3 DEF MovesTo
  <2> QED BY <1>2, <1>5, <1>6, <2>1, <2>2, <2>3, <2>4 DEF StageInv, CommitLabels
<1>9. PinInv'
  BY <1>1, <1>2, <1>4 DEF ContentInv, PinInv
<1>10. RunInv'
  BY <1>3 DEF RunInv, MovesTo, CommitLabels
<1> QED BY <1>7, <1>8, <1>9, <1>10 DEF ContentInv

\* A step of a committing or recovering task that leaves cache, pins and the
\* list alone and does not go to inst_run or inst_blk keeps the pins.
LEMMA PinsKept ==
  ASSUME AdmissionInv, ContentInv, NEW p \in Proc, pc[p] \in CommitLabels,
         NEW l, MovesTo(p, l), pc[p] \in BootLabels => l \in BootLabels,
         UNCHANGED <<lh, cache, pinned, mounted>>
  PROVE  PinInv'
<1>1. (\A q \in Proc : pc'[q] \notin BootLabels) => \A q \in Proc : pc[q] \notin BootLabels
  BY DEF MovesTo, BootLabels, CommitLabels
<1> QED BY <1>1 DEF ContentInv, PinInv

\* write_log and write_head
LEMMA WriteLogContent ==
  ASSUME AdmissionInv, ContentInv, NEW p \in Proc,
         WriteLogRun(p) \/ WriteLogRunFails(p) \/ WriteLogBlock(p) \/ WriteHead(p)
  PROVE  ContentInv'
<1>1. /\ pc[p] \in CommitLabels \ BootLabels
      /\ \E l \in {"head", "log_blk", "inst"} : Goto(p, l)
      /\ UNCHANGED <<lh, cache, pinned, mounted, stage, disk>>
  BY DEF WriteLogRun, WriteLogRunFails, WriteLogBlock, WriteHead, CommitLabels,
         BootLabels, logvars, cachevars, stagevars, diskvars
<1>2. PICK l \in {"head", "log_blk", "inst"} : MovesTo(p, l)
  BY <1>1, CommitGoto
<1>3. ContentTypeOK'
  <2>1. CASE WriteLogRun(p)
    <3>1. \A i \in Pos : stage[i] \in Val
      BY <2>1 DEF ContentInv, StageInv, WriteLogRun
    <3>2. logarea' \in [Slot -> Val] /\ stage_valid' \in BOOLEAN
      BY <2>1, <3>1 DEF WriteLogRun, ContentInv, ContentTypeOK, Pos
    <3> QED BY <1>1, <3>2 DEF ContentInv, ContentTypeOK
  <2>2. CASE WriteLogBlock(p)
    <3>1. tail[p] \in Pos
      BY <2>2, Positions DEF WriteLogBlock, AdmissionInv, ControlTypeOK
    <3>2. mounted /\ \A q \in Proc : pc[q] \notin BootLabels
      BY <1>1, Others, MountedLabels DEF CommitLabels, BootLabels
    <3>3. cache[lh[tail[p]]] \in Val
      BY <3>1, <3>2, Positions DEF ContentInv, PinInv
    <3>4. logarea' \in [Slot -> Val]
      BY <2>2, <3>1, <3>3, Positions DEF WriteLogBlock, ContentInv, ContentTypeOK
    <3>5. stage_valid' = stage_valid
      BY <2>2 DEF WriteLogBlock, stagevars
    <3> QED BY <1>1, <3>4, <3>5 DEF ContentInv, ContentTypeOK
  <2>3. CASE WriteLogRunFails(p) \/ WriteHead(p)
    BY <1>1, <2>3, Zenon DEF WriteLogRunFails, WriteHead, diskvars, stagevars, ContentInv,
                      ContentTypeOK
  <2> QED BY <2>1, <2>2, <2>3
<1>4. StageInv'
  <2>1. Pos' = Pos
    BY <1>1 DEF Pos
  <2>2. \A q \in Proc \ {p} : pc'[q] \notin CommitLabels /\ pc[q] \notin CommitLabels
    BY <1>2 DEF MovesTo
  <2>3. CASE WriteLogRun(p)
    <3>1. /\ pc'[p] = "head" /\ pc[p] = "log_run"
      BY <2>3 DEF WriteLogRun, Goto, AdmissionInv, ControlTypeOK
    <3>2. \A i \in Pos : stage[i] \in Val
      BY <3>1 DEF ContentInv, StageInv
    <3> QED BY <1>1, <2>1, <2>2, <3>1, <3>2 DEF StageInv, Staged, CommitLabels
  <2>4. CASE WriteLogRunFails(p)
    <3>1. pc'[p] = "log_blk" /\ stage_valid' = FALSE
      BY <2>4 DEF WriteLogRunFails, Goto, AdmissionInv, ControlTypeOK
    <3> QED BY <2>2, <3>1 DEF StageInv, CommitLabels
  <2>5. CASE WriteLogBlock(p)
    <3>1. pc[p] = "log_blk" /\ stage_valid' = stage_valid
      BY <2>5 DEF WriteLogBlock, stagevars
    <3>2. stage_valid = FALSE
      BY <2>2, <3>1 DEF ContentInv, StageInv, Staged, CommitLabels
    <3>3. pc'[p] \in {"head", "log_blk"}
      BY <2>5 DEF WriteLogBlock, Goto, AdmissionInv, ControlTypeOK
    <3> QED BY <2>2, <3>1, <3>2, <3>3 DEF StageInv, CommitLabels
  <2>6. CASE WriteHead(p)
    <3>1. pc[p] = "head" /\ pc'[p] = "inst" /\ stage_valid' = stage_valid
      BY <2>6 DEF WriteHead, stagevars, Goto, AdmissionInv, ControlTypeOK
    <3> QED BY <1>1, <2>1, <2>2, <3>1 DEF ContentInv, StageInv, Staged, CommitLabels
  <2> QED BY <2>3, <2>4, <2>5, <2>6
<1>5. PinInv'
  BY <1>1, <1>2, PinsKept
<1>6. RunInv'
  BY <1>2 DEF RunInv, MovesTo, CommitLabels
<1> QED BY <1>3, <1>4, <1>5, <1>6 DEF ContentInv

\* install_trans chooses where the contents come from.
LEMMA InstallStartContent ==
  ASSUME AdmissionInv, ContentInv, NEW p \in Proc,
         InstallStaged(p) \/ InstallReadLog(p) \/ InstallUnstaged(p)
  PROVE  ContentInv'
<1>1. /\ pc[p] = "inst"
      /\ UNCHANGED <<lh, cache, pinned, mounted, disk, logarea, stage_valid>>
  BY DEF InstallStaged, InstallReadLog, InstallUnstaged, logvars, cachevars, diskvars,
         stagevars
<1>2. PICK l \in {"inst_cache", "inst_one"} : MovesTo(p, l)
  BY <1>1, CommitGoto
     DEF InstallStaged, InstallReadLog, InstallUnstaged, Start, CommitLabels
<1>3. /\ pc'[p] \in {"inst_cache", "inst_one"} /\ Pos' = Pos
      /\ \A q \in Proc \ {p} : pc'[q] \notin CommitLabels
  BY <1>1, <1>2 DEF MovesTo, Pos
<1>4. stage' \in [Slot -> Val \cup {NoVal}]
  BY Positions DEF InstallStaged, InstallReadLog, InstallUnstaged, stagevars, ContentInv,
                   ContentTypeOK, Pos
<1>5. ContentTypeOK'
  BY <1>1, <1>4 DEF ContentInv, ContentTypeOK
<1>6. pc'[p] = "inst_cache" => \A i \in Pos : stage'[i] \in Val
  <2>1. CASE InstallStaged(p)
    <3>1. mounted /\ stage_valid /\ stage' = stage
      BY <2>1 DEF InstallStaged, stagevars, AdmissionInv, Control, CommitLabels
    <3> QED BY <1>1, <3>1 DEF ContentInv, StageInv
  <2>2. CASE InstallReadLog(p)
    BY <2>2, Positions DEF InstallReadLog, ContentInv, ContentTypeOK, Pos
  <2>3. CASE InstallUnstaged(p)
    BY <2>3 DEF InstallUnstaged, Start, Goto, AdmissionInv, ControlTypeOK
  <2> QED BY <2>1, <2>2, <2>3
<1>7. StageInv'
  BY <1>3, <1>6 DEF StageInv, Staged, CommitLabels
<1>8. PinInv'
  BY <1>1, <1>2, PinsKept DEF CommitLabels, BootLabels
<1>9. RunInv'
  BY <1>3 DEF RunInv, CommitLabels
<1> QED BY <1>5, <1>7, <1>8, <1>9 DEF ContentInv

\* In a run the position of a block follows from its number.
LEMMA RunIndex ==
  ASSUME AdmissionInv, NEW t \in Nat, NEW e \in Nat, t < e,
         \A i \in t .. e - 1 : i \in Pos /\ lh[i] = lh[t] + (i - t)
  PROVE  \A i \in t .. e - 1 : t + (lh[i] - lh[t]) = i
<1>1. t \in t .. e - 1
  OBVIOUS
<1>2. lh[t] \in Nat
  BY <1>1, Positions
<1> QED BY <1>2

\* The buffers of a run are updated: what InstallCache does to them.
LEMMA InstallCacheFacts ==
  ASSUME AdmissionInv, ContentInv, NEW p \in Proc, InstallCache(p)
  PROVE  /\ pc[p] = "inst_cache" /\ MovesTo(p, "inst_run")
         /\ UNCHANGED <<lh, stage, stage_valid, disk, logarea, head, caller, tail, mounted>>
         /\ tail[p] \in Nat /\ runend'[p] \in Nat
         /\ tail[p] < runend'[p] /\ runend'[p] <= Len(lh) + 1
         /\ \A i \in tail[p] .. runend'[p] - 1 : /\ i \in Pos
                                                 /\ lh[i] = lh[tail[p]] + (i - tail[p])
                                                 /\ cache'[lh[i]] = stage[i]
         /\ \A b \in Block : b \notin {lh[i] : i \in tail[p] .. runend'[p] - 1}
                               => cache'[b] = cache[b]
         /\ DOMAIN cache' = Block
         /\ pinned' = IF caller[p] = "boot" THEN pinned
                      ELSE pinned \ {lh[i] : i \in tail[p] .. runend'[p] - 1}
<1>1. PICK e \in tail[p] + 1 .. Len(lh) + 1 :
        /\ IsRun(tail[p], e)
        /\ runend' = [runend EXCEPT ![p] = e]
        /\ cache' = [b \in Block |-> IF b \in {lh[i] : i \in tail[p] .. e - 1}
                                       THEN stage[tail[p] + (b - lh[tail[p]])] ELSE cache[b]]
        /\ pinned' = IF caller[p] = "boot" THEN pinned
                     ELSE pinned \ {lh[i] : i \in tail[p] .. e - 1}
  BY Zenon DEF InstallCache
<1>2. /\ tail[p] \in Nat \ {0} /\ runend \in [Proc -> Nat \ {0}] /\ e \in Nat
      /\ tail[p] < e /\ e <= Len(lh) + 1
  BY Positions DEF AdmissionInv, ControlTypeOK
<1>3. runend'[p] = e
  BY <1>1, <1>2
<1>4. \A i \in tail[p] .. e - 1 : i \in Pos /\ lh[i] = lh[tail[p]] + (i - tail[p])
  BY <1>1, <1>2, Positions DEF IsRun
<1>5. \A i \in tail[p] .. e - 1 : cache'[lh[i]] = stage[i]
  BY <1>1, <1>2, <1>4, RunIndex, Positions, Zenon
<1>6. /\ pc[p] = "inst_cache" /\ MovesTo(p, "inst_run")
      /\ UNCHANGED <<lh, stage, stage_valid, disk, logarea, head, caller, tail, mounted>>
  BY CommitGoto DEF InstallCache, CommitLabels, logvars, stagevars, diskvars
<1> QED BY <1>1, <1>2, <1>3, <1>4, <1>5, <1>6

LEMMA InstallCacheContent ==
  ASSUME AdmissionInv, ContentInv, NEW p \in Proc, InstallCache(p)
  PROVE  ContentInv'
<1> DEFINE Run == {lh[i] : i \in tail[p] .. runend'[p] - 1}
<1>1. /\ pc[p] = "inst_cache" /\ MovesTo(p, "inst_run")
      /\ UNCHANGED <<lh, stage, stage_valid, disk, logarea, caller, tail, mounted>>
  BY InstallCacheFacts
<1>2. \A i \in Pos : stage[i] \in Val
  BY <1>1 DEF ContentInv, StageInv
<1>3. \A b \in Run : cache'[b] \in Val
  BY <1>2, InstallCacheFacts
<1>4. \A b \in Block : b \notin Run => cache'[b] = cache[b]
  BY InstallCacheFacts
<1>5. pinned' \subseteq pinned
  BY InstallCacheFacts
<1>6. cache' \in [Block -> Val \cup {NoVal}]
  <2>1. cache' = [b \in Block |-> cache'[b]]
    BY DEF InstallCache
  <2> QED BY <1>3, <1>4, <2>1 DEF ContentInv, ContentTypeOK
<1> HIDE DEF Run
<1>7. ContentTypeOK'
  BY <1>1, <1>5, <1>6 DEF ContentInv, ContentTypeOK
<1>8. /\ pc'[p] = "inst_run" /\ Pos' = Pos
      /\ \A q \in Proc \ {p} : pc'[q] \notin CommitLabels
  BY <1>1 DEF MovesTo, Pos
<1>9. StageInv'
  BY <1>1, <1>2, <1>8 DEF StageInv, Staged, CommitLabels
<1>10. PinInv'
  BY <1>3, <1>4, <1>5, <1>8 DEF ContentInv, PinInv, ContentTypeOK, BootLabels
<1>11. RunInv'
  <2>1. /\ tail'[p] < runend'[p] /\ runend'[p] <= Len(lh') + 1
        /\ \A i \in tail'[p] .. runend'[p] - 1 : lh'[i] = lh'[tail'[p]] + (i - tail'[p])
    BY <1>1, InstallCacheFacts
  <2> QED BY <1>8, <2>1 DEF RunInv, CommitLabels
<1> QED BY <1>7, <1>9, <1>10, <1>11 DEF ContentInv

\* The run of a task about to write it.
LEMMA RunFacts ==
  ASSUME AdmissionInv, ContentInv, NEW p \in Proc, pc[p] \in {"inst_run", "inst_blk"}
  PROVE  /\ tail[p] \in Nat \ {0} /\ runend[p] \in Nat /\ tail[p] < runend[p]
         /\ runend[p] <= Len(lh) + 1
         /\ \A i \in tail[p] .. runend[p] - 1 :
              i \in Pos /\ lh[i] = lh[tail[p]] + (i - tail[p])
         /\ tail[p] \in Pos
<1>1. tail[p] \in Nat \ {0} /\ runend[p] \in Nat
  BY DEF AdmissionInv, ControlTypeOK
<1>2. /\ tail[p] < runend[p] /\ runend[p] <= Len(lh) + 1
      /\ \A i \in tail[p] .. runend[p] - 1 : lh[i] = lh[tail[p]] + (i - tail[p])
  BY DEF ContentInv, RunInv
<1>3. \A i \in tail[p] .. runend[p] - 1 : i \in Pos
  BY <1>1, <1>2, Positions
<1>4. tail[p] \in tail[p] .. runend[p] - 1
  BY <1>1, <1>2
<1> QED BY <1>1, <1>2, <1>3, <1>4

\* What the three ways of writing a run leave alone.
LEMMA InstallRunFacts ==
  ASSUME AdmissionInv, ContentInv, NEW p \in Proc, InstallRun(p)
  PROVE  /\ pc[p] = "inst_run" /\ MovesTo(p, "inst_cache")
         /\ UNCHANGED <<lh, stage, stage_valid, logarea, head, caller, runend, mounted,
                        cache, pinned>>
         /\ tail'[p] = runend[p]
         /\ DOMAIN disk' = Block
         /\ \A i \in tail[p] .. runend[p] - 1 : disk'[lh[i]] = stage[i]
         /\ \A b \in Block : b \notin {lh[i] : i \in tail[p] .. runend[p] - 1}
                               => disk'[b] = disk[b]
<1>1. /\ pc[p] = "inst_run" /\ MovesTo(p, "inst_cache")
      /\ UNCHANGED <<lh, stage, stage_valid, logarea, head, caller, runend, mounted,
                     cache, pinned>>
  BY CommitGoto DEF InstallRun, CommitLabels, logvars, stagevars, cachevars
<1>2. tail'[p] = runend[p]
  BY DEF InstallRun, AdmissionInv, ControlTypeOK
<1>3. \A i \in tail[p] .. runend[p] - 1 : lh[i] \in Block
  BY <1>1, RunFacts, Positions
<1>4. \A i \in tail[p] .. runend[p] - 1 : disk'[lh[i]] = stage[tail[p] + (lh[i] - lh[tail[p]])]
  BY <1>3 DEF InstallRun
<1>5. \A i \in tail[p] .. runend[p] - 1 : tail[p] + (lh[i] - lh[tail[p]]) = i
  BY <1>1, RunFacts, RunIndex
<1>6. /\ DOMAIN disk' = Block
      /\ \A b \in Block : b \notin {lh[i] : i \in tail[p] .. runend[p] - 1}
                            => disk'[b] = disk[b]
  BY DEF InstallRun
<1> QED BY <1>1, <1>2, <1>4, <1>5, <1>6

LEMMA InstallRunContent ==
  ASSUME AdmissionInv, ContentInv, NEW p \in Proc, InstallRun(p)
  PROVE  ContentInv'
<1>1. /\ pc[p] = "inst_run" /\ MovesTo(p, "inst_cache")
      /\ UNCHANGED <<lh, stage, stage_valid, logarea, mounted, cache, pinned>>
  BY InstallRunFacts
<1>2. \A i \in Pos : stage[i] \in Val
  BY <1>1 DEF ContentInv, StageInv
<1>3. disk' \in [Block -> Val]
  <2>1. disk' = [b \in Block |-> disk'[b]]
    BY DEF InstallRun
  <2>2. \A b \in Block : disk'[b] \in Val
    <3>1. \A i \in tail[p] .. runend[p] - 1 : disk'[lh[i]] \in Val
      BY <1>1, <1>2, InstallRunFacts, RunFacts
    <3>2. \A b \in Block : b \notin {lh[i] : i \in tail[p] .. runend[p] - 1}
                            => disk'[b] \in Val
      BY InstallRunFacts DEF ContentInv, ContentTypeOK
    <3> QED BY <3>1, <3>2
  <2> QED BY <2>1, <2>2
<1>4. ContentTypeOK'
  BY <1>1, <1>3 DEF ContentInv, ContentTypeOK
<1>5. /\ pc'[p] = "inst_cache" /\ Pos' = Pos
      /\ \A q \in Proc \ {p} : pc'[q] \notin CommitLabels
  BY <1>1 DEF MovesTo, Pos
<1>6. StageInv'
  BY <1>1, <1>2, <1>5 DEF StageInv, Staged, CommitLabels
<1>7. PinInv'
  BY <1>1, PinsKept DEF CommitLabels, BootLabels
<1>8. RunInv'
  BY <1>5 DEF RunInv, CommitLabels
<1> QED BY <1>4, <1>6, <1>7, <1>8 DEF ContentInv

LEMMA InstallRunFailsContent ==
  ASSUME AdmissionInv, ContentInv, NEW p \in Proc, InstallRunFails(p)
  PROVE  ContentInv'
<1>1. /\ pc[p] = "inst_run" /\ MovesTo(p, "inst_blk")
      /\ UNCHANGED <<lh, stage, stage_valid, disk, logarea, mounted, cache, pinned, tail,
                     runend>>
  BY CommitGoto DEF InstallRunFails, CommitLabels, logvars, stagevars, cachevars, diskvars,
                    instvars
<1>2. ContentTypeOK'
  BY <1>1 DEF ContentInv, ContentTypeOK
<1>3. /\ pc'[p] = "inst_blk" /\ Pos' = Pos
      /\ \A q \in Proc \ {p} : pc'[q] \notin CommitLabels
  BY <1>1 DEF MovesTo, Pos
<1>4. StageInv'
  BY <1>1, <1>3 DEF ContentInv, StageInv, Staged, CommitLabels
<1>5. PinInv'
  BY <1>1, PinsKept DEF CommitLabels, BootLabels
<1>6. RunInv'
  BY <1>1, <1>3 DEF ContentInv, RunInv, CommitLabels
<1> QED BY <1>2, <1>4, <1>5, <1>6 DEF ContentInv

\* One block of a run is read through the cache and written home.
LEMMA InstallBlockFacts ==
  ASSUME AdmissionInv, ContentInv, NEW p \in Proc, InstallBlock(p)
  PROVE  /\ pc[p] = "inst_blk"
         /\ MovesTo(p, IF tail[p] + 1 = runend[p] THEN "inst_cache" ELSE "inst_blk")
         /\ UNCHANGED <<lh, stage, stage_valid, logarea, head, caller, runend, mounted,
                        pinned>>
         /\ tail'[p] = tail[p] + 1
         /\ tail[p] \in Pos /\ lh[tail[p]] \in Block /\ Bread(lh[tail[p]]) \in Val
         /\ cache' = [cache EXCEPT ![lh[tail[p]]] = Bread(lh[tail[p]])]
         /\ disk' = [disk EXCEPT ![lh[tail[p]]] = Bread(lh[tail[p]])]
<1>1. pc[p] = "inst_blk"
  BY DEF InstallBlock
<1>2. /\ MovesTo(p, IF tail[p] + 1 = runend[p] THEN "inst_cache" ELSE "inst_blk")
      /\ UNCHANGED <<lh, stage, stage_valid, logarea, head, caller, runend, mounted,
                     pinned>>
      /\ cache' = [cache EXCEPT ![lh[tail[p]]] = Bread(lh[tail[p]])]
      /\ disk' = [disk EXCEPT ![lh[tail[p]]] = Bread(lh[tail[p]])]
  BY <1>1, CommitGoto DEF InstallBlock, CommitLabels, logvars, stagevars
<1>3. tail[p] \in Pos /\ lh[tail[p]] \in Block
  BY <1>1, RunFacts, Positions
<1>4. Bread(lh[tail[p]]) \in Val
  BY <1>3 DEF Bread, ContentInv, ContentTypeOK
<1>5. tail'[p] = tail[p] + 1
  BY DEF InstallBlock, AdmissionInv, ControlTypeOK
<1> QED BY <1>1, <1>2, <1>3, <1>4, <1>5

LEMMA InstallBlockContent ==
  ASSUME AdmissionInv, ContentInv, NEW p \in Proc, InstallBlock(p)
  PROVE  ContentInv'
<1> DEFINE b == lh[tail[p]]  w == Bread(lh[tail[p]])
           l == IF tail[p] + 1 = runend[p] THEN "inst_cache" ELSE "inst_blk"
<1>1. /\ pc[p] = "inst_blk" /\ MovesTo(p, l)
      /\ UNCHANGED <<lh, stage, stage_valid, logarea, runend, mounted, pinned>>
      /\ tail'[p] = tail[p] + 1 /\ b \in Block /\ w \in Val
      /\ cache' = [cache EXCEPT ![b] = w] /\ disk' = [disk EXCEPT ![b] = w]
  BY InstallBlockFacts
<1> HIDE DEF b, w
<1>2. ContentTypeOK'
  BY <1>1 DEF ContentInv, ContentTypeOK
<1>3. /\ pc'[p] = l /\ Pos' = Pos
      /\ \A q \in Proc \ {p} : pc'[q] \notin CommitLabels
  BY <1>1 DEF MovesTo, Pos
<1>4. StageInv'
  BY <1>1, <1>3 DEF ContentInv, StageInv, Staged, CommitLabels
<1>5. PinInv'
  BY <1>1, <1>3 DEF ContentInv, PinInv, ContentTypeOK, BootLabels
<1>6. RunInv'
  <2>1. CASE tail[p] + 1 = runend[p]
    BY <1>3, <2>1 DEF RunInv, CommitLabels
  <2>2. CASE tail[p] + 1 # runend[p]
    <3> DEFINE t == tail[p]  e == runend[p]
    <3>1. /\ t \in Nat /\ e \in Nat /\ t < e /\ e <= Len(lh) + 1
          /\ \A i \in t .. e - 1 : i \in Pos /\ lh[i] = lh[t] + (i - t)
          /\ t + 1 # e /\ t \in Pos
      BY <1>1, <2>2, RunFacts
    <3> HIDE DEF t, e
    <3>2. t + 1 < e /\ t + 1 \in t .. e - 1 /\ lh[t] \in Nat
      BY <3>1, Positions
    <3>3. \A i \in t + 1 .. e - 1 : lh[i] = lh[t + 1] + (i - (t + 1))
      BY <3>1, <3>2
    <3>4. /\ tail'[p] < runend'[p] /\ runend'[p] <= Len(lh') + 1
          /\ \A i \in tail'[p] .. runend'[p] - 1 : lh'[i] = lh'[tail'[p]] + (i - tail'[p])
      BY <1>1, <3>1, <3>2, <3>3 DEF t, e
    <3> QED BY <1>3, <3>4 DEF RunInv, CommitLabels
  <2> QED BY <2>1, <2>2
<1> QED BY <1>2, <1>4, <1>5, <1>6 DEF ContentInv

\* Without g_stage one block is copied from the log and written home.
LEMMA InstallOneFacts ==
  ASSUME AdmissionInv, ContentInv, NEW p \in Proc, InstallOne(p)
  PROVE  /\ pc[p] = "inst_one" /\ MovesTo(p, "inst_one")
         /\ UNCHANGED <<lh, stage, stage_valid, logarea, head, caller, mounted>>
         /\ tail[p] \in Pos /\ lh[tail[p]] \in Block /\ logarea[tail[p]] \in Val
         /\ tail'[p] = tail[p] + 1
         /\ cache' = [cache EXCEPT ![lh[tail[p]]] = logarea[tail[p]]]
         /\ disk' = [disk EXCEPT ![lh[tail[p]]] = logarea[tail[p]]]
         /\ pinned' \subseteq pinned /\ pinned \subseteq pinned' \cup {lh[tail[p]]}
<1>1. /\ pc[p] = "inst_one" /\ pc' = pc
      /\ UNCHANGED <<lh, stage, stage_valid, logarea, head, caller, mounted>>
      /\ tail[p] <= Len(lh)
      /\ cache' = [cache EXCEPT ![lh[tail[p]]] = logarea[tail[p]]]
      /\ disk' = [disk EXCEPT ![lh[tail[p]]] = logarea[tail[p]]]
      /\ pinned' \subseteq pinned /\ pinned \subseteq pinned' \cup {lh[tail[p]]}
  BY DEF InstallOne, logvars, stagevars
<1>2. tail[p] \in Nat \ {0} /\ tail'[p] = tail[p] + 1
  BY DEF InstallOne, AdmissionInv, ControlTypeOK
<1>3. tail[p] \in Pos
  BY <1>1, <1>2, Positions
<1>4. lh[tail[p]] \in Block /\ logarea[tail[p]] \in Val
  BY <1>3, Positions DEF ContentInv, ContentTypeOK
<1>5. MovesTo(p, "inst_one")
  BY <1>1, Others DEF MovesTo, CommitLabels
<1> QED BY <1>1, <1>2, <1>3, <1>4, <1>5

LEMMA InstallOneContent ==
  ASSUME AdmissionInv, ContentInv, NEW p \in Proc, InstallOne(p)
  PROVE  ContentInv'
<1> DEFINE b == lh[tail[p]]  w == logarea[tail[p]]
<1>1. /\ pc[p] = "inst_one" /\ MovesTo(p, "inst_one")
      /\ UNCHANGED <<lh, stage, stage_valid, logarea, mounted>>
      /\ b \in Block /\ w \in Val /\ pinned' \subseteq pinned
      /\ cache' = [cache EXCEPT ![b] = w] /\ disk' = [disk EXCEPT ![b] = w]
  BY InstallOneFacts
<1> HIDE DEF b, w
<1>2. ContentTypeOK'
  BY <1>1 DEF ContentInv, ContentTypeOK
<1>3. /\ pc'[p] = "inst_one" /\ Pos' = Pos
      /\ \A q \in Proc \ {p} : pc'[q] \notin CommitLabels
  BY <1>1 DEF MovesTo, Pos
<1>4. StageInv'
  BY <1>1, <1>3 DEF ContentInv, StageInv, Staged, CommitLabels
<1>5. PinInv'
  BY <1>1, <1>3 DEF ContentInv, PinInv, ContentTypeOK, BootLabels
<1>6. RunInv'
  BY <1>3 DEF RunInv, CommitLabels
<1> QED BY <1>2, <1>4, <1>5, <1>6 DEF ContentInv

LEMMA InstallDoneContent ==
  ASSUME AdmissionInv, ContentInv, NEW p \in Proc, InstallDone(p)
  PROVE  ContentInv'
<1>1. /\ pc[p] \in {"inst_cache", "inst_one"} /\ MovesTo(p, "clear")
      /\ UNCHANGED <<lh, disk, logarea, mounted, cache, pinned>>
      /\ stage_valid' = FALSE /\ stage' = [i \in Slot |-> NoVal]
  BY CommitGoto DEF InstallDone, CommitLabels, logvars, cachevars, diskvars
<1>2. ContentTypeOK'
  BY <1>1, Zenon DEF ContentInv, ContentTypeOK
<1>3. /\ pc'[p] = "clear" /\ \A q \in Proc \ {p} : pc'[q] \notin CommitLabels
  BY <1>1 DEF MovesTo
<1>4. StageInv'
  BY <1>1, <1>3 DEF StageInv, Staged, CommitLabels
<1>5. PinInv'
  BY <1>1, PinsKept DEF CommitLabels, BootLabels
<1>6. RunInv'
  BY <1>3 DEF RunInv, CommitLabels
<1> QED BY <1>2, <1>4, <1>5, <1>6 DEF ContentInv

\* The log is emptied; after recovery all tasks may start.
LEMMA ClearHeadFacts ==
  ASSUME AdmissionInv, NEW p \in Proc, ClearHead(p)
  PROVE  /\ pc[p] = "clear" /\ lh' = <<>> /\ head' = <<>>
         /\ UNCHANGED <<stage, stage_valid, disk, logarea, cache, pinned>>
         /\ \A q \in Proc : pc'[q] \notin CommitLabels \ {"uncommit"}
         /\ RangeOf(lh') = {} /\ RangeOf(head') = {} /\ DOMAIN lh' = {} /\ DOMAIN head' = {}
         /\ mounted'
<1>1. /\ pc[p] = "clear" /\ lh' = <<>> /\ head' = <<>>
      /\ UNCHANGED <<stage, stage_valid, disk, logarea, cache, pinned>>
  BY DEF ClearHead, cachevars, stagevars
<1>2. mounted' /\ \A q \in Proc : pc'[q] \notin CommitLabels \ {"uncommit"}
  <2>1. CASE caller[p] = "boot"
    BY <2>1 DEF ClearHead, CommitLabels
  <2>2. CASE caller[p] # "boot"
    <3>1. mounted /\ mounted' = mounted /\ MovesTo(p, "uncommit")
      BY <1>1, <2>2, CommitGoto DEF ClearHead, AdmissionInv, Control, CommitLabels
    <3> QED BY <3>1 DEF MovesTo
  <2> QED BY <2>1, <2>2
<1>3. DOMAIN <<>> = {}
  OBVIOUS
<1>4. RangeOf(<<>>) = {}
  BY <1>3 DEF RangeOf
<1> QED BY <1>1, <1>2, <1>3, <1>4

LEMMA ClearHeadContent ==
  ASSUME AdmissionInv, ContentInv, NEW p \in Proc, ClearHead(p)
  PROVE  ContentInv'
<1>1. /\ pc[p] = "clear" /\ UNCHANGED <<stage, stage_valid, disk, logarea, cache, pinned>>
      /\ \A q \in Proc : pc'[q] \notin CommitLabels \ {"uncommit"}
      /\ RangeOf(lh') = {}
  BY ClearHeadFacts
<1>2. ContentTypeOK'
  BY <1>1 DEF ContentInv, ContentTypeOK
<1>3. \A q \in Proc : pc[q] \notin Staged
  BY <1>1, Others DEF CommitLabels, Staged
<1>4. StageInv'
  BY <1>1, <1>3 DEF ContentInv, StageInv, Staged, CommitLabels
<1>5. PinInv'
  BY <1>1 DEF ContentInv, PinInv
<1>6. RunInv'
  BY <1>1 DEF RunInv, CommitLabels
<1> QED BY <1>2, <1>4, <1>5, <1>6 DEF ContentInv

\* The device scribbles only where a command is in progress.
LEMMA DeviceFacts ==
  ASSUME AdmissionInv, ContentInv, NEW p \in Proc, DeviceWrites(p)
  PROVE  /\ UNCHANGED <<lh, stage, stage_valid, head, cache, pinned, caller, tail, runend,
                        mounted, pc>>
         /\ \/ \E i \in LogInFlight(p), v \in Val :
                 /\ i \in Pos /\ i \in Slot
                 /\ logarea' = [logarea EXCEPT ![i] = v] /\ disk' = disk
            \/ \E i \in Pos, v \in Val :
                 /\ lh[i] \in HomeInFlight(p) /\ lh[i] \in Block
                 /\ disk' = [disk EXCEPT ![lh[i]] = v] /\ logarea' = logarea
<1>1. UNCHANGED <<lh, stage, stage_valid, head, cache, pinned, caller, tail, runend,
                  mounted, pc>>
  BY DEF DeviceWrites, logvars, stagevars, cachevars, instvars
<1>2. \A i \in LogInFlight(p) : i \in Pos
  BY DEF LogInFlight, Pos
<1>3. \A b \in HomeInFlight(p) : \E i \in Pos : lh[i] = b
  <2>1. CASE pc[p] = "inst_run"
    BY <2>1, RunFacts DEF HomeInFlight
  <2>2. CASE pc[p] # "inst_run"
    BY <2>2 DEF HomeInFlight, Pos
  <2> QED BY <2>1, <2>2
<1> QED BY <1>1, <1>2, <1>3, Positions DEF DeviceWrites

\* The device and the readers of blocks leave the control state alone.
LEMMA QuietContent ==
  ASSUME AdmissionInv, ContentInv,
         \/ \E p \in Proc : DeviceWrites(p)
         \/ \E b \in Block : ReadBlock(b) \/ RecycleBuffer(b)
  PROVE  ContentInv'
<1> DEFINE Quiet == /\ UNCHANGED <<lh, stage, stage_valid, pinned, tail, runend, mounted, pc>>
                    /\ disk' \in [Block -> Val] /\ logarea' \in [Slot -> Val]
                    /\ cache' \in [Block -> Val \cup {NoVal}]
                    /\ \A b \in pinned : cache'[b] \in Val
<1>1. Quiet
  <2>1. ASSUME NEW p \in Proc, DeviceWrites(p) PROVE Quiet
    BY <2>1, DeviceFacts DEF ContentInv, ContentTypeOK, PinInv
  <2>2. ASSUME NEW b \in Block, ReadBlock(b) PROVE Quiet
    BY <2>2 DEF ReadBlock, ContentInv, ContentTypeOK, PinInv, logvars, stagevars, diskvars,
                instvars
  <2>3. ASSUME NEW b \in Block, RecycleBuffer(b) PROVE Quiet
    BY <2>3 DEF RecycleBuffer, ContentInv, ContentTypeOK, PinInv, logvars, stagevars,
                diskvars, instvars
  <2> QED BY <2>1, <2>2, <2>3
<1>2. ContentTypeOK'
  BY <1>1 DEF ContentInv, ContentTypeOK
<1>3. StageInv'
  BY <1>1 DEF ContentInv, StageInv, Staged, Pos
<1>4. PinInv'
  BY <1>1 DEF ContentInv, PinInv
<1>5. RunInv'
  BY <1>1 DEF ContentInv, RunInv
<1> QED BY <1>2, <1>3, <1>4, <1>5 DEF ContentInv

\* A power failure forgets all buffers; mounting reads the header.
LEMMA CrashFacts ==
  ASSUME Crash
  PROVE  /\ \A q \in Proc : pc'[q] = "down"
         /\ lh' = <<>> /\ RangeOf(lh') = {} /\ DOMAIN lh' = {} /\ ~mounted'
         /\ stage' = [i \in Slot |-> NoVal] /\ stage_valid' = FALSE
         /\ cache' = [b \in Block |-> NoVal] /\ pinned' = {}
         /\ disk' = disk /\ logarea' = logarea /\ head' = head
<1>1. DOMAIN <<>> = {}
  OBVIOUS
<1>2. RangeOf(<<>>) = {}
  BY <1>1 DEF RangeOf
<1> QED BY <1>1, <1>2 DEF Crash, diskvars

LEMMA MountFacts ==
  ASSUME AdmissionInv, NEW p \in Proc, Mount(p)
  PROVE  /\ \A q \in Proc : pc[q] = "down"
         /\ pc'[p] = "inst" /\ \A q \in Proc \ {p} : pc'[q] = "down"
         /\ lh' = head /\ ~mounted /\ ~mounted'
         /\ UNCHANGED <<stage, stage_valid, disk, logarea, head, cache, pinned>>
  BY DEF Mount, Goto, AdmissionInv, ControlTypeOK, Control, stagevars, diskvars, cachevars

LEMMA PowerContent ==
  ASSUME AdmissionInv, ContentInv, Crash \/ \E p \in Proc : Mount(p)
  PROVE  ContentInv'
<1>1. CASE Crash
  <2>1. ContentTypeOK'
    BY <1>1, CrashFacts DEF ContentInv, ContentTypeOK
  <2>2. StageInv' /\ PinInv' /\ RunInv'
    BY <1>1, CrashFacts DEF StageInv, PinInv, RunInv
  <2> QED BY <2>1, <2>2 DEF ContentInv
<1>2. ASSUME NEW p \in Proc, Mount(p) PROVE ContentInv'
  <2>1. ContentTypeOK'
    BY <1>2, MountFacts DEF ContentInv, ContentTypeOK
  <2>2. StageInv'
    BY <1>2, MountFacts DEF ContentInv, StageInv, Staged
  <2>3. PinInv'
    BY <1>2, MountFacts DEF ContentInv, PinInv
  <2>4. RunInv'
    BY <1>2, MountFacts DEF RunInv
  <2> QED BY <2>1, <2>2, <2>3, <2>4 DEF ContentInv
<1> QED BY <1>1, <1>2

LEMMA InitContent == Init => ContentInv
<1> SUFFICES ASSUME Init PROVE ContentInv
  OBVIOUS
<1>1. \A p \in Proc : pc[p] = "down"
  BY DEF Init, PowerOff
<1>2. ContentTypeOK
  BY Zenon DEF Init, PowerOff, ContentTypeOK
<1>3. StageInv /\ PinInv /\ RunInv
  BY <1>1 DEF Init, PowerOff, StageInv, PinInv, RunInv
<1> QED BY <1>2, <1>3 DEF ContentInv

LEMMA NextContent ==
  ASSUME AdmissionInv, ContentInv, [Next]_vars
  PROVE  ContentInv'
<1> USE LogAssumption
<1>1. ASSUME NEW p \in Proc, CommitStep(p) PROVE ContentInv'
  <2>1. CASE Uncommit(p) \/ CommitWake(p)
    BY <2>1, PlainActions, PlainContent
  <2> QED
    BY <1>1, <2>1, GatherContent, WriteLogContent, InstallStartContent, InstallCacheContent,
       InstallRunContent, InstallRunFailsContent, InstallBlockContent, InstallOneContent,
       InstallDoneContent, ClearHeadContent
       DEF CommitStep
<1>2. ASSUME NEW p \in Proc, TaskStep(p) PROVE ContentInv'
  BY <1>1, <1>2, PlainActions, PlainContent DEF TaskStep
<1>3. ASSUME NEW p \in Proc, BeginOp(p) \/ FlushCommit(p) \/ FlushSkip(p) PROVE ContentInv'
  BY <1>3, PlainActions, PlainContent
<1>4. CASE UNCHANGED vars
  BY <1>4, PlainContent DEF PlainStep, vars, logvars, stagevars, diskvars, cachevars,
                            instvars
<1> QED
  BY <1>2, <1>3, <1>4, LogWriteContent, QuietContent, PowerContent DEF Next, Running

\* The contents stay well formed in every behaviour of the journal.
THEOREM ContentInvariant == Spec => []ContentInv
<1>1. Init => ContentInv
  BY InitContent
<1>2. AdmissionInv /\ ContentInv /\ [Next]_vars => ContentInv'
  BY NextContent
<1> QED BY <1>1, <1>2, AdmissionInvariant, PTL DEF Spec

\* Every variable of the journal keeps its type: in particular the log never
\* outgrows lg.lh.block, a pinned buffer always holds contents, and install_trans
\* never writes an empty slot of g_stage to the disk.
THEOREM TypeCorrect == Spec => []TypeOK
<1>1. AdmissionInv /\ ContentInv => TypeOK
  BY DEF AdmissionInv, ContentInv, ControlTypeOK, ContentTypeOK, TypeOK
<1> QED BY <1>1, AdmissionInvariant, ContentInvariant, PTL
=============================================================================
