------------------------ MODULE Xv6LogCommitProofs --------------------------
(***************************************************************************)
(* The invariant that relates cache, log and disk (Xv6Log), and the proof  *)
(* that the batched steps of commit() and recovery keep it, for any number *)
(* of tasks and blocks and any log size.  Xv6LogCrashProofs has the steps  *)
(* block by block, and those of writers, readers, the device and power.    *)
(***************************************************************************)
EXTENDS Xv6LogContentProofs

Injective(s) == \A i, j \in DOMAIN s : s[i] = s[j] => i = j

\* No block is listed twice; the header on disk lists the blocks exactly while
\* they are being installed.
HeadInv ==
  /\ Injective(lh) /\ Injective(head)
  /\ (\A p \in Proc : pc[p] = "down") => lh = <<>>
  /\ mounted /\ (\A p \in Proc : pc[p] \notin BootLabels) => head = <<>>
  /\ \A p \in Proc : pc[p] \in BootLabels => head = lh

\* How far the log area and g_stage have got ...
LogAt(p) ==
  /\ pc[p] = "log_run" => tail[p] = 1 /\ \A i \in Pos : stage[i] = cache[lh[i]]
  /\ pc[p] = "log_blk" => \A i \in Pos : i < tail[p] => logarea[i] = cache[lh[i]]
  /\ pc[p] = "head" \/ (pc[p] = "inst" /\ mounted) => \A i \in Pos : logarea[i] = cache[lh[i]]
  /\ \/ pc[p] \in {"head", "inst"} /\ mounted /\ stage_valid
     \/ pc[p] \in {"inst_cache", "inst_run", "inst_blk"}
     => \A i \in Pos : stage[i] = logarea[i]

Installing == {"inst_cache", "inst_run", "inst_blk", "inst_one"}

\* ... and the installation: the blocks before tail are home, the others are
\* in the cache as logged, and stay there.
HomeAt(p) ==
  /\ pc[p] \in Installing =>
       \A i \in Pos : i < tail[p] => /\ disk[lh[i]] = logarea[i]
                                     /\ cache[lh[i]] \in {NoVal, logarea[i]}
  /\ pc[p] = "clear" =>
       \A i \in Pos : /\ disk[lh[i]] = logarea[i]
                      /\ cache[lh[i]] \in {NoVal, logarea[i]}

KeptAt(p) ==
  /\ pc[p] \in Installing /\ mounted =>
       \A i \in Pos : i >= tail[p] => cache[lh[i]] = logarea[i]
  /\ pc[p] \in {"inst_cache", "inst_one"} /\ mounted =>
       \A i \in Pos : i >= tail[p] => lh[i] \in pinned
  /\ pc[p] \in {"inst_run", "inst_blk"} =>
       /\ \A i \in tail[p] .. runend[p] - 1 : cache[lh[i]] = logarea[i]
       /\ mounted => \A i \in Pos : i >= runend[p] => lh[i] \in pinned
  /\ pc[p] = "inst" /\ mounted => \A i \in Pos : lh[i] \in pinned

StepInv == \A p \in Proc : LogAt(p) /\ HomeAt(p) /\ KeptAt(p)

\* A buffer whose block is not listed agrees with the disk, mounted or not.
AgreeInv == \A b \in Block : cache[b] # NoVal /\ b \notin RangeOf(lh) => cache[b] = disk[b]

CrashInv == HeadInv /\ StepInv /\ AgreeInv
-----------------------------------------------------------------------------
(* Facts used throughout                                                   *)

\* The provers of the steps below that name none, and their time limits.
USE SMTT(15), Z3T(15), ZenonT(20)

LEMMA PlainCrash ==
  ASSUME CrashInv, PlainStep
  PROVE  CrashInv'
<1> USE DEF PlainStep, CrashInv, Plain
<1>1. HeadInv'
  BY DEF HeadInv, BootLabels
<1>2. StepInv'
  <2> SUFFICES ASSUME NEW p \in Proc PROVE LogAt(p)' /\ HomeAt(p)' /\ KeptAt(p)'
    BY DEF StepInv
  <2>1. LogAt(p) /\ HomeAt(p) /\ KeptAt(p)
    BY DEF StepInv
  <2>2. LogAt(p)'
    BY <2>1 DEF LogAt, Pos
  <2>3. HomeAt(p)'
    BY <2>1 DEF HomeAt, Installing, Pos
  <2>4. KeptAt(p)'
    BY <2>1 DEF KeptAt, Installing, Pos
  <2> QED BY <2>2, <2>3, <2>4
<1>3. AgreeInv'
  BY DEF AgreeInv
<1> QED BY <1>1, <1>2, <1>3

\* Only the task that commits or recovers has anything to keep.
LEMMA OnlyMover ==
  ASSUME NEW p \in Proc, NEW l, MovesTo(p, l), LogAt(p)', HomeAt(p)', KeptAt(p)'
  PROVE  StepInv'
<1> SUFFICES ASSUME NEW q \in Proc \ {p} PROVE LogAt(q)' /\ HomeAt(q)' /\ KeptAt(q)'
  BY DEF StepInv
<1>1. pc'[q] \notin CommitLabels
  BY DEF MovesTo
<1> QED BY <1>1 DEF LogAt, HomeAt, KeptAt, Installing, CommitLabels

LEMMA NoMover ==
  ASSUME \A q \in Proc : pc'[q] \notin CommitLabels \ {"uncommit", "gather"}
  PROVE  StepInv'
<1> SUFFICES ASSUME NEW q \in Proc PROVE LogAt(q)' /\ HomeAt(q)' /\ KeptAt(q)'
  BY DEF StepInv
<1>1. pc'[q] \notin CommitLabels \ {"uncommit", "gather"}
  OBVIOUS
<1> QED BY <1>1 DEF LogAt, HomeAt, KeptAt, Installing, CommitLabels

LEMMA HeadKept ==
  ASSUME CrashInv, NEW p \in Proc, NEW l \in CommitLabels, MovesTo(p, l),
         pc[p] \in CommitLabels, pc[p] \in BootLabels <=> l \in BootLabels,
         UNCHANGED <<lh, head, mounted>>
  PROVE  HeadInv'
<1>1. \A q \in Proc : pc'[q] \in BootLabels <=> pc[q] \in BootLabels
  BY DEF MovesTo
<1>2. pc'[p] # "down"
  BY DEF MovesTo, CommitLabels
<1> QED BY <1>1, <1>2 DEF CrashInv, HeadInv

\* A listed block is listed at one position.
LEMMA OnePosition ==
  ASSUME CrashInv
  PROVE  \A i, j \in Pos : lh[i] = lh[j] => i = j
  BY DEF CrashInv, HeadInv, Injective, Pos

LEMMA AgreeKept ==
  ASSUME CrashInv, RangeOf(lh) \subseteq RangeOf(lh'),
         \A b \in Block \ RangeOf(lh) : cache'[b] = cache[b] /\ disk'[b] = disk[b]
  PROVE  AgreeInv'
  BY DEF CrashInv, AgreeInv
-----------------------------------------------------------------------------
(* commit(): the log                                                       *)

LEMMA GatherCrash ==
  ASSUME AdmissionInv, ContentInv, CrashInv, NEW p \in Proc, Gather(p)
  PROVE  CrashInv'
<1>1. /\ pc[p] = "gather" /\ lh' \in Sorted(lh)
      /\ UNCHANGED <<head, mounted, cache, disk>>
  BY DEF Gather, cachevars, diskvars
<1>2. /\ lh \in Seq(Block) /\ lh' \in Seq(Block) /\ Len(lh') = Len(lh)
      /\ RangeOf(lh') = RangeOf(lh)
      /\ \A i, j \in 1..Len(lh) : i < j => lh'[i] < lh'[j]
  BY <1>1, SortedSeq DEF AdmissionInv, ControlTypeOK
<1>3. /\ Pos' = Pos /\ Pos = 1..Len(lh) /\ Len(lh) \in Nat
      /\ \A i \in Pos : lh'[i] \in Nat
  <2>1. Pos' = Pos /\ Pos = 1..Len(lh) /\ Len(lh) \in Nat
    BY <1>2 DEF Pos
  <2>2. \A i \in 1..Len(lh') : lh'[i] \in Block
    BY <1>2
  <2> QED BY <1>2, <2>1, <2>2, LogAssumption, Zenon
<1>4. PICK l \in {"log_run", "log_blk"} : MovesTo(p, l)
  BY <1>1, CommitGoto DEF Gather, CommitLabels
<1>5. tail'[p] = 1
  BY DEF Gather, AdmissionInv, ControlTypeOK
<1>6. l = "log_run" => HaveStage
  BY <1>4 DEF Gather, Goto, MovesTo, AdmissionInv, ControlTypeOK
<1>7. l = "log_run" => \A i \in Pos : stage'[i] = cache[lh'[i]]
  BY <1>6, Positions DEF Gather, Pos
<1>8. HeadInv'
  <2>1. \A i, j \in Pos : lh'[i] = lh'[j] => i = j
    BY <1>2, <1>3
  <2>2. Injective(lh')
    BY <1>3, <2>1 DEF Injective, Pos
  <2>3. \A q \in Proc : pc[q] \notin BootLabels /\ pc'[q] \notin BootLabels
    BY <1>1, <1>4, Others DEF MovesTo, CommitLabels, BootLabels
  <2>4. pc'[p] # "down"
    BY <1>4 DEF MovesTo
  <2> QED BY <1>1, <2>2, <2>3, <2>4 DEF CrashInv, HeadInv
<1>9. StepInv'
  <2>1. pc'[p] = l
    BY <1>4 DEF MovesTo
  <2>2. LogAt(p)'
    BY <1>1, <1>3, <1>5, <1>7, <2>1 DEF LogAt
  <2>3. HomeAt(p)' /\ KeptAt(p)'
    BY <2>1 DEF HomeAt, KeptAt, Installing
  <2> QED BY <1>4, <2>2, <2>3, OnlyMover
<1>10. AgreeInv'
  BY <1>1, <1>2, AgreeKept
<1> QED BY <1>8, <1>9, <1>10 DEF CrashInv

LEMMA WriteLogCrash ==
  ASSUME AdmissionInv, ContentInv, CrashInv, NEW p \in Proc,
         WriteLogRun(p) \/ WriteLogRunFails(p) \/ WriteLogBlock(p)
  PROVE  CrashInv'
<1> DEFINE l == IF WriteLogRun(p) THEN "head"
                ELSE IF WriteLogRunFails(p) THEN "log_blk"
                ELSE IF tail[p] = Len(lh) THEN "head" ELSE "log_blk"
<1>1. /\ pc[p] \in {"log_run", "log_blk"}
      /\ UNCHANGED <<lh, head, mounted, cache, disk, stage>>
  BY DEF WriteLogRun, WriteLogRunFails, WriteLogBlock, logvars, cachevars, diskvars,
         stagevars
<1>2. MovesTo(p, l)
  BY <1>1, CommitGoto DEF WriteLogRun, WriteLogRunFails, WriteLogBlock, CommitLabels
<1>3. l \in {"head", "log_blk"} /\ pc'[p] = l
  BY <1>2 DEF MovesTo
<1>4. HeadInv'
  BY <1>1, <1>2, <1>3, HeadKept DEF CommitLabels, BootLabels
<1>5. AgreeInv'
  BY <1>1, AgreeKept
<1>6. LogAt(p) /\ Pos' = Pos
  BY <1>1 DEF CrashInv, StepInv, Pos
<1>7. ~stage_valid
  <2>1. \A q \in Proc : pc[q] \notin Staged
    BY <1>1, Others DEF CommitLabels, Staged
  <2> QED BY <2>1 DEF ContentInv, StageInv
<1>8. CASE WriteLogRun(p)
  <2>1. pc[p] = "log_run" /\ \A i \in Pos : logarea'[i] = stage[i]
    BY <1>8, Positions DEF WriteLogRun, Pos
  <2>2. LogAt(p)'
    BY <1>1, <1>3, <1>6, <1>8, <2>1 DEF LogAt
  <2>3. HomeAt(p)' /\ KeptAt(p)'
    BY <1>3 DEF HomeAt, KeptAt, Installing
  <2> QED BY <1>2, <1>4, <1>5, <2>2, <2>3, OnlyMover DEF CrashInv
<1>9. CASE WriteLogRunFails(p)
  <2>1. pc[p] = "log_run" /\ pc'[p] = "log_blk" /\ tail' = tail
    BY <1>3, <1>9 DEF WriteLogRunFails, WriteLogRun, instvars
  <2>2. \A i \in Pos : ~(i < 1)
    BY Positions
  <2>3. LogAt(p)'
    BY <1>1, <1>6, <2>1, <2>2 DEF LogAt
  <2>4. HomeAt(p)' /\ KeptAt(p)'
    BY <2>1 DEF HomeAt, KeptAt, Installing
  <2> QED BY <1>2, <1>4, <1>5, <2>3, <2>4, OnlyMover DEF CrashInv
<1>10. CASE WriteLogBlock(p)
  <2>1. /\ pc[p] = "log_blk" /\ stage_valid' = stage_valid /\ tail[p] <= Len(lh)
        /\ logarea' = [logarea EXCEPT ![tail[p]] = cache[lh[tail[p]]]]
        /\ pc'[p] = IF tail[p] = Len(lh) THEN "head" ELSE "log_blk"
    BY <1>3, <1>10 DEF WriteLogBlock, WriteLogRun, WriteLogRunFails, stagevars
  <2>2. tail'[p] = tail[p] + 1 /\ tail[p] \in Nat \ {0}
    BY <1>10 DEF WriteLogBlock, AdmissionInv, ControlTypeOK
  <2>3. tail[p] \in Pos /\ logarea \in [Slot -> Val]
    BY <2>1, <2>2, Positions DEF ContentInv, ContentTypeOK
  <2>4. \A i \in Pos : i < tail[p] + 1 => logarea'[i] = cache[lh[i]]
    <3>1. \A i \in Pos : i < tail[p] => logarea[i] = cache[lh[i]]
      BY <1>6, <2>1 DEF LogAt
    <3> QED BY <2>1, <2>2, <2>3, <3>1, Positions
  <2>5. pc'[p] = "head" => \A i \in Pos : i < tail[p] + 1
    BY <2>1, <2>2, Positions
  <2>6. LogAt(p)'
    BY <1>1, <1>3, <1>6, <1>7, <2>1, <2>2, <2>4, <2>5 DEF LogAt
  <2>7. HomeAt(p)' /\ KeptAt(p)'
    BY <1>3 DEF HomeAt, KeptAt, Installing
  <2> QED BY <1>2, <1>4, <1>5, <2>6, <2>7, OnlyMover DEF CrashInv
<1> QED BY <1>8, <1>9, <1>10

\* The commit point: from here on the listed blocks are being installed.
LEMMA WriteHeadCrash ==
  ASSUME AdmissionInv, ContentInv, CrashInv, NEW p \in Proc, WriteHead(p)
  PROVE  CrashInv'
<1>1. /\ pc[p] = "head" /\ MovesTo(p, "inst") /\ head' = lh
      /\ UNCHANGED <<lh, mounted, cache, pinned, disk, logarea, stage, stage_valid>>
  BY CommitGoto DEF WriteHead, CommitLabels, logvars, cachevars, stagevars
<1>2. /\ pc'[p] = "inst" /\ LogAt(p) /\ Pos' = Pos
      /\ \A q \in Proc \ {p} : pc'[q] \notin CommitLabels
  BY <1>1 DEF CrashInv, StepInv, Pos, MovesTo
<1>3. HeadInv'
  BY <1>1, <1>2 DEF CrashInv, HeadInv, BootLabels
<1>4. LogAt(p)'
  BY <1>1, <1>2 DEF LogAt
<1>5. \A i \in Pos : lh[i] \in pinned
  <2>1. mounted /\ \A q \in Proc : pc[q] \notin BootLabels
    BY <1>1, Others, MountedLabels DEF CommitLabels, BootLabels
  <2>2. RangeOf(lh) \subseteq pinned
    BY <2>1 DEF ContentInv, PinInv
  <2> QED BY <2>2, Positions
<1>6. HomeAt(p)' /\ KeptAt(p)'
  BY <1>1, <1>2, <1>5 DEF HomeAt, KeptAt, Installing
<1>7. AgreeInv'
  BY <1>1, AgreeKept
<1> QED BY <1>1, <1>3, <1>4, <1>6, <1>7, OnlyMover DEF CrashInv
-----------------------------------------------------------------------------
(* install_trans                                                           *)

LEMMA InstallStartCrash ==
  ASSUME AdmissionInv, ContentInv, CrashInv, NEW p \in Proc,
         InstallStaged(p) \/ InstallReadLog(p) \/ InstallUnstaged(p)
  PROVE  CrashInv'
<1>1. /\ pc[p] = "inst"
      /\ UNCHANGED <<lh, head, cache, pinned, mounted, disk, logarea, stage_valid>>
  BY DEF InstallStaged, InstallReadLog, InstallUnstaged, logvars, cachevars, diskvars,
         stagevars
<1>2. PICK l \in {"inst_cache", "inst_one"} : MovesTo(p, l)
  BY <1>1, CommitGoto
     DEF InstallStaged, InstallReadLog, InstallUnstaged, Start, CommitLabels
<1>3. pc'[p] = l /\ Pos' = Pos /\ LogAt(p) /\ KeptAt(p)
  BY <1>1, <1>2 DEF CrashInv, StepInv, Pos, MovesTo
<1>4. tail'[p] = 1 /\ \A i \in Pos : ~(i < 1)
  BY Positions DEF InstallStaged, InstallReadLog, InstallUnstaged, Start, AdmissionInv,
                   ControlTypeOK
<1>5. l = "inst_cache" => \A i \in Pos : stage'[i] = logarea[i]
  <2>1. CASE InstallStaged(p)
    <3>1. mounted /\ stage_valid /\ stage' = stage
      BY <2>1 DEF InstallStaged, stagevars, AdmissionInv, Control, CommitLabels
    <3> QED BY <1>1, <1>3, <3>1 DEF LogAt
  <2>2. CASE InstallReadLog(p)
    BY <2>2, Positions DEF InstallReadLog, Pos
  <2>3. CASE InstallUnstaged(p)
    BY <1>3, <2>3 DEF InstallUnstaged, Start, Goto, AdmissionInv, ControlTypeOK
  <2> QED BY <2>1, <2>2, <2>3
<1>6. HeadInv'
  BY <1>1, <1>2, HeadKept DEF CommitLabels, BootLabels
<1>7. LogAt(p)'
  BY <1>1, <1>3, <1>5 DEF LogAt
<1>8. HomeAt(p)'
  BY <1>3, <1>4 DEF HomeAt, Installing
<1>9. KeptAt(p)'
  <2>1. mounted => \A i \in Pos : lh[i] \in pinned /\ cache[lh[i]] = logarea[i]
    BY <1>1, <1>3 DEF KeptAt, LogAt
  <2> QED BY <1>1, <1>3, <2>1 DEF KeptAt, Installing
<1>10. AgreeInv'
  BY <1>1, AgreeKept
<1> QED BY <1>2, <1>6, <1>7, <1>8, <1>9, <1>10, OnlyMover DEF CrashInv

LEMMA InstallCacheCrash ==
  ASSUME AdmissionInv, ContentInv, CrashInv, NEW p \in Proc, InstallCache(p)
  PROVE  CrashInv'
<1> DEFINE t == tail[p]  e == runend'[p]  Run == {lh[i] : i \in tail[p] .. runend'[p] - 1}
<1>1. /\ pc[p] = "inst_cache" /\ MovesTo(p, "inst_run") /\ pc'[p] = "inst_run"
      /\ UNCHANGED <<lh, stage, stage_valid, disk, logarea, head, mounted>>
      /\ t \in Nat /\ e \in Nat /\ tail'[p] = t /\ t < e
      /\ Pos' = Pos
  BY InstallCacheFacts DEF MovesTo, Pos
<1>2. /\ LogAt(p) /\ HomeAt(p) /\ KeptAt(p)
  BY DEF CrashInv, StepInv
<1>3. \A i \in t .. e - 1 : i \in Pos /\ cache'[lh[i]] = logarea[i]
  BY <1>1, <1>2, InstallCacheFacts DEF LogAt
<1>4. \A i \in Pos : i < t \/ i >= e => lh[i] \notin Run
  BY <1>1, <1>3, OnePosition, Positions
<1>5. \A b \in Block : b \notin Run => cache'[b] = cache[b]
  BY InstallCacheFacts
<1>6. \A b \in pinned : b \notin Run => b \in pinned'
  BY InstallCacheFacts
<1>7. Run \subseteq RangeOf(lh)
  BY <1>3, Positions
<1>8. \A i \in Pos : i < t \/ i >= e => cache'[lh[i]] = cache[lh[i]]
  BY <1>4, <1>5, Positions
<1> HIDE DEF Run, t, e
<1>9. HeadInv'
  BY <1>1, HeadKept DEF CommitLabels, BootLabels
<1>10. LogAt(p)'
  BY <1>1, <1>2 DEF LogAt
<1>11. HomeAt(p)'
  BY <1>1, <1>2, <1>8 DEF HomeAt, Installing, t
<1>12. KeptAt(p)'
  <2>1. mounted => \A i \in Pos : i >= t => cache'[lh[i]] = logarea[i]
    <3>1. mounted => \A i \in Pos : i >= t => cache[lh[i]] = logarea[i]
      BY <1>1, <1>2 DEF KeptAt, Installing, t
    <3> QED BY <1>1, <1>3, <1>8, <3>1, Positions
  <2>2. mounted => \A i \in Pos : i >= e => lh[i] \in pinned'
    <3>1. mounted => \A i \in Pos : i >= t => lh[i] \in pinned
      BY <1>1, <1>2 DEF KeptAt, t
    <3> QED BY <1>1, <1>4, <1>6, <3>1, Positions
  <2> QED BY <1>1, <1>3, <2>1, <2>2 DEF KeptAt, Installing, e
<1>13. AgreeInv'
  BY <1>1, <1>5, <1>7, AgreeKept
<1> QED BY <1>1, <1>9, <1>10, <1>11, <1>12, <1>13, OnlyMover DEF CrashInv

LEMMA InstallRunCrash ==
  ASSUME AdmissionInv, ContentInv, CrashInv, NEW p \in Proc, InstallRun(p)
  PROVE  CrashInv'
<1> DEFINE t == tail[p]  e == runend[p]  Run == {lh[i] : i \in tail[p] .. runend[p] - 1}
<1>1. /\ pc[p] = "inst_run" /\ MovesTo(p, "inst_cache") /\ pc'[p] = "inst_cache"
      /\ UNCHANGED <<lh, stage, stage_valid, logarea, head, mounted, cache, pinned>>
      /\ tail'[p] = e /\ Pos' = Pos
  BY InstallRunFacts DEF MovesTo, Pos
<1>2. LogAt(p) /\ HomeAt(p) /\ KeptAt(p)
  BY DEF CrashInv, StepInv
<1>3. t \in Nat /\ e \in Nat /\ t < e /\ \A i \in t .. e - 1 : i \in Pos
  BY <1>1, RunFacts
<1>4. \A i \in t .. e - 1 : disk'[lh[i]] = logarea[i] /\ cache[lh[i]] = logarea[i]
  BY <1>1, <1>2, <1>3, InstallRunFacts DEF LogAt, KeptAt
<1>5. \A b \in Block : b \notin Run => disk'[b] = disk[b]
  BY InstallRunFacts
<1>6. \A i \in Pos : i < t => lh[i] \notin Run
  <2> SUFFICES ASSUME NEW i \in Pos, i < t, NEW j \in t .. e - 1, lh[i] = lh[j]
               PROVE  FALSE
    OBVIOUS
  <2>1. j \in Pos
    BY <1>3
  <2>2. i = j
    BY <2>1, OnePosition
  <2> QED BY <1>3, <2>2, Positions
<1>7. \A i \in Pos : i < t => disk'[lh[i]] = disk[lh[i]]
  BY <1>5, <1>6, Positions
<1>8. Run \subseteq RangeOf(lh)
  BY <1>3, Positions
<1> HIDE DEF Run, t, e
<1>9. HeadInv'
  BY <1>1, HeadKept DEF CommitLabels, BootLabels
<1>10. LogAt(p)'
  BY <1>1, <1>2 DEF LogAt
<1>11. HomeAt(p)'
  <2>1. \A i \in Pos : i < t => /\ disk[lh[i]] = logarea[i]
                                /\ cache[lh[i]] \in {NoVal, logarea[i]}
    BY <1>1, <1>2 DEF HomeAt, Installing, t
  <2>2. \A i \in Pos : i < e => /\ disk'[lh[i]] = logarea[i]
                                /\ cache[lh[i]] \in {NoVal, logarea[i]}
    BY <1>3, <1>4, <1>7, <2>1, Positions
  <2> QED BY <1>1, <2>2 DEF HomeAt
<1>12. KeptAt(p)'
  <2>1. mounted => \A i \in Pos : i >= e => cache[lh[i]] = logarea[i]
    BY <1>1, <1>2, <1>3, Positions DEF KeptAt, Installing, t
  <2>2. mounted => \A i \in Pos : i >= e => lh[i] \in pinned
    BY <1>1, <1>2 DEF KeptAt, e
  <2> QED BY <1>1, <2>1, <2>2 DEF KeptAt
<1>13. AgreeInv'
  BY <1>1, <1>5, <1>8, AgreeKept
<1> QED BY <1>1, <1>9, <1>10, <1>11, <1>12, <1>13, OnlyMover DEF CrashInv

LEMMA InstallRunFailsCrash ==
  ASSUME AdmissionInv, ContentInv, CrashInv, NEW p \in Proc, InstallRunFails(p)
  PROVE  CrashInv'
<1>1. /\ pc[p] = "inst_run" /\ MovesTo(p, "inst_blk") /\ pc'[p] = "inst_blk" /\ Pos' = Pos
      /\ UNCHANGED <<lh, stage, stage_valid, disk, logarea, head, mounted, cache, pinned,
                     tail, runend>>
  BY CommitGoto DEF InstallRunFails, CommitLabels, logvars, stagevars, cachevars, diskvars,
                    instvars, MovesTo, Pos
<1>2. LogAt(p) /\ HomeAt(p) /\ KeptAt(p)
  BY DEF CrashInv, StepInv
<1>3. HeadInv'
  BY <1>1, HeadKept DEF CommitLabels, BootLabels
<1>4. LogAt(p)'
  BY <1>1, <1>2 DEF LogAt
<1>5. HomeAt(p)'
  BY <1>1, <1>2 DEF HomeAt, Installing
<1>6. KeptAt(p)'
  BY <1>1, <1>2 DEF KeptAt, Installing
<1>7. AgreeInv'
  BY <1>1, AgreeKept
<1> QED BY <1>1, <1>3, <1>4, <1>5, <1>6, <1>7, OnlyMover DEF CrashInv
=============================================================================
