------------------------ MODULE Xv6LogAtomicProofs --------------------------
(***************************************************************************)
(* Proof that the journal (Xv6Log) implements the crash-atomic disk of     *)
(* AtomicDisk, for any number of tasks and blocks and any log size,        *)
(* provided no buffer is recycled in the window between its unpinning and  *)
(* its write (EvictUnwritten = FALSE).                                     *)
(***************************************************************************)
EXTENDS Xv6LogCrashProofs

\* The provers of the steps below that name none, and their time limits.
USE SMTT(15), Z3T(15), ZenonT(20)

\* What the next mount makes of the disk, without CHOOSE.
RecoveredIs ==
  /\ DOMAIN Recovered = Block /\ Recovered = [b \in Block |-> Recovered[b]]
  /\ \A i \in DOMAIN head : head[i] \in Block /\ Recovered[head[i]] = logarea[i]
  /\ \A b \in Block \ RangeOf(head) : Recovered[b] = disk[b]

LEMMA RecoveredFacts == AdmissionInv /\ CrashInv => RecoveredIs
<1> SUFFICES ASSUME AdmissionInv, CrashInv PROVE RecoveredIs
  OBVIOUS
<1>1. /\ DOMAIN Recovered = Block /\ Recovered = [b \in Block |-> Recovered[b]]
      /\ \A b \in Block \ RangeOf(head) : Recovered[b] = disk[b]
  BY DEF Recovered
<1>2. ASSUME NEW i \in DOMAIN head PROVE head[i] \in Block /\ Recovered[head[i]] = logarea[i]
  <2> DEFINE k == CHOOSE j \in DOMAIN head : head[j] = head[i]
  <2>1. head[i] \in Block /\ head[i] \in RangeOf(head)
    BY DEF AdmissionInv, ControlTypeOK, RangeOf
  <2>2. k \in DOMAIN head /\ head[k] = head[i]
    OBVIOUS
  <2>3. k = i
    BY <2>2 DEF CrashInv, HeadInv, Injective
  <2>4. Recovered[head[i]] = logarea[k]
    BY <2>1 DEF Recovered
  <2> QED BY <2>1, <2>3, <2>4, Zenon
<1> QED BY <1>1, <1>2 DEF RecoveredIs

\* Outside the log, and inside it where the header lists blocks, nothing changes.
LEMMA SameRecovered ==
  ASSUME RecoveredIs, RecoveredIs', head' = head,
         \A i \in DOMAIN head : logarea'[i] = logarea[i],
         \A b \in Block \ RangeOf(head) : disk'[b] = disk[b]
  PROVE  Recovered' = Recovered
<1>1. ASSUME NEW b \in Block PROVE Recovered'[b] = Recovered[b]
  <2>1. CASE b \in RangeOf(head)
    <3>1. PICK i \in DOMAIN head : head[i] = b
      BY <2>1 DEF RangeOf
    <3> QED BY <3>1 DEF RecoveredIs
  <2>2. CASE b \notin RangeOf(head)
    BY <2>2 DEF RecoveredIs
  <2> QED BY <2>1, <2>2
<1>2. Recovered' = [b \in Block |-> Recovered'[b]] /\ Recovered = [b \in Block |-> Recovered[b]]
  BY DEF RecoveredIs
<1> QED BY <1>1, <1>2

\* A step the atomic disk does not see.
Still == Recovered' = Recovered /\ Seen' = Seen

LEMMA SameSeen ==
  ASSUME Recovered' = Recovered, mounted' = mounted,
         mounted => \A b \in Block : Bread(b)' = Bread(b)
  PROVE  Still
<1> DEFINE R == Recovered
<1>1. Seen = [b \in Block |-> IF mounted THEN Bread(b) ELSE R[b]]
  BY DEF Seen
<1>2. Seen' = [b \in Block |-> IF mounted' THEN Bread(b)' ELSE R'[b]]
  BY DEF Seen
<1>3. R' = R
  OBVIOUS
<1> HIDE DEF R
<1>4. Seen' = Seen
  BY <1>1, <1>2, <1>3
<1> QED BY <1>4 DEF Still

\* Before the commit point the header is empty, from then on it lists lg.lh.
LEMMA HeaderBefore ==
  ASSUME AdmissionInv, CrashInv, NEW p \in Proc, pc[p] \in CommitLabels \ BootLabels
  PROVE  mounted /\ head = <<>> /\ DOMAIN head = {} /\ RangeOf(head) = {}
<1>1. mounted /\ \A q \in Proc : pc[q] \notin BootLabels
  BY Others, MountedLabels DEF CommitLabels, BootLabels
<1>2. head = <<>>
  BY <1>1 DEF CrashInv, HeadInv
<1>3. DOMAIN <<>> = {}
  OBVIOUS
<1>4. DOMAIN head = {}
  BY <1>2, <1>3
<1> QED BY <1>1, <1>2, <1>4 DEF RangeOf

LEMMA HeaderDuring ==
  ASSUME AdmissionInv, CrashInv, NEW p \in Proc, pc[p] \in BootLabels
  PROVE  head = lh /\ RangeOf(head) = RangeOf(lh) /\ DOMAIN head = Pos
  BY DEF CrashInv, HeadInv, Pos

LEMMA PlainStill ==
  ASSUME PlainStep
  PROVE  Still
<1>1. Recovered' = Recovered
  BY DEF PlainStep, Recovered
<1>2. mounted' = mounted /\ \A b \in Block : Bread(b)' = Bread(b)
  BY DEF PlainStep, Bread
<1> QED BY <1>1, <1>2, SameSeen

\* Writing the log area changes nothing yet.
LEMMA LogStill ==
  ASSUME AdmissionInv, CrashInv, RecoveredIs, RecoveredIs', NEW p \in Proc,
         pc[p] \in CommitLabels \ BootLabels, UNCHANGED <<head, mounted, cache, disk>>
  PROVE  Still
<1>1. Recovered' = Recovered
  BY HeaderBefore, SameRecovered
<1>2. \A b \in Block : Bread(b)' = Bread(b)
  BY DEF Bread
<1> QED BY <1>1, <1>2, SameSeen

\* Installing changes only home blocks the header lists and the cache holds.
LEMMA InstallStill ==
  ASSUME AdmissionInv, CrashInv, RecoveredIs, RecoveredIs', NEW p \in Proc,
         pc[p] \in BootLabels, UNCHANGED <<head, mounted, logarea>>,
         \A b \in Block \ RangeOf(lh) : disk'[b] = disk[b],
         mounted => \A b \in Block : /\ cache'[b] = cache[b]
                                     /\ cache[b] = NoVal => disk'[b] = disk[b]
  PROVE  Still
<1>1. Recovered' = Recovered
  BY HeaderDuring, SameRecovered
<1>2. mounted => \A b \in Block : Bread(b)' = Bread(b)
  BY DEF Bread
<1> QED BY <1>1, <1>2, SameSeen

LEMMA InstallActionsStill ==
  ASSUME AdmissionInv, ContentInv, CrashInv, RecoveredIs, RecoveredIs', NEW p \in Proc,
         \/ InstallStaged(p) \/ InstallReadLog(p) \/ InstallUnstaged(p) \/ InstallCache(p)
         \/ InstallRun(p) \/ InstallRunFails(p) \/ InstallBlock(p) \/ InstallOne(p)
         \/ InstallDone(p)
  PROVE  Still
<1>1. LogAt(p) /\ KeptAt(p) /\ tail[p] \in Nat
  BY DEF CrashInv, StepInv, AdmissionInv, ControlTypeOK
<1>2. CASE \/ InstallStaged(p) \/ InstallReadLog(p) \/ InstallUnstaged(p)
           \/ InstallRunFails(p) \/ InstallDone(p)
  <2>1. pc[p] \in BootLabels /\ UNCHANGED <<head, mounted, logarea, disk, cache>>
    BY <1>2 DEF InstallStaged, InstallReadLog, InstallUnstaged, InstallRunFails, InstallDone,
                BootLabels, diskvars, cachevars
  <2> QED BY <2>1, InstallStill
<1>3. CASE InstallCache(p)
  <2>1. /\ pc[p] = "inst_cache" /\ UNCHANGED <<head, mounted, logarea, disk>>
        /\ tail[p] \in Nat
        /\ \A i \in tail[p] .. runend'[p] - 1 : i \in Pos /\ cache'[lh[i]] = stage[i]
        /\ \A b \in Block : b \notin {lh[i] : i \in tail[p] .. runend'[p] - 1}
                              => cache'[b] = cache[b]
    BY <1>3, InstallCacheFacts
  <2>2. \A i \in tail[p] .. runend'[p] - 1 : i >= tail[p]
    OBVIOUS
  <2>3. mounted => \A i \in tail[p] .. runend'[p] - 1 : cache'[lh[i]] = cache[lh[i]]
    BY <1>1, <2>1, <2>2 DEF LogAt, KeptAt, Installing
  <2>4. mounted => \A b \in Block : cache'[b] = cache[b]
    BY <2>1, <2>3
  <2> QED BY <2>1, <2>4, InstallStill DEF BootLabels
<1>4. CASE InstallRun(p)
  <2> DEFINE Run == {lh[i] : i \in tail[p] .. runend[p] - 1}
  <2>1. /\ pc[p] = "inst_run" /\ UNCHANGED <<head, mounted, logarea, cache>>
        /\ \A b \in Block : b \notin Run => disk'[b] = disk[b]
    BY <1>4, InstallRunFacts
  <2>2. \A i \in tail[p] .. runend[p] - 1 : i \in Pos /\ cache[lh[i]] = logarea[i]
    BY <1>1, <2>1, RunFacts DEF KeptAt
  <2>3. \A b \in Run : cache[b] # NoVal /\ b \in RangeOf(lh)
    BY <2>2, Positions, LogAssumption DEF ContentInv, ContentTypeOK
  <2> HIDE DEF Run
  <2> QED BY <2>1, <2>3, InstallStill DEF BootLabels
<1>5. ASSUME tail[p] \in Pos, pc[p] \in BootLabels, UNCHANGED <<head, mounted, logarea>>,
             mounted => cache[lh[tail[p]]] = logarea[tail[p]],
             cache' = [cache EXCEPT ![lh[tail[p]]] = logarea[tail[p]]],
             disk' = [disk EXCEPT ![lh[tail[p]]] = logarea[tail[p]]]
      PROVE  Still
  <2> DEFINE b == lh[tail[p]]
  <2>1. /\ b \in Block /\ b \in RangeOf(lh) /\ logarea[tail[p]] # NoVal
        /\ cache \in [Block -> Val \cup {NoVal}] /\ disk \in [Block -> Val]
    BY <1>5, Positions, LogAssumption DEF ContentInv, ContentTypeOK
  <2>2. \A c \in Block : c # b => disk'[c] = disk[c] /\ cache'[c] = cache[c]
    BY <1>5, <2>1
  <2>3. mounted => cache'[b] = cache[b] /\ cache[b] # NoVal
    BY <1>5, <2>1
  <2> HIDE DEF b
  <2> QED BY <1>5, <2>1, <2>2, <2>3, InstallStill
<1>6. CASE InstallBlock(p)
  <2>1. tail[p] \in tail[p] .. runend[p] - 1 /\ pc[p] = "inst_blk"
    BY <1>6, InstallBlockFacts, RunFacts
  <2>2. cache[lh[tail[p]]] = logarea[tail[p]]
    BY <1>1, <2>1 DEF KeptAt
  <2>3. tail[p] \in Pos /\ tail[p] \in Slot
    BY <1>6, InstallBlockFacts, Positions
  <2>4. logarea[tail[p]] # NoVal
    BY <2>3, LogAssumption DEF ContentInv, ContentTypeOK
  <2>5. Bread(lh[tail[p]]) = logarea[tail[p]]
    BY <2>2, <2>4 DEF Bread
  <2> QED BY <1>5, <1>6, <2>2, <2>5, InstallBlockFacts DEF BootLabels
<1>7. CASE InstallOne(p)
  <2>1. pc[p] = "inst_one" /\ tail[p] \in Pos /\ tail[p] >= tail[p]
    BY <1>1, <1>7, InstallOneFacts
  <2>2. mounted => cache[lh[tail[p]]] = logarea[tail[p]]
    BY <1>1, <2>1 DEF KeptAt, Installing
  <2> QED BY <1>5, <1>7, <2>2, InstallOneFacts DEF BootLabels
<1> QED BY <1>2, <1>3, <1>4, <1>6, <1>7

\* Emptying the header changes nothing: the listed blocks are home.  At the end of
\* recovery the tasks see what was recovered.
LEMMA ClearHeadStill ==
  ASSUME AdmissionInv, ContentInv, CrashInv, RecoveredIs, RecoveredIs', NEW p \in Proc,
         ClearHead(p)
  PROVE  Still
<1>1. /\ pc[p] = "clear" /\ UNCHANGED <<disk, logarea, cache>>
      /\ mounted' /\ RangeOf(head') = {}
  BY ClearHeadFacts
<1>2. /\ \A i \in Pos : disk[lh[i]] = logarea[i]
      /\ \A b \in Block : cache[b] # NoVal => cache[b] = disk[b]
  BY <1>1, Installed
<1>3. /\ head = lh /\ DOMAIN head = Pos /\ RangeOf(head) = RangeOf(lh)
  BY <1>1, HeaderDuring DEF BootLabels
<1>4. \A b \in Block : Recovered[b] = disk[b]
  <2>1. \A b \in RangeOf(lh) : Recovered[b] = disk[b]
    <3>1. \A i \in Pos : Recovered[lh[i]] = disk[lh[i]]
      BY <1>2, <1>3 DEF RecoveredIs
    <3> QED BY <3>1, Positions
  <2> QED BY <1>3, <2>1 DEF RecoveredIs
<1>5. \A b \in Block : Recovered'[b] = disk[b]
  BY <1>1 DEF RecoveredIs
<1>6. Recovered' = Recovered
  <2>1. Recovered' = [b \in Block |-> Recovered'[b]] /\ Recovered = [b \in Block |-> Recovered[b]]
    BY DEF RecoveredIs
  <2> QED BY <1>4, <1>5, <2>1
<1>7. \A b \in Block : Bread(b) = disk[b] /\ Bread(b)' = disk[b]
  BY <1>1, <1>2 DEF Bread
<1>8. Seen' = Seen
  <2> DEFINE R == Recovered
  <2>1. Seen = [b \in Block |-> IF mounted THEN Bread(b) ELSE R[b]]
    BY DEF Seen
  <2>2. Seen' = [b \in Block |-> IF mounted' THEN Bread(b)' ELSE R'[b]]
    BY DEF Seen
  <2>3. \A b \in Block : R[b] = disk[b]
    BY <1>4
  <2> HIDE DEF R
  <2> QED BY <1>1, <1>7, <2>1, <2>2, <2>3
<1> QED BY <1>6, <1>8 DEF Still

LEMMA DeviceStill ==
  ASSUME AdmissionInv, ContentInv, CrashInv, RecoveredIs, RecoveredIs', NEW p \in Proc,
         DeviceWrites(p)
  PROVE  Still
<1>1. UNCHANGED <<lh, head, cache, tail, runend, mounted, pc>>
  BY DeviceFacts
<1>2. CASE \E i \in LogInFlight(p) : disk' = disk
  <2>1. pc[p] \in CommitLabels \ BootLabels
    BY <1>2 DEF LogInFlight, CommitLabels, BootLabels
  <2> QED BY <1>1, <1>2, <2>1, LogStill
<1>3. ASSUME NEW k \in Pos, NEW v \in Val, lh[k] \in HomeInFlight(p), lh[k] \in Block,
             disk' = [disk EXCEPT ![lh[k]] = v], logarea' = logarea
      PROVE  Still
  <2>1. pc[p] \in Installing /\ tail[p] \in Nat /\ k \in Nat
    BY <1>3, Positions DEF HomeInFlight, Installing, AdmissionInv, ControlTypeOK
  <2>2. k >= tail[p]
    <3>1. CASE pc[p] = "inst_run"
      <4>1. PICK i \in tail[p] .. runend[p] - 1 : lh[i] = lh[k]
        BY <1>3, <3>1 DEF HomeInFlight
      <4>2. i \in Pos
        BY <3>1, RunFacts
      <4> QED BY <2>1, <4>1, <4>2, OnePosition, Positions
    <3>2. CASE pc[p] # "inst_run"
      <4>1. PICK i \in {tail[p]} \cap DOMAIN lh : lh[i] = lh[k]
        BY <1>3, <2>1, <3>2 DEF HomeInFlight, Installing
      <4> QED BY <2>1, <4>1, OnePosition, Positions DEF Pos
    <3> QED BY <3>1, <3>2
  <2>3. mounted => cache[lh[k]] # NoVal
    BY <2>1, <2>2, StillNeeded, LogAssumption
  <2>4. lh[k] \in RangeOf(lh) /\ \A b \in Block : b # lh[k] => disk'[b] = disk[b]
    BY <1>3, Positions DEF ContentInv, ContentTypeOK
  <2> QED BY <1>1, <1>3, <2>1, <2>3, <2>4, InstallStill DEF Installing, BootLabels
<1> QED BY <1>2, <1>3, DeviceFacts

\* Reading a block into the cache, or forgetting a clean copy.
LEMMA BufferStill ==
  ASSUME EvictUnwritten = FALSE, AdmissionInv, ContentInv, CrashInv, RecoveredIs,
         RecoveredIs', NEW b \in Block, ReadBlock(b) \/ RecycleBuffer(b)
  PROVE  Still
<1>1. /\ UNCHANGED <<disk, logarea, head, mounted>> /\ mounted
      /\ cache \in [Block -> Val \cup {NoVal}] /\ disk \in [Block -> Val]
  BY DEF ReadBlock, RecycleBuffer, diskvars, ContentInv, ContentTypeOK
<1>2. Recovered' = Recovered
  BY <1>1, SameRecovered
<1>3. Bread(b)' = Bread(b) /\ \A c \in Block : c # b => Bread(c)' = Bread(c)
  <2>1. CASE ReadBlock(b)
    <3>1. cache[b] = NoVal /\ cache' = [cache EXCEPT ![b] = disk[b]]
      BY <2>1 DEF ReadBlock
    <3> QED BY <1>1, <3>1 DEF Bread
  <2>2. CASE RecycleBuffer(b)
    <3>1. cache[b] # NoVal /\ cache' = [cache EXCEPT ![b] = NoVal]
      BY <2>2 DEF RecycleBuffer
    <3>2. b \notin pinned \cup Unwritten
      BY <2>2 DEF RecycleBuffer
    <3>3. cache[b] = disk[b]
      <4>1. CASE b \notin RangeOf(lh)
        BY <3>1, <4>1 DEF CrashInv, AgreeInv
      <4>2. CASE b \in RangeOf(lh)
        <5>1. PICK i \in Pos : lh[i] = b
          BY <4>2, Positions
        <5>2. PICK p \in Proc : pc[p] \in BootLabels
          BY <1>1, <3>2, <4>2 DEF ContentInv, PinInv
        <5>3. pc[p] # "inst" /\ (pc[p] \in Installing => ~(i >= tail[p]))
          BY <1>1, <3>2, <5>1, StillNeeded
        <5>4. tail[p] \in Nat /\ i \in Nat
          BY Positions DEF AdmissionInv, ControlTypeOK
        <5>5. HomeAt(p)
          BY DEF CrashInv, StepInv
        <5> QED BY <3>1, <5>1, <5>2, <5>3, <5>4, <5>5 DEF HomeAt, BootLabels, Installing
      <4> QED BY <4>1, <4>2
    <3> QED BY <1>1, <3>1, <3>3 DEF Bread
  <2> QED BY <2>1, <2>2
<1> QED BY <1>1, <1>2, <1>3, SameSeen

\* The tasks inside begin_op .. end_op
Open == {p \in Proc : pc[p] = "op"}

\* Before the first crash or after it, tasks see what is recovered.
LEMMA SeenUnmounted == RecoveredIs /\ ~mounted => Seen = Recovered
<1> SUFFICES ASSUME RecoveredIs, ~mounted PROVE Seen = Recovered
  OBVIOUS
<1> DEFINE R == Recovered
<1>1. Seen = [b \in Block |-> IF mounted THEN Bread(b) ELSE R[b]]
  BY DEF Seen
<1>2. R = [b \in Block |-> R[b]]
  BY DEF RecoveredIs
<1> HIDE DEF R
<1>3. Seen = R
  BY <1>1, <1>2
<1> QED BY <1>3 DEF R

LEMMA WriteHeadCommits ==
  ASSUME AdmissionInv, ContentInv, CrashInv, RecoveredIs, RecoveredIs', NEW p \in Proc,
         WriteHead(p)
  PROVE  Open = {} /\ Open' = {} /\ Recovered' = Seen /\ Seen' = Seen
<1>1. /\ pc[p] = "head" /\ MovesTo(p, "inst") /\ head' = lh
      /\ UNCHANGED <<mounted, cache, disk, logarea>>
  BY CommitGoto DEF WriteHead, CommitLabels, cachevars
<1>2. Open = {} /\ Open' = {}
  BY <1>1 DEF Open, MovesTo, AdmissionInv, Control, CommitLabels
<1>3. mounted
  BY <1>1, MountedLabels DEF BootLabels
<1>4. \A i \in Pos : logarea[i] = cache[lh[i]] /\ logarea[i] \in Val
  BY <1>1, Positions DEF CrashInv, StepInv, LogAt, ContentInv, ContentTypeOK
<1>5. \A b \in Block : Recovered'[b] = Bread(b)
  <2>1. \A i \in Pos : Recovered'[lh[i]] = cache[lh[i]] /\ cache[lh[i]] # NoVal
    BY <1>1, <1>4, LogAssumption DEF RecoveredIs, Pos
  <2>2. \A b \in RangeOf(lh) : Recovered'[b] = Bread(b)
    BY <2>1, Positions DEF Bread
  <2>3. \A b \in Block \ RangeOf(lh) : Recovered'[b] = disk[b] /\ Bread(b) = disk[b]
    BY <1>1 DEF RecoveredIs, Bread, CrashInv, AgreeInv
  <2> QED BY <2>2, <2>3
<1>6. Seen = [b \in Block |-> Bread(b)] /\ Seen' = [b \in Block |-> Bread(b)]
  <2>1. \A b \in Block : Bread(b)' = Bread(b)
    BY <1>1 DEF Bread
  <2>2. mounted /\ mounted'
    BY <1>1, <1>3
  <2> QED BY <2>1, <2>2 DEF Seen
<1>7. Recovered' = [b \in Block |-> Recovered'[b]]
  BY DEF RecoveredIs
<1> QED BY <1>2, <1>5, <1>6, <1>7

LEMMA LogWriteWrites ==
  ASSUME AdmissionInv, ContentInv, CrashInv, RecoveredIs, RecoveredIs', NEW p \in Proc,
         NEW b \in Block, NEW v \in Val, LogWrite(p, b, v)
  PROVE  p \in Open /\ Open' = Open /\ Recovered' = Recovered /\ Seen' = [Seen EXCEPT ![b] = v]
<1>1. /\ pc[p] = "op" /\ pc' = pc /\ UNCHANGED <<mounted, disk, logarea, head>>
      /\ cache' = [cache EXCEPT ![b] = v] /\ cache \in [Block -> Val \cup {NoVal}]
  BY DEF LogWrite, diskvars, ContentInv, ContentTypeOK
<1>2. Recovered' = Recovered
  BY <1>1, SameRecovered
<1>3. mounted
  BY <1>1, MountedLabels DEF BootLabels
<1>4. Bread(b)' = v /\ \A c \in Block : c # b => Bread(c)' = Bread(c)
  BY <1>1, LogAssumption DEF Bread
<1>5. Seen = [c \in Block |-> Bread(c)] /\ Seen' = [c \in Block |-> Bread(c)']
  BY <1>1, <1>3 DEF Seen
<1>6. Seen' = [Seen EXCEPT ![b] = v]
  BY <1>4, <1>5
<1> QED BY <1>1, <1>2, <1>6 DEF Open

LEMMA OpenKept ==
  ASSUME \A q \in Proc : pc'[q] # pc[q] => pc[q] # "op" /\ pc'[q] # "op"
  PROVE  Open' = Open
  BY DEF Open

\* begin_op, end_op, sync(2) and the ends of a commit, as the atomic disk sees them.
LEMMA PlainMaps ==
  ASSUME AdmissionInv, NEW p \in Proc,
         \/ BeginOp(p) \/ Admit(p) \/ BeginCommit(p) \/ BeginWait(p) \/ WaitCheck(p)
         \/ EndOp(p) \/ EndWake(p) \/ FlushCommit(p) \/ FlushSkip(p) \/ FlushReturn(p)
         \/ Uncommit(p) \/ CommitWake(p)
  PROVE  /\ Still
         /\ \/ Open' = Open
            \/ p \notin Open /\ Open' = Open \cup {p}
            \/ p \in Open /\ Open' = Open \ {p}
<1>1. Still
  BY PlainActions, PlainStill
<1>2. pc \in [Proc -> Labels]
  BY DEF AdmissionInv, ControlTypeOK
<1>3. CASE Admit(p)
  BY <1>1, <1>2, <1>3 DEF Admit, Goto, Open
<1>4. CASE EndOp(p)
  BY <1>1, <1>2, <1>4 DEF EndOp, Goto, Open
<1>5. CASE \/ BeginOp(p) \/ BeginCommit(p) \/ BeginWait(p) \/ WaitCheck(p) \/ FlushCommit(p)
           \/ FlushSkip(p) \/ FlushReturn(p) \/ Uncommit(p)
  <2>1. \A q \in Proc : pc'[q] # pc[q] => pc[q] # "op" /\ pc'[q] # "op"
    BY <1>2, <1>5 DEF BeginOp, BeginCommit, BeginWait, WaitCheck, FlushCommit, FlushSkip,
                      FlushReturn, Uncommit, Goto
  <2> QED BY <1>1, <2>1, OpenKept
<1>6. CASE EndWake(p) \/ CommitWake(p)
  <2>1. \A q \in Proc : pc'[q] # pc[q] => pc[q] # "op" /\ pc'[q] # "op"
    BY <1>2, <1>6 DEF EndWake, CommitWake, WakeAllAnd
  <2> QED BY <1>1, <2>1, OpenKept
<1> QED BY <1>3, <1>4, <1>5, <1>6

\* The steps of commit() other than the commit point are invisible.
LEMMA CommitMaps ==
  ASSUME AdmissionInv, ContentInv, CrashInv, RecoveredIs, RecoveredIs', NEW p \in Proc,
         CommitStep(p), ~WriteHead(p), ~Uncommit(p), ~CommitWake(p)
  PROVE  Still /\ Open' = Open
<1>1. CASE Gather(p) \/ WriteLogRun(p) \/ WriteLogRunFails(p) \/ WriteLogBlock(p)
  <2>1. /\ pc[p] \in CommitLabels \ BootLabels
        /\ UNCHANGED <<head, mounted, cache, disk>>
    BY <1>1 DEF Gather, WriteLogRun, WriteLogRunFails, WriteLogBlock, cachevars, diskvars,
                CommitLabels, BootLabels
  <2>2. \E l \in Labels \ {"op"} : Goto(p, l)
    BY <1>1 DEF Gather, WriteLogRun, WriteLogRunFails, WriteLogBlock, Labels
  <2>3. \A q \in Proc : pc'[q] # pc[q] => pc[q] # "op" /\ pc'[q] # "op"
    <3>1. PICK l \in Labels \ {"op"} : Goto(p, l)
      BY <2>2
    <3>2. MovesTo(p, l)
      BY <2>1, <3>1, CommitGoto
    <3> QED BY <2>1, <3>1, <3>2 DEF MovesTo, CommitLabels
  <2> QED BY <2>1, <2>3, LogStill, OpenKept
<1>2. CASE \/ InstallStaged(p) \/ InstallReadLog(p) \/ InstallUnstaged(p) \/ InstallCache(p)
           \/ InstallRun(p) \/ InstallRunFails(p) \/ InstallBlock(p) \/ InstallDone(p)
  <2>1. pc[p] \in CommitLabels /\ \E l \in Labels \ {"op"} : Goto(p, l)
    BY <1>2 DEF InstallStaged, InstallReadLog, InstallUnstaged, InstallCache, InstallRun,
                InstallRunFails, InstallBlock, InstallDone, Start, Labels, CommitLabels
  <2>2. \A q \in Proc : pc'[q] # pc[q] => pc[q] # "op" /\ pc'[q] # "op"
    <3>1. PICK l \in Labels \ {"op"} : Goto(p, l)
      BY <2>1
    <3>2. MovesTo(p, l)
      BY <2>1, <3>1, CommitGoto
    <3> QED BY <2>1, <3>1, <3>2 DEF MovesTo, CommitLabels
  <2> QED BY <1>2, <2>2, InstallActionsStill, OpenKept
<1>3. CASE InstallOne(p)
  BY <1>3, InstallActionsStill, Zenon DEF InstallOne, Open
<1>4. CASE ClearHead(p)
  <2>1. \A q \in Proc : pc[q] # "op"
    BY <1>4, ClearHeadFacts DEF AdmissionInv, Control, CommitLabels
  <2>2. \A q \in Proc : pc'[q] # "op"
    BY <1>4, <2>1 DEF ClearHead, Goto, AdmissionInv, ControlTypeOK
  <2> QED BY <1>4, <2>1, <2>2, ClearHeadStill, OpenKept
<1> QED BY <1>1, <1>2, <1>3, <1>4 DEF CommitStep

LEMMA QuietMaps ==
  ASSUME EvictUnwritten = FALSE, AdmissionInv, ContentInv, CrashInv, RecoveredIs,
         RecoveredIs',
         \/ \E p \in Proc : DeviceWrites(p)
         \/ \E b \in Block : ReadBlock(b) \/ RecycleBuffer(b)
  PROVE  Still /\ Open' = Open
<1>1. Still
  BY DeviceStill, BufferStill, Zenon
<1>2. pc' = pc
  BY DEF DeviceWrites, ReadBlock, RecycleBuffer
<1> QED BY <1>1, <1>2 DEF Open

LEMMA PowerMaps ==
  ASSUME AdmissionInv, RecoveredIs, RecoveredIs'
  PROVE  /\ Crash => Recovered' = Recovered /\ Seen' = Recovered /\ Open' = {}
         /\ \A p \in Proc : Mount(p) => Still /\ Open' = Open
<1>1. (RecoveredIs /\ ~mounted => Seen = Recovered)'
  BY SeenUnmounted, PTL
<1>2. ASSUME Crash PROVE Recovered' = Recovered /\ Seen' = Recovered /\ Open' = {}
  <2>1. Recovered' = Recovered
    BY <1>2, CrashFacts, SameRecovered
  <2> QED BY <1>1, <1>2, <2>1, CrashFacts DEF Open
<1>3. ASSUME NEW p \in Proc, Mount(p) PROVE Still /\ Open' = Open
  <2>1. Recovered' = Recovered
    BY <1>3, MountFacts, SameRecovered
  <2>2. Open' = Open
    BY <1>3, MountFacts DEF Open
  <2>3. mounted' = mounted /\ ~mounted
    BY <1>3, MountFacts, Zenon DEF Mount
  <2> QED BY <2>1, <2>2, <2>3, SameSeen
<1> QED BY <1>2, <1>3

\* Every step of the journal is a step of the atomic disk, or invisible.
LEMMA StepMaps ==
  ASSUME EvictUnwritten = FALSE, AdmissionInv, ContentInv, CrashInv, RecoveredIs,
         RecoveredIs', [Next]_vars
  PROVE  [AD!Next]_(AD!vars)
<1>1. Still /\ Open' = Open => UNCHANGED AD!vars
  BY DEF Still, Open, AD!vars
<1>2. ASSUME NEW p \in Proc,
             \/ BeginOp(p) \/ Admit(p) \/ BeginCommit(p) \/ BeginWait(p) \/ WaitCheck(p)
             \/ EndOp(p) \/ EndWake(p) \/ FlushCommit(p) \/ FlushSkip(p) \/ FlushReturn(p)
             \/ Uncommit(p) \/ CommitWake(p)
      PROVE  [AD!Next]_(AD!vars)
  <2>1. CASE Open' = Open
    BY <1>1, <1>2, <2>1, PlainMaps
  <2>2. CASE p \notin Open /\ Open' = Open \cup {p}
    <3>1. AD!Begin(p)
      BY <1>2, <2>2, PlainMaps DEF AD!Begin, Still, Open
    <3> QED BY <3>1 DEF AD!Next
  <2>3. CASE p \in Open /\ Open' = Open \ {p}
    <3>1. AD!End(p)
      BY <1>2, <2>3, PlainMaps DEF AD!End, Still, Open
    <3> QED BY <3>1 DEF AD!Next
  <2> QED BY <1>2, <2>1, <2>2, <2>3, PlainMaps
<1>3. ASSUME NEW p \in Proc, CommitStep(p) PROVE [AD!Next]_(AD!vars)
  <2>1. CASE WriteHead(p)
    <3>1. AD!Commit
      BY <2>1, WriteHeadCommits DEF AD!Commit, Open
    <3> QED BY <3>1 DEF AD!Next
  <2> QED BY <1>1, <1>2, <1>3, <2>1, CommitMaps
<1>4. ASSUME NEW p \in Proc, NEW b \in Block, NEW v \in Val, LogWrite(p, b, v)
      PROVE  [AD!Next]_(AD!vars)
  <2>1. AD!Write(p, b, v)
    BY <1>4, LogWriteWrites DEF AD!Write, Open
  <2> QED BY <2>1 DEF AD!Next
<1>5. CASE Crash
  <2>1. AD!Crash
    BY <1>5, PowerMaps DEF AD!Crash, Open
  <2> QED BY <2>1 DEF AD!Next
<1>6. CASE \/ \E p \in Proc : Mount(p) \/ DeviceWrites(p)
           \/ \E b \in Block : ReadBlock(b) \/ RecycleBuffer(b)
  BY <1>1, <1>6, PowerMaps, QuietMaps, Zenon
<1>7. CASE UNCHANGED vars
  <2>1. PlainStep /\ Open' = Open
    BY <1>7 DEF PlainStep, vars, logvars, stagevars, diskvars, cachevars, instvars, Open
  <2> QED BY <1>1, <2>1, PlainStill
<1> QED BY <1>2, <1>3, <1>4, <1>5, <1>6, <1>7 DEF Next, Running, TaskStep

LEMMA InitMaps == Init => AD!Init
<1> SUFFICES ASSUME Init PROVE AD!Init
  OBVIOUS
<1>1. /\ disk \in [Block -> Val] /\ head = <<>> /\ ~mounted
      /\ \A p \in Proc : pc[p] = "down"
  BY DEF Init, PowerOff
<1>2. DOMAIN <<>> = {}
  OBVIOUS
<1>3. RangeOf(head) = {}
  BY <1>1, <1>2 DEF RangeOf
<1>4. Recovered = disk
  BY <1>1, <1>3 DEF Recovered
<1>5. Seen = disk
  <2>1. Seen = [b \in Block |-> disk[b]]
    BY <1>1, <1>4 DEF Seen
  <2> QED BY <1>1, <2>1
<1> QED BY <1>1, <1>4, <1>5 DEF AD!Init

\* The journal implements the crash-atomic disk: whatever a power failure
\* interrupts, the next mount finds the blocks as they were at a moment when no
\* operation was open, for every log size and any number of tasks and blocks.
THEOREM JournalIsAtomic ==
  ASSUME EvictUnwritten = FALSE
  PROVE  Spec => CrashAtomic
<1>1. AdmissionInv /\ CrashInv => RecoveredIs
  BY RecoveredFacts
<1>2. /\ AdmissionInv /\ ContentInv /\ CrashInv /\ RecoveredIs /\ RecoveredIs'
      /\ [Next]_vars
      => [AD!Next]_(AD!vars)
  BY StepMaps, Zenon
<1>3. Spec => AD!Spec
  BY <1>1, <1>2, InitMaps, AdmissionInvariant, ContentInvariant, CrashInvariant, PTL
     DEF Spec, AD!Spec
<1> QED BY <1>3 DEF CrashAtomic
=============================================================================
