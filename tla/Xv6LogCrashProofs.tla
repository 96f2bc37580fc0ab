------------------------- MODULE Xv6LogCrashProofs --------------------------
(***************************************************************************)
(* Proof that cache, log and disk agree at every step (Xv6Log), for any    *)
(* number of tasks and blocks and any log size, provided no buffer is      *)
(* recycled in the window between its unpinning and its write              *)
(* (EvictUnwritten = FALSE).                                               *)
(***************************************************************************)
EXTENDS Xv6LogCommitProofs

\* The provers of the steps below that name none, and their time limits.
USE SMTT(15), Z3T(15), ZenonT(20)

(* install_trans, block by block, and the clearing of the header           *)

\* One position's block is written home with what was logged for it, whether it
\* comes from the cache (a failed run) or from the log.
LEMMA OneHome ==
  ASSUME AdmissionInv, ContentInv, CrashInv, NEW p \in Proc, pc[p] \in Installing,
         tail[p] \in Pos,
         cache' = [cache EXCEPT ![lh[tail[p]]] = logarea[tail[p]]],
         disk' = [disk EXCEPT ![lh[tail[p]]] = logarea[tail[p]]]
  PROVE  /\ \A i \in Pos : i < tail[p] + 1 => /\ disk'[lh[i]] = logarea[i]
                                             /\ cache'[lh[i]] \in {NoVal, logarea[i]}
         /\ \A i \in Pos : cache[lh[i]] = logarea[i] => cache'[lh[i]] = logarea[i]
         /\ lh' = lh => AgreeInv'
<1> DEFINE b == lh[tail[p]]
<1>1. cache \in [Block -> Val \cup {NoVal}] /\ disk \in [Block -> Val] /\ b \in Block
  BY Positions DEF ContentInv, ContentTypeOK
<1>2. \A i \in Pos : i # tail[p] => lh[i] # b
  BY OnePosition
<1>3. \A i \in Pos : i # tail[p] => cache'[lh[i]] = cache[lh[i]] /\ disk'[lh[i]] = disk[lh[i]]
  BY <1>1, <1>2, Positions
<1>4. cache'[b] = logarea[tail[p]] /\ disk'[b] = logarea[tail[p]]
  BY <1>1
<1>5. \A i \in Pos : i < tail[p] => /\ disk[lh[i]] = logarea[i]
                                    /\ cache[lh[i]] \in {NoVal, logarea[i]}
  BY DEF CrashInv, StepInv, HomeAt
<1>6. lh' = lh => AgreeInv'
  <2>1. b \in RangeOf(lh)
    BY Positions
  <2> QED BY <1>1, <2>1, AgreeKept
<1>7. \A i \in Pos : i < tail[p] + 1 => i < tail[p] \/ i = tail[p]
  BY Positions
<1> QED BY <1>3, <1>4, <1>5, <1>6, <1>7

LEMMA InstallBlockCrash ==
  ASSUME AdmissionInv, ContentInv, CrashInv, NEW p \in Proc, InstallBlock(p)
  PROVE  CrashInv'
<1> DEFINE t == tail[p]  e == runend[p]
           l == IF tail[p] + 1 = runend[p] THEN "inst_cache" ELSE "inst_blk"
<1>1. /\ pc[p] = "inst_blk" /\ MovesTo(p, l) /\ pc'[p] = l /\ Pos' = Pos
      /\ UNCHANGED <<lh, stage, stage_valid, logarea, head, mounted, pinned, runend>>
      /\ tail'[p] = t + 1 /\ tail[p] \in Pos
  BY InstallBlockFacts DEF MovesTo, Pos
<1>2. LogAt(p) /\ HomeAt(p) /\ KeptAt(p)
  BY DEF CrashInv, StepInv
<1>3. t \in Nat /\ e \in Nat /\ t < e /\ \A i \in t .. e - 1 : i \in Pos
  BY <1>1, RunFacts
<1>4. Bread(lh[t]) = logarea[t]
  <2>1. cache[lh[t]] = logarea[t]
    BY <1>1, <1>2, <1>3 DEF KeptAt
  <2>2. logarea[t] \in Val
    BY <1>1, Positions DEF ContentInv, ContentTypeOK
  <2> QED BY <2>1, <2>2, LogAssumption DEF Bread
<1>5. /\ \A i \in Pos : i < t + 1 => /\ disk'[lh[i]] = logarea[i]
                                     /\ cache'[lh[i]] \in {NoVal, logarea[i]}
      /\ \A i \in Pos : cache[lh[i]] = logarea[i] => cache'[lh[i]] = logarea[i]
      /\ AgreeInv'
  BY <1>1, <1>4, OneHome, InstallBlockFacts DEF Installing
<1> HIDE DEF t, e
<1>6. HeadInv'
  BY <1>1, HeadKept DEF CommitLabels, BootLabels
<1>7. LogAt(p)'
  BY <1>1, <1>2 DEF LogAt
<1>8. HomeAt(p)'
  BY <1>1, <1>5 DEF HomeAt
<1>9. KeptAt(p)'
  <2>1. mounted => \A i \in Pos : i >= t + 1 => cache'[lh[i]] = logarea[i]
    <3>1. mounted => \A i \in Pos : i >= t => cache[lh[i]] = logarea[i]
      BY <1>1, <1>2 DEF KeptAt, Installing, t
    <3> QED BY <1>3, <1>5, <3>1, Positions
  <2>2. mounted => \A i \in Pos : i >= e => lh[i] \in pinned
    BY <1>1, <1>2 DEF KeptAt, e
  <2>3. \A i \in t + 1 .. e - 1 : cache'[lh[i]] = logarea[i]
    BY <1>1, <1>2, <1>3, <1>5 DEF KeptAt, t, e
  <2> QED BY <1>1, <2>1, <2>2, <2>3 DEF KeptAt, Installing, t, e
<1> QED BY <1>1, <1>5, <1>6, <1>7, <1>8, <1>9, OnlyMover DEF CrashInv

LEMMA InstallOneCrash ==
  ASSUME AdmissionInv, ContentInv, CrashInv, NEW p \in Proc, InstallOne(p)
  PROVE  CrashInv'
<1> DEFINE t == tail[p]
<1>1. /\ pc[p] = "inst_one" /\ MovesTo(p, "inst_one") /\ pc'[p] = "inst_one" /\ Pos' = Pos
      /\ UNCHANGED <<lh, stage, stage_valid, logarea, head, mounted>>
      /\ tail'[p] = t + 1 /\ tail[p] \in Pos /\ pinned \subseteq pinned' \cup {lh[t]}
  BY InstallOneFacts DEF MovesTo, Pos
<1>2. HomeAt(p) /\ KeptAt(p)
  BY DEF CrashInv, StepInv
<1>3. t \in Nat
  BY <1>1, Positions
<1>4. /\ \A i \in Pos : i < t + 1 => /\ disk'[lh[i]] = logarea[i]
                                     /\ cache'[lh[i]] \in {NoVal, logarea[i]}
      /\ \A i \in Pos : cache[lh[i]] = logarea[i] => cache'[lh[i]] = logarea[i]
      /\ AgreeInv'
  BY <1>1, OneHome, InstallOneFacts DEF Installing
<1>5. HeadInv'
  BY <1>1, HeadKept DEF CommitLabels, BootLabels
<1>6. LogAt(p)'
  BY <1>1 DEF LogAt
<1>7. HomeAt(p)'
  BY <1>1, <1>4 DEF HomeAt
<1>8. KeptAt(p)'
  <2>1. mounted => \A i \in Pos : i >= t + 1 => i >= t /\ i # t
    BY <1>3, Positions
  <2>2. mounted => \A i \in Pos : i >= t => cache[lh[i]] = logarea[i] /\ lh[i] \in pinned
    BY <1>1, <1>2 DEF KeptAt, Installing
  <2>3. mounted => \A i \in Pos : i >= t + 1 => cache'[lh[i]] = logarea[i]
    BY <1>4, <2>1, <2>2
  <2>4. mounted => \A i \in Pos : i >= t + 1 => lh[i] \in pinned'
    BY <1>1, <2>1, <2>2, OnePosition
  <2> QED BY <1>1, <2>3, <2>4 DEF KeptAt
<1> QED BY <1>1, <1>4, <1>5, <1>6, <1>7, <1>8, OnlyMover DEF CrashInv

LEMMA InstallDoneCrash ==
  ASSUME AdmissionInv, ContentInv, CrashInv, NEW p \in Proc, InstallDone(p)
  PROVE  CrashInv'
<1>1. /\ pc[p] \in {"inst_cache", "inst_one"} /\ MovesTo(p, "clear") /\ pc'[p] = "clear"
      /\ UNCHANGED <<lh, disk, logarea, head, mounted, cache, pinned>> /\ Pos' = Pos
      /\ tail[p] > Len(lh)
  BY CommitGoto DEF InstallDone, CommitLabels, logvars, cachevars, diskvars, MovesTo, Pos
<1>2. HomeAt(p)
  BY DEF CrashInv, StepInv
<1>3. \A i \in Pos : i < tail[p]
  <2>1. tail[p] \in Nat
    BY DEF AdmissionInv, ControlTypeOK
  <2> QED BY <1>1, <2>1, Positions
<1>4. HeadInv'
  BY <1>1, HeadKept DEF CommitLabels, BootLabels
<1>5. LogAt(p)' /\ KeptAt(p)'
  BY <1>1 DEF LogAt, KeptAt, Installing
<1>6. HomeAt(p)'
  BY <1>1, <1>2, <1>3 DEF HomeAt, Installing
<1>7. AgreeInv'
  BY <1>1, AgreeKept
<1> QED BY <1>1, <1>4, <1>5, <1>6, <1>7, OnlyMover DEF CrashInv

\* When install_trans is done, every buffer agrees with the disk.
LEMMA Installed ==
  ASSUME AdmissionInv, CrashInv, NEW p \in Proc, pc[p] = "clear"
  PROVE  /\ \A i \in Pos : disk[lh[i]] = logarea[i]
         /\ \A b \in Block : cache[b] # NoVal => cache[b] = disk[b]
<1>1. \A i \in Pos : disk[lh[i]] = logarea[i] /\ cache[lh[i]] \in {NoVal, logarea[i]}
  BY DEF CrashInv, StepInv, HomeAt
<1>2. \A b \in RangeOf(lh) : cache[b] # NoVal => cache[b] = disk[b]
  BY <1>1, Positions
<1> QED BY <1>1, <1>2 DEF CrashInv, AgreeInv

LEMMA ClearHeadCrash ==
  ASSUME AdmissionInv, ContentInv, CrashInv, NEW p \in Proc, ClearHead(p)
  PROVE  CrashInv'
<1>1. StepInv'
  BY ClearHeadFacts, NoMover
<1>2. HeadInv'
  BY ClearHeadFacts DEF HeadInv, Injective
<1>3. AgreeInv'
  BY ClearHeadFacts, Installed DEF AgreeInv
<1> QED BY <1>1, <1>2, <1>3 DEF CrashInv
-----------------------------------------------------------------------------
(* Writers, readers, the device, power failure and mount                   *)

LEMMA LogWriteCrash ==
  ASSUME AdmissionInv, ContentInv, CrashInv, NEW p \in Proc, NEW b \in Block, NEW v \in Val,
         LogWrite(p, b, v)
  PROVE  CrashInv'
<1>1. /\ pc[p] = "op" /\ pc' = pc /\ mounted' = mounted /\ head' = head /\ disk' = disk
      /\ cache' = [cache EXCEPT ![b] = v] /\ lh \in Seq(Block)
  BY DEF LogWrite, diskvars, AdmissionInv, ControlTypeOK
<1>2. \A q \in Proc : pc[q] \notin CommitLabels
  BY <1>1 DEF AdmissionInv, Control
<1>3. \/ lh' = lh /\ b \in RangeOf(lh)
      \/ lh' = Append(lh, b) /\ b \notin RangeOf(lh)
  BY DEF LogWrite
<1>4. Injective(lh') /\ RangeOf(lh') = RangeOf(lh) \cup {b}
  <2>1. CASE lh' = lh
    BY <1>3, <2>1, AppendRange, <1>1 DEF CrashInv, HeadInv
  <2>2. CASE lh' = Append(lh, b) /\ b \notin RangeOf(lh)
    <3>1. /\ RangeOf(lh') = RangeOf(lh) \cup {b}
          /\ DOMAIN lh' = 1..(Len(lh) + 1) /\ DOMAIN lh = 1..Len(lh)
          /\ \A i \in 1..Len(lh) : lh'[i] = lh[i]
          /\ lh'[Len(lh) + 1] = b /\ Len(lh) \in Nat
      BY <1>1, <2>2, AppendRange
    <3>2. \A i \in 1..Len(lh) : lh[i] \in RangeOf(lh)
      BY <3>1 DEF RangeOf
    <3>3. \A i, j \in 1..Len(lh) : lh[i] = lh[j] => i = j
      BY <3>1, OnePosition DEF Pos
    <3>4. \A i, j \in 1..(Len(lh) + 1) : lh'[i] = lh'[j] => i = j
      BY <2>2, <3>1, <3>2, <3>3
    <3> QED BY <3>1, <3>4 DEF Injective
  <2> QED BY <1>3, <2>1, <2>2
<1>5. HeadInv'
  BY <1>1, <1>2, <1>4 DEF CrashInv, HeadInv, BootLabels, CommitLabels
<1>6. StepInv'
  BY <1>1, <1>2, NoMover
<1>7. AgreeInv'
  BY <1>1, <1>4 DEF CrashInv, AgreeInv, ContentInv, ContentTypeOK
<1> QED BY <1>5, <1>6, <1>7 DEF CrashInv

LEMMA SameHead ==
  ASSUME CrashInv, UNCHANGED <<lh, head, mounted, pc>>
  PROVE  HeadInv'
  BY DEF CrashInv, HeadInv

LEMMA DeviceLogCrash ==
  ASSUME AdmissionInv, ContentInv, CrashInv, NEW p \in Proc,
         NEW k \in LogInFlight(p), k \in Pos, NEW v \in Val,
         logarea' = [logarea EXCEPT ![k] = v],
         UNCHANGED <<disk, lh, stage, stage_valid, head, cache, pinned, tail, runend,
                     mounted, pc>>
  PROVE  CrashInv'
<1>1. /\ pc[p] \in {"log_run", "log_blk"}
      /\ pc[p] = "log_blk" => k = tail[p]
      /\ Pos' = Pos
  BY DEF LogInFlight, Pos
<1>2. LogAt(p)
  BY DEF CrashInv, StepInv
<1>3. \A i \in Pos : i # k => logarea'[i] = logarea[i]
  OBVIOUS
<1>4. \A i \in Pos : i < tail[p] => i # tail[p]
  BY Positions DEF AdmissionInv, ControlTypeOK
<1>5. LogAt(p)'
  BY <1>1, <1>2, <1>3, <1>4 DEF LogAt
<1>6. HomeAt(p)' /\ KeptAt(p)'
  BY <1>1 DEF HomeAt, KeptAt, Installing
<1>7. MovesTo(p, pc[p])
  BY <1>1, Others DEF MovesTo, CommitLabels
<1>8. AgreeInv'
  BY AgreeKept
<1> QED BY <1>5, <1>6, <1>7, <1>8, SameHead, OnlyMover DEF CrashInv

LEMMA DeviceHomeCrash ==
  ASSUME AdmissionInv, ContentInv, CrashInv, NEW p \in Proc,
         NEW k \in Pos, lh[k] \in HomeInFlight(p), NEW v \in Val,
         disk' = [disk EXCEPT ![lh[k]] = v],
         UNCHANGED <<logarea, lh, stage, stage_valid, head, cache, pinned, tail, runend,
                     mounted, pc>>
  PROVE  CrashInv'
<1>1. pc[p] \in {"inst_run", "inst_blk", "inst_one"} /\ Pos' = Pos
  BY DEF HomeInFlight, Pos
<1>2. LogAt(p) /\ HomeAt(p) /\ KeptAt(p)
  BY DEF CrashInv, StepInv
<1>3. tail[p] \in Nat
  BY DEF AdmissionInv, ControlTypeOK
<1>4. ~(k < tail[p])
  <2>1. CASE pc[p] = "inst_run"
    <3>1. PICK i \in tail[p] .. runend[p] - 1 : lh[i] = lh[k]
      BY <2>1 DEF HomeInFlight
    <3>2. i \in Pos
      BY <2>1, RunFacts
    <3> QED BY <1>3, <3>1, <3>2, OnePosition, Positions
  <2>2. CASE pc[p] # "inst_run"
    <3>1. PICK i \in {tail[p]} \cap DOMAIN lh : lh[i] = lh[k]
      BY <1>1, <2>2 DEF HomeInFlight
    <3> QED BY <1>3, <3>1, OnePosition, Positions DEF Pos
  <2> QED BY <2>1, <2>2
<1>5. \A i \in Pos : i # k => disk'[lh[i]] = disk[lh[i]]
  BY OnePosition, Positions
<1>6. LogAt(p)' /\ KeptAt(p)'
  BY <1>1, <1>2 DEF LogAt, KeptAt
<1>7. HomeAt(p)'
  BY <1>1, <1>2, <1>4, <1>5 DEF HomeAt, Installing
<1>8. MovesTo(p, pc[p])
  BY <1>1, Others DEF MovesTo, CommitLabels
<1>9. AgreeInv'
  <2>1. lh[k] \in RangeOf(lh)
    BY Positions
  <2> QED BY <2>1, AgreeKept DEF ContentInv, ContentTypeOK
<1> QED BY <1>6, <1>7, <1>8, <1>9, SameHead, OnlyMover DEF CrashInv

LEMMA DeviceCrash ==
  ASSUME AdmissionInv, ContentInv, CrashInv, NEW p \in Proc, DeviceWrites(p)
  PROVE  CrashInv'
  BY DeviceFacts, DeviceLogCrash, DeviceHomeCrash

\* The blocks whose buffers commit() still reads are pinned or unwritten.
LEMMA StillNeeded ==
  ASSUME AdmissionInv, ContentInv, CrashInv, mounted, NEW p \in Proc, NEW i \in Pos,
         \/ pc[p] \in {"log_run", "log_blk", "head", "inst"}
         \/ pc[p] \in Installing /\ i >= tail[p]
  PROVE  /\ lh[i] \in pinned \cup Unwritten
         /\ cache[lh[i]] \in Val
<1>1. LogAt(p) /\ KeptAt(p)
  BY DEF CrashInv, StepInv
<1>2. logarea[i] \in Val /\ lh[i] \in Block
  BY Positions DEF ContentInv, ContentTypeOK
<1>3. CASE pc[p] \in {"log_run", "log_blk", "head"}
  <2>1. \A q \in Proc : pc[q] \notin BootLabels
    BY <1>3, Others DEF CommitLabels, BootLabels
  <2>2. lh[i] \in pinned
    BY <2>1, Positions DEF ContentInv, PinInv
  <2> QED BY <2>2 DEF ContentInv, PinInv
<1>4. CASE pc[p] = "inst"
  BY <1>1, <1>4 DEF KeptAt, ContentInv, PinInv
<1>5. CASE pc[p] \in {"inst_cache", "inst_one"} /\ i >= tail[p]
  BY <1>1, <1>5 DEF KeptAt, ContentInv, PinInv
<1>6. CASE pc[p] \in {"inst_run", "inst_blk"} /\ i >= tail[p]
  <2>1. cache[lh[i]] \in Val
    BY <1>1, <1>2, <1>6 DEF KeptAt, Installing
  <2>2. CASE i >= runend[p]
    BY <1>1, <1>6, <2>1, <2>2 DEF KeptAt
  <2>3. CASE ~(i >= runend[p])
    <3>1. i \in tail[p] .. runend[p] - 1
      BY <1>6, <2>3, RunFacts, Positions
    <3> QED BY <1>6, <2>1, <3>1 DEF Unwritten
  <2> QED BY <2>2, <2>3
<1> QED BY <1>3, <1>4, <1>5, <1>6 DEF Installing

\* Reading a block into the cache, or recycling a buffer that is neither pinned
\* nor unwritten.
LEMMA BufferCrash ==
  ASSUME AdmissionInv, ContentInv, CrashInv, mounted, NEW b \in Block,
         NEW w \in {NoVal, disk[b]}, cache' = [cache EXCEPT ![b] = w],
         cache[b] = NoVal \/ b \notin pinned \cup Unwritten,
         UNCHANGED <<disk, logarea, lh, stage, stage_valid, head, pinned, tail, runend,
                     mounted, pc>>
  PROVE  CrashInv'
<1>1. cache \in [Block -> Val \cup {NoVal}]
  BY DEF ContentInv, ContentTypeOK
<1>2. AgreeInv'
  BY <1>1 DEF CrashInv, AgreeInv
<1>3. ASSUME NEW p \in Proc PROVE LogAt(p)' /\ HomeAt(p)' /\ KeptAt(p)'
  <2>1. LogAt(p) /\ HomeAt(p) /\ KeptAt(p) /\ Pos' = Pos
    BY DEF CrashInv, StepInv, Pos
  <2>2. \A i \in Pos : \/ pc[p] \in {"log_run", "log_blk", "head", "inst"}
                       \/ pc[p] \in Installing /\ i >= tail[p]
                       => cache'[lh[i]] = cache[lh[i]]
    <3> SUFFICES ASSUME NEW i \in Pos,
                        \/ pc[p] \in {"log_run", "log_blk", "head", "inst"}
                        \/ pc[p] \in Installing /\ i >= tail[p]
                 PROVE  cache'[lh[i]] = cache[lh[i]]
      OBVIOUS
    <3>1. lh[i] \in pinned \cup Unwritten /\ cache[lh[i]] \in Val /\ lh[i] \in Block
      BY StillNeeded, Positions
    <3> QED BY <1>1, <3>1, LogAssumption
  <2>3. LogAt(p)'
    BY <2>1, <2>2 DEF LogAt
  <2>4. HomeAt(p)'
    <3>1. \A i \in Pos : /\ disk[lh[i]] = logarea[i]
                         /\ cache[lh[i]] \in {NoVal, logarea[i]}
                         => cache'[lh[i]] \in {NoVal, logarea[i]}
      BY <1>1, Positions
    <3> QED BY <2>1, <3>1 DEF HomeAt
  <2>5. KeptAt(p)'
    <3>1. pc[p] \in {"inst_run", "inst_blk"} =>
            \A i \in tail[p] .. runend[p] - 1 : i \in Pos /\ i >= tail[p]
      BY RunFacts
    <3> QED BY <2>1, <2>2, <3>1 DEF KeptAt, Installing
  <2> QED BY <2>3, <2>4, <2>5
<1>4. StepInv'
  BY <1>3 DEF StepInv
<1> QED BY <1>2, <1>4, SameHead DEF CrashInv

LEMMA CacheCrash ==
  ASSUME EvictUnwritten = FALSE, AdmissionInv, ContentInv, CrashInv,
         NEW b \in Block, ReadBlock(b) \/ RecycleBuffer(b)
  PROVE  CrashInv'
<1>1. CASE ReadBlock(b)
  <2>1. /\ mounted /\ cache[b] = NoVal /\ cache' = [cache EXCEPT ![b] = disk[b]]
        /\ UNCHANGED <<disk, logarea, lh, stage, stage_valid, head, pinned, tail, runend,
                       mounted, pc>>
    BY <1>1 DEF ReadBlock, logvars, stagevars, diskvars, instvars
  <2> QED BY <2>1, BufferCrash, Zenon
<1>2. CASE RecycleBuffer(b)
  <2>1. /\ mounted /\ b \notin pinned \cup Unwritten
        /\ cache' = [cache EXCEPT ![b] = NoVal]
        /\ UNCHANGED <<disk, logarea, lh, stage, stage_valid, head, pinned, tail, runend,
                       mounted, pc>>
    BY <1>2 DEF RecycleBuffer, logvars, stagevars, diskvars, instvars
  <2> QED BY <2>1, BufferCrash, Zenon
<1> QED BY <1>1, <1>2

LEMMA PowerCrash ==
  ASSUME AdmissionInv, ContentInv, CrashInv, Crash \/ \E p \in Proc : Mount(p)
  PROVE  CrashInv'
<1>1. CASE Crash
  <2>1. HeadInv'
    BY <1>1, CrashFacts DEF CrashInv, HeadInv, Injective, BootLabels
  <2>2. StepInv'
    BY <1>1, CrashFacts, NoMover DEF CommitLabels
  <2>3. AgreeInv'
    BY <1>1, CrashFacts DEF AgreeInv
  <2> QED BY <2>1, <2>2, <2>3 DEF CrashInv
<1>2. ASSUME NEW p \in Proc, Mount(p) PROVE CrashInv'
  <2>1. HeadInv'
    BY <1>2, MountFacts DEF CrashInv, HeadInv
  <2>2. MovesTo(p, "inst") /\ ~mounted' /\ pc'[p] = "inst"
    BY <1>2, MountFacts DEF MovesTo, CommitLabels
  <2>3. LogAt(p)' /\ HomeAt(p)' /\ KeptAt(p)'
    BY <2>2 DEF LogAt, HomeAt, KeptAt, Installing
  <2>4. AgreeInv'
    <3>1. lh = <<>>
      BY <1>2, MountFacts DEF CrashInv, HeadInv
    <3>2. DOMAIN <<>> = {}
      OBVIOUS
    <3>3. RangeOf(lh) = {}
      BY <3>1, <3>2 DEF RangeOf
    <3> QED BY <1>2, <3>3, MountFacts DEF CrashInv, AgreeInv
  <2> QED BY <2>1, <2>2, <2>3, <2>4, OnlyMover DEF CrashInv
<1> QED BY <1>1, <1>2

LEMMA InitCrash == Init => CrashInv
<1> SUFFICES ASSUME Init PROVE CrashInv
  OBVIOUS
<1>1. /\ \A p \in Proc : pc[p] = "down"
      /\ lh = <<>> /\ head = <<>> /\ ~mounted
      /\ \A b \in Block : cache[b] = NoVal
  BY DEF Init, PowerOff
<1>2. DOMAIN <<>> = {}
  OBVIOUS
<1>3. HeadInv
  BY <1>1, <1>2 DEF HeadInv, Injective, BootLabels
<1>4. StepInv
  BY <1>1 DEF StepInv, LogAt, HomeAt, KeptAt, Installing
<1>5. AgreeInv
  BY <1>1 DEF AgreeInv
<1> QED BY <1>3, <1>4, <1>5 DEF CrashInv

LEMMA NextCrash ==
  ASSUME EvictUnwritten = FALSE, AdmissionInv, ContentInv, CrashInv, [Next]_vars
  PROVE  CrashInv'
<1>1. ASSUME NEW p \in Proc, CommitStep(p) PROVE CrashInv'
  <2>1. CASE Uncommit(p) \/ CommitWake(p)
    BY <2>1, PlainActions, PlainCrash
  <2> QED
    BY <1>1, <2>1, GatherCrash, WriteLogCrash, WriteHeadCrash, InstallStartCrash,
       InstallCacheCrash, InstallRunCrash, InstallRunFailsCrash, InstallBlockCrash,
       InstallOneCrash, InstallDoneCrash, ClearHeadCrash
       DEF CommitStep
<1>2. ASSUME NEW p \in Proc, TaskStep(p) PROVE CrashInv'
  BY <1>1, <1>2, PlainActions, PlainCrash DEF TaskStep
<1>3. ASSUME NEW p \in Proc, BeginOp(p) \/ FlushCommit(p) \/ FlushSkip(p) PROVE CrashInv'
  BY <1>3, PlainActions, PlainCrash
<1>4. CASE UNCHANGED vars
  BY <1>4, PlainCrash DEF PlainStep, vars, logvars, stagevars, diskvars, cachevars, instvars
<1> QED
  BY <1>2, <1>3, <1>4, LogWriteCrash, DeviceCrash, CacheCrash, PowerCrash, Zenon DEF Next, Running
-----------------------------------------------------------------------------
(* The invariant, and what follows from it at once                         *)

\* The crash invariant holds throughout, if no unwritten buffer is recycled.
THEOREM CrashInvariant ==
  ASSUME EvictUnwritten = FALSE
  PROVE  Spec => []CrashInv
<1>1. Init => CrashInv
  BY InitCrash
<1>2. AdmissionInv /\ ContentInv /\ CrashInv /\ [Next]_vars => CrashInv'
  BY NextCrash, Zenon
<1> QED BY <1>1, <1>2, AdmissionInvariant, ContentInvariant, PTL DEF Spec

\* Recycling a buffer whose block is not in the log loses nothing: it agrees with
\* the disk, as install_trans promises, whatever crashed or failed before.
THEOREM CacheAgreesAlways ==
  ASSUME EvictUnwritten = FALSE
  PROVE  Spec => []CacheAgrees
<1>1. CrashInv => CacheAgrees
  BY DEF CrashInv, AgreeInv, CacheAgrees
<1> QED BY <1>1, CrashInvariant, PTL
=============================================================================
