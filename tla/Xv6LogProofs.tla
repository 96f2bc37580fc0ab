---------------------------- MODULE Xv6LogProofs ----------------------------
(***************************************************************************)
(* Proofs about the admission control of the journal (Xv6Log), for any     *)
(* number of tasks, any log size and any blocks: lg.reserved is exact, a   *)
(* commit is alone, and the log never runs out of room under an admitted   *)
(* operation.                                                              *)
(***************************************************************************)
EXTENDS Xv6Log, FiniteSetTheorems, SequenceTheorems, TLAPS

\* The part of TypeOK that admission control and the steps of commit() keep by
\* themselves; the contents of blocks are the subject of Xv6LogCrashProofs.
ControlTypeOK ==
  /\ outstanding \in Nat /\ reserved \in Nat /\ committing \in BOOLEAN
  /\ lh \in Seq(Block) /\ Len(lh) <= LOGBLOCKS
  /\ head \in Seq(Block) /\ Len(head) <= LOGBLOCKS
  /\ mounted \in BOOLEAN /\ pc \in [Proc -> Labels]
  /\ need \in [Proc -> Nat] /\ used \in [Proc -> Nat]
  /\ caller \in [Proc -> {"begin", "flush", "boot"}]
  /\ tail \in [Proc -> Nat \ {0}] /\ runend \in [Proc -> Nat \ {0}]
  /\ unsynced \subseteq Proc

\* The steps of recovery, the only ones before the file system is mounted.
BootLabels == {"inst", "inst_cache", "inst_run", "inst_blk", "inst_one", "clear"}

\* Who may be where: before the mount one task recovers, after it one task
\* commits, with lg.committing set and no operation open.
Control ==
  \A p \in Proc :
    /\ ~mounted => pc[p] \in BootLabels \cup {"down"}
    /\ mounted => pc[p] # "down"
    /\ pc[p] \in CommitLabels =>
         /\ \A q \in Proc : pc[q] # "op"
         /\ \A q \in Proc \ {p} : pc[q] \notin CommitLabels
         /\ mounted => committing
         /\ mounted <=> caller[p] # "boot"

\* What a task declared: at least one block once it is in begin_op, at most the
\* whole log, and more than it has logged so far while its operation is open.
Declared ==
  \A p \in Proc :
    /\ need[p] <= LOGBLOCKS
    /\ pc[p] # "op" => used[p] = 0
    /\ pc[p] \in {"begin", "check", "asleep"} => need[p] >= 1
    /\ pc[p] \in CommitLabels \cup {"commit_wake"} /\ caller[p] = "begin" => need[p] >= 1
    /\ pc[p] = "op" => used[p] < need[p]

\* The part of the promised log space that is not yet used.
Unused == {c \in Proc \X Slot :
             pc[c[1]] = "op" /\ used[c[1]] < c[2] /\ c[2] <= need[c[1]]}

\* The blocks listed and the blocks still promised fit in the log together.
Budget == Len(lh) + Cardinality(Unused) <= LOGBLOCKS

AdmissionInv == ControlTypeOK /\ Control /\ Declared /\ ReservationExact /\ Budget
-----------------------------------------------------------------------------
(* Counting                                                                *)

\* The provers of the steps below that name none, and their time limits.
USE SMTT(15), Z3T(15), ZenonT(20)

\* k slots promised to one task are k pairs.
LEMMA PairsOfOne ==
  ASSUME NEW p, NEW k \in Nat
  PROVE  /\ IsFiniteSet({p} \X (1..k))
         /\ Cardinality({p} \X (1..k)) = k
<1>1. IsFiniteSet({p}) /\ Cardinality({p}) = 1
  BY FS_Singleton
<1>2. IsFiniteSet(1..k) /\ Cardinality(1..k) = k
  BY FS_Interval
<1> DEFINE S == {p}  T == 1..k
<1> HIDE DEF S, T
<1>3. /\ IsFiniteSet(S \X T)
      /\ Cardinality(S \X T) = Cardinality(S) * Cardinality(T)
  BY <1>1, <1>2, FS_Product, Zenon DEF S, T
<1>4. Cardinality(S) * Cardinality(T) = k
  BY <1>1, <1>2 DEF S, T
<1> QED BY <1>3, <1>4, Zenon DEF S, T

\* The sets that are counted are finite, and unused space is promised space.
LEMMA Counted ==
  /\ IsFiniteSet({p \in Proc : pc[p] = "op"})
  /\ IsFiniteSet(Claims) /\ IsFiniteSet(Unused)
  /\ Cardinality(Claims) \in Nat /\ Cardinality(Unused) \in Nat
  /\ Cardinality(Unused) <= Cardinality(Claims)
  /\ Cardinality({p \in Proc : pc[p] = "op"}) \in Nat
<1>1. IsFiniteSet(Proc \X Slot)
  <2>1. IsFiniteSet(Slot) /\ IsFiniteSet(Proc)
    BY LogAssumption, FS_Interval DEF Slot
  <2> QED BY <2>1, FS_Product, Zenon
<1>2. Claims \in SUBSET (Proc \X Slot) /\ Unused \in SUBSET Claims
  BY DEF Claims, Unused
<1>3. IsFiniteSet(Claims)
  BY <1>1, <1>2, FS_Subset
<1>4. IsFiniteSet(Unused) /\ Cardinality(Unused) <= Cardinality(Claims)
  BY <1>2, <1>3, FS_Subset
<1>5. IsFiniteSet({p \in Proc : pc[p] = "op"})
  BY LogAssumption, FS_Subset
<1> QED BY <1>3, <1>4, <1>5, FS_CardinalityType

\* A step that neither opens nor closes an operation, nor changes what the open
\* ones declared or used, nor lengthens the log ...
SameClaims ==
  /\ \A q \in Proc : pc'[q] = "op" <=> pc[q] = "op"
  /\ \A q \in Proc : pc[q] = "op" => need'[q] = need[q] /\ used'[q] = used[q]
  /\ outstanding' = outstanding /\ reserved' = reserved
  /\ Len(lh') \in Nat /\ Len(lh') <= Len(lh)

\* ... keeps all the counts.
LEMMA CountsKept ==
  ASSUME ReservationExact, Budget, ControlTypeOK, SameClaims
  PROVE  ReservationExact' /\ Budget'
<1> USE DEF SameClaims
<1>1. {p \in Proc : pc'[p] = "op"} = {p \in Proc : pc[p] = "op"}
  OBVIOUS
<1>2. Claims' = Claims
  BY DEF Claims
<1>3. Unused' = Unused
  BY DEF Unused
<1>4. /\ Len(lh) \in Nat /\ LOGBLOCKS \in Nat
      /\ Len(lh) + Cardinality(Unused) <= LOGBLOCKS
  BY LogAssumption DEF Budget, ControlTypeOK
<1>5. Len(lh') + Cardinality(Unused) <= LOGBLOCKS
  BY <1>4, Counted
<1> QED BY <1>1, <1>2, <1>3, <1>5, Zenon DEF ReservationExact, Budget

\* lg.outstanding = 0 means that no operation is open.
LEMMA NoOpenOperation ==
  ASSUME ReservationExact, outstanding = 0
  PROVE  \A q \in Proc : pc[q] # "op"
<1>1. {q \in Proc : pc[q] = "op"} = {}
  BY Counted, FS_EmptySet, Zenon DEF ReservationExact
<1> QED BY <1>1
-----------------------------------------------------------------------------
(* The initial states, and the steps that open or close no operation       *)

\* Before the first mount, and after a power failure, nothing is promised.
LEMMA PowerOffAdmission ==
  PowerOff /\ head \in Seq(Block) /\ Len(head) <= LOGBLOCKS => AdmissionInv
<1> SUFFICES ASSUME PowerOff, head \in Seq(Block), Len(head) <= LOGBLOCKS
             PROVE  AdmissionInv
  OBVIOUS
<1>1. lh \in Seq(Block) /\ Len(lh) = 0
  BY DEF PowerOff
<1>2. ControlTypeOK
  <2>1. committing \in BOOLEAN /\ mounted \in BOOLEAN
    BY Zenon DEF PowerOff
  <2>2. pc \in [Proc -> Labels] /\ caller \in [Proc -> {"begin", "flush", "boot"}]
    BY DEF PowerOff, Labels
  <2>3. /\ need \in [Proc -> Nat] /\ used \in [Proc -> Nat]
        /\ tail \in [Proc -> Nat \ {0}] /\ runend \in [Proc -> Nat \ {0}]
    BY DEF PowerOff
  <2>4. outstanding \in Nat /\ reserved \in Nat /\ unsynced \subseteq Proc
    BY DEF PowerOff
  <2> QED BY <1>1, <2>1, <2>2, <2>3, <2>4, LogAssumption DEF ControlTypeOK
<1>3. Control /\ Declared
  BY LogAssumption DEF PowerOff, Control, Declared, CommitLabels
<1>4. {p \in Proc : pc[p] = "op"} = {} /\ Claims = {} /\ Unused = {}
  BY DEF PowerOff, Claims, Unused
<1>5. /\ Cardinality({p \in Proc : pc[p] = "op"}) = 0
      /\ Cardinality(Claims) = 0 /\ Cardinality(Unused) = 0
  BY <1>4, FS_EmptySet, Zenon
<1> QED BY <1>1, <1>2, <1>3, <1>5, LogAssumption
        DEF PowerOff, AdmissionInv, ReservationExact, Budget

LEMMA CrashAdmission ==
  ASSUME AdmissionInv, Crash
  PROVE  AdmissionInv'
<1>1. PowerOff'
  BY DEF Crash, PowerOff
<1>2. (head \in Seq(Block) /\ Len(head) <= LOGBLOCKS)'
  BY DEF Crash, diskvars, AdmissionInv, ControlTypeOK
<1> QED BY <1>1, <1>2, PowerOffAdmission, PTL

\* A committing or recovering task goes on to its next step.
LEMMA CommitMove ==
  ASSUME AdmissionInv, NEW p \in Proc, NEW l \in CommitLabels,
         pc[p] \in CommitLabels, pc[p] \in BootLabels => l \in BootLabels,
         Goto(p, l), UNCHANGED <<outstanding, reserved, committing, lh, need, used,
                                 caller, mounted>>,
         head' \in {head, lh}, unsynced' \in {unsynced, {}},
         tail' \in [Proc -> Nat \ {0}], runend' \in [Proc -> Nat \ {0}]
  PROVE  AdmissionInv'
<1> USE DEF AdmissionInv, Goto
<1>1. ControlTypeOK'
  BY Zenon DEF ControlTypeOK, Labels, CommitLabels
<1>2. Control'
  BY DEF ControlTypeOK, Control, CommitLabels, BootLabels
<1>3. Declared'
  BY DEF ControlTypeOK, Declared, CommitLabels
<1>4. SameClaims
  BY DEF SameClaims, ControlTypeOK, CommitLabels
<1>5. ReservationExact' /\ Budget'
  BY <1>4, CountsKept
<1> QED BY <1>1, <1>2, <1>3, <1>5

\* A task moves between the steps of begin_op and sync(2) that only look.
LEMMA TaskMove ==
  ASSUME AdmissionInv, NEW p \in Proc,
         pc[p] \in {"idle", "begin", "check", "flushed"},
         NEW l \in {"idle", "begin", "check", "asleep", "flushed"},
         l \in {"begin", "check", "asleep"} => need'[p] >= 1,
         Goto(p, l), UNCHANGED <<logvars, head, used, instvars, mounted, unsynced>>,
         NEW k \in 0..LOGBLOCKS, need' \in {need, [need EXCEPT ![p] = k]}
  PROVE  AdmissionInv'
<1> USE DEF AdmissionInv, Goto, logvars, instvars
<1>1. ControlTypeOK'
  <2>1. k \in Nat
    BY LogAssumption
  <2>2. need' \in [Proc -> Nat]
    BY <2>1, Zenon DEF ControlTypeOK
  <2>3. pc' \in [Proc -> Labels]
    BY DEF ControlTypeOK, Labels
  <2> QED BY <2>2, <2>3 DEF ControlTypeOK
<1>2. Control'
  BY DEF ControlTypeOK, Control, CommitLabels, BootLabels
<1>3. Declared'
  <2>1. /\ pc'[p] = l /\ need'[p] <= LOGBLOCKS
        /\ \A q \in Proc \ {p} : pc'[q] = pc[q] /\ need'[q] = need[q]
    BY LogAssumption DEF ControlTypeOK, Declared
  <2> QED BY <2>1 DEF Declared, CommitLabels
<1>4. SameClaims
  BY DEF SameClaims, ControlTypeOK
<1>5. ReservationExact' /\ Budget'
  BY <1>4, CountsKept
<1> QED BY <1>1, <1>2, <1>3, <1>5

\* begin_op or sync(2) sets lg.committing: no operation is open, no one commits.
LEMMA StartCommit ==
  ASSUME AdmissionInv, NEW p \in Proc, BeginCommit(p) \/ FlushCommit(p)
  PROVE  AdmissionInv'
<1> USE DEF AdmissionInv, BeginCommit, FlushCommit, Goto, CanCommit, opvars, diskvars
<1>1. ControlTypeOK'
  BY Zenon DEF ControlTypeOK, Labels
<1>2. \A q \in Proc : pc[q] # "op"
  BY NoOpenOperation
<1>3. Control'
  <2>1. mounted /\ \A q \in Proc : pc[q] \notin CommitLabels
    BY DEF Control, BootLabels
  <2>2. /\ mounted' /\ committing' /\ caller'[p] # "boot" /\ pc'[p] = "gather"
        /\ \A q \in Proc \ {p} : pc'[q] = pc[q]
    BY <2>1, Zenon DEF ControlTypeOK
  <2> QED BY <1>2, <2>1, <2>2 DEF Control, CommitLabels
<1>4. Declared'
  BY DEF ControlTypeOK, Declared, CommitLabels
<1>5. SameClaims
  BY DEF SameClaims, ControlTypeOK
<1>6. ReservationExact' /\ Budget'
  BY <1>5, CountsKept
<1> QED BY <1>1, <1>3, <1>4, <1>6

\* wake_up_all, after end_op or after a commit.
LEMMA WakeKeeps ==
  ASSUME AdmissionInv, NEW p \in Proc, pc[p] \in {"end_wake", "commit_wake"},
         NEW l \in {"idle", "begin", "flushed"}, l = "begin" => need[p] >= 1,
         WakeAllAnd(p, l), UNCHANGED <<logvars, head, opvars, instvars, mounted, unsynced>>
  PROVE  AdmissionInv'
<1> USE DEF AdmissionInv, WakeAllAnd, logvars, opvars, instvars
<1>1. ControlTypeOK'
  BY DEF ControlTypeOK, Labels
<1>2. \A q \in Proc : pc'[q] = IF q = p THEN l
                               ELSE IF pc[q] = "asleep" THEN "check" ELSE pc[q]
  OBVIOUS
<1>3. Control'
  <2>1. mounted /\ mounted'
    BY DEF Control, BootLabels
  <2> QED BY <1>2, <2>1 DEF Control, CommitLabels
<1>4. Declared'
  BY DEF ControlTypeOK, Declared, CommitLabels
<1>5. SameClaims
  BY <1>2 DEF SameClaims, ControlTypeOK
<1>6. ReservationExact' /\ Budget'
  BY <1>5, CountsKept
<1> QED BY <1>1, <1>3, <1>4, <1>6

\* sort_log_blocks rearranges lg.lh and neither drops nor adds an entry.
LEMMA SortedSeq ==
  ASSUME NEW s \in Seq(Block), NEW t \in Sorted(s)
  PROVE  /\ t \in Seq(Block) /\ Len(t) = Len(s)
         /\ RangeOf(t) = RangeOf(s)
         /\ \A i, j \in 1..Len(s) : i < j => t[i] < t[j]
<1>1. t \in [1..Len(s) -> Block] /\ Len(s) \in Nat
  BY DEF Sorted, RangeOf
<1>2. t \in Seq(Block) /\ Len(t) = Len(s)
  BY <1>1
<1> QED BY <1>2 DEF Sorted

LEMMA GatherAdmission ==
  ASSUME AdmissionInv, NEW p \in Proc, Gather(p)
  PROVE  AdmissionInv'
<1> USE DEF AdmissionInv, Gather, Goto, opvars, diskvars
<1>1. lh' \in Seq(Block) /\ Len(lh') = Len(lh)
  BY SortedSeq DEF ControlTypeOK
<1>2. ControlTypeOK'
  <2>1. pc' \in [Proc -> Labels]
    <3>1. "log_run" \in Labels /\ "log_blk" \in Labels
      BY DEF Labels
    <3> QED BY <3>1, Zenon DEF ControlTypeOK
  <2>2. tail' \in [Proc -> Nat \ {0}]
    BY DEF ControlTypeOK
  <2> QED BY <1>1, <2>1, <2>2 DEF ControlTypeOK
<1>3. /\ pc'[p] \in {"log_run", "log_blk"} /\ pc[p] = "gather"
      /\ \A q \in Proc \ {p} : pc'[q] = pc[q]
  BY DEF ControlTypeOK
<1>4. Control'
  BY <1>3 DEF Control, CommitLabels, BootLabels
<1>5. Declared'
  BY <1>3 DEF Declared, CommitLabels
<1>6. SameClaims
  BY <1>1, <1>3 DEF SameClaims, ControlTypeOK
<1>7. ReservationExact' /\ Budget'
  BY <1>6, CountsKept
<1> QED BY <1>2, <1>4, <1>5, <1>7

LEMMA ClearHeadAdmission ==
  ASSUME AdmissionInv, NEW p \in Proc, ClearHead(p)
  PROVE  AdmissionInv'
<1> USE DEF AdmissionInv, ClearHead, Goto, opvars
<1>1. lh' \in Seq(Block) /\ Len(lh') = 0 /\ head' \in Seq(Block) /\ Len(head') = 0
  OBVIOUS
<1>2. ControlTypeOK'
  <2>1. pc' \in [Proc -> Labels]
    BY DEF ControlTypeOK, Labels
  <2>2. mounted' \in BOOLEAN
    BY Zenon DEF ControlTypeOK
  <2> QED BY <1>1, <2>1, <2>2, LogAssumption DEF ControlTypeOK
<1>3. Control'
  BY DEF ControlTypeOK, Control, CommitLabels, BootLabels
<1>4. Declared'
  BY DEF ControlTypeOK, Control, Declared, CommitLabels, BootLabels
<1>5. \A q \in Proc : pc'[q] = "op" <=> pc[q] = "op"
  BY DEF ControlTypeOK, Control, CommitLabels, BootLabels
<1>6. SameClaims
  BY <1>1, <1>5 DEF SameClaims, ControlTypeOK
<1>7. ReservationExact' /\ Budget'
  BY <1>6, CountsKept
<1> QED BY <1>2, <1>3, <1>4, <1>7

LEMMA UncommitAdmission ==
  ASSUME AdmissionInv, NEW p \in Proc, Uncommit(p)
  PROVE  AdmissionInv'
<1> USE DEF AdmissionInv, Uncommit, Goto, opvars, diskvars, instvars
<1>1. ControlTypeOK'
  BY Zenon DEF ControlTypeOK, Labels
<1>2. Control'
  BY DEF ControlTypeOK, Control, CommitLabels, BootLabels
<1>3. Declared'
  BY DEF ControlTypeOK, Declared, CommitLabels
<1>4. SameClaims
  BY DEF SameClaims, ControlTypeOK
<1>5. ReservationExact' /\ Budget'
  BY <1>4, CountsKept
<1> QED BY <1>1, <1>2, <1>3, <1>5

\* read_head restores a list that fits in the log.
LEMMA MountAdmission ==
  ASSUME AdmissionInv, NEW p \in Proc, Mount(p)
  PROVE  AdmissionInv'
<1> USE DEF AdmissionInv, Mount, Goto, opvars, diskvars
<1>1. ControlTypeOK'
  BY DEF ControlTypeOK, Labels
<1>2. Control'
  BY DEF ControlTypeOK, Control, CommitLabels, BootLabels
<1>3. Declared'
  BY DEF ControlTypeOK, Declared, CommitLabels
<1>4. {q \in Proc : pc'[q] = "op"} = {q \in Proc : pc[q] = "op"} /\ Claims' = Claims
  BY DEF ControlTypeOK, Claims
<1>5. Unused' = {} /\ Cardinality(Unused') = 0
  <2>1. Unused' = {}
    BY DEF ControlTypeOK, Unused
  <2> QED BY <2>1, FS_EmptySet
<1>6. Budget'
  BY <1>1, <1>5, LogAssumption DEF Budget, ControlTypeOK
<1> QED BY <1>1, <1>2, <1>3, <1>4, <1>6 DEF ReservationExact
-----------------------------------------------------------------------------
(* The steps that change the counts                                        *)

\* begin_op admits an operation: what is promised grows by need[p], and Fits
\* has checked that listed, reserved and new blocks fit together.
LEMMA AdmitAdmission ==
  ASSUME AdmissionInv, NEW p \in Proc, Admit(p)
  PROVE  AdmissionInv'
<1> USE DEF AdmissionInv, Admit, Goto, opvars, instvars, diskvars
<1>1. need[p] \in 1..LOGBLOCKS /\ used[p] = 0 /\ LOGBLOCKS \in Nat
  BY LogAssumption DEF ControlTypeOK, Declared
<1>2. ControlTypeOK'
  BY <1>1 DEF ControlTypeOK, Labels
<1>3. Control'
  <2>1. mounted /\ \A q \in Proc : pc[q] \notin CommitLabels
    BY DEF Control, BootLabels, Fits
  <2>2. pc'[p] = "op" /\ \A q \in Proc \ {p} : pc'[q] = pc[q]
    BY DEF ControlTypeOK
  <2> QED BY <2>1, <2>2 DEF Control, CommitLabels
<1>4. Declared'
  BY <1>1 DEF ControlTypeOK, Declared, CommitLabels
<1> DEFINE New == {p} \X (1..need[p])
<1>5. IsFiniteSet(New) /\ Cardinality(New) = need[p]
  <2>1. need[p] \in Nat
    BY <1>1
  <2> QED BY <2>1, PairsOfOne, Zenon
<1>6. /\ Claims' = Claims \cup New /\ Claims \cap New = {}
      /\ Unused' = Unused \cup New /\ Unused \cap New = {}
  <2>1. pc'[p] = "op" /\ need' = need /\ used' = used
    BY DEF ControlTypeOK
  <2>2. \A q \in Proc \ {p} : pc'[q] = pc[q]
    BY DEF ControlTypeOK
  <2>3. Claims' = Claims \cup New /\ Claims \cap New = {}
    BY <1>1, <2>1, <2>2 DEF Claims, Slot
  <2>4. Unused' = Unused \cup New /\ Unused \cap New = {}
    BY <1>1, <2>1, <2>2 DEF Unused, Slot
  <2> QED BY <2>3, <2>4
<1> HIDE DEF New
<1>7. /\ Cardinality(Claims') = Cardinality(Claims) + need[p]
      /\ Cardinality(Unused') = Cardinality(Unused) + need[p]
  <2>1. Cardinality(Claims \cup New)
          = Cardinality(Claims) + Cardinality(New) - Cardinality(Claims \cap New)
    BY <1>5, Counted, FS_Union
  <2>2. Cardinality(Unused \cup New)
          = Cardinality(Unused) + Cardinality(New) - Cardinality(Unused \cap New)
    BY <1>5, Counted, FS_Union
  <2>3. Cardinality(Claims \cap New) = 0 /\ Cardinality(Unused \cap New) = 0
    BY <1>6, FS_EmptySet
  <2>4. /\ Cardinality(Claims \cup New) = Cardinality(Claims) + need[p]
        /\ Cardinality(Unused \cup New) = Cardinality(Unused) + need[p]
    BY <1>1, <1>5, <2>1, <2>2, <2>3, Counted
  <2> QED BY <1>6, <2>4, Zenon
<1>8. ReservationExact'
  <2>1. {q \in Proc : pc'[q] = "op"} = {q \in Proc : pc[q] = "op"} \cup {p}
    BY DEF ControlTypeOK
  <2>2. p \notin {q \in Proc : pc[q] = "op"}
    OBVIOUS
  <2>3. Cardinality({q \in Proc : pc'[q] = "op"})
          = Cardinality({q \in Proc : pc[q] = "op"}) + 1
    BY <2>1, <2>2, Counted, FS_AddElement, Zenon
  <2> QED BY <2>3, <1>7 DEF ReservationExact
<1>9. Budget'
  <2>1. /\ Len(lh) + Cardinality(Claims) + need[p] <= LOGBLOCKS
        /\ Len(lh) \in Nat /\ lh' = lh
    BY DEF Fits, ReservationExact, ControlTypeOK
  <2>2. Len(lh') + Cardinality(Unused') <= LOGBLOCKS
    BY <1>1, <1>7, <2>1, Counted
  <2> QED BY <2>2 DEF Budget
<1> QED BY <1>2, <1>3, <1>4, <1>8, <1>9

\* end_op gives back exactly what begin_op took.
LEMMA EndOpAdmission ==
  ASSUME AdmissionInv, NEW p \in Proc, EndOp(p)
  PROVE  AdmissionInv'
<1> USE DEF AdmissionInv, EndOp, Goto, instvars, diskvars
<1>1. need[p] \in 1..LOGBLOCKS /\ LOGBLOCKS \in Nat
  BY LogAssumption DEF ControlTypeOK, Declared
<1> DEFINE Old == {p} \X (1..need[p])
           Ops == {q \in Proc : pc[q] = "op"}
<1>2. IsFiniteSet(Old) /\ Cardinality(Old) = need[p]
  <2>1. need[p] \in Nat
    BY <1>1
  <2> QED BY <2>1, PairsOfOne, Zenon
<1>3. Claims' = Claims \ Old /\ Claims \cap Old = Old /\ Unused' \in SUBSET Unused
  <2>1. pc'[p] = "end_wake" /\ pc[p] = "op"
    BY DEF ControlTypeOK
  <2>2. \A q \in Proc \ {p} : pc'[q] = pc[q] /\ need'[q] = need[q] /\ used'[q] = used[q]
    BY DEF ControlTypeOK
  <2>3. Claims' = Claims \ Old /\ Claims \cap Old = Old
    BY <1>1, <2>1, <2>2 DEF Claims, Slot
  <2>4. Unused' \in SUBSET Unused
    BY <2>1, <2>2 DEF Unused
  <2> QED BY <2>3, <2>4
<1>4. Ops' = Ops \ {p} /\ p \in Ops
  BY DEF ControlTypeOK
<1> HIDE DEF Old
<1>5. Cardinality(Claims') = Cardinality(Claims) - need[p]
  <2>1. Cardinality(Claims \ Old) = Cardinality(Claims) - Cardinality(Claims \cap Old)
    BY Counted, FS_Difference, Zenon
  <2> QED BY <1>2, <1>3, <2>1
<1>6. Cardinality(Ops') = Cardinality(Ops) - 1 /\ Cardinality(Ops) \in Nat
  BY <1>4, Counted, FS_RemoveElement, Zenon
<1>7. Cardinality(Claims') \in Nat /\ Cardinality(Ops') \in Nat
  <2>1. IsFiniteSet(Claims \ Old) /\ IsFiniteSet(Ops \ {p})
    BY Counted, FS_Difference, FS_RemoveElement, Zenon
  <2> QED BY <2>1, <1>3, <1>4, FS_CardinalityType, Zenon
<1>8. ReservationExact'
  BY <1>1, <1>5, <1>6, <1>7, Counted DEF ReservationExact, ControlTypeOK
<1>9. ControlTypeOK'
  <2>1. outstanding' \in Nat /\ reserved' \in Nat
    BY <1>7, <1>8 DEF ReservationExact
  <2>2. pc' \in [Proc -> Labels]
    BY DEF ControlTypeOK, Labels
  <2> QED BY <2>1, <2>2 DEF ControlTypeOK
<1>10. Control'
  BY DEF ControlTypeOK, Control, CommitLabels, BootLabels
<1>11. Declared'
  BY LogAssumption DEF ControlTypeOK, Declared, CommitLabels
<1>12. Budget'
  <2>1. Cardinality(Unused') <= Cardinality(Unused) /\ Cardinality(Unused') \in Nat
    BY <1>3, Counted, FS_Subset, FS_CardinalityType
  <2> QED BY <2>1, <1>1, Counted DEF Budget, ControlTypeOK
<1> QED BY <1>8, <1>9, <1>10, <1>11, <1>12

\* xv6log_write moves one block from "promised" to "listed", or none.
LEMMA LogWriteAdmission ==
  ASSUME AdmissionInv, NEW p \in Proc, NEW b \in Block, NEW v \in Val,
         LogWrite(p, b, v)
  PROVE  AdmissionInv'
<1>t. ControlTypeOK /\ Control /\ Declared /\ ReservationExact /\ Budget
  BY DEF AdmissionInv
<1>1. CASE b \in RangeOf(lh)
  <2>1. UNCHANGED <<outstanding, reserved, committing, lh, head, mounted, pc, need,
                    used, caller, tail, runend>> /\ unsynced' = unsynced \cup {p}
    BY <1>1 DEF LogWrite, instvars, diskvars
  <2>2. ControlTypeOK' /\ Control' /\ Declared'
    BY <1>t, <2>1 DEF ControlTypeOK, Control, Declared
  <2>3. SameClaims
    BY <1>t, <2>1 DEF SameClaims, ControlTypeOK
  <2> QED BY <1>t, <2>2, <2>3, CountsKept DEF AdmissionInv
<1>2. CASE b \notin RangeOf(lh)
  <2>1. /\ used[p] + 1 + Slack <= need[p] /\ lh' = Append(lh, b)
        /\ used' = [used EXCEPT ![p] = @ + 1]
        /\ UNCHANGED <<outstanding, reserved, committing, head, mounted, pc, need,
                       caller, tail, runend>>
        /\ unsynced' = unsynced \cup {p} /\ pc[p] = "op"
    BY <1>2 DEF LogWrite, instvars, diskvars
  <2>2. /\ need[p] \in 1..LOGBLOCKS /\ used[p] \in Nat /\ LOGBLOCKS \in Nat
        /\ used[p] + 1 < need[p]
    BY <1>t, <2>1, LogAssumption DEF ControlTypeOK, Declared
  <2>3. Unused' = Unused \ {<<p, used[p] + 1>>} /\ <<p, used[p] + 1>> \in Unused
    <3>1. /\ used'[p] = used[p] + 1
          /\ \A q \in Proc \ {p} : used'[q] = used[q]
      BY <1>t, <2>1 DEF ControlTypeOK
    <3>2. used[p] + 1 \in Slot
      BY <2>2 DEF Slot
    <3>3. \A k \in Slot : used[p] + 1 < k <=> (used[p] < k /\ k # used[p] + 1)
      BY <2>2 DEF Slot
    <3>4. <<p, used[p] + 1>> \in Unused
      BY <2>1, <2>2, <3>2 DEF Unused
    <3> QED BY <2>1, <3>1, <3>3, <3>4 DEF Unused
  <2>4. Cardinality(Unused') = Cardinality(Unused) - 1 /\ IsFiniteSet(Unused')
    BY <2>3, Counted, FS_RemoveElement
  <2>5. Cardinality(Unused') \in Nat
    BY <2>4, FS_CardinalityType
  <2>6. lh' \in Seq(Block) /\ Len(lh') = Len(lh) + 1 /\ Len(lh) \in Nat
    BY <1>t, <2>1 DEF ControlTypeOK
  <2>7. Budget'
    BY <1>t, <2>2, <2>4, <2>6, Counted DEF Budget
  <2>8. Len(lh') <= LOGBLOCKS
    BY <2>2, <2>5, <2>6, <2>7 DEF Budget
  <2>9. ControlTypeOK'
    BY <1>t, <2>1, <2>6, <2>8 DEF ControlTypeOK
  <2>10. Control'
    BY <1>t, <2>1 DEF Control
  <2>11. Declared'
    BY <1>t, <2>1, <2>2 DEF ControlTypeOK, Declared
  <2>12. ReservationExact'
    BY <1>t, <2>1 DEF ReservationExact, Claims
  <2> QED BY <2>7, <2>9, <2>10, <2>11, <2>12 DEF AdmissionInv
<1> QED BY <1>1, <1>2
-----------------------------------------------------------------------------
(* The theorems                                                            *)

LEMMA InitAdmission == Init => AdmissionInv
  BY PowerOffAdmission, LogAssumption DEF Init

\* Every step of recovery and of commit() but the ones treated above.
LEMMA CommitStepAdmission ==
  ASSUME AdmissionInv, NEW p \in Proc, CommitStep(p)
  PROVE  AdmissionInv'
<1> USE DEF logvars, opvars, instvars, diskvars
<1> DEFINE Typed == tail' \in [Proc -> Nat \ {0}] /\ runend' \in [Proc -> Nat \ {0}]
<1>t. /\ tail \in [Proc -> Nat \ {0}] /\ runend \in [Proc -> Nat \ {0}]
      /\ lh \in Seq(Block) /\ Len(lh) \in Nat
  BY DEF AdmissionInv, ControlTypeOK
<1>1. CASE Gather(p)
  BY <1>1, GatherAdmission
<1>2. CASE WriteLogRun(p) \/ WriteLogRunFails(p)
  BY <1>2, <1>t, CommitMove
     DEF WriteLogRun, WriteLogRunFails, CommitLabels, BootLabels
<1>3. CASE WriteLogBlock(p)
  <2>1. Typed /\ pc[p] \in CommitLabels \ BootLabels
    BY <1>3, <1>t DEF WriteLogBlock, CommitLabels, BootLabels
  <2> QED BY <1>3, <2>1, CommitMove DEF WriteLogBlock, CommitLabels
<1>4. CASE WriteHead(p)
  BY <1>4, <1>t, CommitMove DEF WriteHead, CommitLabels, BootLabels
<1>5. CASE InstallStaged(p) \/ InstallReadLog(p) \/ InstallUnstaged(p)
  <2>1. /\ Typed /\ pc[p] = "inst"
        /\ Goto(p, "inst_cache") \/ Goto(p, "inst_one")
    BY <1>5, <1>t DEF InstallStaged, InstallReadLog, InstallUnstaged, Start
  <2>2. UNCHANGED <<outstanding, reserved, committing, lh, need, used, caller, mounted,
                    head, unsynced>>
    BY <1>5 DEF InstallStaged, InstallReadLog, InstallUnstaged
  <2> QED BY <2>1, <2>2, CommitMove DEF CommitLabels, BootLabels
<1>6. CASE InstallCache(p)
  <2>1. Typed
    <3>1. PICK e \in tail[p] + 1 .. Len(lh) + 1 : runend' = [runend EXCEPT ![p] = e]
      BY <1>6, Zenon DEF InstallCache
    <3>2. e \in Nat \ {0}
      BY <1>t
    <3> QED BY <1>6, <1>t, <3>1, <3>2 DEF InstallCache
  <2> QED BY <1>6, <2>1, CommitMove DEF InstallCache, CommitLabels, BootLabels
<1>7. CASE InstallRun(p) \/ InstallRunFails(p)
  BY <1>7, <1>t, CommitMove, Zenon DEF InstallRun, InstallRunFails, CommitLabels, BootLabels
<1>8. CASE InstallBlock(p)
  <2>1. Typed
    BY <1>8, <1>t DEF InstallBlock
  <2> QED BY <1>8, <2>1, CommitMove DEF InstallBlock, CommitLabels, BootLabels
<1>9. CASE InstallOne(p)
  <2>1. Typed /\ Goto(p, "inst_one")
    BY <1>9, <1>t DEF InstallOne, Goto, AdmissionInv, ControlTypeOK
  <2> QED BY <1>9, <2>1, CommitMove DEF InstallOne, CommitLabels, BootLabels
<1>10. CASE InstallDone(p)
  BY <1>10, <1>t, CommitMove DEF InstallDone, CommitLabels, BootLabels
<1>11. CASE ClearHead(p)
  BY <1>11, ClearHeadAdmission
<1>12. CASE Uncommit(p)
  BY <1>12, UncommitAdmission
<1>13. CASE CommitWake(p)
  <2>1. caller[p] = "begin" => need[p] >= 1
    BY <1>13 DEF CommitWake, AdmissionInv, Declared
  <2> QED BY <1>13, <2>1, WakeKeeps DEF CommitWake
<1> QED BY <1>1, <1>2, <1>3, <1>4, <1>5, <1>6, <1>7, <1>8, <1>9, <1>10, <1>11, <1>12,
           <1>13 DEF CommitStep

LEMMA TaskStepAdmission ==
  ASSUME AdmissionInv, NEW p \in Proc, TaskStep(p)
  PROVE  AdmissionInv'
<1> USE DEF logvars, opvars, instvars, diskvars
<1>t. need[p] \in 0..LOGBLOCKS
  BY DEF AdmissionInv, ControlTypeOK, Declared
<1>1. CASE Admit(p)
  BY <1>1, AdmitAdmission
<1>2. CASE BeginCommit(p)
  BY <1>2, StartCommit
<1>3. CASE BeginWait(p) \/ WaitCheck(p)
  <2>1. need[p] >= 1
    BY <1>3 DEF BeginWait, WaitCheck, AdmissionInv, Declared
  <2> QED BY <1>3, <1>t, <2>1, TaskMove DEF BeginWait, WaitCheck
<1>4. CASE EndOp(p)
  BY <1>4, EndOpAdmission
<1>5. CASE EndWake(p)
  BY <1>5, WakeKeeps DEF EndWake
<1>6. CASE FlushReturn(p)
  BY <1>6, <1>t, TaskMove DEF FlushReturn
<1>7. CASE CommitStep(p)
  BY <1>7, CommitStepAdmission
<1> QED BY <1>1, <1>2, <1>3, <1>4, <1>5, <1>6, <1>7 DEF TaskStep

\* Steps of the device and of the cache touch none of this.
LEMMA QuietAdmission ==
  ASSUME AdmissionInv,
         UNCHANGED <<logvars, head, opvars, instvars, mounted, pc, unsynced>>
  PROVE  AdmissionInv'
<1> USE DEF AdmissionInv, logvars, opvars, instvars
<1>1. ControlTypeOK' /\ Control' /\ Declared'
  BY DEF ControlTypeOK, Control, Declared
<1>2. SameClaims
  BY DEF SameClaims, ControlTypeOK
<1> QED BY <1>1, <1>2, CountsKept

LEMMA NextAdmission == AdmissionInv /\ [Next]_vars => AdmissionInv'
<1> SUFFICES ASSUME AdmissionInv, [Next]_vars PROVE AdmissionInv'
  OBVIOUS
<1> USE DEF logvars, opvars, instvars, diskvars
<1>1. ASSUME NEW p \in Proc, BeginOp(p) PROVE AdmissionInv'
  <2>1. PICK m \in MaxBlocks : need' = [need EXCEPT ![p] = Clamp(m)]
    BY <1>1, Zenon DEF BeginOp
  <2>2. Clamp(m) \in 1..LOGBLOCKS
    BY LogAssumption DEF Clamp
  <2>3. need'[p] >= 1
    BY <2>1, <2>2 DEF AdmissionInv, ControlTypeOK
  <2>4. /\ pc[p] = "idle" /\ Goto(p, "begin")
        /\ UNCHANGED <<logvars, head, used, instvars, mounted, unsynced>>
    BY <1>1 DEF BeginOp
  <2>5. Clamp(m) \in 0..LOGBLOCKS /\ need' \in {need, [need EXCEPT ![p] = Clamp(m)]}
    BY <2>1, <2>2
  <2> HIDE DEF logvars, instvars
  <2> QED BY <2>3, <2>4, <2>5, TaskMove
<1>2. ASSUME NEW p \in Proc, FlushCommit(p) PROVE AdmissionInv'
  BY <1>2, StartCommit
<1>3. ASSUME NEW p \in Proc, FlushSkip(p) PROVE AdmissionInv'
  <2>1. need[p] \in 0..LOGBLOCKS
    BY DEF AdmissionInv, ControlTypeOK, Declared
  <2> QED BY <1>3, <2>1, TaskMove DEF FlushSkip
<1>4. ASSUME NEW p \in Proc, TaskStep(p) PROVE AdmissionInv'
  BY <1>4, TaskStepAdmission
<1>5. ASSUME NEW p \in Proc, DeviceWrites(p) PROVE AdmissionInv'
  BY <1>5, QuietAdmission DEF DeviceWrites
<1>6. ASSUME NEW p \in Proc, Mount(p) PROVE AdmissionInv'
  BY <1>6, MountAdmission
<1>7. ASSUME NEW p \in Proc, NEW b \in Block, NEW v \in Val, LogWrite(p, b, v)
      PROVE  AdmissionInv'
  BY <1>7, LogWriteAdmission
<1>8. ASSUME NEW b \in Block, ReadBlock(b) \/ RecycleBuffer(b) PROVE AdmissionInv'
  BY <1>8, QuietAdmission DEF ReadBlock, RecycleBuffer
<1>9. CASE Crash
  BY <1>9, CrashAdmission
<1>10. CASE UNCHANGED vars
  BY <1>10, QuietAdmission DEF vars
<1> QED BY <1>1, <1>2, <1>3, <1>4, <1>5, <1>6, <1>7, <1>8, <1>9, <1>10 DEF Next, Running

\* The inductive invariant of admission control holds throughout.
THEOREM AdmissionInvariant == Spec => []AdmissionInv
  BY InitAdmission, NextAdmission, PTL DEF Spec

\* xv6log_write's KASSERT(lg.lh.n < XV6FS_LOGBLOCKS) cannot fire while callers
\* keep to the number of blocks they passed to begin_op.
THEOREM RoomForEveryWrite == Spec => []LogHasRoom
<1>1. AdmissionInv => LogHasRoom
  <2> SUFFICES ASSUME AdmissionInv, NEW p \in Proc, pc[p] = "op"
               PROVE  Len(lh) < LOGBLOCKS
    BY DEF LogHasRoom
  <2> USE DEF AdmissionInv
  <2>1. <<p, need[p]>> \in Unused
    BY LogAssumption DEF ControlTypeOK, Declared, Unused, Slot
  <2>2. Cardinality(Unused) # 0
    BY <2>1, Counted, FS_EmptySet
  <2> QED BY <2>2, Counted, LogAssumption DEF Budget, ControlTypeOK
<1> QED BY <1>1, AdmissionInvariant, PTL

\* A commit, or a recovery, runs with no operation open and no other commit.
THEOREM CommitsAlone == Spec => []CommitIsAlone
<1>1. AdmissionInv => CommitIsAlone
  <2> SUFFICES ASSUME AdmissionInv, NEW p \in Proc, pc[p] \in CommitLabels
               PROVE  /\ outstanding = 0
                      /\ \A q \in Proc \ {p} : pc[q] \notin CommitLabels \cup {"op"}
    BY DEF CommitIsAlone
  <2>1. \A q \in Proc : pc[q] # "op"
    BY DEF AdmissionInv, Control
  <2>2. {q \in Proc : pc[q] = "op"} = {}
    BY <2>1
  <2>3. outstanding = 0
    BY <2>2, FS_EmptySet DEF AdmissionInv, ReservationExact
  <2> QED BY <2>1, <2>3 DEF AdmissionInv, Control
<1> QED BY <1>1, AdmissionInvariant, PTL

\* lg.outstanding and lg.reserved always count the open operations and the
\* blocks they declared, so the clamp "if (lg.reserved < 0)" never acts.
THEOREM ReservationsExact == Spec => []ReservationExact
<1>1. AdmissionInv => ReservationExact
  BY DEF AdmissionInv
<1> QED BY <1>1, AdmissionInvariant, PTL
=============================================================================
