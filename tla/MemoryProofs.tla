---------------------------- MODULE MemoryProofs ----------------------------
(* What holds of the page allocator however many pages, processes and         *)
(* addresses there are: an allocation fails only for want of a run of free    *)
(* pages, and the bitmap, the counts and g_used agree.                        *)
EXTENDS Memory, FiniteSetTheorems, WellFoundedInduction, TLAPS

\* The provers of the steps below that name none, and their time limits.
USE SMTT(15), Z3T(15), ZenonT(20)

-----------------------------------------------------------------------------
(* A set of natural numbers that is not empty has its Min. *)
LEMMA MinOfNaturals ==
  ASSUME NEW S, S \subseteq Nat, S # {}
  PROVE  Min(S) \in S /\ \A y \in S : Min(S) <= y
<1>1. \E x \in S : \A y \in S : ~(<<y, x>> \in OpToRel(<, Nat))
  BY WFMin, NatLessThanWellFounded, Zenon
<1>2. \E x \in S : \A y \in S : x <= y
  <2>1. PICK x \in S : \A y \in S : ~(<<y, x>> \in OpToRel(<, Nat))
    BY <1>1, Zenon
  <2>2. ASSUME NEW y \in S PROVE x <= y
    <3>1. x \in Nat /\ y \in Nat
      OBVIOUS
    <3>2. y < x => <<y, x>> \in OpToRel(<, Nat)
      BY <3>1 DEF OpToRel
    <3>3. ~(y < x)
      BY <2>1, <3>2, Zenon
    <3>4. QED
      BY <3>1, <3>3
  <2>3. QED
    BY <2>2
<1>3. QED
  BY <1>2, Zenon DEF Min

(* The first search and the one that goes round find a run of n free pages    *)
(* whenever there is one, wherever the search starts (pmm_claim_locked).      *)
LEMMA ClaimComplete ==
  ASSUME NEW m, m.next \in 0 .. g_pages, NEW n \in Nat \ {0}
  PROVE  Claimable(m, n) <=> Fits(m, 0, g_pages, n) # {}
<1>1. g_pages \in Nat \ {0} /\ From(m) \in 0 .. g_pages - 1
  BY PmmAssumption DEF From
<1>2. ASSUME NEW s \in Fits(m, 0, g_pages, n), Fits(m, From(m), g_pages, n) = {}
      PROVE  s \in Fits(m, 0, Tail_(m, n), n)
  <2>1. s \in 0 .. g_pages - n /\ Run(s, n) \cap m.bm = {}
    BY <1>2 DEF Fits
  <2>2. s < From(m)
    BY <1>1, <1>2, <2>1 DEF Fits
  <2>3. s \in 0 .. Tail_(m, n) - n
    BY <1>1, <2>1, <2>2 DEF Tail_
  <2>4. QED
    BY <2>1, <2>3 DEF Fits
<1>3. \A t \in 0 .. g_pages : Fits(m, 0, t, n) \subseteq Fits(m, 0, g_pages, n)
  BY <1>1 DEF Fits
<1>4. Tail_(m, n) \in 0 .. g_pages
  BY <1>1 DEF Tail_
<1>5. Fits(m, From(m), g_pages, n) \subseteq Fits(m, 0, g_pages, n)
  BY <1>1 DEF Fits
<1>6. QED
  BY <1>2, <1>3, <1>4, <1>5 DEF Claimable, Candidates
-----------------------------------------------------------------------------
(* The allocator's own invariant, of one of its states m. *)
PmmInv(m) ==
  /\ m \in [bm : SUBSET Page, rc : [Page -> Nat], used : Int, next : 0 .. g_pages]
  /\ m.bm = Reserved \cup {f \in Page : m.rc[f] > 0}
  /\ \A f \in Reserved : m.rc[f] = 0
  /\ m.used = Cardinality(m.bm)

LEMMA PagesFinite ==
  /\ IsFiniteSet(Page) /\ Cardinality(Page) = g_pages
  /\ \A S \in SUBSET Page : IsFiniteSet(S) /\ Cardinality(S) \in Nat
<1>1. IsFiniteSet(Page) /\ Cardinality(Page) = g_pages
  BY PmmAssumption, FS_Interval DEF Page
<1>2. QED
  BY <1>1, FS_Subset, FS_CardinalityType

(* What is claimed was free. *)
LEMMA StartFree ==
  ASSUME NEW m, PmmInv(m), NEW n \in Nat \ {0}, Claimable(m, n)
  PROVE  /\ Start(m, n) \in 0 .. g_pages - n
         /\ Run(Start(m, n), n) \subseteq Page
         /\ Run(Start(m, n), n) \cap m.bm = {}
<1>1. g_pages \in Nat \ {0} /\ From(m) \in 0 .. g_pages - 1 /\ Tail_(m, n) \in 0 .. g_pages
  BY PmmAssumption DEF From, Tail_, PmmInv
<1>2. ASSUME NEW a \in 0 .. g_pages, NEW b \in 0 .. g_pages
      PROVE  Fits(m, a, b, n) \subseteq {s \in 0 .. g_pages - n : Run(s, n) \cap m.bm = {}}
  BY <1>1 DEF Fits
<1>3. Candidates(m, n) \subseteq {s \in 0 .. g_pages - n : Run(s, n) \cap m.bm = {}}
  BY <1>1, <1>2 DEF Candidates
<1>4. Candidates(m, n) \subseteq Nat /\ Candidates(m, n) # {}
  BY <1>1, <1>3 DEF Claimable
<1>5. Start(m, n) \in Candidates(m, n)
  BY <1>4, MinOfNaturals DEF Start
<1>6. Start(m, n) \in 0 .. g_pages - n /\ Run(Start(m, n), n) \cap m.bm = {}
  BY <1>3, <1>5
<1>7. QED
  BY <1>1, <1>6 DEF Run, Page

LEMMA AllocInv ==
  ASSUME NEW m, PmmInv(m), NEW n \in Nat \ {0}
  PROVE  PmmInv(pmm_alloc(m, n))
<1> DEFINE s == Start(m, n)
           R == Run(s, n)
           a == pmm_alloc(m, n)
<1>1. g_pages \in Nat \ {0} /\ From(m) \in 0 .. g_pages /\ m.next \in 0 .. g_pages
  BY PmmAssumption DEF From, PmmInv
<1>2. CASE ~Claimable(m, n)
  <2>1. a = [m EXCEPT !.next = From(m)]
    BY <1>2 DEF pmm_alloc, pmm_claim_locked
  <2>2. QED
    BY <1>1, <2>1 DEF PmmInv
<1>3. CASE Claimable(m, n)
  <2>1. s \in 0 .. g_pages - n /\ R \subseteq Page /\ R \cap m.bm = {}
    BY <1>3, StartFree
  <2>2. /\ a.bm = m.bm \cup R /\ a.used = m.used + n
        /\ a.rc = [p \in Page |-> IF p \in R THEN 1 ELSE m.rc[p]]
        /\ a.next \in {From(m), s + n}
        /\ a = [bm |-> a.bm, rc |-> a.rc, used |-> a.used, next |-> a.next]
    BY <1>3, Zenon DEF pmm_alloc, pmm_claim_locked, PmmInv
  <2>3. a \in [bm : SUBSET Page, rc : [Page -> Nat], used : Int, next : 0 .. g_pages]
    <3>1. a.next \in 0 .. g_pages
      BY <1>1, <2>1, <2>2
    <3>2. a.rc \in [Page -> Nat] /\ a.bm \in SUBSET Page /\ a.used \in Int
      BY <2>1, <2>2 DEF PmmInv
    <3>3. QED
      BY <2>2, <3>1, <3>2
  <2>4. /\ a.bm = Reserved \cup {f \in Page : a.rc[f] > 0}
        /\ \A f \in Reserved : a.rc[f] = 0
    BY <2>1, <2>2, MemoryAssumption DEF PmmInv
  <2>5. IsFiniteSet(R) /\ Cardinality(R) = n
    <3>1. s \in Int /\ s + n - 1 \in Int /\ ~ (s > s + n - 1) /\ (s + n - 1) - s + 1 = n
      BY <1>1, <2>1
    <3>2. /\ IsFiniteSet(s .. s + n - 1)
          /\ Cardinality(s .. s + n - 1) = IF s > s + n - 1 THEN 0 ELSE (s + n - 1) - s + 1
      BY <3>1, FS_Interval, Zenon
    <3>3. QED
      BY <3>1, <3>2, Zenon DEF Run
  <2>6. Cardinality(m.bm \cup R) = Cardinality(m.bm) + n
    <3>1. IsFiniteSet(m.bm) /\ Cardinality(m.bm) \in Nat
      BY PagesFinite DEF PmmInv
    <3>2. Cardinality(m.bm \cup R) = Cardinality(m.bm) + Cardinality(R) - Cardinality(m.bm \cap R)
      BY <2>5, <3>1, FS_Union
    <3>3. m.bm \cap R = {}
      BY <2>1
    <3>4. Cardinality(m.bm \cap R) = 0
      BY <3>3, FS_EmptySet, Zenon
    <3>5. QED
      BY <2>5, <3>1, <3>2, <3>4
  <2>7. QED
    BY <2>2, <2>3, <2>4, <2>6 DEF PmmInv
<1>4. QED
  BY <1>2, <1>3

(* Whatever s is. *)
LEMMA FreeInv ==
  ASSUME NEW m, PmmInv(m), NEW s, NEW n
  PROVE  PmmInv(pmm_free(m, s, n))
<1> DEFINE R == Run(s, n)
           gone == Dropped(m, s, n)
           a == pmm_free(m, s, n)
<1>1. gone = {f \in Page : f \in R /\ m.rc[f] = 1} /\ gone \subseteq m.bm /\ m.bm \subseteq Page
  BY DEF Dropped, PmmInv
<1>2. /\ a.bm = m.bm \ gone /\ a.used = m.used - Cardinality(gone \cap m.bm)
      /\ a.rc = [p \in Page |-> IF p \in R /\ m.rc[p] > 0 THEN m.rc[p] - 1 ELSE m.rc[p]]
      /\ a.next = IF \A p \in gone : m.next <= p THEN m.next ELSE Min(gone)
      /\ a = [bm |-> a.bm, rc |-> a.rc, used |-> a.used, next |-> a.next]
  BY DEF pmm_free
<1>3. a.next \in 0 .. g_pages
  <2>1. gone # {} => Min(gone) \in gone
    BY <1>1, MinOfNaturals DEF Page
  <2>2. Page \subseteq 0 .. g_pages
    BY PmmAssumption DEF Page
  <2>3. QED
    BY <1>1, <1>2, <2>1, <2>2 DEF PmmInv
<1>4. a.rc \in [Page -> Nat]
  BY <1>2 DEF PmmInv
<1>5. IsFiniteSet(m.bm) /\ Cardinality(m.bm) \in Nat /\ IsFiniteSet(gone) /\ Cardinality(gone) \in Nat
  <2>1. m.bm \in SUBSET Page /\ gone \in SUBSET Page
    BY <1>1
  <2>2. QED
    BY <2>1, PagesFinite
<1>6. gone \cap m.bm = gone /\ m.bm \cap gone = gone
  BY <1>1
<1>7. Cardinality(a.bm) = a.used /\ a.used \in Int
  <2>1. Cardinality(m.bm \ gone) = Cardinality(m.bm) - Cardinality(m.bm \cap gone)
    BY <1>5, FS_Difference, Zenon
  <2>2. Cardinality(m.bm \cap gone) = Cardinality(gone) /\ Cardinality(gone \cap m.bm) = Cardinality(gone)
    BY <1>6, Zenon
  <2>3. Cardinality(a.bm) = Cardinality(m.bm \ gone)
    BY <1>2, Zenon
  <2>4. m.used = Cardinality(m.bm)
    BY DEF PmmInv
  <2>5. QED
    BY <1>2, <1>5, <2>1, <2>2, <2>3, <2>4
<1>8. /\ a.bm = Reserved \cup {f \in Page : a.rc[f] > 0}
      /\ \A f \in Reserved : a.rc[f] = 0
  BY <1>1, <1>2, MemoryAssumption DEF PmmInv
<1>9. QED
  BY <1>1, <1>2, <1>3, <1>4, <1>7, <1>8 DEF PmmInv

(* fork looks before it counts (vm_cow_share_leaf). *)
LEMMA IncrefInv ==
  ASSUME NEW m, PmmInv(m), NEW f, f \in Page => m.rc[f] > 0
  PROVE  PmmInv(pmm_incref(m, f))
<1> DEFINE a == pmm_incref(m, f)
<1>1. /\ a.bm = m.bm /\ a.used = m.used /\ a.next = m.next
      /\ a.rc = [m.rc EXCEPT ![f] = IF @ < RefMax THEN @ + 1 ELSE @]
      /\ a = [bm |-> a.bm, rc |-> a.rc, used |-> a.used, next |-> a.next]
  BY DEF pmm_incref, PmmInv
<1>2. a.rc \in [Page -> Nat] /\ \A g \in Page : a.rc[g] > 0 <=> m.rc[g] > 0
  <2>1. m.rc \in [Page -> Nat]
    BY DEF PmmInv
  <2>2. CASE f \in Page
    <3>1. m.rc[f] \in Nat /\ m.rc[f] > 0
      BY <2>1, <2>2
    <3>2. a.rc = [m.rc EXCEPT ![f] = m.rc[f]] \/ a.rc = [m.rc EXCEPT ![f] = m.rc[f] + 1]
      BY <1>1
    <3>3. QED
      BY <2>1, <3>1, <3>2
  <2>3. CASE f \notin Page
    BY <1>1, <2>1, <2>3, Zenon
  <2>4. QED
    BY <2>2, <2>3
<1>3. QED
  BY <1>1, <1>2, MemoryAssumption DEF PmmInv

LEMMA BootInv == PmmInv(Boot)
<1> DEFINE u == pmm_core_setup
           F == Page \ Reserved
<1>1. u = [bm |-> Page, rc |-> [p \in Page |-> 0], used |-> g_pages, next |-> 0]
  BY DEF pmm_core_setup
<1>2. Boot = [u EXCEPT !.bm = @ \ F, !.used = @ - Cardinality(u.bm \cap F)]
  BY DEF Boot, pmm_core_mark_free
<1>3. Cardinality(u.bm \cap F) = g_pages - Cardinality(Reserved) /\ Cardinality(Reserved) \in Nat
  <2>1. u.bm \cap F = F /\ Page \cap Reserved = Reserved /\ Reserved \in SUBSET Page
    BY <1>1, MemoryAssumption
  <2>2. Cardinality(u.bm \cap F) = Cardinality(F) /\ Cardinality(Page \cap Reserved) = Cardinality(Reserved)
    BY <2>1, Zenon
  <2>3. Cardinality(F) = Cardinality(Page) - Cardinality(Page \cap Reserved)
    BY PagesFinite, FS_Difference
  <2>4. QED
    BY <2>1, <2>2, <2>3, PagesFinite
<1>4. Boot.bm = Reserved /\ Reserved \subseteq Page
  BY <1>1, <1>2, MemoryAssumption
<1>5. /\ Boot = [bm |-> Boot.bm, rc |-> [p \in Page |-> 0], used |-> Boot.used, next |-> 0]
      /\ Boot.used = g_pages - Cardinality(u.bm \cap F)
  BY <1>1, <1>2, Zenon
<1>6. Boot.used = Cardinality(Reserved) /\ Boot.used \in Int
  BY <1>3, <1>5, PmmAssumption
<1>7. Cardinality(Boot.bm) = Cardinality(Reserved)
  BY <1>4, Zenon
<1> HIDE DEF u, F
<1>8. /\ Boot.rc = [p \in Page |-> 0] /\ Boot.next = 0
      /\ Boot.bm = Reserved \cup {f \in Page : Boot.rc[f] > 0}
      /\ \A f \in Reserved : Boot.rc[f] = 0
  BY <1>4, <1>5
<1>9. Boot \in [bm : SUBSET Page, rc : [Page -> Nat], used : Int, next : 0 .. g_pages]
  BY <1>4, <1>5, <1>6, <1>8, PmmAssumption
<1>10. QED
  BY <1>6, <1>7, <1>8, <1>9 DEF PmmInv
-----------------------------------------------------------------------------
(* Every action leaves the allocator alone or calls it. *)
LEMMA AllocatorStep ==
  ASSUME PmmInv(pmm), [Next]_vars
  PROVE  PmmInv(pmm')
<1>1. Kstack \in Nat \ {0} /\ ExecCopy \in Nat \ {0} /\ 1 \in Nat \ {0}
  BY MemoryAssumption
<1> DEFINE A(n) == pmm_alloc(pmm, n)
<1>2. PmmInv(A(1)) /\ PmmInv(A(Kstack)) /\ PmmInv(A(ExecCopy))
  BY <1>1, AllocInv
<1>3. \A s, n : PmmInv(pmm_free(pmm, s, n)) /\ PmmInv(pmm_free(A(1), s, n))
  BY <1>2, FreeInv
<1>4. CASE UNCHANGED vars
  BY <1>4 DEF vars
<1>5. ASSUME NEW p \in Proc,
             \/ \E va \in Va : UserWrite(p, va)
             \/ FaultReads(p) \/ FaultCopies(p) \/ vm_cow_protect_page(p) \/ MremapCopies(p)
             \/ \E b \in Va, n \in Sizes, w \in BOOLEAN : sys_mprotect(p, b, n, w)
             \/ \E b \in Va, n \in Sizes : sys_munmap(p, b, n)
      PROVE  PmmInv(pmm')
  <2>1. pmm' = pmm
    BY <1>5, Zenon DEF UserWrite, FaultReads, FaultCopies, sys_mprotect, sys_munmap,
                vm_cow_protect_page, MremapCopies
  <2>2. QED
    BY <2>1
<1>5a. ASSUME NEW p \in Proc,
             \/ \E n \in Sizes, w \in MmapProt : sys_mmap(p, n, w)
             \/ \E b \in Va, n \in Sizes, m \in Sizes : sys_mremap(p, b, n, m)
             \/ \E b \in Va : sys_brk(p, b)
             \/ FillEnds(p) \/ ForkStops(p) \/ task_execve(p) \/ Exit(p) \/ Reaps(p)
      PROVE  PmmInv(pmm')
  <2>1. pmm' = pmm
    BY <1>5a, Zenon DEF sys_mmap, sys_mremap, sys_brk, FillEnds, ForkStops, task_execve, Exit, Reaps
  <2>2. QED
    BY <2>1
<1>6. ASSUME NEW p \in Proc,
             \/ FaultAllocs(p) \/ Fill(p) \/ FillFails(p)
             \/ \E c \in Proc : ForkTable(p, c)
             \/ ForkEnds(p) \/ ExecBuffer(p) \/ elf_load(p)
      PROVE  PmmInv(pmm')
  <2>1. pmm' \in {pmm, A(1), A(Kstack), A(ExecCopy)}
    BY <1>6, Zenon DEF FaultAllocs, Fill, FillFails, ForkTable, ForkEnds, ExecBuffer, elf_load
  <2>2. QED
    BY <1>2, <2>1
<1>7. ASSUME NEW p \in Proc,
             \/ FaultFrees(p) \/ mmap_drop_page(p) \/ ForkUndone(p) \/ ExecTable(p)
             \/ ExecAbandons(p) \/ ExecCommits(p) \/ Destroys(p) \/ Reaped(p)
      PROVE  PmmInv(pmm')
  <2>1. \/ pmm' \in {pmm, A(1)}
        \/ \E s, n : pmm' = pmm_free(pmm, s, n) \/ pmm' = pmm_free(A(1), s, n)
    BY <1>7 DEF FaultFrees, mmap_drop_page, ForkUndone, ExecTable, ExecAbandons, ExecCommits,
                Destroys, Reaped
  <2>2. QED
    BY <1>2, <1>3, <2>1
<1>8. ASSUME NEW p \in Proc, ForkShares(p)
      PROVE  PmmInv(pmm')
  <2>1. \/ pmm' = pmm
        \/ \E f : pmm.rc[f] > 0 /\ pmm' = pmm_incref(pmm, f)
    BY <1>8 DEF ForkShares, pmm_get_ref
  <2>2. QED
    BY <2>1, IncrefInv
<1>9. QED
  BY <1>4, <1>5, <1>5a, <1>6, <1>7, <1>8, Zenon DEF Next

LEMMA AllocatorInv == Spec => []PmmInv(pmm)
<1>1. Init => PmmInv(pmm)
  <2>1. SUFFICES ASSUME Init PROVE PmmInv(pmm)
    OBVIOUS
  <2>2. pmm = pmm_alloc(pmm_alloc(pmm_alloc(Boot, 1), Kstack), Image + 1)
    BY <2>1 DEF Init
  <2>3. 1 \in Nat \ {0} /\ Kstack \in Nat \ {0} /\ Image + 1 \in Nat \ {0}
    BY MemoryAssumption
  <2>4. QED
    BY <2>2, <2>3, BootInv, AllocInv
<1>2. PmmInv(pmm) /\ [Next]_vars => PmmInv(pmm)'
  BY AllocatorStep DEF PmmInv
<1>3. QED
  BY <1>1, <1>2, PTL DEF Spec

(* The bitmap marks exactly the reserved pages and those with references, and  *)
(* g_used counts the marks, through every interleaving of allocations, frees,  *)
(* faults and forks, for any number of pages and processes.                    *)
THEOREM BitmapIsExact == Spec => []BitmapExact
<1>1. PmmInv(pmm) => BitmapExact
  BY DEF PmmInv, BitmapExact
<1>2. QED
  BY <1>1, AllocatorInv, PTL

(* An allocation of any size fails only when no run of that many pages is free, *)
(* for any number of pages.                                                     *)
THEOREM ClaimIsComplete == Spec => []ClaimFindsRun
<1>1. PmmInv(pmm) => ClaimFindsRun
  <2>1. SUFFICES ASSUME PmmInv(pmm), NEW n \in 1 .. g_pages
                 PROVE  Claimable(pmm, n) <=> Fits(pmm, 0, g_pages, n) # {}
    BY DEF ClaimFindsRun
  <2>2. pmm.next \in 0 .. g_pages /\ n \in Nat \ {0}
    BY <2>1, PmmAssumption DEF PmmInv
  <2>3. QED
    BY <2>2, ClaimComplete
<1>2. QED
  BY <1>1, AllocatorInv, PTL
=============================================================================
