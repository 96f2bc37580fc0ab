--------------------------------- MODULE Pmm ---------------------------------
(* The physical page allocator kernel/pmm_core.c.  Its state is a record: the *)
(* bitmap as the set of pages in use, the reference counts, g_used and the    *)
(* place g_next_page where the next search starts.  Every operation holds     *)
(* g_pmm_lock throughout, so each is a function from state to state; Memory   *)
(* composes them with the code that shares and frees pages.                   *)
EXTENDS Integers, FiniteSets, FiniteSetsExt

CONSTANTS
  g_pages,                 \* pages managed, numbered from 0
  PMM_BIG_PAGES,           \* requests from this size on are searched from 0
  RefMax                   \* the largest count (0xffff)

ASSUME PmmAssumption ==
  /\ g_pages \in Nat \ {0} /\ PMM_BIG_PAGES \in Nat \ {0} /\ RefMax \in Nat \ {0}

Page   == 0 .. g_pages - 1
NoPage == 0                \* page 0 is marked used at boot and stands for NULL

Run(s, n) == s .. s + n - 1

pmm_core_setup == [bm |-> Page, rc |-> [p \in Page |-> 0], used |-> g_pages, next |-> 0]

pmm_core_mark_free(m, P) ==
  [m EXCEPT !.bm = @ \ P, !.used = @ - Cardinality(m.bm \cap P)]

-----------------------------------------------------------------------------
(* pmm_scan_locked: the first run of n free pages inside [from, to). *)
Fits(m, from, to, n) == {s \in from .. to - n : Run(s, n) \cap m.bm = {}}

(* Where pmm_claim_locked looks, after it has reset a starting point at the end: *)
(* from the starting point on, then from 0 to n - 1 pages beyond it.             *)
From(m) == IF m.next >= g_pages THEN 0 ELSE m.next

(* Mutant: the search does not go round. *)
TailNone(m, n) == 0

Tail_(m, n) == IF From(m) + n - 1 > g_pages THEN g_pages ELSE From(m) + n - 1

Candidates(m, n) ==
  IF n >= PMM_BIG_PAGES \/ Fits(m, From(m), g_pages, n) = {}
    THEN Fits(m, 0, IF n >= PMM_BIG_PAGES THEN g_pages ELSE Tail_(m, n), n)
    ELSE Fits(m, From(m), g_pages, n)

Claimable(m, n) == n > 0 /\ Candidates(m, n) # {}

Start(m, n) == IF Claimable(m, n) THEN Min(Candidates(m, n)) ELSE NoPage

pmm_claim_locked(m, n) ==
  IF Claimable(m, n)
    THEN [m EXCEPT !.bm = @ \cup Run(Start(m, n), n), !.used = @ + n,
                   !.next = IF n >= PMM_BIG_PAGES THEN From(m) ELSE Start(m, n) + n]
    ELSE [m EXCEPT !.next = IF n = 0 THEN @ ELSE From(m)]

pmm_alloc(m, n) ==
  LET run == Run(Start(m, n), n)
  IN  IF ~Claimable(m, n) THEN pmm_claim_locked(m, n)
      ELSE [pmm_claim_locked(m, n) EXCEPT
              !.rc = [p \in Page |-> IF p \in run THEN 1 ELSE @[p]]]

(* pmm_free of n pages from s on: those whose count falls to 0 are released, *)
(* and the search starts no later than at the first of them.                 *)
Dropped(m, s, n) == {p \in Run(s, n) \cap Page : m.rc[p] = 1}

(* Mutant: what is still shared is released as well. *)
FreesShared(m, s, n) ==
  LET gone == Run(s, n) \cap Page
  IN  [bm   |-> m.bm \ gone,
       rc   |-> [p \in Page |-> IF p \in Run(s, n) /\ m.rc[p] > 0 THEN m.rc[p] - 1
                                ELSE m.rc[p]],
       used |-> m.used - Cardinality(gone \cap m.bm),
       next |-> IF \A p \in gone : m.next <= p THEN m.next ELSE Min(gone)]

pmm_free(m, s, n) ==
  LET gone == Dropped(m, s, n)
  IN  [bm   |-> m.bm \ gone,
       rc   |-> [p \in Page |-> IF p \in Run(s, n) /\ m.rc[p] > 0 THEN m.rc[p] - 1
                                ELSE m.rc[p]],
       used |-> m.used - Cardinality(gone \cap m.bm),
       next |-> IF \A p \in gone : m.next <= p THEN m.next ELSE Min(gone)]

pmm_incref(m, p) == [m EXCEPT !.rc[p] = IF @ < RefMax THEN @ + 1 ELSE @]

pmm_get_ref(m, p) == m.rc[p]
=============================================================================
