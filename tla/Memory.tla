------------------------------- MODULE Memory -------------------------------
(* Address spaces and copy on write: fork's sharing and the write fault of    *)
(* kernel/vm_cow.c, mmap, munmap, mprotect, mremap and brk of                 *)
(* kernel/sys_mmap.c, what fork, exec, exit and reaping do with address       *)
(* spaces, all on the page allocator of Pmm.  Processes run in parallel and   *)
(* without the big kernel lock, as on riscv64 and aarch64: what they share    *)
(* are the allocator and the contents of pages.  A process has one thread, so *)
(* its page table and its CPU's TLB are its own while it is alive; of the TLB *)
(* the model has the addresses for which an entry may say more than the table *)
(* does.  The pages of one page table are one page here, addresses are page   *)
(* numbers, and a page holds one value.                                       *)
EXTENDS Pmm

CONSTANTS
  Proc,
  Hole,                    \* not a process
  Image,                   \* an executable fills the addresses 0 .. Image - 1 ...
  MmapBase, MmapTop,       \* ... the heap follows, then mmap's; MmapTop: the stack
  MaxPages,                \* bound: pages in a call of mmap and the like
  MmapProt,                \* bound: whether mmap is asked for writable pages
  Kstack,                  \* pages of a kernel stack and task structure
  ExecCopy,                \* pages of execve's buffer for the arguments
  Reserved,                \* pages the memory map does not give to the allocator
  MaxOps                   \* bound: system calls and stores in a behaviour

Value  == Proc \cup {0}   \* zeros, or what a process stored

ASSUME MemoryAssumption ==
  /\ {Image, MmapBase, MmapTop, MaxPages, Kstack, ExecCopy, MaxOps} \subseteq Nat
  /\ 0 < Image /\ Image <= MmapBase /\ MmapBase < MmapTop /\ 0 < Kstack /\ 0 < ExecCopy
  /\ 0 \in Reserved /\ Reserved \subseteq Page /\ MmapProt \subseteq BOOLEAN
  /\ Hole \notin Value /\ 0 \notin Proc

VARIABLES
  pmm, mem,                \* the allocator; what every page holds as data ...
  pt,                      \* ... and what those hold that are page tables
  table, deferred, kstack, \* of a process: page table, the one exec left, stack
  brk, mmap_end,           \* heap_break, mmap_end
  stale,                   \* where its CPU's TLB may grant more than the table
  pc, k,                   \* where it is in the kernel, and the locals there
  view,                    \* history: what it must find in its memory
  lost, orphans,           \* history: pages and page tables no one can free
  ops

spaces == <<table, deferred, kstack, brk, mmap_end>>
vars   == <<pmm, mem, pt, spaces, stale, pc, k, view, lost, orphans, ops>>

Va     == 0 .. MmapTop
NoLeaf == [page |-> NoPage, w |-> FALSE, cow |-> FALSE]
Empty  == [va \in Va |-> NoLeaf]
Idle   == [op |-> "", at |-> 0, end |-> 0, base |-> 0, old |-> 0, w |-> FALSE,
           mv |-> 0, page |-> NoPage, buf |-> NoPage, tab |-> NoPage, c |-> Hole]

Leaf(p, va)  == pt[table[p]][va]
Mapped(p, R) == {va \in R \cap Va : Leaf(p, va).page # NoPage}
Valid(R)     == R \subseteq MmapBase .. MmapTop - 1

Go(p, l, r)  == pc' = [pc EXCEPT ![p] = l] /\ k' = [k EXCEPT ![p] = r]
Return(p)    == Go(p, "user", Idle)
Flush(p)     == stale' = [stale EXCEPT ![p] = {}]

NewTable(f)  == pt' = [t \in DOMAIN pt \cup {f} |-> IF t = f THEN Empty ELSE pt[t]]
SetLeaf(t, va, e) == pt' = [pt EXCEPT ![t][va] = e]

(* An entry made from e grants what s no longer does. *)
Outdated(p, va, e, s) ==
  IF e.page # NoPage /\ (s.page # e.page \/ (e.w /\ ~s.w)) THEN stale[p] \cup {va} ELSE stale[p]

Op(p) == pc[p] = "user" /\ ops < MaxOps /\ ops' = ops + 1

-----------------------------------------------------------------------------
(* User mode. *)

UserWrite(p, va) ==
  LET e == Leaf(p, va)
  IN  /\ Op(p)
      /\ \/ /\ e.w /\ mem' = [mem EXCEPT ![e.page] = p]
            /\ view' = [view EXCEPT ![p][va] = p]
            /\ UNCHANGED <<pc, k>>
         \/ ~e.w /\ Go(p, "fault", [Idle EXCEPT !.at = va]) /\ UNCHANGED <<mem, view>>
      /\ UNCHANGED <<pmm, pt, spaces, stale, lost, orphans>>
-----------------------------------------------------------------------------
(* vm_cow_write_fault; "zombie" is a process killed for a true violation.     *)

(* Mutant: off by one. *)
SharedByMany(f) == pmm_get_ref(pmm, f) > 2

vm_cow_page_shared(f) == pmm_get_ref(pmm, f) > 1

FaultReads(p) ==
  LET va == k[p].at
      e  == Leaf(p, va)
  IN  /\ pc[p] = "fault"
      /\ IF e.cow /\ vm_cow_page_shared(e.page)
           THEN Go(p, "copy", k[p]) /\ UNCHANGED pt
           ELSE IF e.cow \/ e.w
             THEN /\ SetLeaf(table[p], va, [e EXCEPT !.w = TRUE, !.cow = FALSE])
                  /\ Return(p)
             ELSE Go(p, "zombie", Idle) /\ UNCHANGED pt
      /\ UNCHANGED <<pmm, mem, spaces, stale, view, lost, orphans, ops>>

FaultAllocs(p) ==
  LET f == Start(pmm, 1)
  IN  /\ pc[p] = "copy"
      /\ pmm' = pmm_alloc(pmm, 1)
      /\ IF f = NoPage THEN Go(p, "zombie", Idle)
         ELSE Go(p, "install", [k[p] EXCEPT !.page = f])
      /\ UNCHANGED <<mem, pt, spaces, stale, view, lost, orphans, ops>>

FaultCopies(p) ==
  LET va == k[p].at
      e  == Leaf(p, va)
      f  == k[p].page
  IN  /\ pc[p] = "install"
      /\ mem' = [mem EXCEPT ![f] = mem[e.page]]
      /\ SetLeaf(table[p], va, [page |-> f, w |-> TRUE, cow |-> FALSE])
      /\ Go(p, "unshare", [k[p] EXCEPT !.page = e.page])
      /\ stale' = [stale EXCEPT ![p] = @ \ {va}]
      /\ UNCHANGED <<pmm, spaces, view, lost, orphans, ops>>

(* Mutant: the shared page keeps the reference. *)
FaultKeeps(p) ==
  /\ pc[p] = "unshare" /\ Return(p)
  /\ UNCHANGED <<pmm, mem, pt, spaces, stale, view, lost, orphans, ops>>

FaultFrees(p) ==
  /\ pc[p] = "unshare"
  /\ pmm' = pmm_free(pmm, k[p].page, 1)
  /\ Return(p)
  /\ UNCHANGED <<mem, pt, spaces, stale, view, lost, orphans, ops>>
-----------------------------------------------------------------------------
(* mprotect: what is shared is marked for copying instead of made writable.   *)

sys_mprotect(p, b, n, w) ==
  /\ Op(p) /\ Mapped(p, Run(b, n)) = Run(b, n)
  /\ Go(p, "protect", [Idle EXCEPT !.at = b, !.end = b + n, !.w = w])
  /\ UNCHANGED <<pmm, mem, pt, spaces, stale, view, lost, orphans>>

vm_cow_protect_page(p) ==
  LET e   == Leaf(p, k[p].at)
      cow == k[p].w /\ (e.cow \/ vm_cow_page_shared(e.page))
      s   == [page |-> e.page, w |-> k[p].w /\ ~cow, cow |-> cow]
  IN  /\ pc[p] = "protect"
      /\ SetLeaf(table[p], k[p].at, s)
      /\ IF k[p].at + 1 < k[p].end
           THEN /\ Go(p, "protect", [k[p] EXCEPT !.at = @ + 1])
                /\ stale' = [stale EXCEPT ![p] = Outdated(p, k[p].at, e, s)]
           ELSE Return(p) /\ Flush(p)
      /\ UNCHANGED <<pmm, mem, spaces, view, lost, orphans, ops>>
-----------------------------------------------------------------------------
(* mmap, munmap, brk and mremap are two loops: dropping and filling pages.    *)

(* Once the pages are dropped an mmap fills them; the others are done. *)
DropEnds(p) ==
  IF k[p].op = "fixed"
    THEN Go(p, "fill", [k[p] EXCEPT !.op = "mmap", !.at = k[p].base])
    ELSE Return(p)

mmap_drop_page(p) ==
  LET todo == Mapped(p, k[p].at .. k[p].end - 1)
      va   == Min(todo)
  IN  /\ pc[p] = "drop"
      /\ IF todo = {} THEN DropEnds(p) /\ Flush(p) /\ UNCHANGED <<pmm, pt, view>>
         ELSE /\ pmm' = pmm_free(pmm, Leaf(p, va).page, 1)
              /\ SetLeaf(table[p], va, NoLeaf)
              /\ stale' = [stale EXCEPT ![p] = @ \ {va}]
              /\ view' = [view EXCEPT ![p][va] = Hole]
              /\ Go(p, "drop", [k[p] EXCEPT !.at = va + 1])
      /\ UNCHANGED <<mem, spaces, lost, orphans, ops>>

sys_munmap(p, b, n) ==
  /\ Op(p) /\ Valid(Run(b, n))
  /\ Go(p, "drop", [Idle EXCEPT !.at = b, !.end = b + n])
  /\ UNCHANGED <<pmm, mem, pt, spaces, stale, view, lost, orphans>>

(* mmap_find_gap: from the hint upwards, then from the bottom to the hint. *)
Gaps(p, n, lo, hi) == {b \in lo .. hi - n : Mapped(p, Run(b, n)) = {}}

mmap_find_gap(p, n) ==
  LET hint == IF mmap_end[p] \in MmapBase .. MmapTop - 1 THEN mmap_end[p] ELSE MmapBase
  IN  IF Gaps(p, n, hint, MmapTop) # {} THEN Min(Gaps(p, n, hint, MmapTop))
      ELSE IF Gaps(p, n, MmapBase, hint) # {} THEN Min(Gaps(p, n, MmapBase, hint))
      ELSE 0

(* sys_mmap from its checks to its loop, for a caller with locals r. *)
MmapAt(p, b, n, r) ==
  LET R == Run(b, n)
  IN  /\ Valid(R)
      /\ IF Mapped(p, R) = {}
           THEN Go(p, "fill", [r EXCEPT !.op = "mmap", !.at = b, !.end = b + n, !.base = b])
           ELSE Go(p, "drop", [r EXCEPT !.op = "fixed", !.at = b, !.end = b + n, !.base = b])
      /\ UNCHANGED mmap_end

MmapAny(p, n, r) ==
  LET b == mmap_find_gap(p, n)
  IN  IF b = 0 THEN Return(p) /\ UNCHANGED mmap_end
      ELSE /\ mmap_end' = [mmap_end EXCEPT ![p] = b + n]
           /\ Go(p, "fill", [r EXCEPT !.op = "mmap", !.at = b, !.end = b + n, !.base = b])

sys_mmap(p, n, w) ==
  /\ Op(p)
  /\ LET r == [Idle EXCEPT !.w = w]
     IN  MmapAny(p, n, r) \/ \E b \in Va : MmapAt(p, b, n, r)
  /\ UNCHANGED <<pmm, mem, pt, table, deferred, kstack, brk, stale, view, lost, orphans>>

sys_brk(p, b) ==
  /\ Op(p) /\ brk[p] < b /\ b <= MmapBase
  /\ Go(p, "fill", [Idle EXCEPT !.op = "brk", !.at = brk[p], !.end = b, !.w = TRUE])
  /\ UNCHANGED <<pmm, mem, pt, spaces, stale, view, lost, orphans>>

(* One new page of zeros; a page that was mapped there is lost. *)
Fill(p) ==
  LET f  == Start(pmm, 1)
      va == k[p].at
      e  == Leaf(p, va)
      s  == [page |-> f, w |-> k[p].w, cow |-> FALSE]
  IN  /\ pc[p] = "fill" /\ va < k[p].end /\ f # NoPage
      /\ pmm' = pmm_alloc(pmm, 1)
      /\ mem' = [mem EXCEPT ![f] = 0]
      /\ SetLeaf(table[p], va, s)
      /\ stale' = [stale EXCEPT ![p] = Outdated(p, va, e, s)]
      /\ lost' = IF e.page = NoPage THEN lost ELSE [lost EXCEPT ![e.page] = @ + 1]
      /\ view' = [view EXCEPT ![p][va] = 0]
      /\ Go(p, "fill", [k[p] EXCEPT !.at = @ + 1])
      /\ UNCHANGED <<spaces, orphans, ops>>

(* Out of memory: mmap and mremap take back what they mapped, brk does not. *)
FillFails(p) ==
  /\ pc[p] = "fill" /\ k[p].at < k[p].end /\ Start(pmm, 1) = NoPage
  /\ pmm' = pmm_alloc(pmm, 1)
  /\ IF k[p].op = "brk" THEN Return(p)
     ELSE Go(p, "drop", [Idle EXCEPT !.at = k[p].base, !.end = k[p].at])
  /\ Flush(p)
  /\ UNCHANGED <<mem, pt, spaces, view, lost, orphans, ops>>

FillEnds(p) ==
  /\ pc[p] = "fill" /\ k[p].at = k[p].end
  /\ brk' = IF k[p].op = "brk" THEN [brk EXCEPT ![p] = k[p].end] ELSE brk
  /\ mmap_end' = IF k[p].op = "mmap" /\ mmap_end[p] < k[p].end
                   THEN [mmap_end EXCEPT ![p] = k[p].end] ELSE mmap_end
  /\ IF k[p].mv > 0 THEN Go(p, "move", [k[p] EXCEPT !.at = 0]) ELSE Return(p)
  /\ Flush(p)
  /\ UNCHANGED <<pmm, mem, pt, table, deferred, kstack, view, lost, orphans, ops>>

(* mremap of n pages at b to m, in place or moved, with MREMAP_FIXED to c. *)
sys_mremap(p, b, n, m) ==
  LET R == Run(b + n, m - n)
      w == Leaf(p, b).w \/ Leaf(p, b).cow
      r == [Idle EXCEPT !.w = w, !.old = b, !.mv = n]
  IN  /\ Op(p) /\ Mapped(p, Run(b, n)) = Run(b, n) /\ m # n
      /\ \/ /\ m < n /\ UNCHANGED mmap_end
            /\ Go(p, "drop", [Idle EXCEPT !.at = b + m, !.end = b + n])
         \/ /\ m > n /\ Valid(R) /\ Mapped(p, R) = {} /\ UNCHANGED mmap_end
            /\ Go(p, "fill", [Idle EXCEPT !.op = "grow", !.at = b + n, !.end = b + m,
                                          !.base = b + n, !.w = w])
         \/ /\ m > n /\ ~(Valid(R) /\ Mapped(p, R) = {})
            /\ MmapAny(p, m, r) \/ \E c \in Va : MmapAt(p, c, m, r)
      /\ UNCHANGED <<pmm, mem, pt, table, deferred, kstack, brk, stale, view, lost, orphans>>

(* The old contents into the new pages; then sys_munmap, which looks at its range. *)
MremapCopies(p) ==
  LET i == k[p].at
      from == Leaf(p, k[p].old + i).page
      to   == k[p].base + i
      old  == Run(k[p].old, k[p].mv)
  IN  /\ pc[p] = "move"
      /\ IF i < k[p].mv
           THEN /\ mem' = [mem EXCEPT ![Leaf(p, to).page] = mem[from]]
                /\ view' = [view EXCEPT ![p][to] = view[p][k[p].old + i]]
                /\ Go(p, "move", [k[p] EXCEPT !.at = @ + 1])
           ELSE /\ IF Valid(old)
                     THEN Go(p, "drop", [Idle EXCEPT !.at = k[p].old, !.end = k[p].old + k[p].mv])
                     ELSE Return(p)
                /\ UNCHANGED <<mem, view>>
      /\ UNCHANGED <<pmm, pt, spaces, stale, lost, orphans, ops>>
-----------------------------------------------------------------------------
(* fork: arch_vm_clone_address_space, then the kernel stack.                  *)

ForkTable(p, c) ==
  LET f == Start(pmm, 1)
  IN  /\ Op(p) /\ pc[c] = "free"
      /\ pmm' = pmm_alloc(pmm, 1)
      /\ IF f = NoPage THEN UNCHANGED <<pt, pc, k>>
         ELSE /\ NewTable(f)
              /\ pc' = [pc EXCEPT ![p] = "share", ![c] = "unborn"]
              /\ k' = [k EXCEPT ![p] = [Idle EXCEPT !.tab = f, !.c = c]]
      /\ UNCHANGED <<mem, spaces, stale, view, lost, orphans>>

Rest(p, t) == {va \in Va : k[p].at <= va /\ pt[t][va].page # NoPage}

(* vm_cow_share_leaf for the next leaf; a page without references is not memory. *)
ForkShares(p) ==
  LET va  == Min(Rest(p, table[p]))
      e   == Leaf(p, va)
      ram == pmm_get_ref(pmm, e.page) > 0
      s   == IF ram /\ e.w THEN [e EXCEPT !.w = FALSE, !.cow = TRUE] ELSE e
  IN  /\ pc[p] = "share" /\ Rest(p, table[p]) # {}
      /\ pt' = [pt EXCEPT ![table[p]][va] = s, ![k[p].tab][va] = s]
      /\ stale' = [stale EXCEPT ![p] = Outdated(p, va, e, s)]
      /\ pmm' = IF ram THEN pmm_incref(pmm, e.page) ELSE pmm
      /\ Go(p, "share", [k[p] EXCEPT !.at = va + 1])
      /\ UNCHANGED <<mem, spaces, view, lost, orphans, ops>>

(* What there is of the child is given back. *)
Unfork(p) ==
  Go(p, "destroy", [Idle EXCEPT !.op = "unfork", !.tab = k[p].tab, !.c = k[p].c])

(* Mutant: the parent's TLB keeps its writable entries when fork fails. *)
ForkStopsUnflushed(p) ==
  /\ pc[p] = "share" /\ Rest(p, table[p]) # {} /\ Start(pmm, 1) = NoPage
  /\ Unfork(p)
  /\ UNCHANGED <<pmm, mem, pt, spaces, stale, view, lost, orphans, ops>>


(* No page for a table further down. *)
ForkStops(p) ==
  /\ pc[p] = "share" /\ Rest(p, table[p]) # {} /\ Start(pmm, 1) = NoPage
  /\ Flush(p) /\ Unfork(p)
  /\ UNCHANGED <<pmm, mem, pt, spaces, view, lost, orphans, ops>>

(* The kernel stack and the descriptors, for which there may be no page either. *)
ForkEnds(p) ==
  LET c == k[p].c
      s == Start(pmm, Kstack)
      m == pmm_alloc(pmm, Kstack)
  IN  /\ pc[p] = "share" /\ Rest(p, table[p]) = {}
      /\ Flush(p)
      /\ pmm' = m /\ kstack' = [kstack EXCEPT ![c] = s]
      /\ \/ /\ s = NoPage \/ Start(m, 1) = NoPage
            /\ Unfork(p)
            /\ UNCHANGED <<table, brk, mmap_end, view>>
         \/ /\ s # NoPage /\ pc' = [pc EXCEPT ![p] = "user", ![c] = "user"]
            /\ k' = [k EXCEPT ![p] = Idle]
            /\ table' = [table EXCEPT ![c] = k[p].tab]
            /\ brk' = [brk EXCEPT ![c] = brk[p]]
            /\ mmap_end' = [mmap_end EXCEPT ![c] = mmap_end[p]]
            /\ view' = [view EXCEPT ![c] = view[p]]
      /\ UNCHANGED <<mem, pt, deferred, lost, orphans, ops>>

ForkUndone(p) ==
  LET c == k[p].c
  IN  /\ pc[p] = "unfork"
      /\ pmm' = IF kstack[c] = NoPage THEN pmm ELSE pmm_free(pmm, kstack[c], Kstack)
      /\ kstack' = [kstack EXCEPT ![c] = NoPage]
      /\ pc' = [pc EXCEPT ![p] = "user", ![c] = "free"] /\ k' = [k EXCEPT ![p] = Idle]
      /\ UNCHANGED <<mem, pt, table, deferred, brk, mmap_end, stale, view, lost, orphans, ops>>
-----------------------------------------------------------------------------
(* The end of an address space: its pages, its table, and then op.            *)

Destroys(p) ==
  LET t  == k[p].tab
      va == Min(Rest(p, t))
  IN  /\ pc[p] = "destroy"
      /\ IF Rest(p, t) # {}
           THEN /\ pmm' = pmm_free(pmm, pt[t][va].page, 1)
                /\ SetLeaf(t, va, NoLeaf)
                /\ Go(p, "destroy", [k[p] EXCEPT !.at = va + 1])
           ELSE /\ pmm' = pmm_free(pmm, t, 1)
                /\ pt' = [u \in DOMAIN pt \ {t} |-> pt[u]]
                /\ Go(p, k[p].op, [Idle EXCEPT !.c = k[p].c])
      /\ UNCHANGED <<mem, spaces, stale, view, lost, orphans, ops>>

Exit(p) ==
  /\ Op(p) /\ Go(p, "zombie", Idle)
  /\ UNCHANGED <<pmm, mem, pt, spaces, stale, view, lost, orphans>>

(* task_reap_locked: the space exec left, the space itself, the stack. *)
Reaps(p) ==
  LET old == deferred[p] # NoPage
  IN  /\ pc[p] = "zombie"
      /\ deferred' = [deferred EXCEPT ![p] = NoPage]
      /\ table' = IF old THEN table ELSE [table EXCEPT ![p] = NoPage]
      /\ Go(p, "destroy", [Idle EXCEPT !.op = IF old THEN "zombie" ELSE "reaped",
                                       !.tab = IF old THEN deferred[p] ELSE table[p]])
      /\ UNCHANGED <<pmm, mem, pt, kstack, brk, mmap_end, stale, view, lost, orphans, ops>>

Reaped(p) ==
  /\ pc[p] = "reaped"
  /\ pmm' = pmm_free(pmm, kstack[p], Kstack) /\ kstack' = [kstack EXCEPT ![p] = NoPage]
  /\ Flush(p) /\ view' = [view EXCEPT ![p] = [va \in Va |-> Hole]]
  /\ brk' = [brk EXCEPT ![p] = 0] /\ mmap_end' = [mmap_end EXCEPT ![p] = 0]
  /\ Go(p, "free", Idle)
  /\ UNCHANGED <<mem, pt, table, deferred, lost, orphans, ops>>
-----------------------------------------------------------------------------
(* execve: the new image is built beside the old one, which stays in           *)
(* deferred_cr3 until the next execve or the end.                              *)

task_execve(p) ==
  LET old == deferred[p]
  IN  /\ Op(p)
      /\ deferred' = [deferred EXCEPT ![p] = NoPage]
      /\ IF old = NoPage THEN Go(p, "exec", Idle)
         ELSE Go(p, "destroy", [Idle EXCEPT !.op = "exec", !.tab = old])
      /\ UNCHANGED <<pmm, mem, pt, table, kstack, brk, mmap_end, stale, view, lost, orphans>>

(* The buffer for the arguments, which all the ends below free. *)
ExecBuffer(p) ==
  LET f == Start(pmm, ExecCopy)
  IN  /\ pc[p] = "exec"
      /\ pmm' = pmm_alloc(pmm, ExecCopy)
      /\ IF f = NoPage THEN Return(p) ELSE Go(p, "create", [Idle EXCEPT !.buf = f])
      /\ UNCHANGED <<mem, pt, spaces, stale, view, lost, orphans, ops>>

(* No such file, a bad script or no page for a table; or the new table. *)
ExecTable(p) ==
  LET f == Start(pmm, 1)
  IN  /\ pc[p] = "create"
      /\ \/ /\ Return(p) /\ pmm' = pmm_free(pmm, k[p].buf, ExecCopy) /\ UNCHANGED pt
         \/ /\ f # NoPage /\ pmm' = pmm_alloc(pmm, 1)
            /\ NewTable(f)
            /\ Go(p, "load", [k[p] EXCEPT !.tab = f])
      /\ UNCHANGED <<mem, spaces, stale, view, lost, orphans, ops>>

(* elf_load; without memory it stops, and the entry point says it succeeded. *)
elf_load(p) ==
  LET f == Start(pmm, 1)
  IN  /\ pc[p] = "load"
      /\ IF k[p].at = Image \/ f = NoPage
           THEN Go(p, "stack", k[p]) /\ UNCHANGED <<pmm, mem, pt>>
           ELSE /\ pmm' = pmm_alloc(pmm, 1) /\ mem' = [mem EXCEPT ![f] = 0]
                /\ SetLeaf(k[p].tab, k[p].at, [page |-> f, w |-> TRUE, cow |-> FALSE])
                /\ Go(p, "load", [k[p] EXCEPT !.at = @ + 1])
      /\ UNCHANGED <<spaces, stale, view, lost, orphans, ops>>

(* Not an ELF file, or its interpreter is missing: the new space stays behind. *)
ExecAbandons(p) ==
  /\ pc[p] \in {"stack", "load"} /\ (pc[p] = "load" => k[p].at = 0)
  /\ pmm' = pmm_free(pmm, k[p].buf, ExecCopy)
  /\ orphans' = orphans \cup {k[p].tab}
  /\ Return(p)
  /\ UNCHANGED <<mem, pt, spaces, stale, view, lost, ops>>

(* task_prepare_initial_user_stack, and the new space in the place of the old. *)
ExecCommits(p) ==
  LET f == Start(pmm, 1)
      t == k[p].tab
  IN  /\ pc[p] = "stack"
      /\ \/ /\ pmm' = pmm_free(pmm, k[p].buf, ExecCopy)   \* too many arguments, or no page
            /\ Go(p, "destroy", [Idle EXCEPT !.op = "user", !.tab = t])
            /\ UNCHANGED <<mem, pt, table, deferred, brk, mmap_end, stale, view>>
         \/ /\ f # NoPage /\ pmm' = pmm_free(pmm_alloc(pmm, 1), k[p].buf, ExecCopy)
            /\ mem' = [mem EXCEPT ![f] = 0]
            /\ SetLeaf(t, MmapTop, [page |-> f, w |-> TRUE, cow |-> FALSE])
            /\ table' = [table EXCEPT ![p] = t] /\ deferred' = [deferred EXCEPT ![p] = table[p]]
            /\ brk' = [brk EXCEPT ![p] = Image] /\ mmap_end' = [mmap_end EXCEPT ![p] = MmapBase]
            /\ view' = [view EXCEPT ![p] =
                 [va \in Va |-> IF va = MmapTop \/ pt[t][va] # NoLeaf THEN 0 ELSE Hole]]
            /\ Flush(p) /\ Return(p)
      /\ UNCHANGED <<kstack, lost, orphans, ops>>
-----------------------------------------------------------------------------
(* One process runs, made like task_fork and task_execve make one. *)
Boot == pmm_core_mark_free(pmm_core_setup, Page \ Reserved)

Init ==
  \E p \in Proc :
    LET t  == Start(Boot, 1)
        m1 == pmm_alloc(Boot, 1)
        s  == Start(m1, Kstack)
        m2 == pmm_alloc(m1, Kstack)
        u  == Start(m2, Image + 1)
        at == [va \in Va |-> IF va < Image THEN u + va ELSE IF va = MmapTop THEN u + Image ELSE NoPage]
    IN  /\ pmm = pmm_alloc(m2, Image + 1)
        /\ mem = [f \in Page |-> 0]
        /\ pt = [f \in {t} |-> [va \in Va |-> [page |-> at[va], w |-> at[va] # NoPage, cow |-> FALSE]]]
        /\ table = [q \in Proc |-> IF q = p THEN t ELSE NoPage]
        /\ deferred = [q \in Proc |-> NoPage]
        /\ kstack = [q \in Proc |-> IF q = p THEN s ELSE NoPage]
        /\ brk = [q \in Proc |-> IF q = p THEN Image ELSE 0]
        /\ mmap_end = [q \in Proc |-> IF q = p THEN MmapBase ELSE 0]
        /\ stale = [q \in Proc |-> {}]
        /\ pc = [q \in Proc |-> IF q = p THEN "user" ELSE "free"]
        /\ k = [q \in Proc |-> Idle]
        /\ view = [q \in Proc |-> [va \in Va |-> IF q = p /\ at[va] # NoPage THEN 0 ELSE Hole]]
        /\ lost = [f \in Page |-> 0] /\ orphans = {} /\ ops = 0

Sizes == 1 .. MaxPages

Next ==
  \E p \in Proc :
    \/ \E va \in Va : UserWrite(p, va)
    \/ FaultReads(p) \/ FaultAllocs(p) \/ FaultCopies(p) \/ FaultFrees(p)
    \/ \E b \in Va, n \in Sizes, w \in BOOLEAN : sys_mprotect(p, b, n, w)
    \/ \E b \in Va, n \in Sizes : sys_munmap(p, b, n)
    \/ \E n \in Sizes, w \in MmapProt : sys_mmap(p, n, w)
    \/ \E b \in Va, n \in Sizes, m \in Sizes : sys_mremap(p, b, n, m)
    \/ \E b \in Va : sys_brk(p, b)
    \/ vm_cow_protect_page(p) \/ mmap_drop_page(p) \/ MremapCopies(p)
    \/ Fill(p) \/ FillFails(p) \/ FillEnds(p)
    \/ \E c \in Proc : ForkTable(p, c)
    \/ ForkShares(p) \/ ForkStops(p) \/ ForkEnds(p) \/ ForkUndone(p)
    \/ task_execve(p) \/ ExecBuffer(p) \/ ExecTable(p) \/ elf_load(p)
    \/ ExecAbandons(p) \/ ExecCommits(p)
    \/ Exit(p) \/ Reaps(p) \/ Destroys(p) \/ Reaped(p)

Spec == Init /\ [][Next]_vars
-----------------------------------------------------------------------------
Leaves == [page : Page, w : BOOLEAN, cow : BOOLEAN]

(* The state has its shape; the heap stays below mmap's addresses (sys_brk),  *)
(* and no reference count leaves its 16 bits.                                 *)
TypeOK ==
  /\ pmm \in [bm : SUBSET Page, rc : [Page -> 0 .. RefMax], used : 0 .. g_pages,
              next : 0 .. g_pages]
  /\ mem \in [Page -> Value] /\ DOMAIN pt \subseteq Page /\ pt \in [DOMAIN pt -> [Va -> Leaves]]
  /\ {table, deferred, kstack} \subseteq [Proc -> Page]
  /\ brk \in [Proc -> 0 .. MmapBase] /\ mmap_end \in [Proc -> 0 .. MmapTop]
  /\ stale \in [Proc -> SUBSET Va] /\ view \in [Proc -> [Va -> Value \cup {Hole}]]
  /\ lost \in [Page -> Nat] /\ orphans \subseteq Page /\ ops \in 0 .. MaxOps

(* A process finds in its memory what it put there and nothing else, whatever *)
(* the others do with the pages it shares with them since a fork, and where   *)
(* it has unmapped it has nothing; in user mode no TLB entry says more than   *)
(* its page table (vm_cow_share_leaf, vm_cow_write_fault, sys_mprotect,       *)
(* sys_munmap, sys_mremap and their flushes).                                 *)
Private ==
  \A p \in {q \in Proc : table[q] # NoPage}, va \in Va :
    LET e == Leaf(p, va)
    IN  /\ (e.page = NoPage) <=> (view[p][va] = Hole)
        /\ e.page # NoPage => mem[e.page] = view[p][va]
        /\ pc[p] = "user" => stale[p] = {}

(* A page that two refer to is never written: whoever writes has the only     *)
(* reference (vm_cow_write_fault, vm_cow_protect_page, sys_mremap's copy).    *)
SharedNeverWritten ==
  [][\A f \in Page : mem'[f] # mem[f] => pmm.rc[f] <= 1]_vars

(* Every page's count is the number of references to it: leaves of page       *)
(* tables in use, left by exec, half built, half destroyed or abandoned, the  *)
(* tables, kernel stacks, what a fault or execve holds, and what brk lost.    *)
(* In particular nothing is freed while it is used, on no path of failure.    *)
Tables == ({table[p] : p \in Proc} \cup {deferred[p] : p \in Proc}
             \cup {k[p].tab : p \in Proc} \cup orphans) \ {NoPage}

RefExact ==
  \A f \in Page \ {NoPage} :
    pmm.rc[f] = Cardinality({x \in Tables \X Va : pt[x[1]][x[2]].page = f})
                + Cardinality(Tables \cap {f})
                + Cardinality({p \in Proc : kstack[p] # NoPage /\ f \in Run(kstack[p], Kstack)})
                + Cardinality({p \in Proc : k[p].page = f})
                + Cardinality({p \in Proc : k[p].buf # NoPage /\ f \in Run(k[p].buf, ExecCopy)})
                + lost[f]

(* A page is marked in the bitmap exactly while it has references, and g_used *)
(* counts the marks (pmm_claim_locked, pmm_release_locked).                   *)
BitmapExact ==
  /\ pmm.bm = Reserved \cup {f \in Page : pmm.rc[f] > 0}
  /\ pmm.used = Cardinality(pmm.bm)

(* An allocation fails only when no run of that many pages is free: starting  *)
(* at g_next_page and going round misses none, not even a run that lies       *)
(* across the starting point (pmm_claim_locked).                              *)
ClaimFindsRun ==
  \A n \in 1 .. g_pages : Claimable(pmm, n) <=> Fits(pmm, 0, g_pages, n) # {}

(* The pages a failed brk has mapped remain, "only" out of the user's sight   *)
(* (comment in sys_brk): no page is ever out of everybody's reach.            *)
NoPageLost == \A f \in Page : lost[f] = 0
=============================================================================
