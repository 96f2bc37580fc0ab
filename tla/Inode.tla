-------------------------------- MODULE Inode --------------------------------
(* Inodes, directories and paths of the file system (kernel/xv6fs.c) with the *)
(* calls of kernel/fs.c that reach them: path walks, the inode table and its  *)
(* reference counts, inode locks, link counts, and the order in which every   *)
(* call takes and gives back locks, references and space in the journal.      *)
(* Processes run in parallel, without the big kernel lock, as on aarch64.     *)
(* Of an inode there are the copy on disk (as of the last iupdate) and the    *)
(* one in memory; a directory holds names, and a file is empty or not.        *)
EXTENDS Integers, Sequences, FiniteSets, FiniteSetsExt, SequencesExt

CONSTANTS
  Proc, None,
  Name,            \* elements of paths
  NInodes,         \* bound: inode numbers 1 .. NInodes, 1 is the root
  Calls,           \* bound: the calls made, [op, path, new]
  MaxCalls,        \* bound: calls in a behaviour
  LOGBLOCKS,       \* space in the journal; an operation may declare all of it
  Tree,            \* the directories at the start: number -> name -> number
  ImageDirs,       \* those that came with the image; mkdir made the others
  Fails            \* where the disk may be full: {"name", "dots"} at most

SMALL == 1         \* XV6LOG_OP_SMALL
Inum  == 1 .. NInodes
ROOT  == 1

ASSUME InodeAssumption ==
  /\ NInodes \in Nat \ {0} /\ LOGBLOCKS \in Nat /\ LOGBLOCKS > SMALL + 1 /\ MaxCalls \in Nat
  /\ None \notin Proc /\ ROOT \in DOMAIN Tree
  /\ Tree \in [DOMAIN Tree -> [Name -> 0 .. NInodes]] /\ DOMAIN Tree \subseteq Inum
  /\ ImageDirs \subseteq DOMAIN Tree /\ Fails \subseteq {"name", "dots"}

VARIABLES
  dinode,          \* type, nlink and size on disk
  inode,           \* the inode table: ref, valid and the copy in memory
  dir, par,        \* the names in a directory, and its ".."
  lock,            \* who holds the inode's sleep lock
  rename_lock,
  op,              \* the journal space a process has reserved, 0: none
  fds,             \* the inode of its open file, 0: none
  pc, k,           \* where it is in a call, and the locals
  todo,            \* the calls it makes next, in order, before it goes on at pc
  lost,            \* history: names that went with a directory that was not empty
  calls

disk == <<dinode, dir, par, lost>>
vars == <<disk, inode, lock, rename_lock, op, fds, pc, k, todo, calls>>

NoNames == [n \in Name |-> 0]
Idle    == [op |-> "", path |-> <<>>, new |-> <<>>, walk |-> <<>>, parent |-> FALSE,
            cur |-> 0, dp |-> 0, dq |-> 0, ip |-> 0, iq |-> 0, need |-> 0, left |-> {},
            to |-> "user"]

Reserved(S) == FoldSet(LAMBDA p, n : op[p] + n, 0, S)

(* xv6fs_itrunc_need, in units of which a small operation declares one. *)
itrunc_need(size) == SMALL + size

(* Goes on at l with locals r, once the calls s are made. *)
Go(p, l, r, s) ==
  /\ pc' = [pc EXCEPT ![p] = l] /\ k' = [k EXCEPT ![p] = r] /\ todo' = [todo EXCEPT ![p] = s]

At(p, l)  == pc[p] = l /\ todo[p] = <<>>
Return(p, s) == Go(p, "user", Idle, s)
Do(p, c)  == todo[p] # <<>> /\ Head(todo[p])[1] = c
Arg(p)    == Head(todo[p])[2]
Did(p)    == todo' = [todo EXCEPT ![p] = Tail(@)]

Lock(i)   == <<"lock", i>>
Unlock(i) == <<"unlock", i>>
Put(i)    == <<"put", i>>
Begin(n)  == <<"begin", n>>
End       == <<"end", 0>>
-----------------------------------------------------------------------------
(* What the calls are made of. *)

(* Mutant: what is asked for now is left out of the sum. *)
BeginUnchecked(p) ==
  /\ Do(p, "begin") /\ Reserved(Proc) <= LOGBLOCKS
  /\ op' = [op EXCEPT ![p] = Arg(p)] /\ Did(p)
  /\ UNCHANGED <<disk, inode, lock, rename_lock, fds, pc, k, calls>>

(* xv6log_begin_op: admitted when everything declared fits the log, which the *)
(* first to come when no operation is open may have emptied.                  *)
begin_op(p) ==
  /\ Do(p, "begin") /\ Reserved(Proc) + Arg(p) <= LOGBLOCKS
  /\ op' = [op EXCEPT ![p] = Arg(p)] /\ Did(p)
  /\ UNCHANGED <<disk, inode, lock, rename_lock, fds, pc, k, calls>>

end_op(p) ==
  /\ Do(p, "end")
  /\ op' = [op EXCEPT ![p] = 0] /\ Did(p)
  /\ UNCHANGED <<disk, inode, lock, rename_lock, fds, pc, k, calls>>

(* The inode table after xv6fs_iget(i). *)
iget(t, i) == [t EXCEPT ![i] = [@ EXCEPT !.ref = @ + 1, !.valid = @ /\ t[i].ref > 0]]

Loaded(i) == [ref |-> inode[i].ref, valid |-> TRUE, type |-> dinode[i].type,
              nlink |-> dinode[i].nlink, size |-> dinode[i].size]

ilock(p) ==
  LET i == Arg(p)
  IN  /\ Do(p, "lock") /\ lock[i] = None
      /\ lock' = [lock EXCEPT ![i] = p]
      /\ inode' = IF inode[i].valid THEN inode ELSE [inode EXCEPT ![i] = Loaded(i)]
      /\ Did(p)
      /\ UNCHANGED <<disk, rename_lock, op, fds, pc, k, calls>>

iunlock(p) ==
  /\ Do(p, "unlock")
  /\ lock' = [lock EXCEPT ![Arg(p)] = None] /\ Did(p)
  /\ UNCHANGED <<disk, inode, rename_lock, op, fds, pc, k, calls>>

(* Nobody else has the inode and no name leads to it. *)
LastUnlinked(i) == inode[i].ref = 1 /\ inode[i].valid /\ inode[i].nlink = 0

(* The critical section of xv6fs_iput_try, followed by the calls s: the last  *)
(* to put an inode without names truncates it first.                         *)
iput_try(p, i, s) ==
  IF LastUnlinked(i)
    THEN /\ lock[i] = None /\ lock' = [lock EXCEPT ![i] = p]
         /\ todo' = [todo EXCEPT ![p] = << <<"free", i>>, <<"drop", i>> >> \o s]
         /\ UNCHANGED inode
    ELSE /\ inode' = [inode EXCEPT ![i].ref = @ - 1]
         /\ todo' = [todo EXCEPT ![p] = s]
         /\ UNCHANGED lock

iput(p) ==
  /\ Do(p, "put") /\ iput_try(p, Arg(p), Tail(todo[p]))
  /\ UNCHANGED <<disk, rename_lock, op, fds, pc, k, calls>>

(* The names in inode i are gone after itrunc_to(i, 0). *)
Gone(i) == [j \in Inum |-> lost[j] + Cardinality({n \in Name : dir[i][n] = j})]

(* lg.outstanding >= 1: an operation is open, whoever's it is. *)
Outstanding == \E q \in Proc : op[q] > 0

(* Mutant: the copy in memory stays valid. *)
FreesValid(p) ==
  LET i == Arg(p)
  IN  /\ Do(p, "free") /\ Outstanding
      /\ dir' = [dir EXCEPT ![i] = NoNames] /\ par' = [par EXCEPT ![i] = 0]
      /\ lost' = Gone(i)
      /\ dinode' = [dinode EXCEPT ![i] = [type |-> "none", nlink |-> inode[i].nlink, size |-> 0]]
      /\ inode' = [inode EXCEPT ![i] = [@ EXCEPT !.type = "none", !.size = 0]]
      /\ lock' = [lock EXCEPT ![i] = None]
      /\ Did(p)
      /\ UNCHANGED <<rename_lock, op, fds, pc, k, calls>>

(* itrunc, type 0, iupdate, and the inode's number can be given out again.   *)
(* They write through xv6log_write, whose KASSERT stops the kernel when no    *)
(* operation is open: such a behaviour ends before this step.                *)
Frees(p) ==
  LET i == Arg(p)
  IN  /\ Do(p, "free") /\ Outstanding
      /\ dir' = [dir EXCEPT ![i] = NoNames] /\ par' = [par EXCEPT ![i] = 0]
      /\ lost' = Gone(i)
      /\ dinode' = [dinode EXCEPT ![i] = [type |-> "none", nlink |-> inode[i].nlink, size |-> 0]]
      /\ inode' = [inode EXCEPT ![i] = [@ EXCEPT !.type = "none", !.size = 0, !.valid = FALSE]]
      /\ lock' = [lock EXCEPT ![i] = None]
      /\ Did(p)
      /\ UNCHANGED <<rename_lock, op, fds, pc, k, calls>>

Drops(p) ==
  /\ Do(p, "drop")
  /\ inode' = [inode EXCEPT ![Arg(p)].ref = @ - 1] /\ Did(p)
  /\ UNCHANGED <<disk, lock, rename_lock, op, fds, pc, k, calls>>

RenameLock(p) ==
  /\ Do(p, "rlock") /\ rename_lock = None
  /\ rename_lock' = p /\ Did(p)
  /\ UNCHANGED <<disk, inode, lock, op, fds, pc, k, calls>>

RenameUnlock(p) ==
  /\ Do(p, "runlock")
  /\ rename_lock' = None /\ Did(p)
  /\ UNCHANGED <<disk, inode, lock, op, fds, pc, k, calls>>

-----------------------------------------------------------------------------
(* namex: the walk goes on at "to" with the inode in cur, 0 if there is none; *)
(* with parent set it stops at the directory of the last element.             *)

Walk(r, path, parent, to) == [r EXCEPT !.walk = path, !.parent = parent, !.to = to, !.cur = 0]

namei(p) ==
  LET r == [k[p] EXCEPT !.cur = ROOT]
  IN  /\ At(p, "namei")
      /\ inode' = iget(inode, ROOT)
      /\ IF r.walk = <<>> THEN Go(p, r.to, r, <<>>) ELSE Go(p, "look", r, <<Lock(ROOT)>>)
      /\ UNCHANGED <<disk, lock, rename_lock, op, fds, calls>>

namex(p) ==
  LET r == k[p]
      c == r.cur
      e == dir[c][Head(r.walk)]
      s == [r EXCEPT !.walk = Tail(@), !.cur = e]
  IN  /\ At(p, "look")
      /\ \/ /\ inode[c].type = "dir" /\ r.parent /\ Len(r.walk) = 1
            /\ Go(p, r.to, r, <<Unlock(c)>>) /\ UNCHANGED inode
         \/ /\ inode[c].type # "dir" \/ (~(r.parent /\ Len(r.walk) = 1) /\ e = 0)
            /\ Go(p, r.to, [r EXCEPT !.cur = 0], <<Unlock(c), Put(c)>>) /\ UNCHANGED inode
         \/ /\ inode[c].type = "dir" /\ ~(r.parent /\ Len(r.walk) = 1) /\ e # 0
            /\ inode' = iget(inode, e)
            /\ IF s.walk = <<>>
                 THEN Go(p, r.to, s, <<Unlock(c), Put(c), Lock(e), Unlock(e)>>)
                 ELSE Go(p, "look", s, <<Unlock(c), Put(c), Lock(e), Unlock(e), Lock(e)>>)
      /\ UNCHANGED <<disk, lock, rename_lock, op, fds, calls>>

(* A call begins with the walk of path, after the calls s; r has its locals. *)
Starts(p, c, r, s) ==
  /\ At(p, "user") /\ calls < MaxCalls /\ calls' = calls + 1
  /\ Go(p, "namei", [r EXCEPT !.op = c.op, !.path = c.path, !.new = c.new], s)
  /\ UNCHANGED <<disk, inode, lock, rename_lock, op, fds>>

Kept == UNCHANGED <<lock, rename_lock, op, fds, calls>>
-----------------------------------------------------------------------------
(* stat and the like; touch and chmod, in an operation; open, which looks     *)
(* twice; close, write and truncate.                                          *)

Stat(p) ==
  LET i == k[p].cur
  IN  /\ At(p, "stat")
      /\ Return(p, IF i = 0 THEN <<>> ELSE
                     IF k[p].op = "stat" THEN <<Lock(i), Unlock(i), Put(i)>>
                     ELSE <<Begin(SMALL), Lock(i), Unlock(i), End, Put(i)>>)
      /\ Kept /\ UNCHANGED <<disk, inode>>

Open(p) ==
  LET i == k[p].cur
  IN  /\ At(p, "open")
      /\ IF i = 0 THEN Return(p, <<>>) ELSE Go(p, "open_type", [k[p] EXCEPT !.ip = i, !.cur = 0], <<Lock(i)>>)
      /\ Kept /\ UNCHANGED <<disk, inode>>

OpenType(p) ==
  LET i == k[p].ip
      s == <<Unlock(i), Put(i)>>
  IN  /\ At(p, "open_type")
      /\ IF inode[i].type = "dir" THEN Return(p, s)
         ELSE Go(p, "namei", Walk([k[p] EXCEPT !.ip = 0], k[p].path, FALSE, "opened"), s)
      /\ Kept /\ UNCHANGED <<disk, inode>>

Opened(p) ==
  /\ At(p, "opened") /\ Return(p, <<>>)
  /\ fds' = [fds EXCEPT ![p] = k[p].cur]
  /\ UNCHANGED <<disk, inode, lock, rename_lock, op, calls>>

(* xv6fs_iput_op reserves what it expects to need ... *)
Close(p, c) ==
  LET i == fds[p]
      n == IF LastUnlinked(i) THEN itrunc_need(inode[i].size) ELSE SMALL
  IN  /\ At(p, "user") /\ calls < MaxCalls /\ calls' = calls + 1 /\ i # 0
      /\ fds' = [fds EXCEPT ![p] = 0]
      /\ Go(p, "close", [Idle EXCEPT !.op = c.op, !.ip = i, !.need = n], <<Begin(n)>>)
      /\ UNCHANGED <<disk, inode, lock, rename_lock, op>>

(* ... and begins again with all of the log if that turns out too little. *)
iput_op(p) ==
  LET i == k[p].ip
  IN  /\ At(p, "close")
      /\ IF LastUnlinked(i) /\ itrunc_need(inode[i].size) > k[p].need
           THEN /\ Go(p, "close", [k[p] EXCEPT !.need = LOGBLOCKS], <<End, Begin(LOGBLOCKS)>>)
                /\ UNCHANGED <<inode, lock>>
           ELSE /\ iput_try(p, i, <<End>>)
                /\ pc' = [pc EXCEPT ![p] = "user"] /\ k' = [k EXCEPT ![p] = Idle]
      /\ UNCHANGED <<disk, rename_lock, op, fds, calls>>

Write(p, c) ==
  LET i == fds[p]
      n == SMALL + 1
  IN  /\ At(p, "user") /\ calls < MaxCalls /\ calls' = calls + 1 /\ i # 0
      /\ Go(p, "write", [Idle EXCEPT !.op = c.op], <<Begin(n), Lock(i)>>)
      /\ UNCHANGED <<disk, inode, lock, rename_lock, op, fds>>

writei(p) ==
  LET i == fds[p]
  IN  /\ At(p, "write")
      /\ inode' = [inode EXCEPT ![i].size = 1] /\ dinode' = [dinode EXCEPT ![i].size = 1]
      /\ Return(p, <<Unlock(i), End>>)
      /\ Kept /\ UNCHANGED <<dir, par, lost>>

Truncate(p) ==
  LET i == k[p].cur
      n == itrunc_need(inode[i].size)
  IN  /\ At(p, "truncate")
      /\ IF i = 0 THEN Return(p, <<>>)
         ELSE Go(p, "truncate_do", [k[p] EXCEPT !.ip = i, !.cur = 0, !.need = n], <<Begin(n), Lock(i)>>)
      /\ Kept /\ UNCHANGED <<disk, inode>>

TruncateDo(p) ==
  LET i == k[p].ip
      n == itrunc_need(inode[i].size)
  IN  /\ At(p, "truncate_do")
      /\ IF n > k[p].need
           THEN /\ Go(p, "truncate_do", [k[p] EXCEPT !.need = n], <<Unlock(i), End, Begin(n), Lock(i)>>)
                /\ UNCHANGED <<disk, inode>>
           ELSE /\ inode' = [inode EXCEPT ![i].size = 0] /\ dinode' = [dinode EXCEPT ![i].size = 0]
                /\ dir' = [dir EXCEPT ![i] = NoNames] /\ par' = [par EXCEPT ![i] = 0]
                /\ lost' = Gone(i)
                /\ Return(p, <<Unlock(i), End, Put(i)>>)
      /\ Kept
-----------------------------------------------------------------------------
(* list_dir looks at every inode of the directory while it holds its lock.   *)

ListDir(p) ==
  LET d == k[p].cur
  IN  /\ At(p, "list")
      /\ IF d = 0 THEN Return(p, <<>>)
         ELSE Go(p, "list_type", [k[p] EXCEPT !.dp = d, !.cur = 0], <<Lock(d)>>)
      /\ Kept /\ UNCHANGED <<disk, inode>>

ListType(p) ==
  LET d == k[p].dp
  IN  /\ At(p, "list_type")
      /\ IF inode[d].type # "dir" THEN Return(p, <<Unlock(d), Put(d)>>)
         ELSE Go(p, "list_next", [k[p] EXCEPT !.left = {dir[d][n] : n \in Name} \ {0}], <<>>)
      /\ Kept /\ UNCHANGED <<disk, inode>>

ListNext(p) ==
  LET d == k[p].dp
  IN  /\ At(p, "list_next")
      /\ \/ /\ k[p].left = {} /\ Return(p, <<Unlock(d), Put(d)>>) /\ UNCHANGED inode
         \/ \E i \in k[p].left :
              /\ inode' = iget(inode, i)
              /\ Go(p, "list_next", [k[p] EXCEPT !.left = @ \ {i}], <<Lock(i), Unlock(i), Put(i)>>)
      /\ Kept /\ UNCHANGED disk
-----------------------------------------------------------------------------
(* Names come and go: create, mkdir, link, unlink, rmdir, rename.            *)

(* dirlink in a directory that may be full: TRUE if the name was entered. *)
Links(d, n) == {dir[d][n] = 0} \cup (IF "name" \in Fails THEN {FALSE} ELSE {})

FreeInodes == {i \in Inum : dinode[i].type = "none"}

(* xv6fs_ialloc: the first free number gets the type, on disk only. *)
ialloc(i, type) ==
  /\ dinode' = [dinode EXCEPT ![i] = [type |-> type, nlink |-> 0, size |-> 0]]
  /\ inode' = iget(inode, i)
  /\ UNCHANGED <<dir, par, lost>>

(* The inodes in memory t, and the disk after iupdate of those in S. *)
Updates(t, S) ==
  /\ inode' = t
  /\ dinode' = [i \in Inum |-> IF i \in S THEN [type |-> t[i].type, nlink |-> t[i].nlink, size |-> t[i].size]
                                           ELSE dinode[i]]

(* The walk to the parent is over: first, then its lock. *)
Parent(p, from, to, first) ==
  LET d == k[p].cur
  IN  /\ At(p, from)
      /\ IF d = 0 THEN Return(p, IF op[p] > 0 THEN <<End>> ELSE <<>>)
         ELSE Go(p, to, [k[p] EXCEPT !.dp = d, !.cur = 0], Append(first, Lock(d)))
      /\ Kept /\ UNCHANGED <<disk, inode>>

(* Mutant: put with the lock held. *)
LeavePuts(d, i) == <<Put(i), Unlock(i), Unlock(d), End, Put(d)>>

(* Both locks and both references go back, the parent's after the operation. *)
Leave(d, i) == <<Unlock(i), Put(i), Unlock(d), End, Put(d)>>

Create(p) == Parent(p, "create", "create_look", <<>>)

CreateLook(p) ==
  LET d == k[p].dp
      e == dir[d][Last(k[p].path)]
  IN  /\ At(p, "create_look")
      /\ \/ /\ e # 0 /\ inode' = iget(inode, e) /\ UNCHANGED disk
            /\ Go(p, "create_found", [k[p] EXCEPT !.ip = e], <<Lock(e)>>)
         \/ /\ e = 0 /\ FreeInodes = {} /\ Return(p, <<Unlock(d), End, Put(d)>>)
            /\ UNCHANGED <<disk, inode>>
         \/ /\ e = 0 /\ FreeInodes # {} /\ ialloc(Min(FreeInodes), "file")
            /\ Go(p, "create_do", [k[p] EXCEPT !.ip = Min(FreeInodes)], <<Lock(Min(FreeInodes))>>)
      /\ Kept

CreateOpens(p, d, i) ==
  Go(p, "opened", [k[p] EXCEPT !.cur = i, !.ip = 0, !.dp = 0],
     <<Unlock(i), Unlock(d), End, Put(d), Lock(i), Unlock(i)>>)

(* Mutant: a directory keeps the reference of the lookup. *)
CreateFoundKeeps(p) ==
  LET d == k[p].dp
      i == k[p].ip
  IN  /\ At(p, "create_found")
      /\ IF inode[i].type = "dir" THEN Return(p, <<Unlock(i), Unlock(d), End, Put(d)>>)
         ELSE CreateOpens(p, d, i)
      /\ Kept /\ UNCHANGED <<disk, inode>>

CreateFound(p) ==
  LET d == k[p].dp
      i == k[p].ip
  IN  /\ At(p, "create_found")
      /\ IF inode[i].type = "dir" THEN Return(p, Leave(d, i)) ELSE CreateOpens(p, d, i)
      /\ Kept /\ UNCHANGED <<disk, inode>>

CreateDo(p) ==
  LET d == k[p].dp
      i == k[p].ip
      n == Last(k[p].path)
  IN  /\ At(p, "create_do")
      /\ \E linked \in Links(d, n) :
           IF linked
             THEN /\ dir' = [dir EXCEPT ![d][n] = i]
                  /\ Updates([inode EXCEPT ![i].nlink = 1, ![d].size = 1], {d, i})
                  /\ CreateOpens(p, d, i)
             ELSE /\ Updates([inode EXCEPT ![i].nlink = 0], {i})
                  /\ Return(p, Leave(d, i)) /\ UNCHANGED dir
      /\ Kept /\ UNCHANGED <<par, lost>>

(* fs_mkdir refuses a path that exists, then walks again to its parent. *)
Mkdir(p) ==
  LET i == k[p].cur
  IN  /\ At(p, "mkdir_stat")
      /\ IF i # 0 THEN Return(p, <<Lock(i), Unlock(i), Put(i)>>)
         ELSE Go(p, "namei", Walk(k[p], k[p].path, TRUE, "mkdir"), <<>>)
      /\ Kept /\ UNCHANGED <<disk, inode>>

MkdirParent(p) == Parent(p, "mkdir", "mkdir_do", <<Begin(SMALL)>>)

MkdirDo(p) ==
  LET d == k[p].dp
      i == Min(FreeInodes)
  IN  /\ At(p, "mkdir_do")
      /\ IF FreeInodes = {}
           THEN Return(p, <<Unlock(d), End, Put(d)>>) /\ UNCHANGED <<disk, inode>>
           ELSE ialloc(i, "dir") /\ Go(p, "mkdir_add", [k[p] EXCEPT !.ip = i], <<Lock(i)>>)
      /\ Kept

(* What the three dirlinks return is not looked at. *)
MkdirAdd(p) ==
  LET d == k[p].dp
      i == k[p].ip
      n == Last(k[p].path)
  IN  /\ At(p, "mkdir_add")
      /\ \E linked \in Links(d, n), dots \in {TRUE} \cup {"dots" \notin Fails} :
           /\ dir' = IF linked THEN [dir EXCEPT ![d][n] = i] ELSE dir
           /\ par' = IF dots THEN [par EXCEPT ![i] = d] ELSE par
           /\ Updates([inode EXCEPT ![i].nlink = 1, ![i].size = IF dots THEN 1 ELSE 0,
                                    ![d].nlink = @ + 1, ![d].size = IF linked THEN 1 ELSE @], {d, i})
      /\ Return(p, Leave(d, i))
      /\ Kept /\ UNCHANGED lost

Unlink(p) == Parent(p, "unlink", "unlink_look", <<Begin(LOGBLOCKS)>>)

UnlinkLook(p) ==
  LET d == k[p].dp
      e == dir[d][Last(k[p].path)]
  IN  /\ At(p, "unlink_look")
      /\ IF e = 0 THEN Return(p, <<Unlock(d), End, Put(d)>>) /\ UNCHANGED inode
         ELSE /\ inode' = iget(inode, e)
              /\ Go(p, "unlink_do", [k[p] EXCEPT !.ip = e], <<Lock(e)>>)
      /\ Kept /\ UNCHANGED disk

(* unlink refuses a directory, rmdir everything else. *)
UnlinkDo(p) ==
  LET d == k[p].dp
      i == k[p].ip
      rmdir == k[p].op = "rmdir"
  IN  /\ At(p, "unlink_do")
      /\ IF rmdir # (inode[i].type = "dir") THEN UNCHANGED <<disk, inode>>
         ELSE /\ dir' = [dir EXCEPT ![d][Last(k[p].path)] = 0]
              /\ Updates(IF rmdir THEN [inode EXCEPT ![d].nlink = @ - 1, ![i].nlink = 0]
                                  ELSE [inode EXCEPT ![i].nlink = @ - 1], {d, i})
              /\ UNCHANGED <<par, lost>>
      /\ Return(p, Leave(d, i))
      /\ Kept

Link(p) ==
  LET i == k[p].cur
  IN  /\ At(p, "link")
      /\ IF i = 0 THEN Return(p, <<>>)
         ELSE Go(p, "link_do", [k[p] EXCEPT !.ip = i, !.cur = 0], <<Begin(LOGBLOCKS), Lock(i)>>)
      /\ Kept /\ UNCHANGED <<disk, inode>>

(* The count goes up before there is a name. *)
LinkDo(p) ==
  LET i == k[p].ip
  IN  /\ At(p, "link_do")
      /\ IF inode[i].type = "dir"
           THEN Return(p, <<Unlock(i), End, Put(i)>>) /\ UNCHANGED <<disk, inode>>
           ELSE /\ Updates([inode EXCEPT ![i].nlink = @ + 1], {i})
                /\ Go(p, "namei", Walk(k[p], k[p].new, TRUE, "link_parent"), <<Unlock(i)>>)
                /\ UNCHANGED <<dir, par, lost>>
      /\ Kept

LinkParent(p) ==
  LET d == k[p].cur
  IN  /\ At(p, "link_parent")
      /\ IF d = 0 THEN Go(p, "link_undo", k[p], <<Lock(k[p].ip)>>)
         ELSE Go(p, "link_add", [k[p] EXCEPT !.dp = d, !.cur = 0], <<Lock(d)>>)
      /\ Kept /\ UNCHANGED <<disk, inode>>

LinkAdd(p) ==
  LET d == k[p].dp
      i == k[p].ip
      n == Last(k[p].new)
  IN  /\ At(p, "link_add")
      /\ \E linked \in Links(d, n) :
           IF linked
             THEN /\ dir' = [dir EXCEPT ![d][n] = i]
                  /\ Updates([inode EXCEPT ![d].size = 1], {d})
                  /\ Return(p, <<Unlock(d), Put(d), End, Put(i)>>)
             ELSE /\ Go(p, "link_undo", [k[p] EXCEPT !.dp = 0], <<Unlock(d), Put(d), Lock(i)>>)
                  /\ UNCHANGED <<dinode, inode, dir>>
      /\ Kept /\ UNCHANGED <<par, lost>>

(* Mutant: the count stays up. *)
LinkForgets(p) ==
  LET i == k[p].ip
  IN  /\ At(p, "link_undo")
      /\ Return(p, <<Unlock(i), End, Put(i)>>)
      /\ Kept /\ UNCHANGED <<disk, inode>>

LinkUndo(p) ==
  LET i == k[p].ip
  IN  /\ At(p, "link_undo")
      /\ Updates([inode EXCEPT ![i].nlink = @ - 1], {i})
      /\ Return(p, <<Unlock(i), End, Put(i)>>)
      /\ Kept /\ UNCHANGED <<dir, par, lost>>

Rename(p) ==
  LET d == k[p].cur
  IN  /\ At(p, "rename")
      /\ IF d = 0 THEN Return(p, <<>>)
         ELSE Go(p, "namei", Walk([k[p] EXCEPT !.dp = d], k[p].new, TRUE, "rename_new"), <<>>)
      /\ Kept /\ UNCHANGED <<disk, inode>>

(* The parents are locked in the order of their numbers. *)
LockBoth(d, q) == IF d = q THEN <<Lock(d)>> ELSE IF d < q THEN <<Lock(d), Lock(q)>> ELSE <<Lock(q), Lock(d)>>

RenameEnters(p, d, q, s) ==
  Go(p, "rename_look", [k[p] EXCEPT !.dq = q, !.cur = 0], s \o LockBoth(d, q))

(* Mutant: a small operation, which runs beside others. *)
RenameSmall(p) ==
  LET d == k[p].dp
      q == k[p].cur
  IN  /\ At(p, "rename_new")
      /\ IF q = 0 THEN Return(p, <<Put(d)>>) ELSE RenameEnters(p, d, q, << <<"rlock", 0>>, Begin(SMALL)>>)
      /\ Kept /\ UNCHANGED <<disk, inode>>

RenameParents(p) ==
  LET d == k[p].dp
      q == k[p].cur
  IN  /\ At(p, "rename_new")
      /\ IF q = 0 THEN Return(p, <<Put(d)>>) ELSE RenameEnters(p, d, q, << <<"rlock", 0>>, Begin(LOGBLOCKS)>>)
      /\ Kept /\ UNCHANGED <<disk, inode>>

(* The label out: i and j are the inodes found, locked if so. *)
RenameOut(d, q, i, j, locked) ==
  (IF j # 0 THEN (IF locked THEN <<Unlock(j)>> ELSE <<>>) \o <<Put(j)>> ELSE <<>>) \o
  (IF i # 0 THEN (IF locked THEN <<Unlock(i)>> ELSE <<>>) \o <<Put(i)>> ELSE <<>>) \o
  <<Unlock(d)>> \o (IF q # d THEN <<Unlock(q)>> ELSE <<>>) \o
  <<End, <<"runlock", 0>>, Put(d), Put(q)>>

RenameLook(p) ==
  LET d == k[p].dp
      q == k[p].dq
      i == dir[d][Last(k[p].path)]
      j == IF i = 0 THEN 0 ELSE dir[q][Last(k[p].new)]
      t == IF i = 0 THEN inode ELSE iget(inode, i)
  IN  /\ At(p, "rename_look")
      /\ inode' = IF j = 0 THEN t ELSE iget(t, j)
      /\ IF i = 0 \/ j = i \/ i = q \/ j \in {d, q}
           THEN Return(p, RenameOut(d, q, i, j, FALSE))
           ELSE Go(p, "rename_do", [k[p] EXCEPT !.ip = i, !.iq = j],
                   <<Lock(i)>> \o (IF j # 0 THEN <<Lock(j)>> ELSE <<>>))
      /\ Kept /\ UNCHANGED disk

(* The new name replaces what it stood for, or is entered; then the old goes. *)
RenameDo(p) ==
  LET d == k[p].dp
      q == k[p].dq
      i == k[p].ip
      j == k[p].iq
      moved == inode[i].type = "dir" /\ d # q
      refused == /\ j # 0
                 /\ \/ (inode[i].type = "dir") # (inode[j].type = "dir")
                    \/ inode[j].type = "dir" /\ dir[j] # NoNames
      entered == IF j # 0 THEN {TRUE} ELSE Links(q, Last(k[p].new))
      t == CASE j = 0 -> [inode EXCEPT ![q].size = 1]
             [] j # 0 /\ inode[j].type = "dir" -> [inode EXCEPT ![q].nlink = @ - 1, ![j].nlink = 0]
             [] OTHER -> [inode EXCEPT ![j].nlink = @ - 1]
  IN  /\ At(p, "rename_do")
      /\ \E e \in entered :
           IF refused \/ ~e THEN UNCHANGED <<disk, inode>>
           ELSE /\ dir' = [[dir EXCEPT ![q][Last(k[p].new)] = i] EXCEPT ![d][Last(k[p].path)] = 0]
                /\ IF moved /\ par[i] = 0
                     THEN Updates(t, IF j = 0 THEN {q} ELSE {j}) /\ UNCHANGED par
                     ELSE /\ par' = IF moved THEN [par EXCEPT ![i] = q] ELSE par
                          /\ Updates(IF moved THEN [[t EXCEPT ![d].nlink = @ - 1] EXCEPT ![q].nlink = @ + 1] ELSE t,
                                     {i, j, d, q})
                /\ UNCHANGED lost
      /\ Return(p, RenameOut(d, q, i, j, TRUE))
      /\ Kept
-----------------------------------------------------------------------------
Under(a, b) == Len(a) <= Len(b) /\ SubSeq(b, 1, Len(a)) = a

(* A system call; the first walk leads to "to". *)
Syscall(p, c) ==
  \/ c.op \in {"stat", "touch"} /\ Starts(p, c, Walk(Idle, c.path, FALSE, "stat"), <<>>)
  \/ c.op = "open" /\ fds[p] = 0 /\ Starts(p, c, Walk(Idle, c.path, FALSE, "open"), <<>>)
  \/ c.op = "create" /\ fds[p] = 0 /\ Starts(p, c, Walk(Idle, c.path, TRUE, "create"), <<Begin(SMALL)>>)
  \/ c.op = "list" /\ Starts(p, c, Walk(Idle, c.path, FALSE, "list"), <<>>)
  \/ c.op = "truncate" /\ Starts(p, c, Walk(Idle, c.path, FALSE, "truncate"), <<>>)
  \/ c.op = "mkdir" /\ Starts(p, c, Walk(Idle, c.path, FALSE, "mkdir_stat"), <<>>)
  \/ c.op \in {"unlink", "rmdir"} /\ Starts(p, c, Walk(Idle, c.path, TRUE, "unlink"), <<>>)
  \/ c.op = "link" /\ Starts(p, c, Walk(Idle, c.path, FALSE, "link"), <<>>)
  \/ c.op = "rename" /\ ~Under(c.path, c.new) /\ Starts(p, c, Walk(Idle, c.path, TRUE, "rename"), <<>>)
  \/ c.op = "close" /\ Close(p, c)
  \/ c.op = "write" /\ Write(p, c)

Step(p) ==
  \/ begin_op(p) \/ end_op(p) \/ ilock(p) \/ iunlock(p) \/ iput(p) \/ Frees(p) \/ Drops(p)
  \/ RenameLock(p) \/ RenameUnlock(p) \/ namei(p) \/ namex(p)
  \/ Stat(p) \/ Open(p) \/ OpenType(p) \/ Opened(p) \/ iput_op(p) \/ writei(p)
  \/ Truncate(p) \/ TruncateDo(p) \/ ListDir(p) \/ ListType(p) \/ ListNext(p)
  \/ Create(p) \/ CreateLook(p) \/ CreateFound(p) \/ CreateDo(p)
  \/ Mkdir(p) \/ MkdirParent(p) \/ MkdirDo(p) \/ MkdirAdd(p)
  \/ Unlink(p) \/ UnlinkLook(p) \/ UnlinkDo(p)
  \/ Link(p) \/ LinkDo(p) \/ LinkParent(p) \/ LinkAdd(p) \/ LinkUndo(p)
  \/ Rename(p) \/ RenameParents(p) \/ RenameLook(p) \/ RenameDo(p)

Names(i, t) == {e \in (DOMAIN t) \X Name : t[e[1]][e[2]] = i}

(* The tree of directories and files; mkdir counted itself in its parent,    *)
(* the program that builds the image did not.                               *)
Init ==
  /\ dinode = [i \in Inum |->
       IF i \in DOMAIN Tree
         THEN [type |-> "dir", size |-> 1,
               nlink |-> 1 + Cardinality({n \in Name : Tree[i][n] \in DOMAIN Tree \ ImageDirs})]
         ELSE [type |-> IF Names(i, Tree) = {} THEN "none" ELSE "file",
               size |-> IF Names(i, Tree) = {} THEN 0 ELSE 1,
               nlink |-> Cardinality(Names(i, Tree))]]
  /\ inode = [i \in Inum |-> [ref |-> 0, valid |-> FALSE, type |-> "none", nlink |-> 0, size |-> 0]]
  /\ dir = [i \in Inum |-> IF i \in DOMAIN Tree THEN Tree[i] ELSE NoNames]
  /\ par = [i \in Inum |-> IF i = ROOT THEN ROOT ELSE IF i \in DOMAIN Tree
                             THEN CHOOSE d \in DOMAIN Tree : \E n \in Name : Tree[d][n] = i ELSE 0]
  /\ lock = [i \in Inum |-> None] /\ rename_lock = None
  /\ op = [p \in Proc |-> 0] /\ fds = [p \in Proc |-> 0]
  /\ pc = [p \in Proc |-> "user"] /\ k = [p \in Proc |-> Idle] /\ todo = [p \in Proc |-> <<>>]
  /\ lost = [i \in Inum |-> 0] /\ calls = 0

Next == \E p \in Proc : Step(p) \/ \E c \in Calls : Syscall(p, c)

Spec == Init /\ [][Next]_vars
-----------------------------------------------------------------------------
(* The state of every variable. *)
TypeOK ==
  /\ dinode \in [Inum -> [type : {"none", "file", "dir"}, nlink : -MaxCalls .. NInodes + MaxCalls, size : 0 .. 1]]
  /\ inode \in [Inum -> [ref : 0 .. 8 * Cardinality(Proc), valid : BOOLEAN, type : {"none", "file", "dir"},
                         nlink : -MaxCalls .. NInodes + MaxCalls, size : 0 .. 1]]
  /\ dir \in [Inum -> [Name -> 0 .. NInodes]] /\ par \in [Inum -> 0 .. NInodes]
  /\ lock \in [Inum -> Proc \cup {None}] /\ rename_lock \in Proc \cup {None}
  /\ op \in [Proc -> 0 .. LOGBLOCKS] /\ fds \in [Proc -> 0 .. NInodes]
  /\ calls \in 0 .. MaxCalls /\ Reserved(Proc) <= LOGBLOCKS

Refs       == {"cur", "dp", "dq", "ip", "iq"}
Puts(p, i) == {n \in DOMAIN todo[p] : todo[p][n] \in {Put(i), <<"drop", i>>}}

(* What is to be put back some day for inode i. *)
Held(i) ==
  Cardinality({x \in Proc \X Refs : k[x[1]][x[2]] = i}) + Cardinality(UNION {{p} \X Puts(p, i) : p \in Proc})
  + Cardinality({p \in Proc : fds[p] = i})

(* xv6fs_iget and xv6fs_iput are paired on every path of every call, early    *)
(* returns and races included: an inode's count is the number of locals and   *)
(* descriptors that lead to it, so it is neither freed early nor never.       *)
RefExact == \A i \in Inum : inode[i].ref = Held(i)

(* Every name in a directory, and every inode a call or a descriptor holds,   *)
(* is allocated on disk: xv6fs_ilock's KASSERT(ip->type != 0) cannot fail.    *)
NamesLive ==
  /\ \A d \in Inum : \A n \in Name : dir[d][n] # 0 => dinode[dir[d][n]].type # "none"
  /\ \A p \in Proc : \A i \in ({fds[p]} \cup {k[p][f] : f \in Refs}) \ {0} :
       dinode[i].type # "none"

(* When no operation of the journal is open, what is on disk counts for every *)
(* file the names that lead to it (or led to it from a directory that went    *)
(* with its names): unlink, link, rename and create never leave a half.       *)
LinksExact ==
  (\A p \in Proc : op[p] = 0) =>
    \A i \in Inum : dinode[i].type = "file" => dinode[i].nlink = Cardinality(Names(i, dir)) + lost[i]

(* The last put of an inode without names finds its lock free: it is taken    *)
(* inside itable.lock, a spin lock, with which nobody may go to sleep.        *)
PutNeverWaits ==
  \A p \in Proc :
    LET i == IF At(p, "close") THEN k[p].ip ELSE Arg(p)
    IN  Do(p, "put") \/ (At(p, "close") /\ i # 0) => (LastUnlinked(i) => lock[i] = None)

(* Nobody in S goes on before another one of S does. What the log holds       *)
(* already may leave no room, and is written only when no operation is open:  *)
(* whoever begins may have to wait for all of them.                           *)
Stuck(S) ==
  \A p \in S :
    \/ Do(p, "lock") /\ lock[Arg(p)] \in S
    \/ Do(p, "rlock") /\ rename_lock \in S
    \/ Do(p, "begin") /\ Reserved(S) > 0

(* Calls that lock parent before child, renames that lock by number, and the  *)
(* wait for space in the journal never close a cycle, as long as no listing   *)
(* of a directory is in it: those hold the directory outside any operation.   *)
NoDeadlock ==
  \A S \in SUBSET Proc \ {{}} : Stuck(S) => \E p \in S : k[p].op = "list"

-----------------------------------------------------------------------------
(* Properties that fail, each for a reason the README gives.                 *)

(* The same with listings: list_dir waits for a child's lock with its         *)
(* parent's held, rename may hold them the other way round.                   *)
NeverStuck == \A S \in SUBSET Proc \ {{}} : ~ Stuck(S)

(* An inode is truncated and freed inside an operation of its own process.    *)
(* The KASSERT in xv6log_write sees only that there is one, of anybody.       *)
InTransaction == \A p \in Proc : Do(p, "free") => op[p] > 0

(* A directory that is removed holds no names. *)
NoNamesLost == \A i \in Inum : lost[i] = 0

(* No directory is below itself: fs_rename compares the paths for that.       *)
Acyclic == \A S \in SUBSET Inum \ {{}} : \E d \in S : \A e \in S : \A n \in Name : dir[e][n] # d
=============================================================================
