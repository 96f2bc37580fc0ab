------------------------------- MODULE MCInode -------------------------------
(* A root with /a (3) that holds the directory c (2) and the file f (4); one  *)
(* number is free. c has a smaller number than its parent.                   *)
EXTENDS Inode, TLC

CONSTANTS p1, p2

Symmetry == Permutations({p1, p2})

MCName == {"a", "c", "f"}

MCTree == 1 :> [n \in MCName |-> IF n = "a" THEN 3 ELSE 0]
       @@ 2 :> [n \in MCName |-> 0]
       @@ 3 :> [n \in MCName |-> CASE n = "c" -> 2 [] n = "f" -> 4 [] OTHER -> 0]

MCRoot == {1}
MCImage == {1, 2, 3}

On(o, path) == [op |-> o, path |-> path, new |-> <<>>]
To(o, path, new) == [op |-> o, path |-> path, new |-> new]

F == <<"a", "f">>
C == <<"a", "c">>

MCCalls ==
  {On(o, F) : o \in {"open", "unlink"}} \cup
  {On(o, <<>>) : o \in {"stat", "touch", "write", "close"}} \cup
  {On("open", <<"a">>), On("create", C), On("create", <<"f">>), On("list", <<"a">>), On("list", <<"f">>),
   On("truncate", <<"f">>), On("mkdir", <<"c">>), On("rmdir", C), On("rmdir", <<"a">>),
   To("link", F, <<"f">>), To("link", C, <<"f">>), To("link", <<"f">>, <<"c", "f">>),
   To("rename", F, <<"a", "c", "f">>), To("rename", C, <<"c">>)}

(* For the README's disagreements: two renames that cross, and a directory    *)
(* that is truncated, moved and removed.                                     *)
MCCross == {To("rename", C, <<"c">>), To("rename", <<"a">>, <<"c", "a">>), To("rename", <<"c">>, C)}

MCEmptied == {On("mkdir", <<"c">>), On("truncate", <<"c">>), To("rename", <<"c">>, <<"a", "c", "c">>),
              On("rmdir", <<"a", "c", "c">>)}
=============================================================================
