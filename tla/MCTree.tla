------------------------------- MODULE MCTree ------------------------------
(***************************************************************************)
(* A root /w with a file or link a, a directory or link d that holds the   *)
(* executable x, and a meta directory; outside, /o with a file x.          *)
(***************************************************************************)
EXTENDS RestoreTree, TLC

CONSTANTS c1, c2

Names == {"w", "a", "d", "x", "m", "o", ".rewind"}
W == <<"w">>
D == <<"w", "d">>
Binary  == <<"w", "d", "x">>
MetaDir == <<"w", ".rewind">>
Out     == <<"o">>
OutFile == <<"o", "x">>

A     == <<"w", "a">>
MetaFile == <<"w", ".rewind", "m">>

Universe == {W, A, D, Binary, MetaDir, MetaFile, Out, OutFile}

Plain(m)  == {[content |-> c, mode |-> m] : c \in {c1, c2}}
LinkTo(p) == [to |-> p]

Nodes ==
  [p \in Universe |->
     CASE p \in {W, Out, MetaDir} -> {Dir}
       [] p = A -> Plain("rw") \cup Plain("ro") \cup {Absent, Dir, LinkTo(OutFile)}
       [] p = D -> {Absent, Dir, LinkTo(Out)}
       [] p = Binary -> Plain("rw") \cup {Absent}
       [] p \in {OutFile, MetaFile} -> {}]

(* The files nobody is asked to restore hold the same.                     *)
Trees ==
  {[p \in Universe |->
      CASE p \in {W, Out, MetaDir} -> Dir
        [] p = A -> a [] p = D -> d [] p = Binary -> IF d = Dir THEN x ELSE Absent
        [] p \in {OutFile, MetaFile} -> m] :
   a \in Nodes[A], d \in Nodes[D], x \in Nodes[Binary], m \in Plain("rw")}

Contents == Permutations({c1, c2})
=============================================================================
