------------------------------ MODULE MCPaths ------------------------------
(* Two names of different string lengths, in paths of up to three of them. *)
EXTENDS PathLists, TLC

Names == {"a", "bb"}
AllPaths == UNION {[1..n -> Names] : n \in 0..3}

(* len() of the joined string: "/" is one byte long.                       *)
Length(p) ==
  IF p = << >> THEN 1
  ELSE FoldLeft(LAMBDA n, c : n + 1 + (IF c = "a" THEN 1 ELSE 2), 0, p)

Lengths == [p \in AllPaths |-> Length(p)]
=============================================================================
