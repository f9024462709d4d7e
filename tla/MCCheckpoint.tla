--------------------------- MODULE MCCheckpoint ----------------------------
(***************************************************************************)
(* Two source files whose names are the same once their separators are     *)
(* replaced, such as a/b and a_b; g is the second of a list, or alone.     *)
(***************************************************************************)
EXTENDS CheckpointStore, TLC

CONSTANTS f, g, base

SameBase == [x \in {f, g} |-> base]
SomeLists == {<<f, g>>, <<g>>}
CheckpointSymmetry == Permutations(Proc) \cup Permutations(Content)
=============================================================================
