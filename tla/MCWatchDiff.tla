---------------------------- MODULE MCWatchDiff ----------------------------
(***************************************************************************)
(* Universes for WatchDiff: one workspace, of two sizes, and a project     *)
(* whose directories are joined and added one after the other.             *)
(***************************************************************************)
EXTENDS WatchDiff

W == <<"w">>

Names == {"w", "p", "a", "b", "d", "x"}

(* /w with a file or directory a, and a directory d with room for x.       *)
TreeUniverse == {W, <<"w", "d">>, <<"w", "d", "x">>}

WideUniverse == TreeUniverse \cup {<<"w", "a">>}

(* Two directories of /p, one of them the workspace, that may be joined.   *)
Project == {<<"p">>, <<"p", "a">>, <<"p", "a", "x">>, <<"p", "b">>}
ProjectRoots == {<<"p", "a">>}
ProjectNewRoots == {<<"p">>, <<"p", "b">>}

Workspace == {W}
NoRoots == {}

Symmetry == Permutations(Inode) \cup Permutations(Leaf) \cup Permutations(Snapshot)
=============================================================================
