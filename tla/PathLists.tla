----------------------------- MODULE PathLists -----------------------------
(***************************************************************************)
(* Every list of paths in an order sort.Slice may leave it (string length, *)
(* ties in any order), grown one path at a time.  What the loops of Paths  *)
(* make of the list is compared with reference definitions.                *)
(***************************************************************************)
EXTENDS Paths

CONSTANTS
  Name,         \* path components
  Universe,     \* the paths that occur
  StringLen,    \* len() of each path as a string
  MaxPaths      \* a bound on the list, for TLC

(* A path is a longer string than a path that contains it.                 *)
ASSUME ListAssumption ==
  /\ Universe \subseteq Seq(Name)
  /\ StringLen \in [Universe -> Nat]
  /\ \A p, q \in Universe : Within(p, q) /\ p # q => StringLen[p] < StringLen[q]

VARIABLE list

Init == list = << >>

Grow(p) == /\ Len(list) < MaxPaths
           /\ list # << >> => StringLen[Last(list)] <= StringLen[p]
           /\ list' = Append(list, p)

Next == \E p \in Universe : Grow(p)

Spec == Init /\ [][Next]_list

Kept == ToSet(KeepOutermost(list))

(***************************************************************************)
(* compactRoots and compactDirtyPaths return exactly the outermost paths,  *)
(* whatever order sort.Slice, which is not stable, leaves equal lengths in.*)
(***************************************************************************)
GreedyIsOutermost == Kept = Compact(ToSet(list))

(***************************************************************************)
(* Compaction loses nothing: a path inside a listed path is inside a kept  *)
(* one, so a subtree whose path is dropped is still reconciled.            *)
(***************************************************************************)
CompactKeepsCoverage ==
  \A p \in Universe : (\E q \in ToSet(list) : Within(q, p))
                        <=> (\E k \in Kept : Within(k, p))

(***************************************************************************)
(* After compaction a path has at most one root, so matchRoot, the entry   *)
(* keys (root, rel) and the manifest agree on which root owns a path.      *)
(***************************************************************************)
MatchRootIsTheOwner ==
  \A p \in Universe :
     LET owners == {r \in Kept : Within(r, p)}
     IN  IF owners = {} THEN MatchRoot(Kept, p) = NoPath
                        ELSE owners = {MatchRoot(Kept, p)}

(***************************************************************************)
(* ExtendRoots watches enough: whatever is inside a root after the         *)
(* extension was inside an old root or is inside a root rootsNeedAdd names.*)
(***************************************************************************)
AddedRootsCoverTheRest ==
  \A c \in Universe :
     LET candidate == Compact(Kept \cup {c})
         added == RootsNeedAdd(Kept, candidate)
     IN  \A p \in Universe :
           (\E r \in candidate : Within(r, p))
              => (\E r \in Kept \cup added : Within(r, p))
=============================================================================
