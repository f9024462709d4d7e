------------------------------- MODULE Paths -------------------------------
(***************************************************************************)
(* The path algebra of internal/snapshot.  A cleaned absolute path is the  *)
(* sequence of its components, and "/" is the empty sequence.  Every       *)
(* operator takes cleaned paths, as the code does after filepath.Clean.    *)
(***************************************************************************)
EXTENDS Naturals, FiniteSets, SequencesExt

CONSTANT NoPath     \* the empty string matchRoot returns when no root matches

(***************************************************************************)
(* within(root, path): equality, or root + "/" is a string prefix of path. *)
(* Between components a string prefix that ends in "/" is a prefix of the  *)
(* sequence.  The exception is the root "/": its string prefix is "//",    *)
(* which no cleaned path has, so "/" contains nothing but itself.          *)
(***************************************************************************)
Within(root, path) ==
  root = path \/ (root # << >> /\ IsPrefix(root, path))

(* The directory that holds p (filepath.Dir).                              *)
Parent(p) == Front(p)

(* Mutants: arguments swapped; siblings skipped; no path skipped.          *)
KeepSwapped(out, p) ==
  IF \E k \in ToSet(out) : Within(p, k) THEN out ELSE Append(out, p)
KeepNoSiblings(out, p) ==
  IF \E k \in ToSet(out) : Len(k) = Len(p) \/ Within(k, p) THEN out ELSE Append(out, p)
KeepAll(out, p) == Append(out, p)

(* A path is kept unless a path kept before it contains it.                *)
Keep(out, p) ==
  IF \E k \in ToSet(out) : Within(k, p) THEN out ELSE Append(out, p)

(***************************************************************************)
(* The loop compactRoots and compactDirtyPaths share, on the sorted list:  *)
(* out[n] is what it has kept of the first n paths.                        *)
(***************************************************************************)
KeepOutermost(list) ==
  LET out[n \in 0..Len(list)] ==
        IF n = 0 THEN << >> ELSE Keep(out[n - 1], list[n])
  IN  out[Len(list)]

(***************************************************************************)
(* What compactRoots and compactDirtyPaths compute: the outermost paths.   *)
(***************************************************************************)
Compact(S) == {p \in S : \A q \in S : Within(q, p) => q = p}

(* Mutant: a candidate root counts as covered when it covers an old one.   *)
RootsNeedAddSwapped(existing, candidate) ==
  {c \in candidate : ~ \E r \in existing : Within(c, r)}

(* rootsNeedAdd: the candidate roots that no existing root covers.         *)
RootsNeedAdd(existing, candidate) ==
  {c \in candidate : ~ \E r \in existing : Within(r, c)}

(* matchRoot: the longest root that contains p, or NoPath.                 *)
MatchRoot(roots, p) ==
  LET covering == {r \in roots : Within(r, p)}
  IN  IF covering = {}
        THEN NoPath
        ELSE CHOOSE r \in covering : \A s \in covering : Len(s) <= Len(r)
=============================================================================
