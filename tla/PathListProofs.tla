--------------------------- MODULE PathListProofs ---------------------------
(***************************************************************************)
(* The properties of PathLists for lists of any length over any names: the *)
(* loops depend on nothing but that a container is the shorter string.     *)
(***************************************************************************)
EXTENDS PathLists, PathsProofs

(* The order sort.Slice leaves.                                            *)
Sorted ==
  /\ list \in Seq(Universe)
  /\ \A i, j \in 1..Len(list) : i < j => StringLen[list[i]] <= StringLen[list[j]]

LEMMA SortedStep == Sorted /\ [Next]_list => Sorted'
  <1> SUFFICES ASSUME Sorted, [Next]_list PROVE Sorted'
    OBVIOUS
  <1>1. ASSUME NEW p \in Universe, Grow(p)
        PROVE  Sorted'
    <2>1. /\ list' = Append(list, p) /\ list' \in Seq(Universe)
          /\ Len(list) \in Nat /\ Len(list') = Len(list) + 1
          /\ \A i \in 1..Len(list) : list'[i] = list[i] /\ list[i] \in Universe
          /\ list'[Len(list) + 1] = p
      BY <1>1 DEF Grow, Sorted
    <2>2. ASSUME NEW i \in 1..Len(list)
          PROVE  StringLen[list[i]] <= StringLen[p]
      <3>1. list # << >> /\ Last(list) = list[Len(list)] /\ Len(list) \in 1..Len(list)
        BY <2>1 DEF Last, Sorted
      <3>2. StringLen[list[Len(list)]] <= StringLen[p]
        BY <1>1, <3>1 DEF Grow
      <3>3. i = Len(list) \/ StringLen[list[i]] <= StringLen[list[Len(list)]]
        BY <2>1, <3>1 DEF Sorted
      <3>4. /\ StringLen[list[i]] \in Nat /\ StringLen[p] \in Nat
            /\ StringLen[list[Len(list)]] \in Nat
        BY <2>1, <3>1, ListAssumption
      <3> QED BY <3>2, <3>3, <3>4
    <2>3. ASSUME NEW i \in 1..Len(list'), NEW j \in 1..Len(list'), i < j
          PROVE  StringLen[list'[i]] <= StringLen[list'[j]]
      <3>1. i \in 1..Len(list) /\ (j \in 1..Len(list) \/ j = Len(list) + 1)
        BY <2>1, <2>3
      <3> QED BY <2>1, <2>2, <2>3, <3>1 DEF Sorted
    <2> QED BY <2>1, <2>3 DEF Sorted
  <1>2. CASE UNCHANGED list
    BY <1>2 DEF Sorted
  <1> QED BY <1>1, <1>2 DEF Next

LEMMA SortedInit == Init => Sorted
  BY DEF Init, Sorted

(* A container is a shorter string, so it never comes after what it holds. *)
LEMMA KeptIsCompact ==
  ASSUME Sorted
  PROVE  /\ Kept = Compact(ToSet(list))
         /\ ToSet(list) \in SUBSET Universe
  <1>1. ToSet(list) \in SUBSET Universe
    BY DEF Sorted, ToSet
  <1>2. list \in Seq(Seq(Name))
    BY ListAssumption DEF Sorted
  <1>3. ASSUME NEW i \in 1..Len(list), NEW j \in 1..Len(list),
               i < j, Within(list[j], list[i])
        PROVE  list[i] = list[j]
    <2>1. list[i] \in Universe /\ list[j] \in Universe
      BY DEF Sorted
    <2>2. /\ StringLen[list[i]] <= StringLen[list[j]]
          /\ StringLen[list[i]] \in Nat /\ StringLen[list[j]] \in Nat
      BY <1>3, <2>1, ListAssumption DEF Sorted
    <2>3. list[i] # list[j] => StringLen[list[j]] < StringLen[list[i]]
      BY <1>3, <2>1, ListAssumption
    <2> QED BY <2>2, <2>3
  <1> QED BY <1>1, <1>2, <1>3, KeepOutermostIsCompact DEF Kept

(***************************************************************************)
(* However long the list and whatever the names: the loop of compactRoots  *)
(* and compactDirtyPaths keeps exactly the outermost paths.                *)
(***************************************************************************)
THEOREM GreedyIsRight == Spec => []GreedyIsOutermost
  <1>1. Sorted => GreedyIsOutermost
    BY KeptIsCompact DEF GreedyIsOutermost
  <1> QED BY <1>1, SortedInit, SortedStep, PTL DEF Spec

(***************************************************************************)
(* Compaction keeps the coverage of every sorted list.                     *)
(***************************************************************************)
THEOREM CoverageIsKept == Spec => []CompactKeepsCoverage
  <1>1. Sorted => CompactKeepsCoverage
    <2> SUFFICES ASSUME Sorted, NEW p \in Universe
                 PROVE  (\E q \in ToSet(list) : Within(q, p))
                           <=> (\E k \in Kept : Within(k, p))
      BY DEF CompactKeepsCoverage
    <2>1. Kept = Compact(ToSet(list)) /\ ToSet(list) \in SUBSET Universe
      BY KeptIsCompact
    <2>2. Kept \subseteq ToSet(list)
      BY <2>1 DEF Compact
    <2>3. ASSUME NEW q \in ToSet(list), Within(q, p)
          PROVE  \E k \in Kept : Within(k, p)
      <3>1. ToSet(list) \subseteq Seq(Name)
        BY <2>1, ListAssumption
      <3>2. PICK k \in Compact(ToSet(list)) : Within(k, q)
        BY <3>1, CompactCovers
      <3>3. k \in Seq(Name) /\ q \in Seq(Name) /\ p \in Seq(Name)
        BY <2>1, <2>2, <3>1, ListAssumption
      <3> QED BY <2>1, <2>3, <3>2, <3>3, WithinTransitive
    <2> QED BY <2>2, <2>3
  <1> QED BY <1>1, SortedInit, SortedStep, PTL DEF Spec

(***************************************************************************)
(* Every path has the one root that contains it, or none, after compaction.*)
(***************************************************************************)
THEOREM RootsOwnTheirPaths == Spec => []MatchRootIsTheOwner
  <1>1. Sorted => MatchRootIsTheOwner
    <2> SUFFICES ASSUME Sorted, NEW p \in Universe
                 PROVE  LET owners == {r \in Kept : Within(r, p)}
                        IN  IF owners = {} THEN MatchRoot(Kept, p) = NoPath
                                           ELSE owners = {MatchRoot(Kept, p)}
      BY DEF MatchRootIsTheOwner
    <2> DEFINE owners == {r \in Kept : Within(r, p)}
    <2>1. Kept = Compact(ToSet(list)) /\ ToSet(list) \in SUBSET Universe
      BY KeptIsCompact
    <2>2. \A a, b \in Kept : Within(a, b) => a = b
      BY <2>1, CompactIsAntichain
    <2>3. Kept \subseteq Seq(Name) /\ p \in Seq(Name)
      BY <2>1, ListAssumption DEF Compact
    <2>4. CASE owners = {}
      BY <2>4 DEF MatchRoot
    <2>5. ASSUME NEW r \in owners
          PROVE  owners = {MatchRoot(Kept, p)}
      <3>1. \A s \in owners : MatchRoot(Kept, p) = s
        BY <2>2, <2>3, MatchRootIsOwner
      <3> QED BY <3>1, <2>5
    <2> QED BY <2>4, <2>5
  <1> QED BY <1>1, SortedInit, SortedStep, PTL DEF Spec

(***************************************************************************)
(* The watches ExtendRoots adds cover all that the old ones do not.        *)
(***************************************************************************)
THEOREM ExtensionsAreCovered == Spec => []AddedRootsCoverTheRest
  <1>1. Sorted => AddedRootsCoverTheRest
    <2> SUFFICES ASSUME Sorted, NEW c \in Universe, NEW p \in Universe,
                        NEW r \in Compact(Kept \cup {c}), Within(r, p)
                 PROVE  \E s \in Kept \cup RootsNeedAdd(Kept, Compact(Kept \cup {c})) :
                           Within(s, p)
      BY DEF AddedRootsCoverTheRest
    <2>1. CASE \E k \in Kept : Within(k, r)
      <3>1. PICK k \in Kept : Within(k, r)
        BY <2>1
      <3>2. Kept \subseteq Universe
        BY KeptIsCompact DEF Compact
      <3>3. r \in Universe
        BY <3>2 DEF Compact
      <3>4. k \in Seq(Name) /\ r \in Seq(Name) /\ p \in Seq(Name)
        BY <3>2, <3>3, ListAssumption
      <3> QED BY <3>1, <3>4, WithinTransitive
    <2>2. CASE ~ \E k \in Kept : Within(k, r)
      BY <2>2 DEF RootsNeedAdd
    <2> QED BY <2>1, <2>2
  <1> QED BY <1>1, SortedInit, SortedStep, PTL DEF Spec
=============================================================================
