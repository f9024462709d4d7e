---------------------------- MODULE WatchProofs ----------------------------
(***************************************************************************)
(* The backend and its watcher.  Part A, under every hazard: each variable *)
(* keeps its type, and the roots never contain one another.  Part B: no    *)
(* directory is lost to the watcher.                                       *)
(***************************************************************************)
EXTENDS WatchDiff, PathsProofs, FiniteSetTheorems, SequenceTheorems

(***************************************************************************)
(* Part A: types and roots.                                                *)
(***************************************************************************)
USE DEF Entry, Manifest

(***************************************************************************)
(* What TypeOK leans on.  The work of ExtendRoots and of a restore is a    *)
(* set of roots, a restore has a manifest and a root to work on, and the   *)
(* last phase only writes what the manifest holds.                         *)
(***************************************************************************)
WorkIsRoots   == pc = "extend" \/ Restoring => work \subseteq AllRoots
HasTarget     == Restoring => target \in Manifest
HasRoot       == pc \in {"remove", "mkdirs", "leaves"} => restoring \in AllRoots
LeavesToWrite == pc = "leaves" => \A p \in todo : p \in Path /\ Wanted(p) \in Leaf

TypeInv == TypeOK /\ WorkIsRoots /\ HasTarget /\ HasRoot /\ LeavesToWrite

Events == Seq(Event \cup {Overflow})

LEMMA Paths1 ==
  /\ Path \subseteq Seq(Name) /\ << >> \notin Path
  /\ NoPath \notin Seq(Name) /\ NoPath \notin Path
  /\ AllRoots \subseteq Path /\ AllRoots \subseteq Seq(Name)
  /\ InitRoots \subseteq AllRoots
  BY PathAssumption, RootAssumption DEF AllRoots

LEMMA CompactIsSubset ==
  ASSUME NEW C
  PROVE  Compact(C) \subseteq C
  BY DEF Compact

LEMMA MatchRootIsRoot ==
  ASSUME NEW R, NEW p, MatchRoot(R, p) # NoPath, R \subseteq Seq(Name)
  PROVE  \E r \in R : Within(r, p)
  BY DEF MatchRoot

LEMMA NotifyType ==
  ASSUME TypeOK, NEW q \in Events, NEW p \in Path, NEW k \in {"change", "mkdir"}
  PROVE  Notify(q, p, k) \in Events
  <1>1. ASSUME NEW e \in Event \cup {Overflow}
        PROVE  Post(q, e) \in Events
    BY DEF Post, Events
  <1>2. ASSUME Len(p) > 1, Watched(Parent(p))
        PROVE  [wd |-> fs[Parent(p)], name |-> p[Len(p)], kind |-> k] \in Event
    <2>1. p \in Seq(Name) /\ p[Len(p)] \in Name
      BY Paths1, <1>2
    <2>2. fs[Parent(p)] \in Inode
      BY <1>2, SentinelAssumption DEF Watched, IsDir, At
    <2> QED BY <2>1, <2>2 DEF Event
  <1> QED BY <1>1, <1>2 DEF Notify

(* What the file system's steps leave in fs and in the queue.              *)
WorldType == fs' \in [Path -> Leaf \cup Inode \cup {Absent}] /\ queue' \in Events

LEMMA PutLeafType ==
  ASSUME TypeOK, NEW p \in Path, NEW v \in Leaf, PutLeaf(p, v)
  PROVE  WorldType
  BY NotifyType DEF PutLeaf, TypeOK, WorldType, Events

LEMMA MakeDirType ==
  ASSUME TypeOK, NEW p \in Path, MakeDir(p)
  PROVE  WorldType
  BY NotifyType DEF MakeDir, TypeOK, WorldType, Events, Fresh

LEMMA RemoveLeafType ==
  ASSUME TypeOK, NEW p \in Path, RemoveLeaf(p)
  PROVE  WorldType
  BY NotifyType DEF RemoveLeaf, TypeOK, WorldType, Events

LEMMA RemoveDirType ==
  ASSUME TypeOK, NEW p \in Path, RemoveDir(p)
  PROVE  WorldType
  <1> DEFINE q == Notify(queue, p, "change")
             e == [wd |-> fs[p], name |-> NoName, kind |-> "ignored"]
  <1>1. q \in Events
    BY NotifyType DEF TypeOK, Events
  <1>2. fs[p] \in Inode
    BY SentinelAssumption DEF RemoveDir, IsDir, At
  <1>3. e \in Event
    BY <1>2 DEF Event
  <1>4. Post(q, e) \in Events
    BY <1>1, <1>3 DEF Post, Events
  <1>5. queue' \in Events
    BY <1>1, <1>4 DEF RemoveDir
  <1> QED BY <1>5 DEF RemoveDir, TypeOK, WorldType

LEMMA EnsureDirType ==
  ASSUME TypeOK, NEW p, EnsureDir(p)
  PROVE  WorldType
  BY MakeDirType DEF EnsureDir

LEMMA RenameDirType ==
  ASSUME TypeOK, NEW p \in Path, NEW q \in Path, RenameDir(p, q)
  PROVE  WorldType
  <1>1. \A x : At(x) \in Leaf \cup Inode \cup {Absent}
    BY DEF At, TypeOK
  <1>2. fs' \in [Path -> Leaf \cup Inode \cup {Absent}]
    BY <1>1 DEF RenameDir, Moved, TypeOK
  <1>3. Notify(queue, p, "change") \in Events
    BY NotifyType DEF TypeOK, Events
  <1>4. queue' \in Events
    BY <1>3, NotifyType DEF RenameDir
  <1> QED BY <1>2, <1>4 DEF WorldType

(***************************************************************************)
(* A step that only disturbs the world, and one that leaves the backend.   *)
(***************************************************************************)
LEMMA ProgramType ==
  ASSUME TypeInv, Program
  PROVE  TypeInv'
  <1>1. WorldType
    BY PutLeafType, MakeDirType, RemoveLeafType, RemoveDirType, RenameDirType
    DEF TypeInv, Program, Write, Mkdir, Unlink, Rmdir
  <1>2. ProgramStep
    BY DEF Program, Write, Mkdir, Unlink, Rmdir, RenameDir
  <1> QED
    BY <1>1, <1>2
    DEF TypeInv, TypeOK, WorkIsRoots, HasTarget, HasRoot, LeavesToWrite, WorldType,
        ProgramStep, watcherVars, backendVars, Events, Restoring, Wanted, Control

(* The watcher's own steps.                                                *)
LEMMA ReaderType ==
  ASSUME TypeInv, Reader \/ ReaderDies
  PROVE  TypeInv'
  <1> USE DEF TypeInv, TypeOK, WorkIsRoots, HasTarget, HasRoot, LeavesToWrite,
              Restoring, Wanted, Control, worldVars, backendVars
  <1>1. CASE HandleEvent
    <2>1. queue[1] \in Event \cup {Overflow} /\ Tail(queue) \in Seq(Event \cup {Overflow})
      BY <1>1 DEF HandleEvent
    <2>2. CASE queue[1] = Overflow \/ wdToPath[queue[1].wd] = NoPath
      BY <1>1, <2>1, <2>2 DEF HandleEvent
    <2>3. CASE queue[1] # Overflow /\ wdToPath[queue[1].wd] # NoPath
      <3>1. queue[1] \in Event /\ queue[1].wd \in Inode
        BY <2>1, <2>3 DEF Event
      <3>2. wdToPath[queue[1].wd] \in Path
        BY <3>1, <2>3
      <3>3. EventPath(queue[1]) \in Seq(Name)
        BY <3>1, <3>2, Paths1 DEF EventPath, Event
      <3>4. queue' \in Seq(Event \cup {Overflow})
        BY <1>1, <2>1 DEF HandleEvent
      <3>5. /\ wdToPath' \in [Inode -> Path \cup {NoPath}]
            /\ pathToWd' \subseteq Path
        BY <1>1, <2>3, <3>1 DEF HandleEvent
      <3>6. dirty' \subseteq Seq(Name) /\ adding' \subseteq Seq(Name)
        BY <1>1, <2>3, <3>3 DEF HandleEvent
      <3> QED BY <1>1, <2>3, <3>4, <3>5, <3>6 DEF HandleEvent
    <2> QED BY <2>1, <2>2, <2>3
  <1>2. ASSUME NEW p \in adding, AddWatch(p)
        PROVE  TypeInv'
    <2>1. IsDir(p) => p \in Path /\ fs[p] \in Inode
      BY SentinelAssumption DEF IsDir, At
    <2>2. /\ wdToPath' \in [Inode -> Path \cup {NoPath}]
          /\ pathToWd' \subseteq Path
          /\ adding' \subseteq Seq(Name) /\ listing' \subseteq Path
      BY <1>2, <2>1 DEF AddWatch
    <2> QED BY <1>2, <2>2 DEF AddWatch
  <1>3. ASSUME NEW p \in listing, ListDir(p)
        PROVE  TypeInv'
    <2>1. adding' \subseteq Seq(Name) /\ listing' \subseteq Path
      BY <1>3, Paths1 DEF ListDir, Children
    <2> QED BY <1>3, <2>1 DEF ListDir
  <1>4. CASE ReaderDies
    BY <1>4 DEF ReaderDies
  <1> QED BY <1>1, <1>2, <1>3, <1>4 DEF Reader

(* ExtendRoots works on roots.                                             *)
LEMMA ExtendType ==
  ASSUME TypeInv, Extend
  PROVE  TypeInv'
  <1> USE DEF TypeInv, TypeOK, WorkIsRoots, HasTarget, HasRoot, LeavesToWrite,
              Restoring, Wanted, Control, worldVars, watcherVars
  <1>1. ASSUME NEW r \in NewRoot, BeginExtendRoots(r)
        PROVE  TypeInv'
    <2>1. Compact(roots \cup {r}) \subseteq AllRoots
      BY CompactIsSubset DEF AllRoots
    <2>2. work' \subseteq AllRoots /\ work' \subseteq Seq(Name) /\ adding' \subseteq Seq(Name)
      BY <1>1, <2>1, Paths1 DEF BeginExtendRoots, RootsNeedAdd
    <2> QED BY <1>1, <2>2 DEF BeginExtendRoots
  <1>2. CASE EndExtendRoots
    BY <1>2 DEF EndExtendRoots
  <1>3. CASE AddRootsFails
    BY <1>3 DEF AddRootsFails
  <1> QED BY <1>1, <1>2, <1>3 DEF Extend

(* Create writes entries and manifests.                                    *)
LEMMA CreateType ==
  ASSUME TypeInv, Create \/ \E s \in Snapshot : Delete(s)
  PROVE  TypeInv'
  <1> USE DEF TypeInv, TypeOK, WorkIsRoots, HasTarget, HasRoot, LeavesToWrite,
              Restoring, Wanted, Control, worldVars, watcherVars
  <1>1. CASE BeginSync
    <2>1. Compact(dirty) \subseteq Seq(Name) /\ roots \subseteq Seq(Name)
      BY CompactIsSubset, Paths1
    <2> QED BY <1>1, <2>1 DEF BeginSync, NoEntries
  <1>2. ASSUME NEW d \in work, ReconcilePath(d)
        PROVE  TypeInv'
    <2>1. current' \in [AllRoots -> [Path -> Entry]]
      BY <1>2 DEF ReconcilePath
    <2> QED BY <1>2, <2>1 DEF ReconcilePath, NoEntries
  <1>3. ASSUME NEW q \in todo, Visit(q)
        PROVE  TypeInv'
    <2>1. Kind(At(q)) \in Entry
      BY DEF Kind, At
    <2>2. tmp' \in [Path -> Entry]
      BY <1>3, <2>1 DEF Visit
    <2>3. todo' \subseteq Seq(Name)
      BY <1>3, Paths1 DEF Visit, Children
    <2> QED BY <1>3, <2>2, <2>3 DEF Visit
  <1>4. CASE EndScan
    <2>1. \A r \in AllRoots, p \in Path : Merged(r, p) \in Entry
      BY DEF Merged
    <2>2. current' \in [AllRoots -> [Path -> Entry]]
      BY <1>4, <2>1 DEF EndScan
    <2> QED BY <1>4, <2>2 DEF EndScan, NoEntries
  <1>5. CASE ScanFails
    BY <1>5 DEF ScanFails, NoEntries
  <1>6. ASSUME NEW s \in Snapshot, SaveManifest(s)
        PROVE  TypeInv'
    <2>1. manifests' \in [Snapshot -> Manifest \cup {None}]
      BY <1>6 DEF SaveManifest
    <2> QED BY <1>6, <2>1 DEF SaveManifest, Synced
  <1>7. ASSUME NEW s \in Snapshot, Delete(s)
        PROVE  TypeInv'
    BY <1>7 DEF Delete
  <1> QED BY <1>1, <1>2, <1>3, <1>4, <1>5, <1>6, <1>7 DEF Create

(* A restore works on roots, and its last phase on what the manifest holds.*)
LEMMA RestoreType ==
  ASSUME TypeInv, Restore
  PROVE  TypeInv'
  <1> USE DEF TypeInv, TypeOK, WorkIsRoots, HasTarget, HasRoot, LeavesToWrite,
              Restoring, Wanted, Control, worldVars, watcherVars, RestoreUnchanged
  <1>1. ASSUME NEW s \in Snapshot, BeginRestore(s)
        PROVE  TypeInv'
    <2>1. manifests[s] \in Manifest
      BY <1>1 DEF BeginRestore
    <2>2. target' \in Manifest /\ work' \subseteq AllRoots /\ work' \subseteq Seq(Name)
      BY <1>1, <2>1, Paths1 DEF BeginRestore
    <2> QED BY <1>1, <2>2 DEF BeginRestore
  <1>2. ASSUME NEW r \in work, MakeRoot(r)
        PROVE  TypeInv'
    <2>1. WorldType
      BY <1>2, EnsureDirType DEF MakeRoot
    <2> QED BY <1>2, <2>1 DEF MakeRoot, WorldType, Events
  <1>3. ASSUME NEW r \in work, BeginRestoreRoot(r)
        PROVE  TypeInv'
    <2>1. todo' \subseteq Seq(Name) /\ restoring' \in AllRoots
      BY <1>3, Paths1 DEF BeginRestoreRoot
    <2> QED BY <1>3, <2>1 DEF BeginRestoreRoot
  <1>4. ASSUME NEW p \in Path, RemoveAll(p)
        PROVE  TypeInv'
    <2>1. WorldType
      BY <1>4, RemoveLeafType, RemoveDirType DEF RemoveAll, WorldType, Events
    <2> QED BY <1>4, <2>1 DEF RemoveAll, WorldType, Events
  <1>5. ASSUME NEW p \in todo, RestoreDir(p)
        PROVE  TypeInv'
    <2>1. WorldType
      BY <1>5, EnsureDirType DEF RestoreDir, WorldType, Events
    <2> QED BY <1>5, <2>1 DEF RestoreDir, WorldType, Events
  <1>6. ASSUME NEW p \in todo, RestoreLeaf(p)
        PROVE  TypeInv'
    <2>1. p \in Path /\ Wanted(p) \in Leaf
      BY <1>6 DEF RestoreLeaf
    <2>2. WorldType
      BY <1>6, <2>1, EnsureDirType, PutLeafType DEF RestoreLeaf
    <2> QED BY <1>6, <2>2 DEF RestoreLeaf, WorldType, Events
  <1>7. CASE NextPhase
    <2>1. UNCHANGED <<worldVars, watcherVars, roots, current, work, tmp, target,
                      manifests, changes>>
      BY <1>7 DEF NextPhase
    <2>2. CASE pc = "remove"
      <3>1. pc' = "mkdirs" /\ todo' = {p \in Path : Wanted(p) = Dir} /\ restoring' = restoring
        BY <1>7, <2>2 DEF NextPhase
      <3> QED BY <2>1, <2>2, <3>1, Paths1
    <2>3. CASE pc = "mkdirs"
      <3>1. pc' = "leaves" /\ todo' = {p \in Path : Wanted(p) \in Leaf} /\ restoring' = restoring
        BY <1>7, <2>3 DEF NextPhase
      <3> QED BY <2>1, <2>3, <3>1, Paths1
    <2>4. CASE pc = "leaves"
      <3>1. pc' = "restore" /\ todo' = {} /\ restoring' = NoPath
        BY <1>7, <2>4 DEF NextPhase
      <3> QED BY <2>1, <2>4, <3>1
    <2> QED BY <1>7, <2>2, <2>3, <2>4 DEF NextPhase
  <1>8. CASE RestoreFails
    BY <1>8 DEF RestoreFails
  <1>9. CASE AdoptTarget
    BY <1>9 DEF AdoptTarget
  <1> QED BY <1>1, <1>2, <1>3, <1>4, <1>5, <1>6, <1>7, <1>8, <1>9 DEF Restore

LEMMA InitType == Init => TypeInv
  <1> SUFFICES ASSUME Init PROVE TypeInv
    OBVIOUS
  <1>1. pathToWd \subseteq Path
    BY DEF Init, DirsWithin
  <1>2. wdToPath \in [Inode -> Path \cup {NoPath}]
    <2>1. ASSUME NEW i \in Inode, \E p \in pathToWd : fs[p] = i
          PROVE  (CHOOSE p \in pathToWd : fs[p] = i) \in pathToWd
      BY <2>1
    <2> QED BY <1>1, <2>1 DEF Init
  <1>3. current \in [AllRoots -> [Path -> Entry]] /\ tmp \in [Path -> Entry]
    BY DEF Init, NoEntries
  <1>4. manifests \in [Snapshot -> Manifest \cup {None}]
    BY DEF Init
  <1>5. queue \in Seq(Event \cup {Overflow})
    BY DEF Init
  <1>6. /\ fs \in [Path -> Leaf \cup Inode \cup {Absent}]
        /\ dirty = {} /\ forceFull = FALSE /\ reader \in {"running", "dead", "off"}
        /\ adding = {} /\ listing = {} /\ roots \subseteq AllRoots
        /\ pc = "idle" /\ work = {} /\ todo = {} /\ target = None
        /\ restoring = NoPath /\ changes = 0
    BY Paths1 DEF Init
  <1>7. TypeOK
    BY <1>1, <1>2, <1>3, <1>4, <1>5, <1>6 DEF TypeOK, Control
  <1> QED BY <1>7 DEF Init, TypeInv, WorkIsRoots, HasTarget, HasRoot, LeavesToWrite,
                      Restoring

LEMMA StepType == TypeInv /\ [Next]_vars => TypeInv'
  <1>1. CASE UNCHANGED vars
    BY <1>1 DEF TypeInv, TypeOK, WorkIsRoots, HasTarget, HasRoot, LeavesToWrite,
                Restoring, Wanted, vars, worldVars, watcherVars, backendVars
  <1> QED BY <1>1, ProgramType, ReaderType, ExtendType, CreateType, RestoreType
          DEF Next, Backend

(***************************************************************************)
(* Type correctness.  It says, among others, that an event is only joined  *)
(* to a path the watcher knows, that ExtendRoots never leaves a root that  *)
(* was not asked for, and that a restore writes files only.                *)
(***************************************************************************)
THEOREM TypeCorrect == Spec => []TypeOK
  <1>1. TypeInv => TypeOK
    BY DEF TypeInv
  <1> QED BY <1>1, InitType, StepType, PTL DEF Spec

(* A candidate that replaces the roots is compact, as the roots are.       *)
WorkIsCompact == pc = "extend" => \A r, s \in work : Within(r, s) => r = s

DisjointInv == RootsDisjoint /\ WorkIsCompact

LEMMA StepDisjoint ==
  ASSUME DisjointInv, [Next]_vars
  PROVE  DisjointInv'
  <1> USE DEF DisjointInv
  <1>1. ASSUME NEW r \in NewRoot, BeginExtendRoots(r)
        PROVE  DisjointInv'
    BY <1>1, CompactIsAntichain DEF BeginExtendRoots, RootsDisjoint, WorkIsCompact
  <1>2. CASE EndExtendRoots
    BY <1>2 DEF EndExtendRoots, RootsDisjoint, WorkIsCompact
  <1>3. CASE AddRootsFails
    BY <1>3 DEF AddRootsFails, RootsDisjoint, WorkIsCompact
  <1>4. CASE Program
    BY <1>4 DEF Program, Write, Mkdir, Unlink, Rmdir, RenameDir, ProgramStep,
                backendVars, RootsDisjoint, WorkIsCompact
  <1>5. CASE Reader \/ ReaderDies
    BY <1>5 DEF Reader, ReaderDies, HandleEvent, AddWatch, ListDir, backendVars,
                RootsDisjoint, WorkIsCompact
  <1>6. CASE Create \/ \E s \in Snapshot : Delete(s)
    <2>1. roots' = roots /\ ((pc' = pc /\ work' = work) \/ pc' # "extend")
      BY <1>6 DEF Create, BeginSync, ReconcilePath, Visit, EndScan, ScanFails,
                  SaveManifest, Delete
    <2> QED BY <2>1 DEF RootsDisjoint, WorkIsCompact
  <1>7. CASE Restore
    <2>1. roots' = roots /\ pc' # "extend"
      BY <1>7 DEF Restore, BeginRestore, MakeRoot, BeginRestoreRoot, RemoveAll,
                  RestoreDir, RestoreLeaf, NextPhase, RestoreFails, AdoptTarget,
                  RestoreUnchanged
    <2> QED BY <2>1 DEF RootsDisjoint, WorkIsCompact
  <1>8. CASE UNCHANGED vars
    BY <1>8 DEF vars, backendVars, RootsDisjoint, WorkIsCompact
  <1> QED BY <1>1, <1>2, <1>3, <1>4, <1>5, <1>6, <1>7, <1>8
          DEF Next, Backend, Extend

(***************************************************************************)
(* The roots never contain one another: ExtendRoots adds what compactRoots *)
(* leaves, and the roots do not change while it walks.                     *)
(***************************************************************************)
THEOREM RootsStayDisjoint == Spec => []RootsDisjoint
  <1>1. Init => DisjointInv
    BY RootAssumption, CompactIsAntichain
    DEF Init, DisjointInv, RootsDisjoint, WorkIsCompact
  <1>2. DisjointInv => RootsDisjoint
    BY DEF DisjointInv
  <1> QED BY <1>1, <1>2, StepDisjoint, PTL DEF Spec

HIDE DEF Entry, Manifest

(***************************************************************************)
(* Part B: no directory is lost to the watcher.  EveryDirWatched holds in  *)
(* every instance, whatever programs do in the background, however far the *)
(* reader lags and whatever scans and restores fail, as long as            *)
(*   - no directory is moved and no root is removed,                       *)
(*   - the reader was started and lives,                                   *)
(*   - neither the kernel's queue nor the watch limit is exceeded, and     *)
(*   - the session does not extend its roots.                              *)
(* WatchDiff's runs show what happens without the first three.             *)
(***************************************************************************)

Sound ==
  /\ Hazards \cap {"rename", "overflow", "readerDeath", "startFailure",
                   "rootRemoved"} = {}
  /\ NewRoot = {}
  /\ IsFiniteSet(Path) /\ Cardinality(Path) <= WatchLimit

(***************************************************************************)
(* The inductive invariant.  A name in wdToPath is right for as long as    *)
(* the directory lives; the events of a directory can be named until its   *)
(* "ignored" event, which is the last and comes when the directory is gone.*)
(***************************************************************************)
Quiet == reader = "running" /\ pc # "extend" /\ roots = InitRoots

RootsAreDirs == \A r \in InitRoots : IsDir(r)

RightName ==
  \A p \in Path : IsDir(p) /\ wdToPath[fs[p]] # NoPath => wdToPath[fs[p]] = p

KnownEvents ==
  \A n \in 1..Len(queue) : queue[n] \in Event /\ wdToPath[queue[n].wd] \in Path

Gone(i) == \A p \in Path : fs[p] # i

IgnoredIsLast ==
  \A n \in 1..Len(queue) : queue[n].kind = "ignored" =>
     /\ Gone(queue[n].wd)
     /\ \A m \in 1..Len(queue) : n < m => queue[m].wd # queue[n].wd

RemovesInsideRoot ==
  pc = "remove" => \A q \in todo : q \in Path /\ q # restoring /\ Within(restoring, q)

WorldInv == /\ IsTree /\ RightName /\ KnownEvents /\ IgnoredIsLast /\ EveryDirWatched

WatchInv == TypeInv /\ Quiet /\ RootsAreDirs /\ RemovesInsideRoot /\ WorldInv

(* What contains a path of the universe, and is not its tail, is one too.  *)
LEMMA PathInside ==
  ASSUME NEW p \in Seq(Name), NEW x \in Path, Within(p, x)
  PROVE  p \in Path
  <1>1. CASE p = x
    BY <1>1
  <1>2. CASE p # x
    <2>1. x \in Seq(Name)
      BY Paths1
    <2>2. p # << >> /\ Len(p) < Len(x) /\ \A i \in 1..Len(p) : p[i] = x[i]
      BY <1>2, <2>1, WithinLonger, WithinElements
    <2>3. Len(p) \in 1..Len(x) /\ Len(x) \in Nat
      BY <2>1, <2>2
    <2>4. p = SubSeq(x, 1, Len(p))
      BY <2>1, <2>2, <2>3
    <2> QED BY <2>3, <2>4, PathAssumption
  <1> QED BY <1>1, <1>2

LEMMA ParentIsPath ==
  ASSUME NEW p \in Path, Len(p) > 1
  PROVE  /\ p \in Seq(Name) /\ Parent(p) \in Path /\ Parent(p) # p
         /\ Within(Parent(p), p)
         /\ Append(Parent(p), p[Len(p)]) = p
         /\ p[Len(p)] \in Name
  <1>1. p \in Seq(Name)
    BY Paths1
  <1>2. /\ Parent(p) \in Seq(Name) /\ Parent(p) # << >> /\ p[Len(p)] \in Name
        /\ Append(Parent(p), p[Len(p)]) = p
    BY <1>1, SplitPath
  <1>3. Within(Parent(p), p) /\ Parent(p) # p
    BY <1>2, JoinedPath
  <1>4. Parent(p) \in Path
    BY <1>2, <1>3, PathInside
  <1> QED BY <1>1, <1>2, <1>3, <1>4

(* A directory is a path, and its inode an inode.                          *)
LEMMA DirIsPath ==
  ASSUME NEW p, IsDir(p)
  PROVE  p \in Path /\ fs[p] \in Inode /\ fs[p] # Absent /\ fs[p] \notin Leaf
  BY SentinelAssumption DEF IsDir, At

(* On the way to something that exists there are only directories.         *)
LEMMA TreeStep ==
  ASSUME IsTree, NEW p \in Seq(Name), NEW x \in Path, fs[x] # Absent,
         Within(p, x), p # x
  PROVE  /\ IsDir(p)
         /\ LET c == StepTowards(p, x)
            IN  c \in Children(p) /\ Within(c, x) /\ (c # x => IsDir(c))
  <1> DEFINE c == StepTowards(p, x)
  <1>1. x \in Seq(Name) /\ p \in Path
    BY Paths1, PathInside
  <1>2. IsDir(p)
    BY <1>1 DEF IsTree
  <1>3. /\ c \in Seq(Name) /\ Len(c) > 1
        /\ Parent(c) = p /\ Within(c, x)
    BY <1>1, StepTowardsIsChild
  <1> HIDE DEF c
  <1>4. c \in Path
    BY <1>3, PathInside
  <1>5. c # x => IsDir(c)
    BY <1>3, <1>4 DEF IsTree
  <1>6. fs[c] # Absent
    BY <1>5, DirIsPath
  <1>7. c \in Children(p)
    BY <1>3, <1>4, <1>6 DEF Children
  <1> QED BY <1>2, <1>3, <1>5, <1>7 DEF c

(* What Post does while the reader runs and there is room.                 *)
LEMMA PostFacts ==
  ASSUME NEW q \in Seq(Event), NEW e \in Event,
         reader = "running", Len(q) < MaxQueue
  PROVE  /\ Post(q, e) \in Seq(Event)
         /\ Len(Post(q, e)) \in {Len(q), Len(q) + 1}
         /\ \A n \in 1..Len(q) : Post(q, e)[n] = q[n]
         /\ Len(Post(q, e)) = Len(q) + 1 => Post(q, e)[Len(q) + 1] = e
         /\ \E n \in 1..Len(Post(q, e)) : Post(q, e)[n] = e
  <1>1. CASE q # << >> /\ q[Len(q)] = e
    <2>1. Post(q, e) = q
      BY <1>1 DEF Post
    <2>2. Len(q) \in 1..Len(q) /\ Len(q) \in Nat
      BY <1>1
    <2>3. \E n \in 1..Len(q) : q[n] = e
      BY <1>1, <2>2
    <2>4. Len(q) # Len(q) + 1
      BY <2>2
    <2>5. Len(Post(q, e)) = Len(q)
      BY <2>1
    <2>6. \E n \in 1..Len(Post(q, e)) : Post(q, e)[n] = e
      BY <2>1, <2>3
    <2>7. \A n \in 1..Len(q) : Post(q, e)[n] = q[n]
      BY <2>1
    <2> QED BY <2>1, <2>4, <2>5, <2>6, <2>7
  <1>2. CASE ~(q # << >> /\ q[Len(q)] = e)
    <2>1. Post(q, e) = Append(q, e)
      BY <1>2 DEF Post
    <2> DEFINE j == Append(q, e)
    <2>2. /\ Append(q, e) \in Seq(Event) /\ Len(Append(q, e)) = Len(q) + 1
          /\ \A n \in 1..Len(q) : Append(q, e)[n] = q[n]
          /\ Append(q, e)[Len(q) + 1] = e
          /\ Len(q) + 1 \in 1..(Len(q) + 1)
      OBVIOUS
    <2> HIDE DEF j
    <2>3. /\ j \in Seq(Event) /\ Len(j) = Len(q) + 1 /\ Len(q) + 1 \in 1..Len(j)
          /\ \A n \in 1..Len(q) : j[n] = q[n]
          /\ j[Len(q) + 1] = e
      BY <2>2 DEF j
    <2>4. Post(q, e) = j
      BY <2>1 DEF j
    <2> QED BY <2>3, <2>4
  <1> QED BY <1>1, <1>2

Notice(p, kind) == [wd |-> fs[Parent(p)], name |-> p[Len(p)], kind |-> kind]

HasRoomNow == Len(queue) + 2 <= MaxQueue

LEMMA NotifyFacts ==
  ASSUME TypeOK, KnownEvents, reader = "running", HasRoomNow,
         NEW p \in Path, NEW kind \in {"change", "mkdir"}
  PROVE  LET q == Notify(queue, p, kind)
             watched == Len(p) > 1 /\ Watched(Parent(p))
         IN  /\ q \in Seq(Event)
             /\ Len(q) \in {Len(queue), Len(queue) + 1}
             /\ \A n \in 1..Len(queue) : q[n] = queue[n]
             /\ Len(q) = Len(queue) + 1 => watched /\ q[Len(q)] = Notice(p, kind)
             /\ watched => \E n \in 1..Len(q) : q[n] = Notice(p, kind)
  <1> DEFINE q == Notify(queue, p, kind)
             watched == Len(p) > 1 /\ Watched(Parent(p))
  <1>1. queue \in Seq(Event) /\ Len(queue) \in Nat /\ Len(queue) < MaxQueue
    BY BoundAssumption DEF TypeOK, KnownEvents, HasRoomNow
  <1>2. CASE watched
    <2>1. fs[Parent(p)] \in Inode /\ p[Len(p)] \in Name
      BY <1>2, ParentIsPath, DirIsPath DEF Watched
    <2>2. Notice(p, kind) \in Event
      BY <2>1 DEF Notice, Event
    <2>3. q = Post(queue, Notice(p, kind))
      BY <1>2 DEF Notify, Notice
    <2> HIDE DEF q
    <2>4. /\ q \in Seq(Event)
          /\ Len(q) \in {Len(queue), Len(queue) + 1}
          /\ \A n \in 1..Len(queue) : q[n] = queue[n]
          /\ Len(q) = Len(queue) + 1 => q[Len(queue) + 1] = Notice(p, kind)
          /\ \E n \in 1..Len(q) : q[n] = Notice(p, kind)
      BY <1>1, <2>2, <2>3, PostFacts
    <2>5. Len(q) = Len(queue) + 1 => q[Len(q)] = Notice(p, kind)
      BY <2>4
    <2> QED BY <1>2, <2>4, <2>5 DEF q
  <1>3. CASE ~watched
    <2>1. q = queue
      BY <1>3 DEF Notify
    <2>2. Len(queue) # Len(queue) + 1
      BY <1>1
    <2> QED BY <1>1, <1>3, <2>1, <2>2
  <1> QED BY <1>2, <1>3

LEMMA DirBefore ==
  ASSUME NEW p \in Path
  PROVE  /\ IsDir(p) <=> fs[p] \in Inode
         /\ IsDir(p)' <=> fs'[p] \in Inode
  BY DEF IsDir, At

(***************************************************************************)
(* What every step of the file system has in common, and why it keeps the  *)
(* invariant: events are added at the end, about directories that lived,   *)
(* an "ignored" one last; a new directory has an inode nobody knew, and a  *)
(* mkdir event or a walk will get to it.                                   *)
(***************************************************************************)
OnlyAppends ==
  /\ queue' \in Seq(Event) /\ Len(queue) <= Len(queue')
  /\ \A n \in 1..Len(queue) : queue'[n] = queue[n]

NewEventsKnown ==
  \A n \in 1..Len(queue') : n > Len(queue) =>
    /\ wdToPath[queue'[n].wd] \in Path
    /\ ~Gone(queue'[n].wd)
    /\ queue'[n].kind = "ignored" =>
         n = Len(queue') /\ \A p \in Path : fs'[p] # queue'[n].wd

NewDirsFresh ==
  \A p \in Path : fs'[p] \in Inode =>
    \/ fs'[p] = fs[p]
    \/ wdToPath[fs'[p]] = NoPath /\ \A n \in 1..Len(queue) : queue[n].wd # fs'[p]

NewDirsAnnounced ==
  \A p \in Path : fs'[p] \in Inode /\ fs'[p] # fs[p] /\ (\E r \in roots : Within(r, p))
    => WillBeWatched(p)'

LEMMA WorldStep ==
  ASSUME TypeOK, WorldInv, UNCHANGED <<wdToPath, adding, listing, roots>>,
         IsTree', OnlyAppends, NewEventsKnown, NewDirsFresh, NewDirsAnnounced
  PROVE  WorldInv'
  <1>1. Len(queue) \in Nat /\ Len(queue') \in Nat
    BY DEF TypeOK, OnlyAppends
  <1>2. RightName'
    BY DirBefore DEF RightName, WorldInv, NewDirsFresh
  <1>3. KnownEvents'
    BY <1>1 DEF KnownEvents, WorldInv, OnlyAppends, NewEventsKnown
  <1>4. IgnoredIsLast'
    <2> SUFFICES ASSUME NEW n \in 1..Len(queue'), queue'[n].kind = "ignored"
                 PROVE  /\ \A p \in Path : fs'[p] # queue'[n].wd
                        /\ \A m \in 1..Len(queue') : n < m => queue'[m].wd # queue'[n].wd
      BY DEF IgnoredIsLast, Gone
    <2>1. CASE n > Len(queue)
      BY <1>1, <2>1 DEF NewEventsKnown
    <2>2. CASE n <= Len(queue)
      <3>1. n \in 1..Len(queue) /\ queue'[n] = queue[n]
        BY <1>1, <2>2 DEF OnlyAppends
      <3>2. /\ Gone(queue[n].wd) /\ queue[n].wd \in Inode
            /\ \A m \in 1..Len(queue) : n < m => queue[m].wd # queue[n].wd
        BY <3>1 DEF WorldInv, IgnoredIsLast, KnownEvents, Event
      <3>3. \A p \in Path : fs'[p] # queue[n].wd
        BY <3>1, <3>2 DEF NewDirsFresh, Gone
      <3>4. ASSUME NEW m \in 1..Len(queue'), n < m
            PROVE  queue'[m].wd # queue[n].wd
        <4>1. CASE m <= Len(queue)
          BY <1>1, <3>2, <3>4, <4>1 DEF OnlyAppends
        <4>2. CASE m > Len(queue)
          BY <3>2, <4>2 DEF NewEventsKnown
        <4> QED BY <1>1, <4>1, <4>2
      <3> QED BY <3>1, <3>3, <3>4
    <2> QED BY <1>1, <2>1, <2>2
  <1>5. EveryDirWatched'
    <2> SUFFICES ASSUME NEW p \in Path, fs'[p] \in Inode, \E r \in roots : Within(r, p)
                 PROVE  WatchedAs(p)' \/ WillBeWatched(p)'
      BY DirBefore DEF EveryDirWatched
    <2>1. CASE fs'[p] # fs[p]
      BY <2>1 DEF NewDirsAnnounced
    <2>2. CASE fs'[p] = fs[p]
      <3>1. WatchedAs(p) \/ WillBeWatched(p)
        BY <2>2, DirBefore DEF WorldInv, EveryDirWatched
      <3>2. CASE WatchedAs(p)
        BY <2>2, <3>2 DEF WatchedAs
      <3>3. CASE WillBeWatched(p)
        <4>1. \A n \in 1..Len(queue) :
                 /\ n \in 1..Len(queue') /\ queue'[n] = queue[n]
                 /\ EventPath(queue[n])' = EventPath(queue[n])
          BY <1>1 DEF OnlyAppends, EventPath
        <4> QED BY <3>3, <4>1 DEF WillBeWatched, OnlyAppends
      <3> QED BY <3>1, <3>2, <3>3
    <2> QED BY <2>1, <2>2
  <1> QED BY <1>2, <1>3, <1>4, <1>5 DEF WorldInv

(* The watcher side of a step of the file system.                          *)
WatcherStays == UNCHANGED <<wdToPath, adding, listing, roots>>

Ready ==
  TypeOK /\ WorldInv /\ RootsAreDirs /\ Quiet /\ "overflow" \notin Hazards

LEMMA NoticeKnown ==
  ASSUME Ready, HasRoomNow,
         NEW p \in Path, NEW kind \in {"change", "mkdir"},
         queue' = Notify(queue, p, kind)
  PROVE  /\ OnlyAppends /\ NewEventsKnown
         /\ Len(p) > 1 /\ Watched(Parent(p)) =>
              \E n \in 1..Len(queue') : queue'[n] = Notice(p, kind)
  <1>1. /\ queue' \in Seq(Event)
        /\ Len(queue') \in {Len(queue), Len(queue) + 1}
        /\ \A n \in 1..Len(queue) : queue'[n] = queue[n]
        /\ Len(queue') = Len(queue) + 1 =>
             /\ Len(p) > 1 /\ Watched(Parent(p))
             /\ queue'[Len(queue')] = Notice(p, kind)
        /\ Len(p) > 1 /\ Watched(Parent(p)) =>
             \E n \in 1..Len(queue') : queue'[n] = Notice(p, kind)
    BY NotifyFacts DEF Ready, WorldInv, Quiet
  <1>2. Len(queue) \in Nat
    BY DEF Ready, TypeOK
  <1>3. OnlyAppends
    BY <1>1, <1>2 DEF OnlyAppends
  <1>4. NewEventsKnown
    <2> SUFFICES ASSUME NEW n \in 1..Len(queue'), n > Len(queue)
                 PROVE  /\ wdToPath[queue'[n].wd] \in Path
                        /\ ~Gone(queue'[n].wd)
                        /\ queue'[n].kind # "ignored"
      BY DEF NewEventsKnown
    <2>1. n = Len(queue') /\ Len(queue') = Len(queue) + 1
      BY <1>1, <1>2
    <2>2. queue'[n].wd = fs[Parent(p)] /\ queue'[n].kind = kind
      BY <1>1, <2>1 DEF Notice
    <2>3. Parent(p) \in Path /\ fs[Parent(p)] \in Inode /\ wdToPath[fs[Parent(p)]] # NoPath
      BY <1>1, <2>1, DirIsPath DEF Watched
    <2> QED BY <2>2, <2>3 DEF Ready, TypeOK, Gone
  <1> QED BY <1>1, <1>3, <1>4

(* A step that makes no directory and sends at most a notice about p.      *)
LEMMA NoticeStep ==
  ASSUME Ready, WatcherStays, HasRoomNow, IsTree',
         NEW p \in Path,
         queue' = Notify(queue, p, "change"),
         \A x \in Path : fs'[x] \in Inode => fs'[x] = fs[x]
  PROVE  WorldInv'
  <1>1. OnlyAppends /\ NewEventsKnown
    BY NoticeKnown
  <1>2. NewDirsFresh /\ NewDirsAnnounced
    BY DEF NewDirsFresh, NewDirsAnnounced
  <1> QED BY <1>1, <1>2, WorldStep DEF Ready, WatcherStays

LEMMA RoomNow ==
  ASSUME Ready, HasRoom
  PROVE  HasRoomNow
  BY DEF Ready, Quiet, HasRoom, HasRoomNow

(* What can be made at p has only directories above it.                    *)
LEMMA DirsAbove ==
  ASSUME IsTree, NEW p \in Path, HasParent(p), NEW a \in Path, Within(a, p), a # p
  PROVE  fs[a] \in Inode /\ Len(p) > 1 /\ IsDir(Parent(p))
  <1>1. p \in Seq(Name) /\ a \in Seq(Name) /\ Len(p) \in Nat
    BY Paths1
  <1>2. Len(p) > 1 /\ Within(a, Parent(p))
    BY <1>1, WithinParent
  <1>3. IsDir(Parent(p))
    <2>1. PICK n \in Nat : n = Len(p)
      BY <1>1
    <2>2. Len(p) # 1
      BY <1>2, <2>1
    <2> QED BY <2>2 DEF HasParent
  <1>4. Parent(p) \in Path /\ fs[Parent(p)] \in Inode /\ fs[Parent(p)] # Absent
    BY <1>3, DirIsPath
  <1>5. a # Parent(p) => IsDir(a)
    BY <1>2, <1>4 DEF IsTree
  <1>6. fs[a] \in Inode
    BY <1>4, <1>5, DirIsPath
  <1> QED BY <1>2, <1>3, <1>6

(***************************************************************************)
(* The changes of the file system keep it a tree: four of them at one path,*)
(* and the rename of a directory with everything in it.                    *)
(***************************************************************************)
LEMMA PutLeafTree ==
  ASSUME TypeOK, IsTree, NEW p \in Path, NEW v \in Leaf, PutLeaf(p, v)
  PROVE  IsTree'
  <1>1. /\ \A x \in Path : fs'[x] = IF x = p THEN v ELSE fs[x]
        /\ HasParent(p) /\ fs[p] \notin Inode
    BY DirBefore DEF PutLeaf, TypeOK
  <1>2. v \notin Inode /\ v # Absent
    BY SentinelAssumption
  <1>3. ASSUME NEW a \in Path, NEW x \in Path, fs'[x] # Absent, Within(a, x), a # x
        PROVE  fs'[a] \in Inode
    <2>1. CASE x = p
      <3>1. fs[a] \in Inode
        BY <1>1, <1>3, <2>1, DirsAbove
      <3> QED BY <1>1, <1>3, <2>1, <3>1
    <2>2. CASE x # p
      <3>1. fs[a] \in Inode
        BY <1>1, <1>3, <2>2, DirBefore DEF IsTree
      <3> QED BY <1>1, <3>1
    <2> QED BY <2>1, <2>2
  <1> QED BY <1>1, <1>2, <1>3, DirBefore DEF IsTree

LEMMA RemoveLeafTree ==
  ASSUME TypeOK, IsTree, NEW p \in Path, RemoveLeaf(p)
  PROVE  IsTree'
  <1>1. /\ \A x \in Path : fs'[x] = IF x = p THEN Absent ELSE fs[x]
        /\ fs[p] \notin Inode
    BY SentinelAssumption DEF RemoveLeaf, TypeOK
  <1> QED BY <1>1, DirBefore, SentinelAssumption DEF IsTree

LEMMA MakeDirTree ==
  ASSUME TypeOK, IsTree, NEW p \in Path, MakeDir(p)
  PROVE  IsTree'
  <1>1. PICK i \in Fresh : fs' = [fs EXCEPT ![p] = i]
    BY DEF MakeDir
  <1>2. /\ \A x \in Path : fs'[x] = IF x = p THEN i ELSE fs[x]
        /\ HasParent(p) /\ fs[p] = Absent
        /\ i \in Inode /\ \A x \in Path : fs[x] # i
    BY <1>1 DEF MakeDir, Fresh, TypeOK
  <1>3. ASSUME NEW a \in Path, NEW x \in Path, fs'[x] # Absent, Within(a, x), a # x
        PROVE  fs'[a] \in Inode
    <2>1. CASE x = p
      BY <1>2, <1>3, <2>1, DirsAbove
    <2>2. CASE x # p
      BY <1>2, <1>3, <2>2, DirBefore DEF IsTree
    <2> QED BY <2>1, <2>2
  <1>4. ASSUME NEW x \in Path, NEW y \in Path, fs'[x] \in Inode, fs'[x] = fs'[y]
        PROVE  x = y
    BY <1>2, <1>4 DEF IsTree
  <1> QED BY <1>3, <1>4, DirBefore DEF IsTree

LEMMA RemoveDirTree ==
  ASSUME TypeOK, IsTree, NEW p \in Path, RemoveDir(p)
  PROVE  IsTree'
  <1>1. /\ \A x \in Path : fs'[x] = IF x = p THEN Absent ELSE fs[x]
        /\ Children(p) = {}
    BY DEF RemoveDir, TypeOK
  <1>2. ASSUME NEW a \in Path, NEW x \in Path, fs'[x] # Absent, Within(a, x), a # x
        PROVE  fs'[a] \in Inode
    <2>1. x # p /\ fs[x] # Absent
      BY <1>1, <1>2
    <2>2. a # p
      BY <1>1, <1>2, <2>1, TreeStep, Paths1
    <2> QED BY <1>1, <1>2, <2>1, <2>2, DirBefore DEF IsTree
  <1> QED BY <1>1, <1>2, DirBefore, SentinelAssumption DEF IsTree

(* Where the path x below q comes from when p is renamed to q.             *)
Source(p, q, x) == p \o SubSeq(x, Len(q) + 1, Len(x))

(* y is p followed by what x has after q.                                  *)
Spliced(y, p, q, x) ==
  /\ y \in Seq(Name)
  /\ Len(p) \in Nat \ {0} /\ Len(q) \in Nat \ {0} /\ Len(x) \in Nat
  /\ Len(q) <= Len(x) /\ \A i \in 1..Len(q) : x[i] = q[i]
  /\ Len(y) = Len(p) + (Len(x) - Len(q))
  /\ \A i \in 1..Len(p) : y[i] = p[i]
  /\ \A i \in 1..(Len(x) - Len(q)) : y[Len(p) + i] = x[Len(q) + i]

LEMMA SourceIsSpliced ==
  ASSUME NEW p \in Seq(Name), NEW q \in Seq(Name), NEW x \in Seq(Name), Within(q, x),
         q # << >>, p # << >>
  PROVE  Spliced(Source(p, q, x), p, q, x)
  <1>1. /\ Len(p) \in Nat \ {0} /\ Len(q) \in Nat \ {0} /\ Len(x) \in Nat
        /\ Len(q) <= Len(x) /\ \A i \in 1..Len(q) : x[i] = q[i]
    BY WithinElements
  <1> DEFINE t == SubSeq(x, Len(q) + 1, Len(x))
  <1>2. t \in Seq(Name) /\ Len(t) = Len(x) - Len(q)
    <2>1. \A i \in (Len(q) + 1)..Len(x) : x[i] \in Name
      BY <1>1
    <2>2. /\ t \in Seq(Name)
          /\ Len(t) = IF Len(q) + 1 <= Len(x) THEN Len(x) - (Len(q) + 1) + 1 ELSE 0
      BY <1>1, <2>1, SubSeqProperties
    <2> QED BY <1>1, <2>2
  <1>3. \A i \in 1..Len(t) : t[i] = x[Len(q) + i]
    <2> SUFFICES ASSUME NEW i \in 1..Len(t)
                 PROVE  t[i] = x[Len(q) + i]
      OBVIOUS
    <2>1. \A k \in (Len(q) + 1)..Len(x) : x[k] \in Name
      BY <1>1
    <2>2. \A k \in 1..(Len(x) - (Len(q) + 1) + 1) : t[k] = x[(Len(q) + 1) + k - 1]
      BY <1>1, <2>1, SubSeqProperties
    <2>3. i \in 1..(Len(x) - (Len(q) + 1) + 1) /\ (Len(q) + 1) + i - 1 = Len(q) + i
      BY <1>1, <1>2
    <2> QED BY <2>2, <2>3
  <1>4. Source(p, q, x) = p \o t
    BY DEF Source
  <1> HIDE DEF t
  <1>5. /\ p \o t \in Seq(Name) /\ Len(p \o t) = Len(p) + Len(t)
        /\ \A i \in 1..(Len(p) + Len(t)) :
              (p \o t)[i] = IF i <= Len(p) THEN p[i] ELSE t[i - Len(p)]
    BY <1>2, ConcatProperties
  <1>6. \A i \in 1..Len(p) : (p \o t)[i] = p[i]
    BY <1>1, <1>2, <1>5
  <1>7. ASSUME NEW i \in 1..Len(t)
        PROVE  (p \o t)[Len(p) + i] = t[i]
    <2>1. Len(p) + i \in 1..(Len(p) + Len(t)) /\ ~(Len(p) + i <= Len(p))
          /\ (Len(p) + i) - Len(p) = i
      BY <1>1, <1>2
    <2> QED BY <1>5, <2>1
  <1> QED BY <1>1, <1>2, <1>3, <1>4, <1>5, <1>6, <1>7 DEF Spliced

LEMMA SourceIsInside ==
  ASSUME NEW p \in Seq(Name), NEW q \in Seq(Name), NEW x \in Seq(Name), Within(q, x),
         q # << >>, p # << >>
  PROVE  Source(p, q, x) \in Seq(Name) /\ Within(p, Source(p, q, x))
  <1>1. PICK y : y = Source(p, q, x)
    OBVIOUS
  <1>2. Spliced(y, p, q, x)
    BY <1>1, SourceIsSpliced
  <1>3. y \in Seq(Name) /\ Len(p) <= Len(y) /\ \A i \in 1..Len(p) : y[i] = p[i]
    BY <1>2 DEF Spliced
  <1>4. Within(p, y)
    BY <1>3, WithinElements
  <1> QED BY <1>1, <1>3, <1>4

LEMMA SourceKeepsOrder ==
  ASSUME NEW p \in Seq(Name), NEW q \in Seq(Name), q # << >>, p # << >>,
         NEW a \in Seq(Name), NEW x \in Seq(Name), Within(q, a), Within(a, x), a # x
  PROVE  Within(Source(p, q, a), Source(p, q, x)) /\ Source(p, q, a) # Source(p, q, x)
  <1>1. Within(q, x)
    BY WithinTransitive
  <1>2. PICK b, y : b = Source(p, q, a) /\ y = Source(p, q, x)
    OBVIOUS
  <1>3. Spliced(b, p, q, a) /\ Spliced(y, p, q, x)
    BY <1>1, <1>2, SourceIsSpliced
  <1>4. a # << >> /\ Len(a) < Len(x) /\ \A i \in 1..Len(a) : a[i] = x[i]
    BY WithinLonger, WithinElements
  <1>5. b \in Seq(Name) /\ y \in Seq(Name) /\ b # << >> /\ Len(b) < Len(y)
        /\ Len(b) \in Nat /\ Len(y) \in Nat
    BY <1>3, <1>4 DEF Spliced
  <1>6. ASSUME NEW i \in 1..Len(b)
        PROVE  b[i] = y[i]
    <2>1. CASE i <= Len(p)
      BY <1>3, <2>1 DEF Spliced
    <2>2. CASE ~(i <= Len(p))
      <3> DEFINE j == i - Len(p)
      <3>1. /\ i = Len(p) + j /\ j \in 1..(Len(a) - Len(q)) /\ j \in 1..(Len(x) - Len(q))
            /\ Len(q) + j \in 1..Len(a)
        BY <1>3, <1>4, <2>2 DEF Spliced
      <3> HIDE DEF j
      <3>2. b[Len(p) + j] = a[Len(q) + j] /\ y[Len(p) + j] = x[Len(q) + j]
        BY <1>3, <3>1 DEF Spliced
      <3> QED BY <1>4, <3>1, <3>2
    <2> QED BY <2>1, <2>2
  <1>7. Within(b, y)
    BY <1>5, <1>6, WithinElements
  <1>8. b # y
    BY <1>5
  <1> QED BY <1>2, <1>7, <1>8

LEMMA SourceIsInjective ==
  ASSUME NEW p \in Seq(Name), NEW q \in Seq(Name), q # << >>, p # << >>,
         NEW x \in Seq(Name), NEW y \in Seq(Name), Within(q, x), Within(q, y),
         Source(p, q, x) = Source(p, q, y)
  PROVE  x = y
  <1>1. PICK z : z = Source(p, q, x)
    OBVIOUS
  <1>2. Spliced(z, p, q, x) /\ Spliced(z, p, q, y)
    BY <1>1, SourceIsSpliced
  <1>3. Len(x) = Len(y) /\ Len(x) \in Nat /\ Len(q) \in Nat
    BY <1>2 DEF Spliced
  <1>4. ASSUME NEW i \in 1..Len(x)
        PROVE  x[i] = y[i]
    <2>1. CASE i <= Len(q)
      <3>1. i \in 1..Len(q)
        BY <1>3, <2>1
      <3> QED BY <1>2, <3>1 DEF Spliced
    <2>2. CASE ~(i <= Len(q))
      <3> DEFINE j == i - Len(q)
      <3>1. j \in 1..(Len(x) - Len(q)) /\ j \in 1..(Len(y) - Len(q)) /\ Len(q) + j = i
        BY <1>3, <2>2
      <3> HIDE DEF j
      <3>2. z[Len(p) + j] = x[Len(q) + j] /\ z[Len(p) + j] = y[Len(q) + j]
        BY <1>2, <3>1 DEF Spliced
      <3> QED BY <3>1, <3>2
    <2> QED BY <2>1, <2>2
  <1> QED BY <1>3, <1>4, SeqEqual

LEMMA RenameDirTree ==
  ASSUME TypeOK, IsTree, NEW p \in Path, NEW q \in Path, RenameDir(p, q)
  PROVE  IsTree'
  <1>1. /\ p \in Seq(Name) /\ q \in Seq(Name) /\ p # << >> /\ q # << >>
        /\ Path \subseteq Seq(Name)
    BY Paths1
  <1>2. /\ ~Within(p, q) /\ ~Within(q, p) /\ HasParent(q) /\ IsDir(p)
        /\ \A x \in Path : fs'[x] = IF Within(q, x) THEN At(Source(p, q, x))
                                    ELSE IF Within(p, x) THEN Absent ELSE fs[x]
    BY DEF RenameDir, Moved, Source
  <1>3. \A x : At(x) # Absent => x \in Path /\ At(x) = fs[x]
    BY DEF At
  <1>4. ASSUME NEW a \in Path, NEW x \in Path, fs'[x] # Absent, Within(a, x), a # x
        PROVE  fs'[a] \in Inode
    <2>1. CASE Within(q, x)
      <3>1. Source(p, q, x) \in Path /\ fs[Source(p, q, x)] # Absent
        BY <1>2, <1>3, <1>4, <2>1
      <3>2. CASE Within(q, a)
        <4>1. Within(Source(p, q, a), Source(p, q, x)) /\ Source(p, q, a) # Source(p, q, x)
          BY <1>1, <1>4, <3>2, SourceKeepsOrder
        <4>2. Source(p, q, a) \in Seq(Name)
          BY <1>1, <3>2, SourceIsInside
        <4>3. Source(p, q, a) \in Path
          BY <3>1, <4>1, <4>2, PathInside
        <4>4. IsDir(Source(p, q, a))
          BY <3>1, <4>1, <4>3 DEF IsTree
        <4> QED BY <1>2, <3>2, <4>4 DEF IsDir
      <3>3. CASE ~Within(q, a)
        <4>1. Within(a, q) /\ a # q
          BY <1>1, <1>4, <2>1, <3>3, WithinComparable, WithinReflexive
        <4>2. ~Within(p, a)
          BY <1>1, <1>2, <4>1, WithinTransitive
        <4>3. Len(q) > 1 /\ Within(a, Parent(q))
          BY <1>1, <4>1, WithinParent
        <4>4. IsDir(Parent(q))
          <5>1. PICK n \in Nat : n = Len(q)
            BY <1>1
          <5>2. n # 1
            BY <4>3, <5>1
          <5>3. Len(q) # 1
            BY <5>1, <5>2
          <5> QED BY <1>2, <5>3 DEF HasParent
        <4>5. Parent(q) \in Path /\ fs[Parent(q)] # Absent
          BY <4>4, DirIsPath
        <4>6. IsDir(a)
          BY <4>3, <4>4, <4>5 DEF IsTree
        <4> QED BY <1>2, <3>3, <4>2, <4>6, DirIsPath
      <3> QED BY <3>2, <3>3
    <2>2. CASE ~Within(q, x)
      <3>1. ~Within(p, x) /\ fs[x] # Absent
        BY <1>2, <1>4, <2>2
      <3>2. ~Within(q, a) /\ ~Within(p, a)
        BY <1>1, <1>4, <2>2, <3>1, WithinTransitive
      <3>3. IsDir(a)
        BY <1>4, <3>1 DEF IsTree
      <3> QED BY <1>2, <3>2, <3>3, DirIsPath
    <2> QED BY <2>1, <2>2
  <1>5. ASSUME NEW x \in Path, NEW y \in Path, fs'[x] \in Inode, fs'[x] = fs'[y]
        PROVE  x = y
    <2>0. \A v \in Inode : v # Absent
      BY SentinelAssumption
    <2>1. ASSUME NEW z \in Path, fs'[z] \in Inode, ~Within(q, z)
          PROVE  fs[z] = fs'[z] /\ ~Within(p, z)
      BY <1>2, <2>0, <2>1
    <2>2. ASSUME NEW z \in Path, fs'[z] \in Inode, Within(q, z)
          PROVE  /\ Source(p, q, z) \in Path /\ fs[Source(p, q, z)] = fs'[z]
                 /\ Within(p, Source(p, q, z))
      <3>1. Within(p, Source(p, q, z))
        BY <1>1, <2>2, SourceIsInside
      <3> QED BY <1>2, <1>3, <2>0, <2>2, <3>1
    <2>3. \A v, w \in Path : fs[v] \in Inode /\ fs[v] = fs[w] => v = w
      BY DEF IsTree
    <2>4. CASE Within(q, x) /\ Within(q, y)
      <3>1. Source(p, q, x) = Source(p, q, y)
        BY <1>5, <2>2, <2>3, <2>4
      <3> QED BY <1>1, <2>4, <3>1, SourceIsInjective
    <2>5. CASE ~Within(q, x) /\ ~Within(q, y)
      BY <1>5, <2>1, <2>3, <2>5
    <2>6. CASE Within(q, x) /\ ~Within(q, y)
      BY <1>5, <2>1, <2>2, <2>3, <2>6
    <2>7. CASE ~Within(q, x) /\ Within(q, y)
      BY <1>5, <2>1, <2>2, <2>3, <2>7
    <2> QED BY <2>4, <2>5, <2>6, <2>7
  <1> QED BY <1>4, <1>5, DirBefore DEF IsTree

LEMMA PutLeafStep ==
  ASSUME Ready, WatcherStays, NEW p \in Path, NEW v \in Leaf, PutLeaf(p, v)
  PROVE  WorldInv'
  <1>1. /\ HasRoomNow /\ fs' = [fs EXCEPT ![p] = v] /\ fs[p] \notin Inode
        /\ queue' = Notify(queue, p, "change") /\ HasParent(p)
    BY RoomNow, DirBefore DEF PutLeaf
  <1>2. \A x \in Path : fs'[x] = IF x = p THEN v ELSE fs[x]
    BY <1>1 DEF Ready, TypeOK
  <1>3. v \notin Inode /\ v # Absent
    BY SentinelAssumption
  <1>4. IsTree'
    BY PutLeafTree DEF Ready, WorldInv
  <1> QED BY <1>1, <1>2, <1>3, <1>4, NoticeStep

LEMMA RemoveLeafStep ==
  ASSUME Ready, WatcherStays, NEW p \in Path, RemoveLeaf(p)
  PROVE  WorldInv'
  <1>1. /\ HasRoomNow /\ fs' = [fs EXCEPT ![p] = Absent] /\ fs[p] \notin Inode
        /\ queue' = Notify(queue, p, "change")
    BY RoomNow, SentinelAssumption DEF RemoveLeaf
  <1>2. \A x \in Path : fs'[x] = IF x = p THEN Absent ELSE fs[x]
    BY <1>1 DEF Ready, TypeOK
  <1>3. IsTree'
    BY RemoveLeafTree DEF Ready, WorldInv
  <1> QED BY <1>1, <1>2, <1>3, NoticeStep, SentinelAssumption

LEMMA MakeDirStep ==
  ASSUME Ready, WatcherStays, NEW p \in Path, MakeDir(p)
  PROVE  WorldInv'
  <1>1. /\ HasRoomNow /\ fs[p] = Absent
        /\ queue' = Notify(queue, p, "mkdir") /\ HasParent(p)
    BY RoomNow DEF MakeDir
  <1>2. PICK i \in Fresh : fs' = [fs EXCEPT ![p] = i]
    BY DEF MakeDir
  <1>3. /\ i \in Inode /\ \A x \in Path : fs[x] # i
        /\ wdToPath[i] = NoPath
        /\ \A n \in 1..Len(queue) : queue[n] # Overflow => queue[n].wd # i
    BY DEF Fresh, Ready, Quiet
  <1>4. \A x \in Path : fs'[x] = IF x = p THEN i ELSE fs[x]
    BY <1>2 DEF Ready, TypeOK
  <1>5. IsTree'
    BY MakeDirTree DEF Ready, WorldInv
  <1>6. NewDirsFresh
    <2>1. \A n \in 1..Len(queue) : queue[n] # Overflow
      BY DEF Ready, WorldInv, KnownEvents, Event, Overflow
    <2> QED BY <1>3, <1>4, <2>1 DEF NewDirsFresh
  <1>7. NewDirsAnnounced
    <2> SUFFICES ASSUME NEW r \in roots, Within(r, p)
                 PROVE  WillBeWatched(p)'
      BY <1>4 DEF NewDirsAnnounced
    <2> DEFINE d == Parent(p)
    <2>1. r \in Path /\ r # p /\ r \in Seq(Name) /\ p \in Seq(Name)
      BY <1>1, DirIsPath, Paths1 DEF Ready, RootsAreDirs, Quiet
    <2>2. Len(p) > 1 /\ IsDir(d)
      BY <1>1, <2>1, DirsAbove DEF Ready, WorldInv
    <2>3. Within(r, d)
      BY <2>1, WithinParent
    <2>4. d \in Path /\ d # p /\ Within(d, p) /\ Append(d, p[Len(p)]) = p
      BY <2>2, ParentIsPath
    <2> HIDE DEF d
    <2>5. WatchedAs(d) \/ WillBeWatched(d)
      BY <2>2, <2>3, <2>4 DEF Ready, WorldInv, EveryDirWatched
    <2>6. CASE WatchedAs(d)
      <3>1. Watched(d)
        BY <2>2, <2>4, <2>6, Paths1 DEF Watched, WatchedAs
      <3>2. PICK n \in 1..Len(queue') : queue'[n] = Notice(p, "mkdir")
        BY <1>1, <2>2, <3>1, NoticeKnown DEF d
      <3>3. queue'[n].kind = "mkdir" /\ queue'[n].wd = fs[d] /\ queue'[n].name = p[Len(p)]
        BY <3>2 DEF Notice, d
      <3>4. EventPath(queue[n])' = p
        BY <2>4, <2>6, <3>3 DEF EventPath, WatchedAs, WatcherStays
      <3>5. Within(p, p)
        BY <2>1, WithinReflexive
      <3> QED BY <3>3, <3>4, <3>5 DEF WillBeWatched
    <2>7. CASE WillBeWatched(d)
      <3>1. CASE \E n \in 1..Len(queue) :
                    queue[n].kind = "mkdir" /\ Within(EventPath(queue[n]), d)
        <4>1. PICK n \in 1..Len(queue) :
                      queue[n].kind = "mkdir" /\ Within(EventPath(queue[n]), d)
          BY <3>1
        <4>2. EventPath(queue[n]) \in Seq(Name)
          BY <4>1, Paths1 DEF Ready, WorldInv, KnownEvents, EventPath, Event
        <4>3. Within(EventPath(queue[n]), p)
          BY <2>1, <2>4, <4>1, <4>2, WithinTransitive, Paths1
        <4>4. /\ n \in 1..Len(queue') /\ queue'[n] = queue[n]
              /\ EventPath(queue[n])' = EventPath(queue[n])
          <5>1. OnlyAppends
            BY <1>1, NoticeKnown
          <5>2. Len(queue) \in Nat /\ Len(queue') \in Nat
            BY <5>1 DEF Ready, TypeOK, OnlyAppends
          <5> QED BY <5>1, <5>2 DEF OnlyAppends, EventPath, WatcherStays
        <4> QED BY <4>1, <4>3, <4>4 DEF WillBeWatched
      <3>2. CASE \E a \in adding : Within(a, d)
        <4>1. PICK a \in adding : Within(a, d)
          BY <3>2
        <4>2. a \in Seq(Name)
          BY DEF Ready, TypeOK
        <4>3. Within(a, p)
          BY <2>1, <2>4, <4>1, <4>2, WithinTransitive, Paths1
        <4> QED BY <4>3 DEF WillBeWatched, WatcherStays
      <3>3. CASE \E a \in listing : a # d /\ Within(a, d)
        <4>1. PICK a \in listing : a # d /\ Within(a, d)
          BY <3>3
        <4>2. a \in Seq(Name)
          BY Paths1 DEF Ready, TypeOK
        <4>3. Within(a, p) /\ a # p
          BY <2>1, <2>4, <4>1, <4>2, WithinTransitive, WithinAntisymmetric, Paths1
        <4> QED BY <4>3 DEF WillBeWatched, WatcherStays
      <3> QED BY <2>7, <3>1, <3>2, <3>3 DEF WillBeWatched
    <2> QED BY <2>5, <2>6, <2>7
  <1>8. OnlyAppends /\ NewEventsKnown
    BY <1>1, NoticeKnown
  <1> QED BY <1>5, <1>6, <1>7, <1>8, WorldStep DEF Ready, WatcherStays

LEMMA RemoveDirStep ==
  ASSUME Ready, WatcherStays, NEW p \in Path, RemoveDir(p)
  PROVE  WorldInv'
  <1> DEFINE q == Notify(queue, p, "change")
             e == [wd |-> fs[p], name |-> NoName, kind |-> "ignored"]
  <1>1. /\ HasRoomNow /\ fs[p] \in Inode /\ Children(p) = {}
        /\ fs' = [fs EXCEPT ![p] = Absent]
        /\ queue' = IF Watched(p) THEN Post(q, e) ELSE q
    BY RoomNow, DirIsPath DEF RemoveDir
  <1>2. \A x \in Path : fs'[x] = IF x = p THEN Absent ELSE fs[x]
    BY <1>1 DEF Ready, TypeOK
  <1>3. IsTree'
    BY RemoveDirTree DEF Ready, WorldInv
  <1>4. \A x \in Path : fs'[x] \in Inode => fs'[x] = fs[x]
    BY <1>2, SentinelAssumption
  <1>5. CASE ~Watched(p)
    BY <1>1, <1>3, <1>4, <1>5, NoticeStep
  <1>6. CASE Watched(p)
    <2>1. /\ q \in Seq(Event)
          /\ Len(q) \in {Len(queue), Len(queue) + 1}
          /\ \A n \in 1..Len(queue) : q[n] = queue[n]
          /\ Len(q) = Len(queue) + 1 =>
               /\ Len(p) > 1 /\ Watched(Parent(p))
               /\ q[Len(q)] = Notice(p, "change")
      BY <1>1, NotifyFacts DEF Ready, WorldInv, Quiet
    <2> HIDE DEF q
    <2>2. /\ Len(queue) \in Nat /\ Len(q) \in Nat /\ Len(q) < MaxQueue
      BY <1>1, <2>1, BoundAssumption DEF Ready, TypeOK, HasRoomNow
    <2>3. e \in Event
      BY <1>1 DEF Event
    <2>4. /\ queue' \in Seq(Event)
          /\ Len(queue') \in {Len(q), Len(q) + 1}
          /\ \A n \in 1..Len(q) : queue'[n] = q[n]
          /\ Len(queue') = Len(q) + 1 => queue'[Len(q) + 1] = e
      BY <1>1, <1>6, <2>1, <2>2, <2>3, PostFacts DEF Ready, Quiet
    <2>5. OnlyAppends
      BY <2>1, <2>2, <2>4 DEF OnlyAppends
    <2>6. NewEventsKnown
      <3> SUFFICES ASSUME NEW n \in 1..Len(queue'), n > Len(queue)
                   PROVE  /\ wdToPath[queue'[n].wd] \in Path
                          /\ ~Gone(queue'[n].wd)
                          /\ queue'[n].kind = "ignored" =>
                               /\ n = Len(queue')
                               /\ \A x \in Path : fs'[x] # queue'[n].wd
        BY DEF NewEventsKnown
      <3>1. CASE n = Len(queue) + 1 /\ Len(q) = Len(queue) + 1
        <4>1. queue'[n] = Notice(p, "change")
          BY <2>1, <2>2, <2>4, <3>1
        <4>2. queue'[n].wd = fs[Parent(p)] /\ queue'[n].kind # "ignored"
          BY <4>1 DEF Notice
        <4>3. Parent(p) \in Path /\ fs[Parent(p)] \in Inode /\ wdToPath[fs[Parent(p)]] # NoPath
          BY <2>1, <3>1, DirIsPath DEF Watched
        <4> QED BY <4>2, <4>3 DEF Ready, TypeOK, Gone
      <3>2. CASE ~(n = Len(queue) + 1 /\ Len(q) = Len(queue) + 1)
        <4>1. n = Len(q) + 1 /\ Len(queue') = n
          BY <2>1, <2>2, <2>4, <3>2
        <4>2. queue'[n].wd = fs[p]
          BY <2>4, <4>1
        <4>3. wdToPath[fs[p]] \in Path
          BY <1>1, <1>6 DEF Watched, Ready, TypeOK
        <4>4. \A x \in Path : fs'[x] # fs[p]
          BY <1>1, <1>2, SentinelAssumption DEF Ready, WorldInv, IsTree
        <4> QED BY <4>1, <4>2, <4>3, <4>4 DEF Gone
      <3> QED BY <3>1, <3>2
    <2>7. NewDirsFresh /\ NewDirsAnnounced
      BY <1>4 DEF NewDirsFresh, NewDirsAnnounced
    <2> QED BY <1>3, <2>5, <2>6, <2>7, WorldStep DEF Ready, WatcherStays
  <1> QED BY <1>5, <1>6

(* A directory that is made is no root, for the roots are there.           *)
LEMMA EnsureDirStep ==
  ASSUME Ready, WatcherStays, NEW p, EnsureDir(p)
  PROVE  WorldInv' /\ RootsAreDirs'
  <1>1. PICK a \in Path : MakeDir(a)
    BY DEF EnsureDir
  <1>2. WorldInv'
    BY <1>1, MakeDirStep
  <1>3. RootsAreDirs'
    BY <1>1, DirIsPath, DirBefore DEF MakeDir, RootsAreDirs, Ready, TypeOK
  <1> QED BY <1>2, <1>3

(* Roots stay directories under everything but the removal of one.         *)
LEMMA RootsStayDirs ==
  ASSUME TypeOK, RootsAreDirs, NEW p \in Path, NEW v,
         fs' = [fs EXCEPT ![p] = v], IsDir(p) => p \notin InitRoots
  PROVE  RootsAreDirs'
  <1>1. \A r \in InitRoots : r \in Path /\ r # p /\ fs[r] \in Inode
    BY DirIsPath DEF RootsAreDirs
  <1>2. \A r \in InitRoots : fs'[r] = fs[r]
    BY <1>1 DEF TypeOK
  <1> QED BY <1>1, <1>2, DirBefore DEF RootsAreDirs

LEMMA RootsStay ==
  ASSUME Ready, NEW p \in Path, NEW v,
         fs' = [fs EXCEPT ![p] = v], IsDir(p) => p \notin InitRoots
  PROVE  RootsAreDirs'
  BY RootsStayDirs DEF Ready

(***************************************************************************)
(* The steps of programs.                                                  *)
(***************************************************************************)
LEMMA ProgramWatch ==
  ASSUME Sound, WatchInv, Program
  PROVE  WatchInv'
  <1>1. Ready
    BY DEF Ready, WatchInv, TypeInv, Sound
  <1>2. ProgramStep
    BY DEF Program, Write, Mkdir, Unlink, Rmdir, RenameDir
  <1>3. WatcherStays
    BY <1>2 DEF WatcherStays, ProgramStep, watcherVars, backendVars
  <1>4. WorldInv' /\ RootsAreDirs'
    <2>1. ASSUME NEW p \in Path, NEW v \in Leaf, Write(p, v)
          PROVE  WorldInv' /\ RootsAreDirs'
      BY <1>1, <1>3, <2>1, PutLeafStep, RootsStay DEF Write, PutLeaf
    <2>2. ASSUME NEW p \in Path, Mkdir(p)
          PROVE  WorldInv' /\ RootsAreDirs'
      BY <1>1, <1>3, <2>2, MakeDirStep, RootsStay, DirIsPath DEF Mkdir, MakeDir
    <2>3. ASSUME NEW p \in Path, Unlink(p)
          PROVE  WorldInv' /\ RootsAreDirs'
      BY <1>1, <1>3, <2>3, RemoveLeafStep, RootsStay, DirIsPath DEF Unlink, RemoveLeaf
    <2>4. ASSUME NEW p \in Path, Rmdir(p)
          PROVE  WorldInv' /\ RootsAreDirs'
      <3>1. p \notin InitRoots
        BY <2>4 DEF Rmdir, MayVanish, Sound, WatchInv, Quiet
      <3> QED BY <1>1, <1>3, <2>4, <3>1, RemoveDirStep, RootsStay DEF Rmdir, RemoveDir
    <2>5. ASSUME NEW p \in Path, NEW q \in Path, RenameDir(p, q)
          PROVE  FALSE
      BY <2>5 DEF RenameDir, Sound
    <2> QED BY <2>1, <2>2, <2>3, <2>4, <2>5 DEF Program
  <1>5. TypeInv'
    BY ProgramType DEF WatchInv
  <1>6. Quiet' /\ RemovesInsideRoot'
    BY <1>2 DEF WatchInv, Quiet, RemovesInsideRoot, ProgramStep, watcherVars, backendVars
  <1> QED BY <1>4, <1>5, <1>6 DEF WatchInv

(***************************************************************************)
(* Steps that leave the world and the watcher's maps and walk as they were.*)
(***************************************************************************)
LEMMA WorldStays ==
  ASSUME WorldInv, RootsAreDirs, WatcherStays, UNCHANGED worldVars
  PROVE  WorldInv' /\ RootsAreDirs'
  BY DEF WorldInv, RootsAreDirs, WatcherStays, worldVars, IsTree, RightName, KnownEvents,
         IgnoredIsLast, Gone, EveryDirWatched, IsDir, At, WatchedAs, WillBeWatched,
         EventPath

LEMMA CreateWatch ==
  ASSUME Sound, WatchInv, Create \/ \E s \in Snapshot : Delete(s)
  PROVE  WatchInv'
  <1>1. TypeInv'
    BY CreateType DEF WatchInv
  <1>2. UNCHANGED <<worldVars, wdToPath, adding, listing, roots, reader>>
    BY DEF Create, BeginSync, ReconcilePath, Visit, EndScan, ScanFails, SaveManifest,
           Delete, watcherVars
  <1>3. pc' \in {"idle", "reconcile", "scan", "fullScan"}
        \/ (pc' = pc /\ UNCHANGED <<todo, restoring>>)
    BY DEF Create, BeginSync, ReconcilePath, Visit, EndScan, ScanFails, SaveManifest,
           Delete, Synced
  <1>4. WorldInv' /\ RootsAreDirs'
    BY <1>2, WorldStays DEF WatchInv, WatcherStays
  <1>5. Quiet' /\ RemovesInsideRoot'
    BY <1>2, <1>3 DEF WatchInv, Quiet, RemovesInsideRoot
  <1> QED BY <1>1, <1>4, <1>5 DEF WatchInv

(***************************************************************************)
(* A restore changes the disk as programs do.  It removes no root: what it *)
(* removes is strictly inside one root, and roots are not nested.          *)
(***************************************************************************)
LEMMA RemovedIsNoRoot ==
  ASSUME RemovesInsideRoot, restoring \in InitRoots, pc = "remove",
         NEW q \in todo, NEW p \in Path, Within(q, p)
  PROVE  p \notin InitRoots
  <1> SUFFICES ASSUME p \in InitRoots PROVE FALSE
    OBVIOUS
  <1>1. q \in Path /\ q # restoring /\ Within(restoring, q)
    BY DEF RemovesInsideRoot
  <1>2. q \in Seq(Name) /\ p \in Seq(Name) /\ restoring \in Seq(Name)
    BY <1>1, Paths1
  <1>3. Within(restoring, p)
    BY <1>1, <1>2, WithinTransitive
  <1>4. restoring = p
    BY <1>3, RootAssumption, CompactIsAntichain
  <1>5. q = p
    BY <1>1, <1>2, <1>4, WithinAntisymmetric
  <1> QED BY <1>1, <1>4, <1>5

LEMMA RestoreWatch ==
  ASSUME Sound, WatchInv, Restore
  PROVE  WatchInv'
  <1>1. Ready
    BY DEF Ready, WatchInv, TypeInv, Sound
  <1>2. TypeInv'
    BY RestoreType DEF WatchInv
  <1>3. UNCHANGED <<wdToPath, adding, listing, roots, reader>>
    BY DEF Restore, BeginRestore, MakeRoot, BeginRestoreRoot, RemoveAll, RestoreDir,
           RestoreLeaf, NextPhase, RestoreFails, AdoptTarget, RestoreUnchanged,
           watcherVars
  <1>4. pc' # "extend"
    BY DEF Restore, BeginRestore, MakeRoot, BeginRestoreRoot, RemoveAll, RestoreDir,
           RestoreLeaf, NextPhase, RestoreFails, AdoptTarget
  <1>5. Quiet'
    BY <1>3, <1>4 DEF WatchInv, Quiet
  <1>6. WatcherStays
    BY <1>3 DEF WatcherStays
  <1>7. RemovesInsideRoot'
    <2>1. ASSUME NEW r \in work, BeginRestoreRoot(r)
          PROVE  RemovesInsideRoot'
      BY <2>1 DEF BeginRestoreRoot, RemovesInsideRoot
    <2>2. ASSUME NEW p \in Path, RemoveAll(p)
          PROVE  RemovesInsideRoot'
      BY <2>2 DEF RemoveAll, RemovesInsideRoot, WatchInv
    <2>3. ASSUME pc' # "remove"
          PROVE  RemovesInsideRoot'
      BY <2>3 DEF RemovesInsideRoot
    <2>4. CASE NextPhase
      BY <2>4, <2>3 DEF NextPhase
    <2> QED BY <2>1, <2>2, <2>3, <2>4
            DEF Restore, BeginRestore, MakeRoot, RestoreDir, RestoreLeaf, RestoreFails,
                AdoptTarget
  <1>8. WorldInv' /\ RootsAreDirs'
    <2>1. ASSUME UNCHANGED worldVars
          PROVE  WorldInv' /\ RootsAreDirs'
      BY <2>1, <1>6, WorldStays DEF WatchInv
    <2>2. ASSUME NEW r \in work, MakeRoot(r)
          PROVE  WorldInv' /\ RootsAreDirs'
      BY <1>1, <1>6, <2>2, EnsureDirStep DEF MakeRoot
    <2>3. ASSUME NEW p \in Path, RemoveAll(p)
          PROVE  WorldInv' /\ RootsAreDirs'
      <3>1. p \notin InitRoots
        <4>1. pc = "remove" /\ RemovesInsideRoot /\ restoring \in InitRoots
          BY <2>3 DEF RemoveAll, WatchInv, Sound, TypeInv, HasRoot, AllRoots
        <4> QED BY <2>3, <4>1, RemovedIsNoRoot DEF RemoveAll
      <3>2. CASE RemoveLeaf(p)
        BY <1>1, <1>6, <3>1, <3>2, RemoveLeafStep, RootsStay DEF RemoveLeaf
      <3>3. CASE RemoveDir(p)
        BY <1>1, <1>6, <3>1, <3>3, RemoveDirStep, RootsStay DEF RemoveDir
      <3>4. CASE UNCHANGED <<fs, queue>>
        BY <2>1, <3>4 DEF worldVars
      <3> QED BY <2>3, <3>2, <3>3, <3>4 DEF RemoveAll
    <2>4. ASSUME NEW p \in todo, RestoreDir(p)
          PROVE  WorldInv' /\ RootsAreDirs'
      BY <1>1, <1>6, <2>1, <2>4, EnsureDirStep DEF RestoreDir, worldVars
    <2>5. ASSUME NEW p \in todo, RestoreLeaf(p)
          PROVE  WorldInv' /\ RootsAreDirs'
      <3>1. p \in Path /\ Wanted(p) \in Leaf
        BY <2>5 DEF RestoreLeaf, WatchInv, TypeInv, LeavesToWrite
      <3>2. CASE PutLeaf(p, Wanted(p))
        BY <1>1, <1>6, <3>1, <3>2, PutLeafStep, RootsStay DEF PutLeaf
      <3>3. CASE EnsureDir(Parent(p))
        BY <1>1, <1>6, <3>3, EnsureDirStep
      <3> QED BY <2>5, <3>2, <3>3 DEF RestoreLeaf
    <2> QED BY <2>1, <2>2, <2>3, <2>4, <2>5
            DEF Restore, BeginRestore, BeginRestoreRoot, NextPhase, RestoreFails,
                AdoptTarget, worldVars
  <1> QED BY <1>2, <1>5, <1>7, <1>8 DEF WatchInv

(***************************************************************************)
(* The reader goroutine.  Handling an event starts the walk the event      *)
(* stood for, or forgets a directory that is gone; adding a watch hands    *)
(* the directory's entries to the listing, and the listing hands every     *)
(* directory on the way to the ones below it back to the walk.             *)
(***************************************************************************)
LEMMA HandleEventFacts ==
  ASSUME WatchInv, HandleEvent
  PROVE  LET e == queue[1]
         IN  /\ e \in Event /\ wdToPath[e.wd] \in Path
             /\ Len(queue) \in Nat \ {0} /\ Len(queue') = Len(queue) - 1
             /\ \A n \in 1..Len(queue') :
                   queue'[n] = queue[n + 1] /\ n + 1 \in 1..Len(queue)
             /\ UNCHANGED <<fs, roots, forceFull>>
             /\ adding = {} /\ listing = {} /\ listing' = {}
             /\ dirty' = dirty \cup {EventPath(e)}
             /\ adding' = IF e.kind = "mkdir" THEN {EventPath(e)} ELSE {}
             /\ wdToPath' = IF e.kind = "ignored" THEN [wdToPath EXCEPT ![e.wd] = NoPath]
                                                  ELSE wdToPath
             /\ \A n \in 1..Len(queue') :
                   wdToPath'[queue'[n].wd] = wdToPath[queue'[n].wd]
             /\ \A p \in Path : fs[p] \in Inode => wdToPath'[fs[p]] = wdToPath[fs[p]]
  <1> DEFINE e == queue[1]
  <1>1. /\ queue # << >> /\ queue' = Tail(queue)
        /\ UNCHANGED <<fs, roots>>
        /\ adding = {} /\ listing = {} /\ listing' = {}
    BY DEF HandleEvent, Walking, backendVars
  <1>2. /\ Len(queue) \in Nat \ {0} /\ Len(queue') = Len(queue) - 1
        /\ \A n \in 1..Len(queue') : queue'[n] = queue[n + 1] /\ n + 1 \in 1..Len(queue)
    BY <1>1 DEF WatchInv, TypeInv, TypeOK
  <1>3. e \in Event /\ e # Overflow /\ wdToPath[e.wd] \in Path /\ e.wd \in Inode
    BY <1>2 DEF WatchInv, WorldInv, KnownEvents, Event, Overflow
  <1> HIDE DEF e
  <1>4. /\ UNCHANGED forceFull /\ dirty' = dirty \cup {EventPath(e)}
        /\ adding' = IF e.kind = "mkdir" THEN {EventPath(e)} ELSE {}
        /\ wdToPath' = IF e.kind = "ignored" THEN [wdToPath EXCEPT ![e.wd] = NoPath]
                                             ELSE wdToPath
    BY <1>3, Paths1 DEF HandleEvent, e
  <1>5. \A n \in 1..Len(queue') : wdToPath'[queue'[n].wd] = wdToPath[queue'[n].wd]
    <2> SUFFICES ASSUME NEW n \in 1..Len(queue'), e.kind = "ignored"
                 PROVE  wdToPath'[queue'[n].wd] = wdToPath[queue'[n].wd]
      BY <1>4
    <2>1. queue'[n] = queue[n + 1] /\ n + 1 \in 1..Len(queue) /\ 1 < n + 1
      BY <1>2
    <2>2. queue[n + 1].wd # e.wd
      BY <1>2, <2>1 DEF WatchInv, WorldInv, IgnoredIsLast, e
    <2>3. queue[n + 1].wd \in Inode
      BY <2>1 DEF WatchInv, WorldInv, KnownEvents, Event
    <2> QED BY <1>4, <2>1, <2>2, <2>3 DEF WatchInv, TypeInv, TypeOK
  <1>6. \A p \in Path : fs[p] \in Inode => wdToPath'[fs[p]] = wdToPath[fs[p]]
    <2>1. e.kind = "ignored" => \A p \in Path : fs[p] # e.wd
      BY <1>2 DEF WatchInv, WorldInv, IgnoredIsLast, Gone, e
    <2> QED BY <1>4, <2>1 DEF WatchInv, TypeInv, TypeOK
  <1> QED BY <1>1, <1>2, <1>3, <1>4, <1>5, <1>6 DEF e

LEMMA HandleEventWatch ==
  ASSUME WatchInv, HandleEvent
  PROVE  WorldInv'
  <1> DEFINE e == queue[1]
  <1>1. UNCHANGED <<fs, roots>> /\ adding = {} /\ listing = {}
    BY HandleEventFacts
  <1>2. /\ Len(queue) \in Nat \ {0} /\ Len(queue') = Len(queue) - 1
        /\ \A n \in 1..Len(queue') : queue'[n] = queue[n + 1] /\ n + 1 \in 1..Len(queue)
    BY HandleEventFacts
  <1>3. adding' = IF e.kind = "mkdir" THEN {EventPath(e)} ELSE {}
    BY HandleEventFacts
  <1>4. \A n \in 1..Len(queue') : wdToPath'[queue'[n].wd] = wdToPath[queue'[n].wd]
    BY HandleEventFacts
  <1>5. \A p \in Path : fs[p] \in Inode => wdToPath'[fs[p]] = wdToPath[fs[p]]
    BY HandleEventFacts
  <1> HIDE DEF e
  <1>6. IsTree' /\ RightName'
    BY <1>1, <1>5, DirBefore DEF WatchInv, WorldInv, IsTree, RightName
  <1>7. KnownEvents'
    BY <1>2, <1>4 DEF WatchInv, WorldInv, KnownEvents
  <1>8. IgnoredIsLast'
    <2> SUFFICES ASSUME NEW n \in 1..Len(queue'), queue'[n].kind = "ignored"
                 PROVE  /\ \A p \in Path : fs[p] # queue'[n].wd
                        /\ \A m \in 1..Len(queue') : n < m => queue'[m].wd # queue'[n].wd
      BY <1>1 DEF IgnoredIsLast, Gone
    <2>1. /\ \A p \in Path : fs[p] # queue[n + 1].wd
          /\ \A m \in 1..Len(queue) : n + 1 < m => queue[m].wd # queue[n + 1].wd
      BY <1>2 DEF WatchInv, WorldInv, IgnoredIsLast, Gone
    <2>2. queue'[n] = queue[n + 1] /\ n \in Nat
      BY <1>2
    <2>3. ASSUME NEW m \in 1..Len(queue'), n < m
          PROVE  queue'[m].wd # queue'[n].wd
      <3>1. queue'[m] = queue[m + 1] /\ m + 1 \in 1..Len(queue) /\ n + 1 < m + 1
        BY <1>2, <2>2, <2>3
      <3> QED BY <2>1, <2>2, <3>1
    <2> QED BY <2>1, <2>2, <2>3
  <1>9. EveryDirWatched'
    <2> SUFFICES ASSUME NEW p \in Path, fs[p] \in Inode, \E r \in roots : Within(r, p)
                 PROVE  WatchedAs(p)' \/ WillBeWatched(p)'
      BY <1>1, DirBefore DEF EveryDirWatched
    <2>1. WatchedAs(p) \/ WillBeWatched(p)
      BY DirBefore DEF WatchInv, WorldInv, EveryDirWatched
    <2>2. CASE WatchedAs(p)
      BY <1>1, <1>5, <2>2 DEF WatchedAs
    <2>3. CASE WillBeWatched(p)
      <3>1. PICK n \in 1..Len(queue) :
                    queue[n].kind = "mkdir" /\ Within(EventPath(queue[n]), p)
        BY <1>1, <2>3 DEF WillBeWatched
      <3>2. CASE n = 1
        BY <1>3, <3>1, <3>2 DEF WillBeWatched, e
      <3>3. CASE n # 1
        <4>1. n - 1 \in 1..Len(queue') /\ queue'[n - 1] = queue[n]
          BY <1>2, <3>3
        <4>2. queue'[n - 1].kind = "mkdir"
          BY <3>1, <4>1
        <4>3. Within(IF queue'[n - 1].kind = "ignored"
                       THEN wdToPath'[queue'[n - 1].wd]
                       ELSE Append(wdToPath'[queue'[n - 1].wd], queue'[n - 1].name), p)
          BY <1>4, <3>1, <4>1 DEF EventPath
        <4> QED BY <4>1, <4>2, <4>3 DEF WillBeWatched, EventPath
      <3> QED BY <3>2, <3>3
    <2> QED BY <2>1, <2>2, <2>3
  <1> QED BY <1>6, <1>7, <1>8, <1>9 DEF WorldInv

(* There is a watch left for every directory.                              *)
LEMMA WatchesLeft ==
  ASSUME Sound, NEW p \in Path, ~Watched(p)
  PROVE  ~(Cardinality(KernelWatches) >= WatchLimit)
  <1>1. KernelWatches \subseteq Path /\ KernelWatches # Path
    BY DEF KernelWatches
  <1>2. /\ Cardinality(KernelWatches) \in Nat /\ Cardinality(Path) \in Nat
        /\ Cardinality(KernelWatches) < Cardinality(Path)
    <2>1. IsFiniteSet(Path) /\ IsFiniteSet(KernelWatches)
      BY <1>1, FS_Subset DEF Sound
    <2>2. /\ Cardinality(KernelWatches) <= Cardinality(Path)
          /\ Cardinality(KernelWatches) = Cardinality(Path) => KernelWatches = Path
      BY <1>1, <2>1, FS_Subset
    <2>3. Cardinality(KernelWatches) \in Nat /\ Cardinality(Path) \in Nat
      BY <2>1, FS_CardinalityType
    <2> QED BY <1>1, <2>2, <2>3
  <1> QED BY <1>2, BoundAssumption DEF Sound

LEMMA AddWatchFacts ==
  ASSUME Sound, WatchInv, NEW p \in adding, AddWatch(p)
  PROVE  /\ UNCHANGED <<fs, queue, roots, dirty, forceFull>> /\ p \in Seq(Name)
         /\ adding' = adding \ {p}
         /\ listing' = IF IsDir(p) THEN listing \cup {p} ELSE listing
         /\ wdToPath' = IF IsDir(p) THEN [wdToPath EXCEPT ![fs[p]] = p] ELSE wdToPath
         /\ \A n \in 1..Len(queue) : wdToPath'[queue[n].wd] = wdToPath[queue[n].wd]
  <1>1. /\ UNCHANGED <<fs, queue, roots, dirty, forceFull>>
        /\ adding' = adding \ {p}
        /\ listing' = IF IsDir(p) THEN listing \cup {p} ELSE listing
        /\ p \in Seq(Name)
    BY DEF AddWatch, worldVars, backendVars, WatchInv, TypeInv, TypeOK
  <1>2. wdToPath' = IF IsDir(p) THEN [wdToPath EXCEPT ![fs[p]] = p] ELSE wdToPath
    BY WatchesLeft, DirIsPath DEF AddWatch, WatchInv, Quiet
  <1>3. IsDir(p) => wdToPath[fs[p]] \in {p, NoPath}
    BY DirIsPath DEF WatchInv, WorldInv, RightName
  <1>4. \A n \in 1..Len(queue) : wdToPath'[queue[n].wd] = wdToPath[queue[n].wd]
    <2> SUFFICES ASSUME NEW n \in 1..Len(queue)
                 PROVE  wdToPath'[queue[n].wd] = wdToPath[queue[n].wd]
      OBVIOUS
    <2>1. queue[n].wd \in Inode /\ wdToPath[queue[n].wd] # NoPath
      BY Paths1 DEF WatchInv, WorldInv, KnownEvents, Event
    <2> QED BY <1>2, <1>3, <2>1 DEF WatchInv, TypeInv, TypeOK
  <1> QED BY <1>1, <1>2, <1>4

LEMMA AddWatchWatch ==
  ASSUME Sound, WatchInv, NEW p \in adding, AddWatch(p)
  PROVE  WorldInv'
  <1>1. /\ UNCHANGED <<fs, queue, roots>> /\ p \in Seq(Name)
        /\ adding' = adding \ {p}
        /\ listing' = IF IsDir(p) THEN listing \cup {p} ELSE listing
    BY AddWatchFacts
  <1>2. wdToPath' = IF IsDir(p) THEN [wdToPath EXCEPT ![fs[p]] = p] ELSE wdToPath
    BY AddWatchFacts
  <1>3. \A n \in 1..Len(queue) : wdToPath'[queue[n].wd] = wdToPath[queue[n].wd]
    BY AddWatchFacts
  <1>4. \A x \in Path : fs[x] \in Inode =>
           wdToPath'[fs[x]] = IF x = p THEN p ELSE wdToPath[fs[x]]
    <2> SUFFICES ASSUME NEW x \in Path, fs[x] \in Inode
                 PROVE  wdToPath'[fs[x]] = IF x = p THEN p ELSE wdToPath[fs[x]]
      OBVIOUS
    <2>1. CASE IsDir(p)
      <3>1. p \in Path /\ fs[p] \in Inode
        BY <2>1, DirIsPath
      <3>2. fs[x] = fs[p] => x = p
        BY <3>1 DEF WatchInv, WorldInv, IsTree
      <3>3. wdToPath' = [wdToPath EXCEPT ![fs[p]] = p] /\ wdToPath \in [Inode -> Path \cup {NoPath}]
        BY <1>2, <2>1 DEF WatchInv, TypeInv, TypeOK
      <3> QED BY <3>1, <3>2, <3>3
    <2>2. CASE ~IsDir(p)
      BY <1>2, <2>2, DirBefore
    <2> QED BY <2>1, <2>2
  <1>5. IsTree' /\ RightName'
    BY <1>1, <1>4, DirBefore DEF WatchInv, WorldInv, IsTree, RightName
  <1>6. KnownEvents' /\ IgnoredIsLast'
    BY <1>1, <1>3 DEF WatchInv, WorldInv, KnownEvents, IgnoredIsLast, Gone
  <1>7. EveryDirWatched'
    <2> SUFFICES ASSUME NEW x \in Path, fs[x] \in Inode, \E r \in roots : Within(r, x)
                 PROVE  WatchedAs(x)' \/ WillBeWatched(x)'
      BY <1>1, DirBefore DEF EveryDirWatched
    <2>1. WatchedAs(x) \/ WillBeWatched(x)
      BY DirBefore DEF WatchInv, WorldInv, EveryDirWatched
    <2>2. CASE x = p
      BY <1>1, <1>4, <2>2 DEF WatchedAs
    <2>3. CASE x # p /\ WatchedAs(x)
      BY <1>1, <1>4, <2>3 DEF WatchedAs
    <2>4. CASE x # p /\ Within(p, x)
      <3>1. IsDir(p)
        BY <1>1, <2>4, TreeStep, SentinelAssumption DEF WatchInv, WorldInv
      <3> QED BY <1>1, <2>4, <3>1 DEF WillBeWatched
    <2>5. CASE x # p /\ ~Within(p, x) /\ WillBeWatched(x)
      <3>1. \A n \in 1..Len(queue) : EventPath(queue[n])' = EventPath(queue[n])
        BY <1>1, <1>3 DEF EventPath
      <3> QED BY <1>1, <2>5, <3>1 DEF WillBeWatched
    <2> QED BY <2>1, <2>2, <2>3, <2>4, <2>5
  <1> QED BY <1>5, <1>6, <1>7 DEF WorldInv

LEMMA ListDirWatch ==
  ASSUME WatchInv, NEW p \in listing, ListDir(p)
  PROVE  WorldInv'
  <1>1. /\ UNCHANGED <<fs, queue, roots, wdToPath>>
        /\ listing' = listing \ {p}
        /\ adding' = adding \cup {q \in Children(p) : IsDir(q)}
        /\ p \in Seq(Name)
    BY Paths1 DEF ListDir, worldVars, backendVars, WatchInv, TypeInv, TypeOK
  <1>2. IsTree' /\ RightName' /\ KnownEvents' /\ IgnoredIsLast'
    BY <1>1, DirBefore
    DEF WatchInv, WorldInv, IsTree, RightName, KnownEvents, IgnoredIsLast, Gone
  <1>3. EveryDirWatched'
    <2> SUFFICES ASSUME NEW x \in Path, fs[x] \in Inode, \E r \in roots : Within(r, x)
                 PROVE  WatchedAs(x)' \/ WillBeWatched(x)'
      BY <1>1, DirBefore DEF EveryDirWatched
    <2>1. WatchedAs(x) \/ WillBeWatched(x)
      BY DirBefore DEF WatchInv, WorldInv, EveryDirWatched
    <2>2. CASE WatchedAs(x)
      BY <1>1, <2>2 DEF WatchedAs
    <2>3. CASE x # p /\ Within(p, x)
      <3> DEFINE c == StepTowards(p, x)
      <3>1. c \in Children(p) /\ Within(c, x) /\ (c # x => IsDir(c))
        BY <1>1, <2>3, TreeStep, SentinelAssumption DEF WatchInv, WorldInv
      <3> HIDE DEF c
      <3>2. c \in adding'
        BY <1>1, <3>1, DirBefore
      <3> QED BY <3>1, <3>2 DEF WillBeWatched
    <2>4. CASE ~(x # p /\ Within(p, x)) /\ WillBeWatched(x)
      <3>1. \A n \in 1..Len(queue) : EventPath(queue[n])' = EventPath(queue[n])
        BY <1>1 DEF EventPath
      <3> QED BY <1>1, <2>4, <3>1 DEF WillBeWatched
    <2> QED BY <2>1, <2>2, <2>3, <2>4
  <1> QED BY <1>2, <1>3 DEF WorldInv

LEMMA ReaderWatch ==
  ASSUME Sound, WatchInv, Reader
  PROVE  WatchInv'
  <1>1. TypeInv'
    BY ReaderType DEF WatchInv
  <1>2. WorldInv'
    BY HandleEventWatch, AddWatchWatch, ListDirWatch DEF Reader
  <1>3. UNCHANGED <<fs, reader, backendVars>>
    BY DEF Reader, HandleEvent, AddWatch, ListDir, worldVars
  <1>4. Quiet' /\ RootsAreDirs' /\ RemovesInsideRoot'
    BY <1>3 DEF WatchInv, Quiet, RootsAreDirs, RemovesInsideRoot, IsDir, At, backendVars
  <1> QED BY <1>1, <1>2, <1>4 DEF WatchInv

LEMMA InitWatch ==
  ASSUME Sound, Init
  PROVE  WatchInv
  <1>1. TypeInv
    BY InitType
  <1>2. Quiet /\ RootsAreDirs /\ RemovesInsideRoot /\ pathToWd = DirsWithin(InitRoots)
    BY DEF Init, Sound, Quiet, RootsAreDirs, RemovesInsideRoot
  <1>3. IsTree /\ KnownEvents /\ IgnoredIsLast
    BY DEF Init, KnownEvents, IgnoredIsLast
  <1>4. ASSUME NEW p \in Path, IsDir(p), wdToPath[fs[p]] # NoPath
        PROVE  wdToPath[fs[p]] = p
    <2>1. fs[p] \in Inode
      BY <1>4, DirIsPath
    <2>2. PICK q \in pathToWd : fs[q] = fs[p] /\ wdToPath[fs[p]] = q
      BY <1>4, <2>1 DEF Init
    <2> QED BY <1>2, <1>3, <2>1, <2>2 DEF DirsWithin, IsTree
  <1>5. ASSUME NEW p \in Path, IsDir(p), \E r \in roots : Within(r, p)
        PROVE  WatchedAs(p)
    <2>1. fs[p] \in Inode /\ p \in pathToWd
      BY <1>2, <1>5, DirIsPath DEF DirsWithin, Quiet
    <2>2. (CHOOSE q \in pathToWd : fs[q] = fs[p]) = p
      BY <1>2, <1>3, <2>1 DEF DirsWithin, IsTree
    <2> QED BY <2>1, <2>2 DEF WatchedAs, Init
  <1> QED BY <1>1, <1>2, <1>3, <1>4, <1>5
          DEF WatchInv, WorldInv, RightName, EveryDirWatched

LEMMA StepWatch ==
  ASSUME Sound, WatchInv, [Next]_vars
  PROVE  WatchInv'
  <1>1. CASE UNCHANGED vars
    <2>1. TypeInv'
      BY <1>1, StepType DEF WatchInv
    <2>2. WorldInv' /\ RootsAreDirs'
      BY <1>1, WorldStays DEF WatchInv, WatcherStays, vars, watcherVars, backendVars
    <2>3. Quiet' /\ RemovesInsideRoot'
      BY <1>1 DEF WatchInv, Quiet, RemovesInsideRoot, vars, watcherVars, backendVars
    <2> QED BY <2>1, <2>2, <2>3 DEF WatchInv
  <1>2. CASE ReaderDies
    BY <1>2 DEF ReaderDies, Sound
  <1>3. CASE Extend
    BY <1>3 DEF Extend, EndExtendRoots, AddRootsFails, Sound, WatchInv, Quiet
  <1> QED BY <1>1, <1>2, <1>3, ProgramWatch, ReaderWatch, CreateWatch, RestoreWatch
          DEF Next, Backend

(***************************************************************************)
(* Every directory inside a root is watched under its own name, or a mkdir *)
(* event or the walk it started will still get to it.                      *)
(***************************************************************************)
THEOREM NoDirectoryEscapes ==
  ASSUME Sound
  PROVE  Spec => []EveryDirWatched
  <1>1. Init => WatchInv
    BY InitWatch
  <1>2. WatchInv /\ [Next]_vars => WatchInv'
    BY StepWatch
  <1>3. WatchInv => EveryDirWatched
    BY DEF WatchInv, WorldInv
  <1> QED BY <1>1, <1>2, <1>3, PTL DEF Spec
=============================================================================
