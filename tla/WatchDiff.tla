----------------------------- MODULE WatchDiff -----------------------------
(***************************************************************************)
(* The watch-diff snapshot backend (internal/snapshot): a shared file      *)
(* system that programs change at any time, the kernel's inotify queue,    *)
(* the reader goroutine of dirty_watcher_linux.go, and WatchDiffBackend,   *)
(* whose incremental map `current' every manifest is written from.         *)
(*                                                                         *)
(* Left to other modules or abstracted: modes, sizes and times, symbolic   *)
(* links, the rewind meta directories, the protected executable, and the   *)
(* object store (a file's hash stands for its content).  The root "/",     *)
(* which contains only itself (Paths!Within), is not in the universe.      *)
(***************************************************************************)
EXTENDS Paths

CONSTANTS
  Name,        \* file names
  NoName,      \* the empty name of an event about the watched directory itself
  Path,        \* the paths of the universe, all below "/"
  Leaf,        \* what a path that is no directory can hold
  Inode,       \* a directory's inode; inotify's watch descriptor is the inode's
  Dir,         \* an entry of type "dir"
  Absent,      \* nothing at this path, or no entry for it
  None,        \* no manifest
  Snapshot,    \* snapshot ids
  InitRoots,   \* the compacted roots of resolveMonitorRoots
  NewRoot,     \* directories a session may later add with ExtendRoots
  WatchLimit,  \* fs.inotify.max_user_watches
  MaxQueue,    \* events the kernel queues before it overflows
  MaxChanges,  \* bound on the steps of other programs
  Hazards      \* what may go wrong in this instance, see below

(***************************************************************************)
(* The behaviours of the environment that an instance may switch on:       *)
(*   background   programs change files while Create or ExtendRoots runs   *)
(*   lag          Create begins before loop has read every queued event    *)
(*   rename       a directory is moved                                     *)
(*   overflow     events arrive while the kernel's queue is full           *)
(*   scanError    a file or directory cannot be read when a scan visits it *)
(*   readerDeath  read() on the inotify descriptor fails                   *)
(*   startFailure the watcher cannot be started, and init goes on          *)
(*   restoreRace  programs change files while a restore runs               *)
(*   rootRemoved  a monitored root is removed                              *)
(*   leftovers    ExtendRoots is called again after a call that failed and *)
(*                left watches outside the roots                           *)
(***************************************************************************)
Hazard == {"background", "lag", "rename", "overflow", "scanError",
           "readerDeath", "startFailure", "restoreRace", "rootRemoved",
           "leftovers"}

AllRoots == InitRoots \cup NewRoot

ASSUME PathAssumption ==
  /\ Path \subseteq Seq(Name) \ {<< >>}
  /\ \A p \in Path : \A n \in 1..Len(p) : SubSeq(p, 1, n) \in Path
  /\ NoPath \notin Seq(Name)

ASSUME SentinelAssumption ==
  /\ Dir \notin Leaf /\ Absent \notin Leaf /\ Dir # Absent
  /\ Inode \cap (Leaf \cup {Dir, Absent}) = {}
  /\ NoName \notin Name

ASSUME RootAssumption ==
  /\ AllRoots \subseteq Path /\ InitRoots # {}
  /\ InitRoots = Compact(InitRoots)

ASSUME BoundAssumption ==
  /\ WatchLimit \in Nat /\ MaxQueue \in Nat \ {0} /\ MaxChanges \in Nat
  /\ Hazards \subseteq Hazard

VARIABLES
  fs,          \* what every path holds; a directory is its inode
  queue,       \* events the kernel has queued and loop has not handled
  wdToPath,    \* wdToPath: NoPath where the map has no entry
  pathToWd,    \* the keys of pathToWd; only their existence is ever read
  dirty,       \* the watcher's dirty set
  forceFull,   \* the watcher's forceFull flag
  reader,      \* the goroutine of loop: running, dead, or off (never started)
  adding,      \* a WalkDir that adds watches: directories still to visit
  listing,     \* ... and directories visited and not yet listed
  roots,       \* WatchDiffBackend.roots
  current,     \* WatchDiffBackend.current, by root and by path
  pc,          \* what the holder of WatchDiffBackend.mu is doing
  work,        \* dirty paths, or roots, the operation has still to handle
  todo,        \* paths the current scan or restore phase has still to visit
  tmp,         \* the entries the current scan has collected
  target,      \* the manifest being restored
  restoring,   \* the root restoreRoot is at work on
  manifests,   \* the manifests on disk, by snapshot id
  changes      \* the number of changes programs have made

worldVars   == <<fs, queue>>
watcherVars == <<wdToPath, pathToWd, dirty, forceFull, reader, adding, listing>>
backendVars == <<roots, current, pc, work, todo, tmp, target, restoring, manifests>>
vars        == <<worldVars, watcherVars, backendVars, changes>>

Entry     == Leaf \cup {Dir, Absent}
NoEntries == [p \in Path |-> Absent]
Control   == {"idle", "reconcile", "scan", "fullScan", "extend",
              "restore", "remove", "mkdirs", "leaves"}
Restoring == pc \in {"restore", "remove", "mkdirs", "leaves"}
Event     == [wd : Inode, name : Name, kind : {"change", "mkdir"}]
               \cup [wd : Inode, name : {NoName}, kind : {"ignored"}]
Overflow  == [kind |-> "overflow"]
Manifest  == [roots : SUBSET AllRoots, entries : [AllRoots -> [Path -> Entry]]]

TypeOK ==
  /\ fs \in [Path -> Leaf \cup Inode \cup {Absent}]
  /\ queue \in Seq(Event \cup {Overflow})
  /\ wdToPath \in [Inode -> Path \cup {NoPath}]
  /\ pathToWd \subseteq Path
  /\ dirty \subseteq Seq(Name)
  /\ forceFull \in BOOLEAN
  /\ reader \in {"running", "dead", "off"}
  /\ adding \subseteq Seq(Name) /\ listing \subseteq Path
  /\ roots \subseteq AllRoots
  /\ current \in [AllRoots -> [Path -> Entry]]
  /\ pc \in Control
  /\ work \subseteq Seq(Name) /\ todo \subseteq Seq(Name)
  /\ tmp \in [Path -> Entry]
  /\ target \in Manifest \cup {None}
  /\ restoring \in AllRoots \cup {NoPath}
  /\ manifests \in [Snapshot -> Manifest \cup {None}]
  /\ changes \in Nat
-----------------------------------------------------------------------------
(***************************************************************************)
(* The file system and the kernel's event queue.                           *)
(***************************************************************************)
At(p)       == IF p \in Path THEN fs[p] ELSE Absent
IsDir(p)    == At(p) \in Inode
Children(p) == {q \in Path : Len(q) > 1 /\ Parent(q) = p /\ fs[q] # Absent}
Kind(v)     == IF v \in Inode THEN Dir ELSE v
HasParent(p) == Len(p) = 1 \/ IsDir(Parent(p))

(* The directories a WalkDir over the roots in R visits.                   *)
DirsWithin(R) == {p \in Path : IsDir(p) /\ \E r \in R : Within(r, p)}

(***************************************************************************)
(* fsnotify drops an event equal to the last one queued, and queues one    *)
(* overflow event in place of all that do not fit.  Nothing reads the      *)
(* queue when there is no reader.                                          *)
(***************************************************************************)
Post(q, e) ==
  IF reader # "running" \/ (q # << >> /\ q[Len(q)] = e) THEN q
  ELSE IF Len(q) < MaxQueue                             THEN Append(q, e)
  ELSE IF q[Len(q)] = Overflow                          THEN q
  ELSE Append(q, Overflow)

Watched(p) == IsDir(p) /\ wdToPath[fs[p]] # NoPath

Notify(q, p, kind) ==
  IF Len(p) > 1 /\ Watched(Parent(p))
    THEN Post(q, [wd |-> fs[Parent(p)], name |-> p[Len(p)], kind |-> kind])
    ELSE q

HasRoom == "overflow" \in Hazards \/ reader # "running" \/ Len(queue) + 2 <= MaxQueue

(* An inode no path, watch or queued event refers to.                      *)
Fresh == {i \in Inode :
            /\ \A p \in Path : fs[p] # i
            /\ wdToPath[i] = NoPath
            /\ \A n \in 1..Len(queue) : queue[n] # Overflow => queue[n].wd # i}

PutLeaf(p, v) ==
  /\ HasRoom /\ HasParent(p) /\ ~IsDir(p)
  /\ fs' = [fs EXCEPT ![p] = v]
  /\ queue' = Notify(queue, p, "change")

MakeDir(p) ==
  /\ HasRoom /\ HasParent(p) /\ fs[p] = Absent
  /\ \E i \in Fresh : fs' = [fs EXCEPT ![p] = i]
  /\ queue' = Notify(queue, p, "mkdir")

RemoveLeaf(p) ==
  /\ HasRoom /\ fs[p] \in Leaf
  /\ fs' = [fs EXCEPT ![p] = Absent]
  /\ queue' = Notify(queue, p, "change")

(***************************************************************************)
(* The directory's own IN_DELETE_SELF and IN_IGNORED are one event here:   *)
(* both dirty the directory's path, and nothing comes between them.        *)
(***************************************************************************)
RemoveDir(p) ==
  /\ HasRoom /\ IsDir(p) /\ Children(p) = {}
  /\ fs' = [fs EXCEPT ![p] = Absent]
  /\ queue' = LET q == Notify(queue, p, "change")
              IN  IF Watched(p)
                    THEN Post(q, [wd |-> fs[p], name |-> NoName, kind |-> "ignored"])
                    ELSE q
-----------------------------------------------------------------------------
(***************************************************************************)
(* Programs: commands of the shell and what they left in the background.   *)
(* A file's rename is a RemoveLeaf and a PutLeaf with nothing in between.  *)
(***************************************************************************)
ProgramStep ==
  /\ changes < MaxChanges
  /\ pc # "idle" => IF Restoring THEN "restoreRace" \in Hazards
                                 ELSE "background" \in Hazards
  /\ changes' = changes + 1
  /\ UNCHANGED <<watcherVars, backendVars>>

(* A scan that has listed a path finds it again, unless it may fail.       *)
MayVanish(p) ==
  /\ p \in roots \/ (pc = "extend" /\ p \in work) => "rootRemoved" \in Hazards
  /\ p \in todo /\ pc \in {"scan", "fullScan"} => "scanError" \in Hazards

Write(p, v) == fs[p] # v /\ PutLeaf(p, v) /\ ProgramStep
Mkdir(p)    == MakeDir(p) /\ ProgramStep
Unlink(p)   == MayVanish(p) /\ RemoveLeaf(p) /\ ProgramStep
Rmdir(p)    == MayVanish(p) /\ RemoveDir(p) /\ ProgramStep

(***************************************************************************)
(* rename(2) of a directory: the inodes, and so the watches, move along.   *)
(* IN_MOVED_FROM and IN_MOVED_TO only dirty the two paths.  A root, or     *)
(* what holds a root, stays where it is.                                   *)
(***************************************************************************)
Moved(p, q) ==
  [x \in Path |->
     IF Within(q, x) THEN At(p \o SubSeq(x, Len(q) + 1, Len(x)))
     ELSE IF Within(p, x) THEN Absent
     ELSE fs[x]]

RenameDir(p, q) ==
  /\ "rename" \in Hazards
  /\ HasRoom /\ IsDir(p) /\ fs[q] = Absent /\ HasParent(q)
  /\ ~Within(p, q) /\ ~Within(q, p)
  /\ \A r \in roots : ~Within(p, r) /\ ~Within(q, r)
  /\ \A x \in Path : Within(p, x) => MayVanish(x)
  /\ \A x \in Path : Within(p, x) /\ fs[x] # Absent =>
        q \o SubSeq(x, Len(p) + 1, Len(x)) \in Path
  /\ fs' = Moved(p, q)
  /\ queue' = Notify(Notify(queue, p, "change"), q, "change")
  /\ ProgramStep

Program ==
  \/ \E p \in Path, v \in Leaf : Write(p, v)
  \/ \E p \in Path : Mkdir(p)
  \/ \E p \in Path : Unlink(p)
  \/ \E p \in Path : Rmdir(p)
  \/ \E p, q \in Path : RenameDir(p, q)
-----------------------------------------------------------------------------
(***************************************************************************)
(* The reader goroutine.  It holds the watcher's mutex for the whole of    *)
(* handleEvent, the walk of a new directory included, and so does AddRoots *)
(* for its walk (pc = "extend").                                           *)
(***************************************************************************)
Walking == adding \cup listing # {}

EventPath(e) ==
  IF e.kind = "ignored" THEN wdToPath[e.wd] ELSE Append(wdToPath[e.wd], e.name)

(* Mutant: IN_Q_OVERFLOW is skipped like an event of no interest.          *)
HandleEventOverflowSkipped ==
  /\ reader = "running" /\ ~Walking /\ pc # "extend"
  /\ queue # << >>
  /\ queue' = Tail(queue)
  /\ LET e == queue[1]
     IN  IF e = Overflow
           THEN UNCHANGED <<wdToPath, pathToWd, dirty, adding, forceFull>>
           ELSE /\ dirty' = dirty \cup {EventPath(e)}
                /\ adding' = IF e.kind = "mkdir" THEN {EventPath(e)} ELSE {}
                /\ IF e.kind = "ignored"
                     THEN /\ pathToWd' = pathToWd \ {wdToPath[e.wd]}
                          /\ wdToPath' = [wdToPath EXCEPT ![e.wd] = NoPath]
                     ELSE UNCHANGED <<wdToPath, pathToWd>>
                /\ UNCHANGED forceFull
  /\ UNCHANGED <<fs, reader, listing, backendVars, changes>>

(* Mutant: the descriptor is forgotten before its path is looked up.       *)
HandleEventForgetsFirst ==
  /\ reader = "running" /\ ~Walking /\ pc # "extend"
  /\ queue # << >>
  /\ queue' = Tail(queue)
  /\ LET e == queue[1]
     IN  IF e = Overflow \/ (e # Overflow /\ wdToPath[e.wd] = NoPath)
           THEN /\ forceFull' = TRUE
                /\ UNCHANGED <<wdToPath, pathToWd, dirty, adding>>
           ELSE /\ IF e.kind = "ignored"
                     THEN /\ pathToWd' = pathToWd \ {wdToPath[e.wd]}
                          /\ wdToPath' = [wdToPath EXCEPT ![e.wd] = NoPath]
                          /\ dirty' = dirty \cup {wdToPath'[e.wd]}
                     ELSE /\ dirty' = dirty \cup {EventPath(e)}
                          /\ UNCHANGED <<wdToPath, pathToWd>>
                /\ adding' = IF e.kind = "mkdir" THEN {EventPath(e)} ELSE {}
                /\ UNCHANGED forceFull
  /\ UNCHANGED <<fs, reader, listing, backendVars, changes>>

HandleEvent ==
  /\ reader = "running" /\ ~Walking /\ pc # "extend"
  /\ queue # << >>
  /\ queue' = Tail(queue)
  /\ LET e == queue[1]
     IN  IF e = Overflow \/ (e # Overflow /\ wdToPath[e.wd] = NoPath)
           THEN /\ forceFull' = TRUE
                /\ UNCHANGED <<wdToPath, pathToWd, dirty, adding>>
           ELSE /\ dirty' = dirty \cup {EventPath(e)}
                /\ adding' = IF e.kind = "mkdir" THEN {EventPath(e)} ELSE {}
                /\ IF e.kind = "ignored"
                     THEN /\ pathToWd' = pathToWd \ {wdToPath[e.wd]}
                          /\ wdToPath' = [wdToPath EXCEPT ![e.wd] = NoPath]
                     ELSE UNCHANGED <<wdToPath, pathToWd>>
                /\ UNCHANGED forceFull
  /\ UNCHANGED <<fs, reader, listing, backendVars, changes>>

ReaderDies ==
  /\ "readerDeath" \in Hazards
  /\ reader = "running" /\ ~Walking /\ pc # "extend"
  /\ reader' = "dead"
  /\ forceFull' = TRUE
  /\ queue' = << >>
  /\ UNCHANGED <<fs, wdToPath, pathToWd, dirty, adding, listing, backendVars,
                 changes>>

(* The watches the kernel holds against max_user_watches.                  *)
KernelWatches == {p \in Path : Watched(p)}

(***************************************************************************)
(* One visit of WalkDir's callback, in handleEvent or in addRootLocked.    *)
(* WalkDir calls it for a directory before it reads the directory, so the  *)
(* watch is in place when the entries are listed.  handleEvent passes over *)
(* a failed InotifyAddWatch, or a directory that is gone when it is read,  *)
(* and walks on; addRootLocked skips a path it already knows and gives up  *)
(* on any error (AddRootsFails).  A root may be a plain file.              *)
(***************************************************************************)
AddWatch(p) ==
  LET known == pc = "extend" /\ p \in pathToWd
      full  == ~Watched(p) /\ Cardinality(KernelWatches) >= WatchLimit
  IN  /\ p \in adding
      /\ pc = "extend" => /\ IsDir(p) \/ (p \in work /\ At(p) # Absent)
                          /\ IsDir(p) /\ ~known => ~full
      /\ adding' = adding \ {p}
      /\ listing' = IF IsDir(p) THEN listing \cup {p} ELSE listing
      /\ IF IsDir(p) /\ ~known /\ ~full
           THEN /\ wdToPath' = [wdToPath EXCEPT ![fs[p]] = p]
                /\ pathToWd' = pathToWd \cup {p}
           ELSE UNCHANGED <<wdToPath, pathToWd>>
      /\ UNCHANGED <<worldVars, dirty, forceFull, reader, backendVars, changes>>

(* Mutant: only the new directory is watched, not the ones inside it.      *)
ListDirShallow(p) ==
  /\ p \in listing
  /\ listing' = listing \ {p}
  /\ UNCHANGED <<worldVars, wdToPath, pathToWd, dirty, forceFull, reader, adding,
                 backendVars, changes>>

ListDir(p) ==
  /\ p \in listing
  /\ pc = "extend" => IsDir(p)
  /\ listing' = listing \ {p}
  /\ adding' = adding \cup {q \in Children(p) : IsDir(q)}
  /\ UNCHANGED <<worldVars, wdToPath, pathToWd, dirty, forceFull, reader,
                 backendVars, changes>>

Reader ==
  \/ HandleEvent
  \/ \E p \in adding : AddWatch(p)
  \/ \E p \in listing : ListDir(p)
-----------------------------------------------------------------------------
(* Every watch is inside a root.                                           *)
NoLeftovers == \A p \in pathToWd : \E r \in roots : Within(r, p)

(* Mutant: the new root is appended without compactRoots.                  *)
BeginExtendRootsUncompacted(r) ==
  /\ pc = "idle" /\ ~Walking
  /\ "leftovers" \in Hazards \/ NoLeftovers
  /\ pc' = "extend"
  /\ work' = roots \cup {r}
  /\ adding' = IF reader # "off" THEN RootsNeedAdd(roots, roots \cup {r}) ELSE {}
  /\ UNCHANGED <<worldVars, wdToPath, pathToWd, dirty, forceFull, reader,
                 listing, roots, current, todo, tmp, target, restoring,
                 manifests, changes>>

(***************************************************************************)
(* ExtendRoots: count the directories, add watches, then change the roots. *)
(* A count above the limit is an error that changes nothing.  Nobody looks *)
(* whether r is there, or is a directory, but the walks that follow.       *)
(* AddRoots does nothing for a watcher that was never started; one whose   *)
(* reader has died still adds watches.                                     *)
(***************************************************************************)
BeginExtendRoots(r) ==
  LET candidate == Compact(roots \cup {r})
  IN  /\ pc = "idle" /\ ~Walking
      /\ "leftovers" \in Hazards \/ NoLeftovers
      /\ Cardinality(DirsWithin(candidate)) <= WatchLimit
      /\ pc' = "extend"
      /\ work' = candidate
      /\ adding' = IF reader # "off" THEN RootsNeedAdd(roots, candidate) ELSE {}
      /\ UNCHANGED <<worldVars, wdToPath, pathToWd, dirty, forceFull, reader,
                     listing, roots, current, todo, tmp, target, restoring,
                     manifests, changes>>

EndExtendRoots ==
  /\ pc = "extend" /\ ~Walking
  /\ roots' = work
  /\ work' = {}
  /\ pc' = "idle"
  /\ UNCHANGED <<worldVars, watcherVars, current, todo, tmp, target, restoring,
                     manifests,
                 changes>>

(* A directory is gone or the kernel has no watch left: the roots stay.    *)
AddRootsFails ==
  /\ pc = "extend"
  /\ \/ \E p \in listing : ~IsDir(p)
     \/ \E p \in adding : ~IsDir(p) /\ (p \in work => At(p) = Absent)
     \/ /\ \E p \in adding : IsDir(p) /\ p \notin pathToWd /\ ~Watched(p)
        /\ Cardinality(KernelWatches) >= WatchLimit
  /\ adding' = {} /\ listing' = {}
  /\ work' = {}
  /\ pc' = "idle"
  /\ UNCHANGED <<worldVars, wdToPath, pathToWd, dirty, forceFull, reader,
                 roots, current, todo, tmp, target, restoring,
                     manifests, changes>>
-----------------------------------------------------------------------------
(***************************************************************************)
(* Create: Drain, reconcile what is dirty (or scan everything), save.      *)
(***************************************************************************)
NoCurrent == \A r \in AllRoots, p \in Path : current[r][p] = Absent

BeginSync ==
  /\ pc = "idle" /\ ~Walking
  /\ "lag" \in Hazards \/ queue = << >>
  /\ dirty' = {} /\ forceFull' = FALSE
  /\ IF forceFull \/ NoCurrent
       THEN pc' = "fullScan" /\ todo' = roots /\ work' = {}
       ELSE pc' = "reconcile" /\ todo' = {} /\ work' = Compact(dirty)
  /\ tmp' = NoEntries
  /\ UNCHANGED <<worldVars, wdToPath, pathToWd, reader, adding, listing,
                 roots, current, target, restoring,
                     manifests, changes>>

(* Mutant: removePrefix is forgotten, so deleted files keep their entries. *)
ReconcilePathKeepsOld(d) ==
  /\ pc = "reconcile" /\ d \in work
  /\ work' = work \ {d}
  /\ IF MatchRoot(roots, d) = NoPath
       THEN UNCHANGED <<pc, todo, tmp>>
       ELSE pc' = "scan" /\ todo' = {d} /\ tmp' = NoEntries
  /\ UNCHANGED <<worldVars, watcherVars, roots, current, target, restoring,
                 manifests, changes>>

(* reconcilePath up to its Lstat: the old entries go before the scan.      *)
ReconcilePath(d) ==
  LET r == MatchRoot(roots, d)
  IN  /\ pc = "reconcile" /\ d \in work
      /\ work' = work \ {d}
      /\ IF r = NoPath
           THEN UNCHANGED <<pc, todo, tmp, current>>
           ELSE /\ pc' = "scan"
                /\ todo' = {d}
                /\ tmp' = NoEntries
                /\ current' = [current EXCEPT ![r] =
                     [p \in Path |-> IF Within(d, p) THEN Absent ELSE @[p]]]
      /\ UNCHANGED <<worldVars, watcherVars, roots, target, restoring,
                     manifests, changes>>

(* Mutant: a directory is recorded and its content is not.                 *)
VisitShallow(q) ==
  /\ pc \in {"scan", "fullScan"} /\ q \in todo
  /\ q \in roots => At(q) # Absent
  /\ todo' = (todo \ {q}) \cup (IF q \in roots THEN Children(q) ELSE {})
  /\ tmp' = IF q \in roots \/ q \notin Path THEN tmp
                                            ELSE [tmp EXCEPT ![q] = Kind(At(q))]
  /\ UNCHANGED <<worldVars, watcherVars, roots, current, pc, work, target, restoring,
                 manifests, changes>>

(***************************************************************************)
(* The scan's WalkDir callback: record the path, and list it when it is a  *)
(* directory.  A root has no entry of its own.                             *)
(***************************************************************************)
Visit(q) ==
  /\ pc \in {"scan", "fullScan"} /\ q \in todo
  /\ q \in roots => At(q) # Absent
  /\ todo' = (todo \ {q}) \cup (IF IsDir(q) THEN Children(q) ELSE {})
  /\ tmp' = IF q \in roots \/ q \notin Path THEN tmp
                                            ELSE [tmp EXCEPT ![q] = Kind(At(q))]
  /\ UNCHANGED <<worldVars, watcherVars, roots, current, pc, work, target, restoring,
                 manifests, changes>>

(* `current' as the scan under way would leave it: merged, or replaced.    *)
Merged(r, p) ==
  IF tmp[p] # Absent /\ r = MatchRoot(roots, p) THEN tmp[p]
  ELSE IF pc = "scan" THEN current[r][p]
  ELSE Absent

(* Mutant: the dirty set is emptied after the scan it was drained for.     *)
EndScanDrainsAgain ==
  /\ pc \in {"scan", "fullScan"} /\ todo = {}
  /\ current' = [r \in AllRoots |-> [p \in Path |-> Merged(r, p)]]
  /\ dirty' = {}
  /\ pc' = "reconcile"
  /\ tmp' = NoEntries
  /\ UNCHANGED <<worldVars, wdToPath, pathToWd, forceFull, reader, adding, listing,
                 roots, work, todo, target, restoring, manifests, changes>>

EndScan ==
  /\ pc \in {"scan", "fullScan"} /\ todo = {}
  /\ current' = [r \in AllRoots |-> [p \in Path |-> Merged(r, p)]]
  /\ pc' = "reconcile"
  /\ tmp' = NoEntries
  /\ UNCHANGED <<worldVars, watcherVars, roots, work, todo, target, restoring,
                     manifests,
                 changes>>

(* Create returns the error; what Drain returned is not put back.          *)
ScanFails ==
  /\ pc \in {"scan", "fullScan"}
  /\ \E q \in todo : \/ "scanError" \in Hazards
                     \/ q \in roots /\ At(q) = Absent
  /\ pc' = "idle"
  /\ todo' = {} /\ work' = {} /\ tmp' = NoEntries
  /\ UNCHANGED <<worldVars, watcherVars, roots, current, target, restoring,
                     manifests,
                 changes>>

Synced == pc = "reconcile" /\ work = {}

SaveManifest(s) ==
  /\ Synced
  /\ manifests' = [manifests EXCEPT ![s] = [roots |-> roots, entries |-> current]]
  /\ pc' = "idle"
  /\ UNCHANGED <<worldVars, watcherVars, roots, current, work, todo, tmp, target,
                 restoring, changes>>

(* Delete: history trimming removes a manifest between two operations.     *)
Delete(s) ==
  /\ pc = "idle" /\ manifests[s] # None
  /\ manifests' = [manifests EXCEPT ![s] = None]
  /\ UNCHANGED <<worldVars, watcherVars, roots, current, pc, work, todo, tmp,
                 target, restoring, changes>>
-----------------------------------------------------------------------------
(***************************************************************************)
(* Restore: restoreRoot for every root of the manifest, then the manifest  *)
(* becomes `current' and what the watcher collected meanwhile is dropped.  *)
(***************************************************************************)
Wanted(p) == target.entries[restoring][p]

BeginRestore(s) ==
  /\ pc = "idle" /\ manifests[s] # None
  /\ pc' = "restore"
  /\ target' = manifests[s]
  /\ work' = manifests[s].roots
  /\ UNCHANGED <<worldVars, watcherVars, roots, current, todo, tmp, restoring,
                 manifests, changes>>

(* os.MkdirAll makes the outermost missing directory first.                *)
EnsureDir(p) ==
  \E a \in Path :
    /\ Within(a, p) /\ MakeDir(a)
    /\ \A b \in Path : Within(b, a) /\ b # a => IsDir(b)

RestoreUnchanged ==
  UNCHANGED <<watcherVars, roots, current, tmp, target, manifests, changes>>

MakeRoot(r) ==
  /\ pc = "restore" /\ r \in work /\ At(r) = Absent
  /\ EnsureDir(r)
  /\ UNCHANGED <<pc, work, todo, restoring>> /\ RestoreUnchanged

(* The walk removes the outermost paths that the manifest does not have.   *)
BeginRestoreRoot(r) ==
  /\ pc = "restore" /\ r \in work /\ At(r) # Absent
  /\ work' = work \ {r}
  /\ restoring' = r
  /\ pc' = "remove"
  /\ todo' = {p \in Path :
                /\ r # p /\ Within(r, p) /\ fs[p] # Absent
                /\ target.entries[r][p] = Absent
                /\ \A a \in Path : Within(r, a) /\ Within(a, p) /\ a \notin {r, p}
                      => target.entries[r][a] # Absent}
  /\ UNCHANGED fs /\ UNCHANGED queue /\ RestoreUnchanged

(* One removal of os.RemoveAll, deepest first; a missing path is no error. *)
RemoveAll(p) ==
  /\ pc = "remove"
  /\ \E q \in todo : Within(q, p)
  /\ \/ RemoveLeaf(p)
     \/ RemoveDir(p)
     \/ p \in todo /\ fs[p] = Absent /\ UNCHANGED <<fs, queue>>
  /\ todo' = todo \ {p}
  /\ UNCHANGED <<pc, work, restoring>> /\ RestoreUnchanged

(* dirs is sorted by length, so a directory comes after those that hold it.*)
Outermost(p) == \A q \in todo : Within(q, p) => q = p

RestoreDir(p) ==
  /\ pc = "mkdirs" /\ p \in todo /\ Outermost(p)
  /\ IF IsDir(p)
       THEN todo' = todo \ {p} /\ UNCHANGED <<fs, queue>>
       ELSE EnsureDir(p) /\ UNCHANGED todo
  /\ UNCHANGED <<pc, work, restoring>> /\ RestoreUnchanged

(* Mutant: a file that cannot be written is passed over.                   *)
RestoreLeafPassesOver(p) ==
  /\ pc = "leaves" /\ p \in todo
  /\ IF HasParent(p) /\ ~IsDir(p)
       THEN PutLeaf(p, Wanted(p))
       ELSE UNCHANGED <<fs, queue>>
  /\ todo' = todo \ {p}
  /\ UNCHANGED <<pc, work, restoring>> /\ RestoreUnchanged

RestoreLeaf(p) ==
  /\ pc = "leaves" /\ p \in todo
  /\ IF HasParent(p)
       THEN PutLeaf(p, Wanted(p)) /\ todo' = todo \ {p}
       ELSE EnsureDir(Parent(p)) /\ UNCHANGED todo
  /\ UNCHANGED <<pc, work, restoring>> /\ RestoreUnchanged

NextPhase ==
  /\ pc \in {"remove", "mkdirs", "leaves"} /\ todo = {}
  /\ CASE pc = "remove" -> /\ pc' = "mkdirs"
                           /\ todo' = {p \in Path : Wanted(p) = Dir}
                           /\ UNCHANGED restoring
       [] pc = "mkdirs" -> /\ pc' = "leaves"
                           /\ todo' = {p \in Path : Wanted(p) \in Leaf}
                           /\ UNCHANGED restoring
       [] pc = "leaves" -> /\ pc' = "restore"
                           /\ todo' = {}
                           /\ restoring' = NoPath
  /\ UNCHANGED work /\ UNCHANGED worldVars /\ RestoreUnchanged

(***************************************************************************)
(* A file is in the way of a directory or a directory in the way of a file *)
(* (or a program interferes): the error leaves the restore half done, and  *)
(* `current' and the watcher as they were.                                 *)
(***************************************************************************)
Blocked(p) == \E a \in Path : Within(a, p) /\ fs[a] \in Leaf

(* Mutant: the watcher is drained before the error is returned.            *)
RestoreFailsDrained ==
  /\ \/ pc = "mkdirs" /\ \E p \in todo : Outermost(p) /\ Blocked(p)
     \/ pc = "leaves" /\ \E p \in todo : IsDir(p) \/ Blocked(Parent(p))
  /\ pc' = "idle"
  /\ dirty' = {} /\ forceFull' = FALSE
  /\ work' = {} /\ todo' = {} /\ target' = None /\ restoring' = NoPath
  /\ UNCHANGED <<worldVars, wdToPath, pathToWd, reader, adding, listing, roots,
                 current, tmp, manifests, changes>>

RestoreFails ==
  /\ \/ pc = "mkdirs" /\ \E p \in todo : Outermost(p) /\ Blocked(p)
     \/ pc = "leaves" /\ \E p \in todo : IsDir(p) \/ Blocked(Parent(p))
     \/ Restoring /\ "restoreRace" \in Hazards
  /\ pc' = "idle"
  /\ work' = {} /\ todo' = {} /\ target' = None /\ restoring' = NoPath
  /\ UNCHANGED <<worldVars, watcherVars, roots, current, tmp, manifests, changes>>

(* Mutant: `current' is left as it was before the restore.                 *)
AdoptTargetKeepsCurrent ==
  /\ pc = "restore" /\ work = {} /\ ~Walking
  /\ dirty' = {} /\ forceFull' = FALSE
  /\ pc' = "idle"
  /\ target' = None
  /\ UNCHANGED <<worldVars, wdToPath, pathToWd, reader, adding, listing, current,
                 roots, work, todo, tmp, restoring, manifests, changes>>

AdoptTarget ==
  /\ pc = "restore" /\ work = {} /\ ~Walking
  /\ current' = target.entries
  /\ dirty' = {} /\ forceFull' = FALSE
  /\ pc' = "idle"
  /\ target' = None
  /\ UNCHANGED <<worldVars, wdToPath, pathToWd, reader, adding, listing,
                 roots, work, todo, tmp, restoring, manifests, changes>>
-----------------------------------------------------------------------------
(***************************************************************************)
(* The state init() leaves: any tree, and a watch on every directory of    *)
(* the roots.  When Start fails, init() goes on with a watcher that has no *)
(* reader and asks for nothing.                                            *)
(***************************************************************************)
IsTree ==
  /\ \A a, p \in Path : fs[p] # Absent /\ Within(a, p) /\ a # p => IsDir(a)
  /\ \A p, q \in Path : fs[p] \in Inode /\ fs[p] = fs[q] => p = q

Init ==
  /\ fs \in [Path -> Leaf \cup Inode \cup {Absent}]
  /\ IsTree
  /\ \A r \in InitRoots : IsDir(r)
  /\ queue = << >>
  /\ \/ reader = "running" /\ pathToWd = DirsWithin(InitRoots)
     \/ "startFailure" \in Hazards /\ reader = "off" /\ pathToWd = {}
  /\ Cardinality(pathToWd) <= WatchLimit
  /\ wdToPath = [i \in Inode |->
       IF \E p \in pathToWd : fs[p] = i THEN CHOOSE p \in pathToWd : fs[p] = i
                                        ELSE NoPath]
  /\ dirty = {} /\ forceFull = FALSE
  /\ adding = {} /\ listing = {}
  /\ roots = InitRoots
  /\ current = [r \in AllRoots |-> NoEntries]
  /\ pc = "idle" /\ work = {} /\ todo = {} /\ tmp = NoEntries
  /\ target = None /\ restoring = NoPath
  /\ manifests = [s \in Snapshot |-> None]
  /\ changes = 0

Extend ==
  \/ \E r \in NewRoot : BeginExtendRoots(r)
  \/ EndExtendRoots
  \/ AddRootsFails

Create ==
  \/ BeginSync
  \/ \E d \in work : ReconcilePath(d)
  \/ \E q \in todo : Visit(q)
  \/ EndScan
  \/ ScanFails
  \/ \E s \in Snapshot : SaveManifest(s)

Restore ==
  \/ \E s \in Snapshot : BeginRestore(s)
  \/ \E r \in work : MakeRoot(r)
  \/ \E r \in work : BeginRestoreRoot(r)
  \/ \E p \in Path : RemoveAll(p)
  \/ \E p \in todo : RestoreDir(p)
  \/ \E p \in todo : RestoreLeaf(p)
  \/ NextPhase
  \/ RestoreFails
  \/ AdoptTarget

Backend == Extend \/ Create \/ Restore \/ \E s \in Snapshot : Delete(s)

Next == Program \/ Reader \/ ReaderDies \/ Backend

Spec == Init /\ [][Next]_vars

(* A session that keeps its roots; ShellLoop has those that extend them.   *)
FixedRoots ==
  Program \/ Reader \/ ReaderDies \/ Create \/ Restore \/ \E s \in Snapshot : Delete(s)
FixedRootsSpec == Init /\ [][FixedRoots]_vars

(* A session that never restores.                                          *)
SnapshotOnly == Program \/ Reader \/ ReaderDies \/ Create
SnapshotOnlySpec == Init /\ [][SnapshotOnly]_vars

(***************************************************************************)
(* The same session with commands that keep coming, while no directory is  *)
(* moved, the reader lives and a scan finds what it has listed: the reader *)
(* goroutine and the command loop are always scheduled again.  Nothing     *)
(* makes a program change a file.                                          *)
(***************************************************************************)
BusyNext ==
  \/ \E p \in Path, v \in Leaf : Write(p, v)
  \/ \E p \in Path : Mkdir(p) \/ Unlink(p) \/ Rmdir(p)
  \/ Reader
  \/ BeginSync
  \/ \E d \in work : ReconcilePath(d)
  \/ \E q \in todo : Visit(q)
  \/ EndScan
  \/ \E s \in Snapshot : SaveManifest(s)

BusySpec == Init /\ [][BusyNext]_vars /\ WF_vars(Reader) /\ WF_vars(Create)
-----------------------------------------------------------------------------
InScope(r, p) == r \in roots /\ p # r /\ Within(r, p)

Entered(r, p) ==
  IF pc \in {"scan", "fullScan"} THEN Merged(r, p) ELSE current[r][p]

(* What still stands between a change of p and the loss of it.             *)
Pending(p) ==
  \/ forceFull
  \/ NoCurrent /\ pc \notin {"reconcile", "scan", "fullScan"}
  \/ \E d \in dirty \cup work \cup todo : Within(d, p)
  \/ \E n \in 1..Len(queue) :
       \/ queue[n] = Overflow
       \/ wdToPath[queue[n].wd] = NoPath
       \/ Within(EventPath(queue[n]), p)

(* A mkdir event or the walk it started will still reach p.                *)
WillBeWatched(p) ==
  \/ \E n \in 1..Len(queue) :
       queue[n].kind = "mkdir" /\ Within(EventPath(queue[n]), p)
  \/ \E a \in adding : Within(a, p)
  \/ \E a \in listing : a # p /\ Within(a, p)

WatchedAs(p) == wdToPath[fs[p]] = p

(***************************************************************************)
(* Every directory inside a root is watched under its own name, or a       *)
(* CREATE event or the walk it started is still to get to it: the race     *)
(* between adding a watch and listing the new directory loses nothing.     *)
(***************************************************************************)
EveryDirWatched ==
  \A p \in Path :
    IsDir(p) /\ (\E r \in roots : Within(r, p)) => WatchedAs(p) \/ WillBeWatched(p)

(***************************************************************************)
(* No change is ever lost: a path whose entry differs from the disk is     *)
(* covered by an event not yet handled, by a dirty path not yet drained or *)
(* reconciled, by a scan still to visit it, or by a full scan to come.     *)
(***************************************************************************)
NoLostChange ==
  \A r \in roots, p \in Path :
    InScope(r, p) => Entered(r, p) = Kind(fs[p]) \/ Pending(p)

(* No root contains another, so an entry has one key and one owner.        *)
RootsDisjoint == \A r, s \in roots : Within(r, s) => r = s

MatchesDisk(m) ==
  \A r \in m.roots, p \in Path : p # r /\ Within(r, p) => m.entries[r][p] = Kind(fs[p])

(***************************************************************************)
(* "rewind restore 3 -> state before command 3" (skills/SKILL.md:17): the  *)
(* manifest Create saves is the disk.                                      *)
(***************************************************************************)
SnapshotIsExact ==
  [][\A s \in Snapshot : SaveManifest(s) => MatchesDisk(manifests'[s])]_vars

(***************************************************************************)
(* The same with programs in the background and a reader that lags: exact  *)
(* whenever nothing is left to handle when the manifest is saved.          *)
(***************************************************************************)
QuietSnapshotIsExact ==
  [][\A s \in Snapshot :
       SaveManifest(s) /\ queue = << >> /\ dirty = {} /\ ~forceFull
         => MatchesDisk(manifests'[s])]_vars

(***************************************************************************)
(* A restore that ends without an error leaves the disk as the manifest    *)
(* describes it, on every root of the manifest.  A manifest saved behind   *)
(* the reader's back may hold a file and not its directory: MkdirAll makes *)
(* the directory all the same, and nothing else that the manifest lacks is *)
(* left.                                                                   *)
(***************************************************************************)
HoldsSomeOf(m, r, p) ==
  \E q \in Path : Within(p, q) /\ q # p /\ m.entries[r][q] # Absent

RestoreIsExact ==
  [][AdoptTarget =>
       \A r \in target.roots, p \in Path : p # r /\ Within(r, p) =>
         \/ target.entries[r][p] = Kind(fs[p])
         \/ /\ target.entries[r][p] = Absent
            /\ IsDir(p) /\ HoldsSomeOf(target, r, p)]_vars

CurrentIsDisk ==
  \A r \in roots, p \in Path : InScope(r, p) => current[r][p] = Kind(fs[p])

(***************************************************************************)
(* Every command gets its snapshot although the reader holds the watcher's *)
(* mutex for whole walks, and lag is made up for: once programs stop, a    *)
(* later command has the exact disk behind it, and so has every one after. *)
(***************************************************************************)
EventuallyExact ==
  []<>(pc = "idle") /\ <>[](pc = "idle" => CurrentIsDisk)
=============================================================================
