--------------------------- MODULE SnapshotProofs ---------------------------
(***************************************************************************)
(* What snapshots and restores promise, in every instance.                 *)
(*   Part A  what the watcher and the scan never get wrong, whatever they  *)
(*           have missed.                                                  *)
(*   Part B  no change is lost and a quiet snapshot is exact, in a session *)
(*           that takes snapshots, under the conditions of WatchProofs and *)
(*           as long as every path a scan meets can be read (Readable);    *)
(*           programs may change files at any moment, the reader may lag.  *)
(*   Part C  a restore is exact, whatever went before it (Undisturbed).    *)
(*   Part D  in strict turns (StrictTurns) no change is lost, every        *)
(*           snapshot is exact, and the backend does what RewindStore asks *)
(*           of it.                                                        *)
(*   Part E  where the watcher goes deaf, the loss is confined (Deaf).     *)
(***************************************************************************)
EXTENDS WatchProofs, WatchDiffStore, WatchDiffLoss

(***************************************************************************)
(* Part A: the watcher and the scan, whatever they have missed.            *)
(* ScanOwed says what a scan to come, or the one under way, will look at.  *)
(* Everything the watcher names is inside a root, so ReconcilePath skips   *)
(* nothing; a walk lies inside a dirty path; and what a scan has still to  *)
(* visit holds no entry yet, neither in tmp nor in `current'.              *)
(***************************************************************************)
Syncing == pc \in {"reconcile", "scan", "fullScan"}

ScanOwed(p) ==
  \/ forceFull
  \/ NoCurrent /\ ~Syncing
  \/ \E d \in dirty : Within(d, p)
  \/ Syncing /\ \E d \in work \cup todo : Within(d, p)

Inside(d) == \E r \in roots : Within(r, d)

AllInside ==
  /\ \A i \in Inode : wdToPath[i] # NoPath => Inside(wdToPath[i])
  /\ \A d \in dirty : Inside(d)
  /\ Syncing => \A d \in work \cup todo : Inside(d)

WalkIsDirty == \A a \in adding \cup listing : \E d \in dirty : Within(d, a)

AtRest ==
  /\ pc \in {"idle", "reconcile", "restore"} => todo = {}
  /\ pc = "idle" => work = {}

ScanIsFresh ==
  pc \in {"scan", "fullScan"} =>
    /\ \A a, b \in todo : Within(a, b) => a = b
    /\ \A q \in todo, p \in Path : Within(q, p) =>
         /\ tmp[p] = Absent
         /\ pc = "scan" => \A r \in roots : InScope(r, p) => current[r][p] = Absent

SideInv == AllInside /\ WalkIsDirty /\ AtRest /\ ScanIsFresh

LEMMA FixedRootFacts ==
  ASSUME roots = InitRoots
  PROVE  /\ roots \subseteq Path /\ roots \subseteq Seq(Name) /\ roots \subseteq AllRoots
         /\ \A a, b \in roots : Within(a, b) => a = b
         /\ \A p \in Seq(Name), r \in roots : Within(r, p) => MatchRoot(roots, p) = r
  <1>1. \A a, b \in roots : Within(a, b) => a = b
    BY RootAssumption, CompactIsAntichain
  <1>2. roots \subseteq Path /\ roots \subseteq Seq(Name) /\ roots \subseteq AllRoots
    BY Paths1
  <1>3. \A p \in Seq(Name), r \in roots : Within(r, p) => MatchRoot(roots, p) = r
    BY <1>1, <1>2, MatchRootIsOwner
  <1> QED BY <1>1, <1>2, <1>3

LEMMA HandleEventSide ==
  ASSUME TypeInv, roots = InitRoots, SideInv, HandleEvent
  PROVE  SideInv'
  <1> DEFINE e == queue[1]
  <1>1. /\ UNCHANGED <<roots, current, pc, work, todo, tmp, listing>>
        /\ adding = {} /\ listing = {} /\ queue # << >>
    BY DEF HandleEvent, backendVars, Walking
  <1>2. e \in Event \cup {Overflow}
    <2>1. queue \in Seq(Event \cup {Overflow}) /\ 1 \in 1..Len(queue)
      BY <1>1 DEF TypeInv, TypeOK
    <2> QED BY <2>1
  <1>3. AtRest' /\ ScanIsFresh'
    BY <1>1 DEF SideInv, AtRest, ScanIsFresh, InScope
  <1>4. \A d : Inside(d)' <=> Inside(d)
    BY <1>1 DEF Inside
  <1>5. CASE e = Overflow \/ (e # Overflow /\ wdToPath[e.wd] = NoPath)
    <2>1. UNCHANGED <<wdToPath, dirty, adding>>
      BY <1>5 DEF HandleEvent
    <2>2. AllInside' /\ WalkIsDirty'
      BY <1>1, <1>4, <2>1 DEF SideInv, AllInside, WalkIsDirty, Syncing
    <2> QED BY <1>3, <2>2 DEF SideInv
  <1>6. CASE ~(e = Overflow \/ (e # Overflow /\ wdToPath[e.wd] = NoPath))
    <2>1. /\ dirty' = dirty \cup {EventPath(e)}
          /\ adding' = IF e.kind = "mkdir" THEN {EventPath(e)} ELSE {}
          /\ wdToPath' = IF e.kind = "ignored" THEN [wdToPath EXCEPT ![e.wd] = NoPath]
                                               ELSE wdToPath
      BY <1>6 DEF HandleEvent
    <2>2. /\ e \in Event /\ e.wd \in Inode /\ wdToPath[e.wd] \in Path
          /\ wdToPath[e.wd] # NoPath
      BY <1>2, <1>6 DEF TypeInv, TypeOK, Event
    <2> HIDE DEF e
    <2>3. EventPath(e) \in Seq(Name) /\ Inside(EventPath(e))
      <3>1. PICK r \in roots : Within(r, wdToPath[e.wd])
        BY <2>2 DEF SideInv, AllInside, Inside
      <3>2. r \in Seq(Name) /\ wdToPath[e.wd] \in Seq(Name) /\ wdToPath[e.wd] # << >>
        BY <2>2, FixedRootFacts, Paths1
      <3>3. CASE e.kind = "ignored"
        BY <3>1, <3>2, <3>3 DEF EventPath, Inside
      <3>4. CASE e.kind # "ignored"
        <4>1. e.name \in Name
          BY <2>2, <3>4 DEF Event
        <4>2. /\ Append(wdToPath[e.wd], e.name) \in Seq(Name)
              /\ Within(wdToPath[e.wd], Append(wdToPath[e.wd], e.name))
          BY <3>2, <4>1, JoinedPath
        <4>3. Within(r, Append(wdToPath[e.wd], e.name))
          BY <3>1, <3>2, <4>2, WithinTransitive
        <4> QED BY <3>4, <4>2, <4>3 DEF EventPath, Inside
      <3> QED BY <3>3, <3>4
    <2>4. \A i \in Inode : wdToPath'[i] # NoPath => wdToPath'[i] = wdToPath[i]
      BY <2>1, <2>2 DEF TypeInv, TypeOK
    <2>5. AllInside'
      BY <1>1, <1>4, <2>1, <2>3, <2>4 DEF SideInv, AllInside, Syncing
    <2>6. WalkIsDirty'
      BY <1>1, <2>1, <2>3, WithinReflexive DEF WalkIsDirty
    <2> QED BY <1>3, <2>5, <2>6 DEF SideInv
  <1> QED BY <1>5, <1>6

LEMMA ReaderSide ==
  ASSUME TypeInv, roots = InitRoots, SideInv, Reader
  PROVE  SideInv'
  <1>1. ASSUME NEW p \in adding, AddWatch(p)
        PROVE  SideInv'
    <2>1. /\ UNCHANGED <<fs, queue, roots, dirty, forceFull, current, pc, work, todo, tmp>>
          /\ p \in Seq(Name)
          /\ adding' = adding \ {p}
          /\ listing' \subseteq listing \cup {p}
          /\ wdToPath' = [wdToPath EXCEPT ![fs[p]] = p] \/ wdToPath' = wdToPath
      BY <1>1 DEF AddWatch, worldVars, backendVars, TypeInv, TypeOK
    <2>2. AtRest' /\ ScanIsFresh'
      BY <2>1 DEF SideInv, AtRest, ScanIsFresh, InScope
    <2>3. WalkIsDirty'
      BY <2>1 DEF SideInv, WalkIsDirty
    <2>4. Inside(p)
      <3>1. PICK d \in dirty : Within(d, p)
        BY DEF SideInv, WalkIsDirty
      <3>2. PICK r \in roots : Within(r, d)
        BY DEF SideInv, AllInside, Inside
      <3>3. d \in Seq(Name) /\ r \in Seq(Name)
        BY FixedRootFacts DEF TypeInv, TypeOK
      <3>4. Within(r, p)
        BY <2>1, <3>1, <3>2, <3>3, WithinTransitive
      <3> QED BY <3>4 DEF Inside
    <2>5. AllInside'
      <3>1. \A i \in Inode : wdToPath'[i] \in {wdToPath[i], p}
        BY <2>1 DEF TypeInv, TypeOK
      <3>2. \A d : Inside(d)' <=> Inside(d)
        BY <2>1 DEF Inside
      <3> QED BY <2>1, <2>4, <3>1, <3>2 DEF SideInv, AllInside, Syncing
    <2> QED BY <2>2, <2>3, <2>5 DEF SideInv
  <1>2. ASSUME NEW p \in listing, ListDir(p)
        PROVE  SideInv'
    <2>1. /\ UNCHANGED <<fs, queue, roots, wdToPath, dirty, forceFull, current, pc,
                         work, todo, tmp>>
          /\ listing' = listing \ {p}
          /\ adding' = adding \cup {q \in Children(p) : IsDir(q)}
      BY <1>2 DEF ListDir, worldVars, backendVars
    <2>2. AtRest' /\ ScanIsFresh'
      BY <2>1 DEF SideInv, AtRest, ScanIsFresh, InScope
    <2>3. WalkIsDirty'
      <3>1. PICK d \in dirty : Within(d, p)
        BY DEF SideInv, WalkIsDirty
      <3>2. ASSUME NEW c \in Children(p)
            PROVE  Within(d, c)
        <4>1. c \in Path /\ Len(c) > 1 /\ Parent(c) = p
          BY DEF Children
        <4>2. Within(p, c)
          BY <4>1, ParentIsPath
        <4>3. c \in Seq(Name) /\ p \in Seq(Name) /\ d \in Seq(Name)
          BY <4>1, Paths1 DEF TypeInv, TypeOK
        <4> QED BY <3>1, <4>2, <4>3, WithinTransitive
      <3> QED BY <2>1, <3>2 DEF SideInv, WalkIsDirty
    <2>4. AllInside'
      BY <2>1 DEF SideInv, AllInside, Inside, Syncing
    <2> QED BY <2>2, <2>3, <2>4 DEF SideInv
  <1> QED BY <1>1, <1>2, HandleEventSide DEF Reader

(***************************************************************************)
(* Create, as the disk, the queue and the watches stand still: what Drain  *)
(* takes out of the dirty set is reconciled, for compaction drops nothing, *)
(* or everything is scanned.  A step of it makes an entry right, leaves it *)
(* to the rest of the scan, or does not touch it.                          *)
(***************************************************************************)
Handled(r, x) ==
  \/ Entered(r, x)' = Kind(fs[x])
  \/ ScanOwed(x)'
  \/ Entered(r, x)' = Entered(r, x) /\ (ScanOwed(x) => ScanOwed(x)')

EntriesHandled == \A r \in roots, x \in Path : InScope(r, x) => Handled(r, x)

ScanReady == TypeInv /\ IsTree /\ roots = InitRoots /\ SideInv

LEMMA BeginSyncSide ==
  ASSUME ScanReady, BeginSync
  PROVE  SideInv' /\ EntriesHandled
  <1> USE DEF ScanReady
  <1>1. /\ UNCHANGED <<fs, queue, wdToPath, roots, current>>
        /\ pc = "idle" /\ adding' = {} /\ listing' = {}
        /\ dirty' = {} /\ tmp' = NoEntries
    BY DEF BeginSync, worldVars, Walking
  <1>2. WalkIsDirty'
    BY <1>1 DEF WalkIsDirty
  <1>3. \A d : Inside(d)' <=> Inside(d)
    BY <1>1 DEF Inside
  <1>4. CASE forceFull \/ NoCurrent
    <2>1. pc' = "fullScan" /\ todo' = roots /\ work' = {}
      BY <1>4 DEF BeginSync
    <2>2. EntriesHandled
      BY <1>1, <2>1 DEF EntriesHandled, Handled, ScanOwed, Syncing, InScope
    <2>3. AllInside'
      BY <1>1, <1>3, <2>1, FixedRootFacts, WithinReflexive DEF SideInv, AllInside, Inside
    <2>4. AtRest' /\ ScanIsFresh'
      BY <1>1, <2>1, FixedRootFacts DEF AtRest, ScanIsFresh, NoEntries
    <2> QED BY <1>2, <2>2, <2>3, <2>4 DEF SideInv
  <1>5. CASE ~(forceFull \/ NoCurrent)
    <2>1. pc' = "reconcile" /\ todo' = {} /\ work' = Compact(dirty) /\ forceFull' = FALSE
      BY <1>5 DEF BeginSync
    <2>2. EntriesHandled
      <3> SUFFICES ASSUME NEW r \in roots, NEW x \in Path, InScope(r, x)
                   PROVE  Handled(r, x)
        BY DEF EntriesHandled
      <3>1. Entered(r, x)' = Entered(r, x)
        BY <1>1, <2>1 DEF Entered
      <3>2. CASE \E d \in dirty : Within(d, x)
        <4>1. PICK d \in dirty : Within(d, x)
          BY <3>2
        <4>2. dirty \subseteq Seq(Name) /\ x \in Seq(Name)
          BY Paths1 DEF TypeInv, TypeOK
        <4>3. PICK k \in Compact(dirty) : Within(k, d)
          BY <4>2, CompactCovers
        <4>4. k \in Seq(Name) /\ d \in Seq(Name)
          BY <4>2, CompactIsSubset
        <4>5. Within(k, x)
          BY <4>1, <4>2, <4>3, <4>4, WithinTransitive
        <4> QED BY <2>1, <4>5 DEF Handled, ScanOwed, Syncing
      <3> QED BY <1>1, <1>5, <3>1, <3>2 DEF Handled, ScanOwed, Syncing
    <2>3. AllInside'
      BY <1>1, <1>3, <2>1, CompactIsSubset DEF SideInv, AllInside, Syncing
    <2>4. AtRest' /\ ScanIsFresh'
      BY <2>1 DEF AtRest, ScanIsFresh
    <2> QED BY <1>2, <2>2, <2>3, <2>4 DEF SideInv
  <1> QED BY <1>4, <1>5

(***************************************************************************)
(* reconcilePath finds the root of every dirty path, so it never returns   *)
(* without a scan; the entries it removes are all below the path it scans. *)
(***************************************************************************)
LEMMA ReconcilePathSide ==
  ASSUME ScanReady, NEW d \in work, ReconcilePath(d)
  PROVE  SideInv' /\ EntriesHandled
  <1> USE DEF ScanReady
  <1>1. /\ UNCHANGED <<fs, queue, wdToPath, roots, dirty, forceFull, adding, listing>>
        /\ pc = "reconcile" /\ work' = work \ {d}
    BY DEF ReconcilePath, worldVars, watcherVars
  <1>2. PICK r0 \in roots : Within(r0, d)
    BY <1>1 DEF SideInv, AllInside, Inside, Syncing
  <1>3. d \in Seq(Name) /\ r0 \in Seq(Name) /\ r0 \in AllRoots /\ r0 # NoPath
    BY FixedRootFacts, Paths1 DEF TypeInv, TypeOK
  <1>4. MatchRoot(roots, d) = r0
    BY <1>2, <1>3, FixedRootFacts
  <1>5. /\ pc' = "scan" /\ todo' = {d} /\ tmp' = NoEntries
        /\ current' = [current EXCEPT ![r0] =
             [p \in Path |-> IF Within(d, p) THEN Absent ELSE @[p]]]
    BY <1>3, <1>4 DEF ReconcilePath
  <1>6. \A r \in AllRoots, p \in Path :
           current'[r][p] = IF r = r0 /\ Within(d, p) THEN Absent ELSE current[r][p]
    BY <1>3, <1>5 DEF TypeInv, TypeOK
  <1>7. AllInside'
    <2>1. \A x : Inside(x)' <=> Inside(x)
      BY <1>1 DEF Inside
    <2> QED BY <1>1, <1>2, <1>5, <2>1 DEF SideInv, AllInside, Syncing, Inside
  <1>8. WalkIsDirty' /\ AtRest'
    BY <1>1, <1>5 DEF SideInv, WalkIsDirty, AtRest
  <1>9. ScanIsFresh'
    <2>1. ASSUME NEW p \in Path, Within(d, p), NEW r \in roots, InScope(r, p)
          PROVE  current'[r][p] = Absent
      <3>1. p \in Seq(Name) /\ r \in AllRoots
        BY Paths1, FixedRootFacts
      <3>2. Within(r0, p)
        BY <1>2, <1>3, <2>1, <3>1, WithinTransitive
      <3>3. r = r0
        BY <2>1, <3>1, <3>2, FixedRootFacts DEF InScope
      <3> QED BY <1>6, <2>1, <3>1, <3>3
    <2> QED BY <1>1, <1>5, <2>1 DEF ScanIsFresh, InScope, NoEntries
  <1>10. EntriesHandled
    <2> SUFFICES ASSUME NEW r \in roots, NEW x \in Path, InScope(r, x)
                 PROVE  Handled(r, x)
      BY DEF EntriesHandled
    <2>1. CASE Within(d, x)
      BY <1>5, <2>1 DEF Handled, ScanOwed, Syncing
    <2>2. CASE ~Within(d, x)
      <3>1. r \in AllRoots /\ tmp'[x] = Absent
        BY <1>5, FixedRootFacts DEF NoEntries
      <3>2. Entered(r, x)' = current'[r][x]
        BY <1>5, <3>1 DEF Entered, Merged
      <3>3. Entered(r, x)' = Entered(r, x)
        BY <1>1, <1>6, <2>2, <3>1, <3>2 DEF Entered
      <3>4. ScanOwed(x) => ScanOwed(x)'
        BY <1>1, <1>5, <2>2 DEF ScanOwed, Syncing, SideInv, AtRest
      <3> QED BY <3>3, <3>4 DEF Handled
    <2> QED BY <2>1, <2>2
  <1> QED BY <1>7, <1>8, <1>9, <1>10 DEF SideInv

(* The scan's visit of q records q, and hands what q covers to its entries.*)
LEMMA VisitFacts ==
  ASSUME TypeInv, NEW q \in todo, Visit(q)
  PROVE  LET new == IF IsDir(q) THEN Children(q) ELSE {}
         IN  /\ UNCHANGED <<fs, queue, wdToPath, roots, current, dirty, forceFull,
                            adding, listing, pc, work>>
             /\ pc \in {"scan", "fullScan"} /\ q \in Seq(Name)
             /\ todo' = (todo \ {q}) \cup new
             /\ \A c \in new : /\ c \in Path /\ c \in Seq(Name) /\ c # q
                               /\ Within(q, c) /\ Parent(c) = q
             /\ \A p \in Path :
                   tmp'[p] = IF p = q /\ q \notin roots THEN Kind(fs[p]) ELSE tmp[p]
  <1>1. /\ UNCHANGED <<fs, queue, wdToPath, roots, current, dirty, forceFull,
                       adding, listing, pc, work>>
        /\ pc \in {"scan", "fullScan"}
        /\ todo' = (todo \ {q}) \cup (IF IsDir(q) THEN Children(q) ELSE {})
    BY DEF Visit, worldVars, watcherVars
  <1>2. q \in Seq(Name)
    BY DEF TypeInv, TypeOK
  <1>3. ASSUME NEW c \in Children(q)
        PROVE  c \in Path /\ c \in Seq(Name) /\ c # q /\ Within(q, c) /\ Parent(c) = q
    <2>1. c \in Path /\ Len(c) > 1 /\ Parent(c) = q
      BY DEF Children
    <2> QED BY <2>1, ParentIsPath
  <1>4. \A p \in Path :
           tmp'[p] = IF p = q /\ q \notin roots THEN Kind(fs[p]) ELSE tmp[p]
    BY DEF Visit, At, TypeInv, TypeOK
  <1> QED BY <1>1, <1>2, <1>3, <1>4

LEMMA VisitKeepsFresh ==
  ASSUME TypeInv, ScanIsFresh, NEW q \in todo, Visit(q)
  PROVE  ScanIsFresh'
  <1> DEFINE new == IF IsDir(q) THEN Children(q) ELSE {}
  <1>1. /\ UNCHANGED <<roots, current, pc>> /\ pc \in {"scan", "fullScan"}
        /\ q \in Seq(Name)
        /\ todo' = (todo \ {q}) \cup new
        /\ \A c \in new : /\ c \in Path /\ c \in Seq(Name) /\ c # q
                          /\ Within(q, c) /\ Parent(c) = q
        /\ \A p \in Path :
              tmp'[p] = IF p = q /\ q \notin roots THEN Kind(fs[p]) ELSE tmp[p]
    BY VisitFacts
  <1> HIDE DEF new
  <1>2. /\ \A a, b \in todo : Within(a, b) => a = b
        /\ todo \subseteq Seq(Name)
    BY <1>1 DEF ScanIsFresh, TypeInv, TypeOK
  <1>3. ASSUME NEW y \in todo, NEW p \in Path, Within(y, p)
        PROVE  tmp[p] = Absent
               /\ (pc = "scan" => \A r \in roots : InScope(r, p) => current[r][p] = Absent)
    BY <1>1, <1>3 DEF ScanIsFresh
  <1>4. ASSUME NEW y \in todo', NEW p \in Path, Within(y, p)
        PROVE  p # q /\ \E z \in todo : Within(z, p)
    <2>0. p \in Seq(Name)
      BY Paths1
    <2>1. CASE y \in todo \ {q}
      BY <1>2, <1>4, <2>1
    <2>2. CASE y \in new
      <3>1. Within(q, p)
        BY <1>1, <1>4, <2>0, <2>2, WithinTransitive
      <3>2. p # q
        BY <1>1, <1>4, <2>0, <2>2, WithinAntisymmetric
      <3> QED BY <3>1, <3>2
    <2> QED BY <1>1, <2>1, <2>2
  <1>5. ASSUME NEW a \in todo', NEW b \in todo', Within(a, b)
        PROVE  a = b
    <2>1. CASE a \in todo \ {q} /\ b \in todo \ {q}
      BY <1>2, <1>5, <2>1
    <2>2. CASE a \in new /\ b \in todo \ {q}
      <3>1. Within(q, b)
        BY <1>1, <1>2, <1>5, <2>2, WithinTransitive
      <3> QED BY <1>2, <2>2, <3>1
    <2>3. CASE b \in new /\ a # b
      <3>1. a \in Seq(Name) /\ b \in Seq(Name) /\ Parent(b) = q
        BY <1>1, <1>2, <2>3
      <3>2. Within(a, q)
        BY <1>5, <2>3, <3>1, WithinParent
      <3>3. CASE a \in todo \ {q}
        BY <1>2, <3>2, <3>3
      <3>4. CASE a \in new
        BY <1>1, <3>2, <3>4, WithinAntisymmetric
      <3> QED BY <1>1, <3>3, <3>4
    <2> QED BY <1>1, <2>1, <2>2, <2>3
  <1>6. ASSUME NEW y \in todo', NEW p \in Path, Within(y, p)
        PROVE  /\ tmp'[p] = Absent
               /\ pc = "scan" => \A r \in roots : InScope(r, p) => current[r][p] = Absent
    BY <1>1, <1>3, <1>4, <1>6
  <1> QED BY <1>1, <1>5, <1>6 DEF ScanIsFresh, InScope

LEMMA VisitSide ==
  ASSUME ScanReady, NEW q \in todo, Visit(q)
  PROVE  SideInv' /\ EntriesHandled
  <1> USE DEF ScanReady
  <1> DEFINE new == IF IsDir(q) THEN Children(q) ELSE {}
  <1>1. /\ UNCHANGED <<fs, queue, wdToPath, roots, current, dirty, forceFull,
                       adding, listing, pc, work>>
        /\ pc \in {"scan", "fullScan"} /\ q \in Seq(Name)
        /\ todo' = (todo \ {q}) \cup new
        /\ \A c \in new : /\ c \in Path /\ c \in Seq(Name) /\ c # q
                          /\ Within(q, c) /\ Parent(c) = q
        /\ \A p \in Path :
              tmp'[p] = IF p = q /\ q \notin roots THEN Kind(fs[p]) ELSE tmp[p]
    BY VisitFacts
  <1>2. AllInside'
    <2>1. PICK r \in roots : Within(r, q)
      BY <1>1 DEF SideInv, AllInside, Inside, Syncing
    <2>2. \A c \in new : Inside(c)
      BY <1>1, <2>1, FixedRootFacts, WithinTransitive DEF Inside
    <2> HIDE DEF new
    <2> QED BY <1>1, <2>2 DEF SideInv, AllInside, Inside, Syncing
  <1>3. WalkIsDirty' /\ AtRest'
    BY <1>1 DEF SideInv, WalkIsDirty, AtRest
  <1>4. EntriesHandled
    <2> SUFFICES ASSUME NEW r \in roots, NEW x \in Path, InScope(r, x)
                 PROVE  Handled(r, x)
      BY DEF EntriesHandled
    <2>1. r \in Seq(Name) /\ x \in Seq(Name) /\ Within(r, x) /\ r # x
      BY FixedRootFacts, Paths1 DEF InScope
    <2>2. ASSUME Within(q, x)
          PROVE  tmp[x] = Absent /\ (pc = "scan" => current[r][x] = Absent)
      BY <1>1, <2>2 DEF SideInv, ScanIsFresh
    <2>3. CASE x = q
      <3>1. q \notin roots
        BY <2>1, <2>3, FixedRootFacts
      <3>2. tmp'[x] = Kind(fs[x]) /\ MatchRoot(roots, x) = r
        BY <1>1, <2>1, <2>3, <3>1, FixedRootFacts
      <3>3. Within(q, x)
        BY <2>1, <2>3, WithinReflexive
      <3> QED BY <1>1, <2>2, <3>2, <3>3 DEF Handled, Entered, Merged
    <2>4. CASE x # q
      <3>1. Entered(r, x)' = Entered(r, x)
        BY <1>1, <2>4 DEF Entered, Merged
      <3>2. CASE Within(q, x) /\ fs[x] # Absent
        <4> DEFINE c == StepTowards(q, x)
        <4>1. IsDir(q) /\ c \in Children(q) /\ Within(c, x)
          BY <1>1, <2>4, <3>2, TreeStep
        <4> HIDE DEF c
        <4> QED BY <1>1, <4>1 DEF Handled, ScanOwed, Syncing
      <3>3. CASE Within(q, x) /\ fs[x] = Absent
        <4>1. Entered(r, x) = Absent
          BY <1>1, <2>2, <3>3 DEF Entered, Merged
        <4>2. Kind(fs[x]) = Absent
          BY <3>3, SentinelAssumption DEF Kind
        <4> QED BY <3>1, <4>1, <4>2 DEF Handled
      <3>4. CASE ~Within(q, x)
        <4> HIDE DEF new
        <4>1. ScanOwed(x) => ScanOwed(x)'
          BY <1>1, <3>4 DEF ScanOwed, Syncing
        <4> QED BY <3>1, <4>1 DEF Handled
      <3> QED BY <3>2, <3>3, <3>4
    <2> QED BY <2>3, <2>4
  <1> QED BY <1>2, <1>3, <1>4, VisitKeepsFresh DEF SideInv

LEMMA EndScanSide ==
  ASSUME ScanReady, EndScan
  PROVE  SideInv' /\ EntriesHandled
  <1> USE DEF ScanReady
  <1>1. /\ UNCHANGED <<fs, queue, wdToPath, roots, dirty, forceFull, adding, listing,
                       work, todo>>
        /\ pc \in {"scan", "fullScan"} /\ todo = {} /\ pc' = "reconcile"
        /\ current' = [r \in AllRoots |-> [p \in Path |-> Merged(r, p)]]
    BY DEF EndScan, worldVars, watcherVars
  <1>2. \A r \in roots, p \in Path : Entered(r, p)' = Entered(r, p)
    BY <1>1, FixedRootFacts DEF Entered
  <1>3. \A p : ScanOwed(p) => ScanOwed(p)'
    BY <1>1 DEF ScanOwed, Syncing
  <1>4. EntriesHandled
    BY <1>2, <1>3 DEF EntriesHandled, Handled
  <1>5. AllInside'
    BY <1>1 DEF SideInv, AllInside, Inside, Syncing
  <1>6. WalkIsDirty' /\ AtRest' /\ ScanIsFresh'
    BY <1>1 DEF SideInv, WalkIsDirty, AtRest, ScanIsFresh
  <1> QED BY <1>4, <1>5, <1>6 DEF SideInv

(* The manifest is saved when nothing is left to reconcile.                *)
LEMMA SaveSide ==
  ASSUME ScanReady, NEW s \in Snapshot, SaveManifest(s) \/ Delete(s)
  PROVE  SideInv' /\ EntriesHandled
  <1> USE DEF ScanReady
  <1>1. /\ UNCHANGED <<fs, queue, wdToPath, roots, dirty, forceFull, adding, listing,
                       current, work, todo>>
        /\ pc \in {"idle", "reconcile"} /\ pc' = "idle" /\ work = {} /\ todo = {}
    BY DEF SaveManifest, Synced, Delete, worldVars, watcherVars, SideInv, AtRest
  <1>2. \A r \in roots, p \in Path : Entered(r, p)' = Entered(r, p)
    BY <1>1 DEF Entered
  <1>3. \A p : ScanOwed(p) => ScanOwed(p)'
    BY <1>1 DEF ScanOwed, Syncing, NoCurrent
  <1>4. EntriesHandled
    BY <1>2, <1>3 DEF EntriesHandled, Handled
  <1>5. AllInside'
    BY <1>1 DEF SideInv, AllInside, Inside, Syncing
  <1>6. WalkIsDirty' /\ AtRest' /\ ScanIsFresh'
    BY <1>1 DEF SideInv, WalkIsDirty, AtRest, ScanIsFresh
  <1> QED BY <1>4, <1>5, <1>6 DEF SideInv

(* Create up to a scan that fails, and Delete.                             *)
LEMMA CreateSide ==
  ASSUME ScanReady, ~ScanFails, Create \/ \E s \in Snapshot : Delete(s)
  PROVE  /\ SideInv' /\ EntriesHandled
         /\ UNCHANGED <<fs, queue, wdToPath, roots, reader>>
  <1>1. UNCHANGED <<fs, queue, wdToPath, roots, reader>>
    BY DEF Create, BeginSync, ReconcilePath, Visit, EndScan, SaveManifest, Delete,
           worldVars, watcherVars
  <1>2. SideInv' /\ EntriesHandled
    BY BeginSyncSide, ReconcilePathSide, VisitSide, EndScanSide, SaveSide DEF Create
  <1> QED BY <1>1, <1>2

(***************************************************************************)
(* A step of the disk, by a program or by a restore, leaves the watcher    *)
(* and the scan alone.                                                     *)
(***************************************************************************)
WatcherAndScanStay ==
  /\ UNCHANGED <<wdToPath, adding, listing, roots, dirty, forceFull, current, tmp>>
  /\ Syncing \/ Syncing' => UNCHANGED <<pc, work, todo>>

FileStep(p) ==
  \/ \E v \in Leaf : PutLeaf(p, v)
  \/ MakeDir(p)
  \/ RemoveLeaf(p)
  \/ RemoveDir(p)

LEMMA OthersStay ==
  ASSUME SideInv, WatcherAndScanStay, AtRest'
  PROVE  SideInv'
  <1>1. AllInside'
    BY DEF SideInv, AllInside, Inside, WatcherAndScanStay, Syncing
  <1>2. WalkIsDirty'
    BY DEF SideInv, WalkIsDirty, WatcherAndScanStay
  <1>3. ScanIsFresh'
    BY DEF SideInv, ScanIsFresh, InScope, WatcherAndScanStay, Syncing
  <1> QED BY <1>1, <1>2, <1>3 DEF SideInv

LEMMA ProgramTouchesDisk ==
  ASSUME SideInv, ProgramStep
  PROVE  WatcherAndScanStay /\ SideInv' /\ UNCHANGED <<roots, reader>>
  <1>1. WatcherAndScanStay /\ AtRest' /\ UNCHANGED <<roots, reader>>
    BY DEF ProgramStep, WatcherAndScanStay, watcherVars, backendVars, SideInv, AtRest
  <1> QED BY <1>1, OthersStay

(***************************************************************************)
(* A restore works on the disk as programs do.                             *)
(***************************************************************************)
LEMMA EnsureDirIsFileStep ==
  ASSUME NEW p, EnsureDir(p)
  PROVE  \E a \in Path : FileStep(a)
  BY DEF EnsureDir, FileStep

LEMMA RestoreIsFileStep ==
  ASSUME TypeInv, Restore
  PROVE  UNCHANGED <<fs, queue>> \/ \E p \in Path : FileStep(p)
  <1>1. ASSUME NEW r \in work, MakeRoot(r)
        PROVE  \E p \in Path : FileStep(p)
    BY <1>1, EnsureDirIsFileStep DEF MakeRoot
  <1>2. ASSUME NEW p \in Path, RemoveAll(p)
        PROVE  UNCHANGED <<fs, queue>> \/ FileStep(p)
    BY <1>2 DEF RemoveAll, FileStep
  <1>3. ASSUME NEW p \in todo, RestoreDir(p)
        PROVE  UNCHANGED <<fs, queue>> \/ \E a \in Path : FileStep(a)
    BY <1>3, EnsureDirIsFileStep DEF RestoreDir
  <1>4. ASSUME NEW p \in todo, RestoreLeaf(p)
        PROVE  \E a \in Path : FileStep(a)
    <2>1. p \in Path /\ Wanted(p) \in Leaf
      BY <1>4 DEF RestoreLeaf, TypeInv, LeavesToWrite
    <2> QED BY <1>4, <2>1, EnsureDirIsFileStep DEF RestoreLeaf, FileStep
  <1> QED BY <1>1, <1>2, <1>3, <1>4
          DEF Restore, BeginRestore, BeginRestoreRoot, NextPhase, RestoreFails,
              AdoptTarget, worldVars

LEMMA RestoreTouchesDisk ==
  ASSUME SideInv, Restore, ~AdoptTarget
  PROVE  WatcherAndScanStay /\ SideInv' /\ UNCHANGED <<roots, reader>>
  <1>1. WatcherAndScanStay /\ AtRest' /\ UNCHANGED <<roots, reader>>
    <2>1. CASE NextPhase
      <3>1. pc \in {"remove", "mkdirs", "leaves"} /\ pc' \in {"mkdirs", "leaves", "restore"}
            /\ (pc' = "restore" => todo' = {})
        BY <2>1 DEF NextPhase
      <3> QED BY <2>1, <3>1
              DEF NextPhase, RestoreUnchanged, watcherVars, WatcherAndScanStay, Syncing,
                  AtRest
    <2>2. CASE RestoreFails
      BY <2>2 DEF RestoreFails, watcherVars, WatcherAndScanStay, Syncing, AtRest, Restoring
    <2>3. CASE \E s \in Snapshot : BeginRestore(s)
      BY <2>3 DEF BeginRestore, watcherVars, WatcherAndScanStay, Syncing, AtRest, SideInv
    <2>4. CASE (\E r \in work : MakeRoot(r)) \/ (\E r \in work : BeginRestoreRoot(r))
      BY <2>4 DEF MakeRoot, BeginRestoreRoot, RestoreUnchanged, watcherVars,
                  WatcherAndScanStay, Syncing, AtRest, SideInv
    <2>5. CASE \/ \E p \in Path : RemoveAll(p)
               \/ \E p \in todo : RestoreDir(p)
               \/ \E p \in todo : RestoreLeaf(p)
      BY <2>5 DEF RemoveAll, RestoreDir, RestoreLeaf, RestoreUnchanged, watcherVars,
                  WatcherAndScanStay, Syncing, AtRest
    <2> QED BY <2>1, <2>2, <2>3, <2>4, <2>5 DEF Restore
  <1> QED BY <1>1, OthersStay

(* AdoptTarget drops what the watcher has collected, and touches no disk.  *)
LEMMA AdoptSide ==
  ASSUME SideInv, AdoptTarget
  PROVE  /\ SideInv'
         /\ UNCHANGED <<fs, queue, wdToPath, roots, reader>>
         /\ pc' = "idle" /\ current' = target.entries
  <1>1. /\ UNCHANGED <<fs, queue, wdToPath, roots, adding, listing, work, todo, reader>>
        /\ pc = "restore" /\ work = {} /\ pc' = "idle" /\ adding = {} /\ listing = {}
        /\ dirty' = {} /\ current' = target.entries
    BY DEF AdoptTarget, worldVars, Walking
  <1> QED BY <1>1 DEF SideInv, AllInside, Inside, Syncing, WalkIsDirty, AtRest, ScanIsFresh

LEMMA InitSide ==
  ASSUME Init
  PROVE  SideInv
  <1>1. AllInside
    <2> SUFFICES ASSUME NEW i \in Inode, wdToPath[i] # NoPath
                 PROVE  Inside(wdToPath[i])
      BY DEF Init, AllInside, Syncing
    <2>1. (\E p \in pathToWd : fs[p] = i)
          /\ wdToPath[i] = CHOOSE p \in pathToWd : fs[p] = i
      BY DEF Init
    <2>2. wdToPath[i] \in pathToWd /\ pathToWd \subseteq DirsWithin(InitRoots)
      BY <2>1 DEF Init
    <2> QED BY <2>2 DEF DirsWithin, Inside, Init
  <1>2. WalkIsDirty /\ AtRest /\ ScanIsFresh
    BY DEF Init, WalkIsDirty, AtRest, ScanIsFresh
  <1> QED BY <1>1, <1>2 DEF SideInv
-----------------------------------------------------------------------------
(***************************************************************************)
(* Part B: no change is lost.  Owed is Pending without what a restore has  *)
(* in work and todo, which are no promise to look at anything.             *)
(***************************************************************************)
Readable == Sound /\ "scanError" \notin Hazards

Owed(p) == ScanOwed(p) \/ \E n \in 1..Len(queue) : Within(EventPath(queue[n]), p)

NothingLost ==
  \A r \in roots, p \in Path : InScope(r, p) => Entered(r, p) = Kind(fs[p]) \/ Owed(p)

ChangeInv == NothingLost /\ SideInv

LostInv == WatchInv /\ ChangeInv

(* The roots of such a session.                                            *)
LEMMA RootFacts ==
  ASSUME WatchInv
  PROVE  /\ roots = InitRoots /\ roots \subseteq Path /\ roots \subseteq Seq(Name)
         /\ roots \subseteq AllRoots
         /\ \A a, b \in roots : Within(a, b) => a = b
         /\ \A r \in roots : IsDir(r) /\ fs[r] # Absent
         /\ \A p \in Seq(Name), r \in roots : Within(r, p) => MatchRoot(roots, p) = r
  <1>1. roots = InitRoots /\ \A r \in InitRoots : IsDir(r)
    BY DEF WatchInv, Quiet, RootsAreDirs
  <1>2. \A a, b \in roots : Within(a, b) => a = b
    BY <1>1, RootAssumption, CompactIsAntichain
  <1>3. roots \subseteq Path /\ roots \subseteq Seq(Name) /\ roots \subseteq AllRoots
    BY <1>1, Paths1
  <1>4. \A p \in Seq(Name), r \in roots : Within(r, p) => MatchRoot(roots, p) = r
    BY <1>2, <1>3, MatchRootIsOwner
  <1>5. \A r \in roots : IsDir(r) /\ fs[r] # Absent
    BY <1>1, DirIsPath
  <1> QED BY <1>1, <1>2, <1>3, <1>4, <1>5

(***************************************************************************)
(* A change of p by a program or by a restore: the watch on its directory  *)
(* sends a notice, or the directory is still to be walked, and then it is  *)
(* inside a dirty path or a queued mkdir event.                            *)
(***************************************************************************)
LEMMA ChangeIsOwed ==
  ASSUME WatchInv, WalkIsDirty, NEW p \in Path, NEW r \in roots, InScope(r, p),
         IsDir(Parent(p)), OnlyAppends, UNCHANGED <<wdToPath, dirty>>,
         Watched(Parent(p)) =>
           \E n \in 1..Len(queue'), kind \in {"change", "mkdir"} :
             queue'[n] = Notice(p, kind)
  PROVE  Owed(p)'
  <1> DEFINE d == Parent(p)
  <1>1. p \in Seq(Name) /\ r \in Seq(Name) /\ Within(r, p) /\ r # p
    BY RootFacts, Paths1 DEF InScope
  <1>2. Len(p) > 1 /\ Within(r, d)
    BY <1>1, WithinParent
  <1>3. d \in Path /\ d \in Seq(Name) /\ Within(d, p) /\ Append(d, p[Len(p)]) = p
        /\ IsDir(d)
    BY <1>2, ParentIsPath, Paths1
  <1>4. Watched(d) =>
          \E n \in 1..Len(queue'), kind \in {"change", "mkdir"} :
            queue'[n] = [wd |-> fs[d], name |-> p[Len(p)], kind |-> kind]
    BY DEF Notice
  <1> HIDE DEF d
  <1>5. WatchedAs(d) \/ WillBeWatched(d)
    BY <1>2, <1>3 DEF WatchInv, WorldInv, EveryDirWatched
  <1>6. CASE WatchedAs(d)
    <2>1. Watched(d)
      BY <1>3, <1>6, Paths1 DEF Watched, WatchedAs
    <2>2. PICK n \in 1..Len(queue'), kind \in {"change", "mkdir"} :
                  queue'[n] = [wd |-> fs[d], name |-> p[Len(p)], kind |-> kind]
      BY <1>4, <2>1
    <2>3. EventPath(queue[n])' = p
      BY <1>3, <1>6, <2>2 DEF EventPath, WatchedAs
    <2>4. Within(p, p)
      BY <1>1, WithinReflexive
    <2> QED BY <2>3, <2>4 DEF Owed, ScanOwed
  <1>7. CASE WillBeWatched(d)
    <2>1. CASE \E n \in 1..Len(queue) :
                  queue[n].kind = "mkdir" /\ Within(EventPath(queue[n]), d)
      <3>1. PICK n \in 1..Len(queue) :
                    queue[n].kind = "mkdir" /\ Within(EventPath(queue[n]), d)
        BY <2>1
      <3>2. EventPath(queue[n]) \in Seq(Name)
        BY <3>1, Paths1 DEF WatchInv, WorldInv, KnownEvents, EventPath, Event
      <3>3. Within(EventPath(queue[n]), p)
        BY <1>1, <1>3, <3>1, <3>2, WithinTransitive
      <3>4. n \in 1..Len(queue') /\ EventPath(queue[n])' = EventPath(queue[n])
        <4>1. Len(queue) \in Nat /\ Len(queue') \in Nat
          BY DEF WatchInv, TypeInv, TypeOK, OnlyAppends
        <4> QED BY <4>1 DEF OnlyAppends, EventPath
      <3> QED BY <3>3, <3>4 DEF Owed, ScanOwed
    <2>2. CASE \E a \in adding \cup listing : Within(a, d)
      <3>1. PICK a \in adding \cup listing, e \in dirty : Within(a, d) /\ Within(e, a)
        BY <2>2 DEF WalkIsDirty
      <3>2. a \in Seq(Name) /\ e \in Seq(Name)
        BY Paths1 DEF WatchInv, TypeInv, TypeOK
      <3>3. Within(e, d) /\ Within(e, p)
        BY <1>1, <1>3, <3>1, <3>2, WithinTransitive
      <3> QED BY <3>3 DEF Owed, ScanOwed
    <2> QED BY <1>7, <2>1, <2>2 DEF WillBeWatched
  <1> QED BY <1>5, <1>6, <1>7

(* What is owed stays owed while events are only added.                    *)
LEMMA OwedStays ==
  ASSUME WatchInv, OnlyAppends, NEW p, Owed(p),
         UNCHANGED <<wdToPath, dirty, forceFull, current>>,
         Syncing => Syncing' /\ work \cup todo \subseteq work' \cup todo',
         Syncing' => Syncing
  PROVE  Owed(p)'
  <1>1. Len(queue) \in Nat /\ Len(queue') \in Nat
    BY DEF WatchInv, TypeInv, TypeOK, OnlyAppends
  <1>2. \A n \in 1..Len(queue) :
          n \in 1..Len(queue') /\ EventPath(queue[n])' = EventPath(queue[n])
    BY <1>1 DEF OnlyAppends, EventPath
  <1> QED BY <1>2 DEF Owed, ScanOwed, NoCurrent

LEMMA ChangeKeepsAll ==
  ASSUME WatchInv, WalkIsDirty, NothingLost, WatcherAndScanStay, OnlyAppends,
         NEW p \in Path, \A x \in Path : x # p => fs'[x] = fs[x],
         Len(p) > 1 => IsDir(Parent(p)),
         Len(p) > 1 /\ Watched(Parent(p)) =>
           \E n \in 1..Len(queue'), kind \in {"change", "mkdir"} :
             queue'[n] = Notice(p, kind)
  PROVE  NothingLost'
  <1> SUFFICES ASSUME NEW r \in roots, NEW x \in Path, InScope(r, x)
               PROVE  Entered(r, x)' = Kind(fs'[x]) \/ Owed(x)'
    BY DEF NothingLost, WatcherAndScanStay, InScope
  <1>1. CASE x = p
    <2>1. r \in Seq(Name) /\ p \in Seq(Name)
      BY RootFacts, Paths1
    <2>2. Len(p) > 1
      BY <1>1, <2>1, WithinParent DEF InScope
    <2> QED BY <1>1, <2>2, ChangeIsOwed DEF WatcherAndScanStay
  <1>2. CASE x # p
    <2>1. fs'[x] = fs[x] /\ (Entered(r, x) = Kind(fs[x]) \/ Owed(x))
      BY <1>2 DEF NothingLost
    <2>2. Entered(r, x)' = Entered(r, x)
      BY DEF Entered, Merged, WatcherAndScanStay, Syncing
    <2>3. ASSUME Owed(x)
          PROVE  Owed(x)'
      <3>1. UNCHANGED <<wdToPath, dirty, forceFull, current>>
        BY DEF WatcherAndScanStay
      <3>2. Syncing => Syncing' /\ work \cup todo \subseteq work' \cup todo'
        BY DEF WatcherAndScanStay, Syncing
      <3>3. Syncing' => Syncing
        BY DEF WatcherAndScanStay, Syncing
      <3> QED BY <2>3, <3>1, <3>2, <3>3, OwedStays
    <2> QED BY <2>1, <2>2, <2>3
  <1> QED BY <1>1, <1>2

(* What is made or removed is noticed by a watch on its directory.         *)
LEMMA ParentIsDir ==
  ASSUME WatchInv, NEW p \in Path, fs[p] # Absent, Len(p) > 1
  PROVE  IsDir(Parent(p))
  BY ParentIsPath DEF WatchInv, WorldInv, IsTree

LEMMA FileStepIsNoticed ==
  ASSUME Sound, WatchInv, NEW p \in Path, FileStep(p)
  PROVE  /\ OnlyAppends
         /\ \A x \in Path : x # p => fs'[x] = fs[x]
         /\ Len(p) > 1 => IsDir(Parent(p))
         /\ Len(p) > 1 /\ Watched(Parent(p)) =>
              \E n \in 1..Len(queue'), kind \in {"change", "mkdir"} :
                queue'[n] = Notice(p, kind)
  <1>1. Ready
    BY DEF Ready, WatchInv, TypeInv, Sound
  <1>2. HasRoomNow
    BY <1>1, RoomNow DEF FileStep, PutLeaf, MakeDir, RemoveLeaf, RemoveDir
  <1>3. \A x \in Path : x # p => fs'[x] = fs[x]
    BY DEF FileStep, PutLeaf, MakeDir, RemoveLeaf, RemoveDir, WatchInv, TypeInv, TypeOK
  <1>4. Len(p) > 1 => IsDir(Parent(p))
    <2>1. CASE fs[p] # Absent
      BY <2>1, ParentIsDir
    <2>2. CASE HasParent(p)
      <3>1. PICK n \in Nat : n = Len(p)
        BY Paths1
      <3> QED BY <2>2, <3>1 DEF HasParent
    <2> QED BY <2>1, <2>2, SentinelAssumption, DirIsPath
            DEF FileStep, PutLeaf, MakeDir, RemoveLeaf, RemoveDir
  <1>5. CASE \E kind \in {"change", "mkdir"} : queue' = Notify(queue, p, kind)
    BY <1>1, <1>2, <1>3, <1>4, <1>5, NoticeKnown
  <1>6. CASE RemoveDir(p) /\ Watched(p)
    <2> DEFINE q == Notify(queue, p, "change")
               e == [wd |-> fs[p], name |-> NoName, kind |-> "ignored"]
    <2>1. /\ q \in Seq(Event)
          /\ Len(q) \in {Len(queue), Len(queue) + 1}
          /\ \A n \in 1..Len(queue) : q[n] = queue[n]
          /\ Len(p) > 1 /\ Watched(Parent(p)) => \E n \in 1..Len(q) : q[n] = Notice(p, "change")
      BY <1>1, <1>2, NotifyFacts DEF Ready, WorldInv, Quiet
    <2>2. queue' = Post(q, e)
      BY <1>6 DEF RemoveDir
    <2> HIDE DEF q
    <2>3. Len(queue) \in Nat /\ Len(q) \in Nat /\ Len(q) < MaxQueue
      BY <1>2, <2>1, BoundAssumption DEF WatchInv, TypeInv, TypeOK, HasRoomNow
    <2>4. e \in Event
      BY <1>6, DirIsPath DEF RemoveDir, Event
    <2>5. /\ queue' \in Seq(Event)
          /\ Len(queue') \in {Len(q), Len(q) + 1}
          /\ \A n \in 1..Len(q) : queue'[n] = q[n]
      BY <2>1, <2>2, <2>3, <2>4, PostFacts DEF WatchInv, Quiet
    <2>6. OnlyAppends
      BY <2>1, <2>3, <2>5 DEF OnlyAppends
    <2>7. Len(p) > 1 /\ Watched(Parent(p)) =>
            \E n \in 1..Len(queue') : queue'[n] = Notice(p, "change")
      BY <2>1, <2>3, <2>5
    <2> QED BY <1>3, <1>4, <2>6, <2>7
  <1> QED BY <1>5, <1>6 DEF FileStep, PutLeaf, MakeDir, RemoveLeaf, RemoveDir

LEMMA FileStepKeepsAll ==
  ASSUME Sound, WatchInv, ChangeInv, WatcherAndScanStay, NEW p \in Path, FileStep(p)
  PROVE  NothingLost'
  <1>1. /\ OnlyAppends
        /\ \A x \in Path : x # p => fs'[x] = fs[x]
        /\ Len(p) > 1 => IsDir(Parent(p))
        /\ Len(p) > 1 /\ Watched(Parent(p)) =>
             \E n \in 1..Len(queue'), kind \in {"change", "mkdir"} :
               queue'[n] = Notice(p, kind)
    BY FileStepIsNoticed
  <1>2. WalkIsDirty /\ NothingLost
    BY DEF ChangeInv, SideInv
  <1> QED BY <1>1, <1>2, ChangeKeepsAll

(* A step that leaves the disk alone as well.                              *)
LEMMA QuietStepKeepsAll ==
  ASSUME WatchInv, ChangeInv, WatcherAndScanStay, UNCHANGED <<fs, queue>>
  PROVE  NothingLost'
  <1> SUFFICES ASSUME NEW r \in roots, NEW x \in Path, InScope(r, x)
               PROVE  Entered(r, x)' = Kind(fs'[x]) \/ Owed(x)'
    BY DEF NothingLost, WatcherAndScanStay, InScope
  <1>1. Entered(r, x) = Kind(fs[x]) \/ Owed(x)
    BY DEF ChangeInv, NothingLost
  <1>2. Entered(r, x)' = Entered(r, x)
    BY DEF Entered, Merged, WatcherAndScanStay, Syncing
  <1>3. Owed(x) => Owed(x)'
    BY DEF Owed, ScanOwed, NoCurrent, EventPath, WatcherAndScanStay, Syncing
  <1> QED BY <1>1, <1>2, <1>3

LEMMA ProgramKeepsAll ==
  ASSUME Sound, WatchInv, ChangeInv, Program
  PROVE  ChangeInv'
  <1>1. PICK p \in Path : FileStep(p)
    BY DEF Program, Write, Mkdir, Unlink, Rmdir, RenameDir, Sound, FileStep
  <1>2. WatcherAndScanStay /\ SideInv'
    BY ProgramTouchesDisk
    DEF Program, Write, Mkdir, Unlink, Rmdir, RenameDir, ChangeInv
  <1> QED BY <1>1, <1>2, FileStepKeepsAll DEF ChangeInv

(***************************************************************************)
(* The reader: a change leaves the queue for the dirty set.                *)
(***************************************************************************)
LEMMA HandleEventKeepsAll ==
  ASSUME Sound, WatchInv, ChangeInv, HandleEvent
  PROVE  ChangeInv'
  <1> DEFINE e == queue[1]
  <1>1. /\ e \in Event /\ wdToPath[e.wd] \in Path
        /\ Len(queue) \in Nat \ {0} /\ Len(queue') = Len(queue) - 1
        /\ \A n \in 1..Len(queue') :
              queue'[n] = queue[n + 1] /\ n + 1 \in 1..Len(queue)
        /\ UNCHANGED <<fs, roots, forceFull>>
        /\ listing' = {}
        /\ dirty' = dirty \cup {EventPath(e)}
        /\ adding' = IF e.kind = "mkdir" THEN {EventPath(e)} ELSE {}
        /\ wdToPath' = IF e.kind = "ignored" THEN [wdToPath EXCEPT ![e.wd] = NoPath]
                                             ELSE wdToPath
        /\ \A n \in 1..Len(queue') : wdToPath'[queue'[n].wd] = wdToPath[queue'[n].wd]
    BY HandleEventFacts
  <1>2. UNCHANGED <<roots, current, pc, work, todo, tmp>>
    BY DEF HandleEvent, backendVars
  <1> HIDE DEF e
  <1>3. NothingLost'
    <2> SUFFICES ASSUME NEW r \in roots, NEW x \in Path, InScope(r, x)
                 PROVE  Entered(r, x)' = Kind(fs[x]) \/ Owed(x)'
      BY <1>1 DEF NothingLost, InScope
    <2>1. Entered(r, x) = Kind(fs[x]) \/ Owed(x)
      BY DEF ChangeInv, NothingLost
    <2>2. Entered(r, x)' = Entered(r, x)
      BY <1>2 DEF Entered, Merged
    <2>3. CASE \E n \in 1..Len(queue) : Within(EventPath(queue[n]), x)
      <3>1. PICK n \in 1..Len(queue) : Within(EventPath(queue[n]), x)
        BY <2>3
      <3>2. CASE n = 1
        BY <1>1, <3>1, <3>2 DEF Owed, ScanOwed, e
      <3>3. CASE n # 1
        <4>1. n - 1 \in 1..Len(queue') /\ queue'[n - 1] = queue[n]
          BY <1>1, <3>3
        <4>2. wdToPath'[queue'[n - 1].wd] = wdToPath[queue[n].wd]
          BY <1>1, <4>1
        <4>3. EventPath(queue[n - 1])' = EventPath(queue[n])
          BY <4>1, <4>2 DEF EventPath
        <4> QED BY <3>1, <4>1, <4>3 DEF Owed
      <3> QED BY <3>2, <3>3
    <2>4. CASE Owed(x) /\ ~ \E n \in 1..Len(queue) : Within(EventPath(queue[n]), x)
      BY <1>1, <1>2, <2>4 DEF Owed, ScanOwed, NoCurrent, Syncing
    <2> QED BY <2>1, <2>2, <2>3, <2>4
  <1>4. SideInv'
    BY HandleEventSide, RootFacts DEF ChangeInv, WatchInv
  <1> QED BY <1>3, <1>4 DEF ChangeInv

(* A walk touches only the watches and the walk itself.                    *)
LEMMA WalkKeepsAll ==
  ASSUME ChangeInv, UNCHANGED <<fs, queue, roots, dirty, forceFull, current, pc, work,
                                todo, tmp>>,
         \A n \in 1..Len(queue) : EventPath(queue[n])' = EventPath(queue[n])
  PROVE  NothingLost'
  <1>1. \A r, x : Entered(r, x)' = Entered(r, x)
    BY DEF Entered, Merged
  <1>2. \A x : Owed(x)' <=> Owed(x)
    BY DEF Owed, ScanOwed, NoCurrent, Syncing
  <1> QED BY <1>1, <1>2 DEF ChangeInv, NothingLost, InScope

LEMMA ReaderKeepsAll ==
  ASSUME Sound, WatchInv, ChangeInv, Reader
  PROVE  ChangeInv'
  <1>1. ASSUME NEW p \in adding, AddWatch(p)
        PROVE  NothingLost'
    <2>1. UNCHANGED <<fs, queue, roots, dirty, forceFull, current, pc, work, todo, tmp>>
      BY <1>1 DEF AddWatch, worldVars, backendVars
    <2>2. \A n \in 1..Len(queue) : EventPath(queue[n])' = EventPath(queue[n])
      BY <1>1, <2>1, AddWatchFacts DEF EventPath
    <2> QED BY <2>1, <2>2, WalkKeepsAll
  <1>2. ASSUME NEW p \in listing, ListDir(p)
        PROVE  NothingLost'
    <2>1. UNCHANGED <<fs, queue, roots, wdToPath, dirty, forceFull, current, pc, work,
                      todo, tmp>>
      BY <1>2 DEF ListDir, worldVars, backendVars
    <2>2. \A n \in 1..Len(queue) : EventPath(queue[n])' = EventPath(queue[n])
      BY <2>1 DEF EventPath
    <2> QED BY <2>1, <2>2, WalkKeepsAll
  <1>3. SideInv'
    BY ReaderSide, RootFacts DEF ChangeInv, WatchInv
  <1> QED BY <1>1, <1>2, <1>3, HandleEventKeepsAll DEF Reader, ChangeInv

LEMMA CreateKeepsAll ==
  ASSUME Readable, WatchInv, ChangeInv, Create \/ \E s \in Snapshot : Delete(s)
  PROVE  ChangeInv'
  <1>1. ~ScanFails
    BY RootFacts DEF ScanFails, Readable, At
  <1>2. ScanReady
    BY RootFacts DEF ScanReady, WatchInv, WorldInv, ChangeInv
  <1>3. SideInv' /\ EntriesHandled /\ UNCHANGED <<fs, queue, wdToPath, roots>>
    BY <1>1, <1>2, CreateSide
  <1>4. NothingLost'
    <2> SUFFICES ASSUME NEW r \in roots, NEW x \in Path, InScope(r, x)
                 PROVE  Entered(r, x)' = Kind(fs[x]) \/ Owed(x)'
      BY <1>3 DEF NothingLost, InScope
    <2>1. Handled(r, x) /\ (Entered(r, x) = Kind(fs[x]) \/ Owed(x))
      BY <1>3 DEF EntriesHandled, ChangeInv, NothingLost
    <2>2. \A n \in 1..Len(queue) : EventPath(queue[n])' = EventPath(queue[n])
      BY <1>3 DEF EventPath
    <2> QED BY <1>3, <2>1, <2>2 DEF Handled, Owed
  <1> QED BY <1>3, <1>4 DEF ChangeInv

(* A restore works on the disk as programs do.                             *)
LEMMA RestoreKeepsAll ==
  ASSUME Sound, WatchInv, ChangeInv, Restore, ~AdoptTarget
  PROVE  ChangeInv'
  <1>1. WatcherAndScanStay /\ SideInv'
    BY RestoreTouchesDisk DEF ChangeInv
  <1>2. UNCHANGED <<fs, queue>> \/ \E p \in Path : FileStep(p)
    BY RestoreIsFileStep DEF WatchInv
  <1>3. NothingLost'
    BY <1>1, <1>2, FileStepKeepsAll, QuietStepKeepsAll
  <1> QED BY <1>1, <1>3 DEF ChangeInv

(* Adopting a manifest that is the disk loses nothing either.              *)
LEMMA AdoptKeepsAll ==
  ASSUME WatchInv, ChangeInv, AdoptTarget, MatchesDisk(target), target.roots = roots
  PROVE  ChangeInv'
  <1>1. /\ SideInv' /\ UNCHANGED <<fs, roots>>
        /\ pc' = "idle" /\ current' = target.entries
    BY AdoptSide DEF ChangeInv
  <1>2. NothingLost'
    BY <1>1 DEF NothingLost, InScope, Entered, MatchesDisk
  <1> QED BY <1>1, <1>2 DEF ChangeInv

LEMMA SnapshotStepKeepsAll ==
  ASSUME Readable, LostInv, [SnapshotOnly \/ \E s \in Snapshot : Delete(s)]_vars
  PROVE  LostInv'
  <1>1. Sound /\ WatchInv /\ ChangeInv
    BY DEF Readable, LostInv
  <1>2. WatchInv'
    <2>1. [Next]_vars
      BY DEF SnapshotOnly, Next, Backend
    <2> QED BY <1>1, <2>1, StepWatch
  <1>3. CASE UNCHANGED vars
    <2>1. WatcherAndScanStay /\ AtRest' /\ UNCHANGED <<fs, queue>>
      BY <1>1, <1>3 DEF vars, worldVars, watcherVars, backendVars, WatcherAndScanStay,
                        ChangeInv, SideInv, AtRest
    <2> QED BY <1>1, <1>2, <2>1, QuietStepKeepsAll, OthersStay DEF LostInv, ChangeInv
  <1>4. CASE ReaderDies
    BY <1>1, <1>4 DEF ReaderDies, Sound
  <1>5. CASE Program \/ Reader \/ Create \/ \E s \in Snapshot : Delete(s)
    BY <1>1, <1>2, <1>5, ProgramKeepsAll, ReaderKeepsAll, CreateKeepsAll DEF LostInv
  <1> QED BY <1>3, <1>4, <1>5 DEF SnapshotOnly

LEMMA StepKeepsAll ==
  ASSUME Readable, LostInv, [Next]_vars,
         AdoptTarget => MatchesDisk(target) /\ target.roots = roots
  PROVE  LostInv'
  <1>1. CASE Extend
    BY <1>1 DEF Extend, EndExtendRoots, AddRootsFails, Readable, Sound, LostInv, WatchInv,
                Quiet
  <1>2. CASE Restore
    <2>1. Sound /\ WatchInv /\ ChangeInv
      BY DEF Readable, LostInv
    <2> QED BY <1>2, <2>1, StepWatch, RestoreKeepsAll, AdoptKeepsAll DEF LostInv
  <1>3. CASE [SnapshotOnly \/ \E s \in Snapshot : Delete(s)]_vars
    BY <1>3, SnapshotStepKeepsAll
  <1> QED BY <1>1, <1>2, <1>3 DEF Next, Backend, SnapshotOnly

LEMMA InitKeepsAll ==
  ASSUME Readable, Init
  PROVE  LostInv
  <1>1. WatchInv
    BY InitWatch DEF Readable
  <1>2. NothingLost
    BY DEF Init, NothingLost, Owed, ScanOwed, NoCurrent, Syncing, NoEntries
  <1> QED BY <1>1, <1>2, InitSide DEF LostInv, ChangeInv

LEMMA NothingLostIsEnough ==
  ASSUME LostInv
  PROVE  NoLostChange
  BY DEF LostInv, ChangeInv, NothingLost, NoLostChange, Owed, ScanOwed, Pending, Syncing

(***************************************************************************)
(* No change is ever lost in a session that takes snapshots: programs may  *)
(* write at any moment, also while Create drains, walks and merges, and    *)
(* the reader may lag as far behind as the kernel's queue allows.          *)
(***************************************************************************)
THEOREM SnapshotsLoseNothing ==
  ASSUME Readable
  PROVE  SnapshotOnlySpec => []NoLostChange
  <1>1. Init => LostInv
    BY InitKeepsAll
  <1>2. LostInv /\ [SnapshotOnly]_vars => LostInv'
    BY SnapshotStepKeepsAll
  <1>3. LostInv => NoLostChange
    BY NothingLostIsEnough
  <1> QED BY <1>1, <1>2, <1>3, PTL DEF SnapshotOnlySpec

(* When nothing is left to handle, `current' is the disk.                  *)
LEMMA QuietIsExact ==
  ASSUME LostInv, Synced, queue = << >>, dirty = {}, ~forceFull
  PROVE  \A r \in roots, x \in Path : InScope(r, x) => current[r][x] = Kind(fs[x])
  <1>1. pc = "reconcile" /\ work = {} /\ todo = {}
    BY DEF Synced, LostInv, ChangeInv, SideInv, AtRest
  <1>2. \A x : ~Owed(x)
    BY <1>1 DEF Owed, ScanOwed, Syncing
  <1> QED BY <1>1, <1>2 DEF LostInv, ChangeInv, NothingLost, Entered

(***************************************************************************)
(* What an incremental snapshot has to offer against one that rereads the  *)
(* disk: when nothing is left to handle, the manifest is the disk.         *)
(***************************************************************************)
THEOREM QuietSnapshotsAreExact ==
  ASSUME Readable
  PROVE  SnapshotOnlySpec => QuietSnapshotIsExact
  <1>1. Init => LostInv
    BY InitKeepsAll
  <1>2. LostInv /\ [SnapshotOnly]_vars => LostInv'
    BY SnapshotStepKeepsAll
  <1>3. LostInv /\ [SnapshotOnly]_vars =>
          [\A s \in Snapshot :
             SaveManifest(s) /\ queue = << >> /\ dirty = {} /\ ~forceFull
               => MatchesDisk(manifests'[s])]_vars
    <2> SUFFICES ASSUME LostInv, NEW s \in Snapshot, SaveManifest(s),
                        queue = << >>, dirty = {}, ~forceFull
                 PROVE  MatchesDisk(manifests'[s])
      OBVIOUS
    <2>1. manifests'[s].roots = roots /\ manifests'[s].entries = current
      BY DEF SaveManifest, LostInv, WatchInv, TypeInv, TypeOK
    <2>2. \A r \in roots, x \in Path : InScope(r, x) => current[r][x] = Kind(fs[x])
      BY QuietIsExact DEF SaveManifest
    <2> QED BY <2>1, <2>2 DEF MatchesDisk, InScope
  <1> QED BY <1>1, <1>2, <1>3, PTL DEF SnapshotOnlySpec, QuietSnapshotIsExact
-----------------------------------------------------------------------------
(***************************************************************************)
(* Part C: restores.                                                       *)
(* A restore that ends without an error is exact, whatever happened before *)
(* it: lost events, failed scans and restores, a dead reader, a removed    *)
(* root, renames, joined roots.  Only while it runs must programs leave    *)
(* the disk alone.                                                         *)
(***************************************************************************)
Undisturbed == "restoreRace" \notin Hazards

(* A path below a root, as a manifest and the restore of the root see it.  *)
Below(r, p) == p # r /\ Within(r, p)

Implied(m, r, p) == m.entries[r][p] = Absent /\ IsDir(p) /\ HoldsSomeOf(m, r, p)

(***************************************************************************)
(* Every entry is filed under the root that contains its path, and no root *)
(* of a manifest contains another: restoring one root does not touch what  *)
(* another one has got back.                                               *)
(***************************************************************************)
Keyed(entries) ==
  \A r \in AllRoots, p \in Path : entries[r][p] # Absent => Below(r, p)

GoodManifest(m) == Keyed(m.entries) /\ \A a, b \in m.roots : Within(a, b) => a = b

ScanIsKeyed ==
  \A p \in Path : tmp[p] # Absent => p \notin roots /\ pc \in {"scan", "fullScan"}

KeysInv ==
  /\ Keyed(current)
  /\ \A s \in Snapshot : manifests[s] # None => GoodManifest(manifests[s])
  /\ Restoring => GoodManifest(target)
  /\ ScanIsKeyed

(***************************************************************************)
(* How far the restore has come.  A root is done when it is as the         *)
(* manifest describes it; the one at work has lost what the manifest lacks *)
(* once "remove" is over, has every directory once "mkdirs" is over, and   *)
(* every file once "leaves" is.                                            *)
(***************************************************************************)
InRoot == pc \in {"remove", "mkdirs", "leaves"}

PutBack(r) ==
  \A p \in Path : Below(r, p) =>
    target.entries[r][p] = Kind(fs[p]) \/ Implied(target, r, p)

RootsPutBack ==
  Restoring =>
    /\ work \subseteq target.roots
    /\ \A r \in target.roots \ work : r = restoring \/ PutBack(r)

RootAtWork ==
  IF InRoot THEN restoring \in target.roots \ work /\ fs[restoring] # Absent
            ELSE restoring = NoPath

ExtrasFound ==
  pc = "remove" =>
    \A p \in Path : Below(restoring, p) /\ fs[p] # Absent /\ Wanted(p) = Absent =>
      \E q \in todo : Within(q, p)

DirsFound == pc = "mkdirs" => \A p \in todo : p \in Path /\ Wanted(p) = Dir

SoFar(p) ==
  /\ Wanted(p) = Absent => fs[p] = Absent \/ Implied(target, restoring, p)
  /\ Wanted(p) = Dir => IsDir(p) \/ (pc = "mkdirs" /\ p \in todo)
  /\ pc = "leaves" /\ Wanted(p) \in Leaf => fs[p] = Wanted(p) \/ p \in todo

RootSoFar ==
  pc \in {"mkdirs", "leaves"} => \A p \in Path : Below(restoring, p) => SoFar(p)

Progress == RootsPutBack /\ RootAtWork /\ ExtrasFound /\ DirsFound /\ RootSoFar

RestoreInv ==
  TypeInv /\ DisjointInv /\ IsTree /\ RemovesInsideRoot /\ KeysInv /\ Progress

(* The disk stays a tree under everything.                                 *)
LEMMA FileStepTree ==
  ASSUME TypeOK, IsTree, NEW p \in Path, FileStep(p)
  PROVE  IsTree'
  BY PutLeafTree, MakeDirTree, RemoveLeafTree, RemoveDirTree DEF FileStep

LEMMA StepTree ==
  ASSUME TypeInv, IsTree, [Next]_vars
  PROVE  IsTree'
  <1>1. CASE UNCHANGED fs
    BY <1>1, DirBefore DEF IsTree
  <1>2. CASE \E p \in Path : FileStep(p)
    BY <1>2, FileStepTree DEF TypeInv
  <1>3. CASE Program
    BY <1>2, <1>3, RenameDirTree DEF Program, Write, Mkdir, Unlink, Rmdir, FileStep, TypeInv
  <1>4. CASE Restore
    BY <1>1, <1>2, <1>4, RestoreIsFileStep
  <1>5. CASE Reader \/ ReaderDies
    BY <1>1, <1>5 DEF Reader, ReaderDies, HandleEvent, AddWatch, ListDir, worldVars
  <1>6. CASE Extend
    BY <1>1, <1>6 DEF Extend, BeginExtendRoots, EndExtendRoots, AddRootsFails, worldVars
  <1>7. CASE Create \/ \E s \in Snapshot : Delete(s)
    BY <1>1, <1>7 DEF Create, BeginSync, ReconcilePath, Visit, EndScan, ScanFails,
                      SaveManifest, Delete, worldVars
  <1> QED BY <1>1, <1>3, <1>4, <1>5, <1>6, <1>7 DEF Next, Backend, vars, worldVars

(* While a restore runs only the restore and the reader take steps.        *)
LEMMA WhoRuns ==
  ASSUME Undisturbed, [Next]_vars, ~Restore
  PROVE  \/ UNCHANGED <<fs, roots, pc, work, todo, tmp, current, target, restoring, manifests>>
         \/ /\ ~Restoring /\ ~Restoring' /\ ~InRoot /\ ~InRoot'
            /\ UNCHANGED <<target, restoring>>
  <1>1. CASE Program
    <2>1. ProgramStep
      BY <1>1 DEF Program, Write, Mkdir, Unlink, Rmdir, RenameDir
    <2> QED BY <2>1 DEF ProgramStep, backendVars, Restoring, InRoot, Undisturbed
  <1>2. CASE Reader \/ ReaderDies
    BY <1>2 DEF Reader, ReaderDies, HandleEvent, AddWatch, ListDir, worldVars, backendVars
  <1>3. CASE Extend
    BY <1>3 DEF Extend, BeginExtendRoots, EndExtendRoots, AddRootsFails, Restoring, InRoot
  <1>4. CASE Create \/ \E s \in Snapshot : Delete(s)
    BY <1>4 DEF Create, BeginSync, ReconcilePath, Visit, EndScan, ScanFails, SaveManifest,
                Synced, Delete, Restoring, InRoot
  <1>5. CASE UNCHANGED vars
    BY <1>5 DEF vars, worldVars, backendVars
  <1> QED BY <1>1, <1>2, <1>3, <1>4, <1>5 DEF Next, Backend

LEMMA StepRemoves ==
  ASSUME Undisturbed, RemovesInsideRoot, [Next]_vars
  PROVE  RemovesInsideRoot'
  <1>1. CASE Restore
    <2>1. ASSUME NEW r \in work, BeginRestoreRoot(r)
          PROVE  RemovesInsideRoot'
      BY <2>1 DEF BeginRestoreRoot, RemovesInsideRoot
    <2>2. ASSUME NEW p \in Path, RemoveAll(p)
          PROVE  RemovesInsideRoot'
      BY <2>2 DEF RemoveAll, RemovesInsideRoot
    <2>3. ASSUME pc' # "remove"
          PROVE  RemovesInsideRoot'
      BY <2>3 DEF RemovesInsideRoot
    <2>4. CASE NextPhase
      BY <2>4, <2>3 DEF NextPhase
    <2> QED BY <1>1, <2>1, <2>2, <2>3, <2>4
            DEF Restore, BeginRestore, MakeRoot, RestoreDir, RestoreLeaf, RestoreFails,
                AdoptTarget
  <1>2. CASE ~Restore
    BY <1>2, WhoRuns DEF RemovesInsideRoot, InRoot
  <1> QED BY <1>1, <1>2

(***************************************************************************)
(* Entries are made by EndScan, under the root matchRoot finds.            *)
(***************************************************************************)
LEMMA MatchRootCovers ==
  ASSUME NEW R, R \subseteq Seq(Name), \A a, b \in R : Within(a, b) => a = b,
         NEW p \in Seq(Name), MatchRoot(R, p) # NoPath
  PROVE  MatchRoot(R, p) \in R /\ Within(MatchRoot(R, p), p)
  BY MatchRootIsRoot, MatchRootIsOwner

LEMMA StepKeys ==
  ASSUME Undisturbed, TypeInv, DisjointInv, KeysInv, [Next]_vars
  PROVE  KeysInv'
  <1>1. CASE UNCHANGED <<roots, pc, tmp, current, target, manifests>>
    BY <1>1 DEF KeysInv, ScanIsKeyed, Keyed, GoodManifest, Restoring, Below
  <1>2. ASSUME UNCHANGED <<current, tmp, target, manifests>>,
               pc \notin {"scan", "fullScan"}, ~Restoring'
        PROVE  KeysInv'
    BY <1>2 DEF KeysInv, ScanIsKeyed
  <1>3. ASSUME NEW d \in work, ReconcilePath(d)
        PROVE  KeysInv'
    <2>1. /\ UNCHANGED <<roots, target, manifests>> /\ ~Restoring'
          /\ pc = "reconcile"
      BY <1>3 DEF ReconcilePath, Restoring
    <2>2. \A r \in AllRoots, p \in Path : current'[r][p] \in {current[r][p], Absent}
      BY <1>3 DEF ReconcilePath, TypeInv, TypeOK
    <2>3. \A p \in Path : tmp'[p] = Absent
      BY <1>3, <2>1 DEF ReconcilePath, NoEntries, KeysInv, ScanIsKeyed
    <2> QED BY <2>1, <2>2, <2>3 DEF KeysInv, ScanIsKeyed, Keyed
  <1>4. ASSUME NEW q \in todo, Visit(q)
        PROVE  KeysInv'
    BY <1>4 DEF Visit, KeysInv, ScanIsKeyed, Restoring, TypeInv, TypeOK
  <1>5. CASE EndScan
    <2>1. /\ UNCHANGED <<roots, target, manifests>> /\ ~Restoring' /\ tmp' = NoEntries
          /\ \A r \in AllRoots, p \in Path : current'[r][p] = Merged(r, p)
      BY <1>5 DEF EndScan, Restoring
    <2>2. ASSUME NEW r \in AllRoots, NEW p \in Path, Merged(r, p) # Absent
          PROVE  Below(r, p)
      <3>1. CASE tmp[p] # Absent /\ r = MatchRoot(roots, p)
        <4>1. roots \subseteq Seq(Name) /\ p \in Seq(Name) /\ r # NoPath
          BY Paths1 DEF TypeInv, TypeOK
        <4>2. r \in roots /\ Within(r, p)
          BY <3>1, <4>1, MatchRootCovers DEF DisjointInv, RootsDisjoint
        <4>3. p \notin roots
          BY <3>1 DEF KeysInv, ScanIsKeyed
        <4> QED BY <4>2, <4>3 DEF Below
      <3>2. CASE ~(tmp[p] # Absent /\ r = MatchRoot(roots, p))
        BY <2>2, <3>2 DEF Merged, KeysInv, Keyed
      <3> QED BY <3>1, <3>2
    <2> QED BY <2>1, <2>2 DEF KeysInv, ScanIsKeyed, Keyed, NoEntries
  <1>6. CASE ScanFails
    BY <1>6 DEF ScanFails, KeysInv, ScanIsKeyed, NoEntries, Restoring
  <1>7. ASSUME NEW s \in Snapshot, SaveManifest(s)
        PROVE  KeysInv'
    <2>1. /\ UNCHANGED <<roots, current, tmp, target>> /\ ~Restoring' /\ pc = "reconcile"
          /\ \A t \in Snapshot :
                manifests'[t] = IF t = s THEN [roots |-> roots, entries |-> current]
                                         ELSE manifests[t]
      BY <1>7 DEF SaveManifest, Synced, Restoring, TypeInv, TypeOK
    <2> QED BY <2>1 DEF KeysInv, ScanIsKeyed, GoodManifest, DisjointInv, RootsDisjoint
  <1>8. ASSUME NEW s \in Snapshot, Delete(s)
        PROVE  KeysInv'
    BY <1>8 DEF Delete, KeysInv, ScanIsKeyed, Restoring, TypeInv, TypeOK
  <1>9. CASE BeginSync
    BY <1>9 DEF BeginSync, KeysInv, ScanIsKeyed, NoEntries, Restoring
  <1>10. ASSUME NEW s \in Snapshot, BeginRestore(s)
         PROVE  KeysInv'
    BY <1>10 DEF BeginRestore, KeysInv, ScanIsKeyed
  <1>11. CASE AdoptTarget
    <2>1. /\ UNCHANGED <<roots, tmp, manifests>> /\ ~Restoring' /\ pc = "restore"
          /\ current' = target.entries
      BY <1>11 DEF AdoptTarget, Restoring
    <2> QED BY <2>1 DEF KeysInv, ScanIsKeyed, GoodManifest, Restoring
  <1>12. CASE Restore /\ ~AdoptTarget /\ ~ \E s \in Snapshot : BeginRestore(s)
    <2>1. /\ UNCHANGED <<roots, current, tmp, manifests>> /\ Restoring
          /\ (UNCHANGED target \/ ~Restoring')
      BY <1>12 DEF Restore, MakeRoot, BeginRestoreRoot, RemoveAll, RestoreDir, RestoreLeaf,
                   NextPhase, RestoreFails, RestoreUnchanged, Restoring
    <2>2. pc \notin {"scan", "fullScan"}
      BY <2>1 DEF Restoring
    <2> QED BY <2>1, <2>2 DEF KeysInv, ScanIsKeyed, Keyed, GoodManifest, Below
  <1>13. CASE Extend
    BY <1>2, <1>13 DEF Extend, BeginExtendRoots, EndExtendRoots, AddRootsFails, Restoring
  <1>14. CASE Program \/ Reader \/ ReaderDies \/ UNCHANGED vars
    <2>1. CASE Program
      <3>1. ProgramStep
        BY <2>1 DEF Program, Write, Mkdir, Unlink, Rmdir, RenameDir
      <3> QED BY <1>1, <3>1 DEF ProgramStep, backendVars
    <2> QED BY <1>1, <1>14, <2>1
            DEF Reader, ReaderDies, HandleEvent, AddWatch, ListDir, backendVars, vars
  <1> QED BY <1>3, <1>4, <1>5, <1>6, <1>7, <1>8, <1>9, <1>10, <1>11, <1>12, <1>13, <1>14
          DEF Next, Backend, Create

(***************************************************************************)
(* What is done at one root leaves every other root as it is.              *)
(***************************************************************************)
LEMMA OtherRootStays ==
  ASSUME GoodManifest(target), target.roots \subseteq Path, UNCHANGED target,
         NEW r \in target.roots, NEW p \in Path, Within(r, p),
         \A x \in Path : x # p => fs'[x] = fs[x],
         NEW s \in target.roots, s # r, PutBack(s)
  PROVE  PutBack(s)'
  <1>1. ~Within(s, p)
    <2>1. r \in Seq(Name) /\ s \in Seq(Name) /\ p \in Seq(Name)
      BY Paths1
    <2> QED BY <2>1, WithinComparable DEF GoodManifest
  <1>2. \A x \in Path : Below(s, x) => fs'[x] = fs[x]
    BY <1>1 DEF Below
  <1>3. \A x \in Path : Below(s, x) =>
           (target.entries[s][x] = Kind(fs'[x]) \/ Implied(target, s, x)')
    BY <1>2, DirBefore DEF PutBack, Implied, HoldsSomeOf
  <1> QED BY <1>3 DEF PutBack

(* The same when no path below a root changes at all.                      *)
LEMMA DoneRootStays ==
  ASSUME UNCHANGED target, NEW s, PutBack(s),
         \A x \in Path : Below(s, x) => fs'[x] = fs[x]
  PROVE  PutBack(s)'
  <1>1. \A x \in Path : Below(s, x) =>
           (target.entries[s][x] = Kind(fs'[x]) \/ Implied(target, s, x)')
    BY DirBefore DEF PutBack, Implied, HoldsSomeOf
  <1> QED BY <1>1 DEF PutBack

(* A directory that MkdirAll has to make lies below the root at work.      *)
LEMMA MadeBelowRoot ==
  ASSUME IsTree, NEW r \in Path, fs[r] # Absent, NEW p \in Path, Within(r, p),
         NEW a \in Path, Within(a, p), fs[a] = Absent
  PROVE  Below(r, a)
  <1>1. r \in Seq(Name) /\ p \in Seq(Name) /\ a \in Seq(Name)
    BY Paths1
  <1>2. a # r
    OBVIOUS
  <1>3. ~Within(a, r)
    BY <1>2, DirIsPath DEF IsTree
  <1> QED BY <1>1, <1>2, <1>3, WithinComparable DEF Below

LEMMA TargetFacts ==
  ASSUME RestoreInv, Restoring
  PROVE  /\ target.roots \subseteq Path /\ target.roots \subseteq AllRoots
         /\ GoodManifest(target)
         /\ \A r \in AllRoots, p \in Path : target.entries[r][p] \in Leaf \cup {Dir, Absent}
  <1>1. target \in Manifest
    BY DEF RestoreInv, TypeInv, HasTarget
  <1>2. target.roots \subseteq AllRoots /\ target.entries \in [AllRoots -> [Path -> Entry]]
    BY <1>1 DEF Manifest
  <1>3. GoodManifest(target)
    BY DEF RestoreInv, KeysInv
  <1> QED BY <1>2, <1>3, Paths1 DEF Entry

LEMMA MakeRootProgress ==
  ASSUME RestoreInv, NEW r \in work, MakeRoot(r)
  PROVE  Progress'
  <1>1. /\ pc = "restore" /\ UNCHANGED <<pc, work, todo, restoring, target>>
    BY DEF MakeRoot, RestoreUnchanged
  <1>2. PICK a \in Path : Within(a, r) /\ MakeDir(a)
    BY DEF MakeRoot, EnsureDir
  <1>3. /\ \A x \in Path : x # a => fs'[x] = fs[x]
        /\ fs[a] = Absent
    BY <1>2 DEF MakeDir, RestoreInv, TypeInv, TypeOK
  <1>4. /\ work \subseteq target.roots
        /\ \A s \in target.roots \ work : s = restoring \/ PutBack(s)
        /\ restoring = NoPath
    BY <1>1 DEF RestoreInv, Progress, RootsPutBack, RootAtWork, Restoring, InRoot
  <1>5. /\ target.roots \subseteq Path
        /\ \A x, y \in target.roots : Within(x, y) => x = y
    BY <1>1, TargetFacts DEF Restoring, GoodManifest
  <1>6. ASSUME NEW s \in target.roots \ work
        PROVE  PutBack(s)'
    <2>1. s \in Seq(Name) /\ r \in Seq(Name) /\ a \in Seq(Name) /\ s # NoPath
      BY <1>4, <1>5, Paths1
    <2>2. ~Within(s, a)
      BY <1>2, <1>4, <1>5, <2>1, WithinTransitive
    <2>3. \A x \in Path : Below(s, x) => fs'[x] = fs[x]
      BY <1>3, <2>2 DEF Below
    <2>4. PutBack(s)
      BY <1>4, <2>1
    <2> QED BY <1>1, <2>3, <2>4, DoneRootStays
  <1> QED BY <1>1, <1>4, <1>6
          DEF Progress, RootsPutBack, RootAtWork, ExtrasFound, DirsFound, RootSoFar, InRoot

(***************************************************************************)
(* The walk of restoreRoot meets everything the manifest lacks: itself, or *)
(* the outermost directory above it that the manifest lacks too.           *)
(***************************************************************************)
LEMMA BeginRestoreRootProgress ==
  ASSUME RestoreInv, NEW r \in work, BeginRestoreRoot(r)
  PROVE  Progress'
  <1>1. /\ pc = "restore" /\ pc' = "remove" /\ restoring' = r /\ work' = work \ {r}
        /\ UNCHANGED <<fs, target>> /\ At(r) # Absent
    BY DEF BeginRestoreRoot, RestoreUnchanged
  <1>2. todo' = {p \in Path :
                   /\ r # p /\ Within(r, p) /\ fs[p] # Absent
                   /\ target.entries[r][p] = Absent
                   /\ \A a \in Path : Within(r, a) /\ Within(a, p) /\ a \notin {r, p}
                         => target.entries[r][a] # Absent}
    BY DEF BeginRestoreRoot
  <1>3. /\ work \subseteq target.roots
        /\ \A s \in target.roots \ work : s = restoring \/ PutBack(s)
        /\ restoring = NoPath
    BY <1>1 DEF RestoreInv, Progress, RootsPutBack, RootAtWork, Restoring, InRoot
  <1>4. target.roots \subseteq Path
    BY <1>1, TargetFacts DEF Restoring
  <1>5. RootsPutBack'
    <2>1. ASSUME NEW s \in target.roots \ work
          PROVE  PutBack(s)'
      <3>1. PutBack(s)
        BY <1>3, <1>4, Paths1
      <3> QED BY <1>1, <3>1, DoneRootStays
    <2> QED BY <1>1, <1>3, <2>1 DEF RootsPutBack
  <1>6. RootAtWork'
    BY <1>1, <1>3, <1>4 DEF RootAtWork, InRoot, At
  <1>7. ASSUME NEW p \in Path, Below(r, p), fs[p] # Absent, target.entries[r][p] = Absent
        PROVE  \E q \in todo' : Within(q, p)
    <2> DEFINE T == {a \in Path : /\ Below(r, a) /\ Within(a, p)
                                  /\ target.entries[r][a] = Absent}
    <2>1. p \in Seq(Name) /\ T \subseteq Seq(Name)
      BY Paths1
    <2>2. p \in T
      BY <1>7, <2>1, WithinReflexive
    <2>3. PICK q \in T : \A y \in T : Len(q) <= Len(y)
      <3> HIDE DEF T
      <3> QED BY <2>1, <2>2, ShortestPath
    <2>4. q \in Path /\ Below(r, q) /\ Within(q, p) /\ target.entries[r][q] = Absent
      OBVIOUS
    <2>5. fs[q] # Absent
      BY <1>7, <2>4, DirIsPath DEF RestoreInv, IsTree
    <2>6. ASSUME NEW a \in Path, Within(r, a), Within(a, q), a \notin {r, q}
          PROVE  target.entries[r][a] # Absent
      <3>1. a \in Seq(Name) /\ q \in Seq(Name)
        BY Paths1
      <3>2. Len(a) < Len(q) /\ Len(a) \in Nat /\ Len(q) \in Nat
        BY <2>6, <3>1, WithinLonger
      <3>3. a \notin T
        BY <2>3, <3>2
      <3>4. Within(a, p)
        BY <2>1, <2>4, <2>6, <3>1, WithinTransitive
      <3> QED BY <2>6, <3>3, <3>4 DEF Below
    <2> HIDE DEF T
    <2> QED BY <1>2, <2>4, <2>5, <2>6 DEF Below
  <1>8. ExtrasFound'
    BY <1>1, <1>7 DEF ExtrasFound, Wanted
  <1>9. DirsFound' /\ RootSoFar'
    BY <1>1 DEF DirsFound, RootSoFar
  <1> QED BY <1>5, <1>6, <1>8, <1>9 DEF Progress

LEMMA RemoveAllProgress ==
  ASSUME RestoreInv, NEW p \in Path, RemoveAll(p)
  PROVE  Progress'
  <1>1. /\ pc = "remove" /\ todo' = todo \ {p}
        /\ UNCHANGED <<pc, work, restoring, target>>
    BY DEF RemoveAll, RestoreUnchanged
  <1>2. PICK q0 \in todo : Within(q0, p)
    BY DEF RemoveAll
  <1>3. /\ restoring \in target.roots \ work /\ fs[restoring] # Absent
        /\ work \subseteq target.roots
        /\ \A s \in target.roots \ work : s = restoring \/ PutBack(s)
    BY <1>1 DEF RestoreInv, Progress, RootsPutBack, RootAtWork, Restoring, InRoot
  <1>4. /\ target.roots \subseteq Path
        /\ GoodManifest(target)
    BY <1>1, TargetFacts DEF Restoring
  <1>5. Below(restoring, p)
    <2>1. q0 \in Path /\ q0 # restoring /\ Within(restoring, q0)
      BY <1>1 DEF RestoreInv, RemovesInsideRoot
    <2>2. q0 \in Seq(Name) /\ restoring \in Seq(Name) /\ p \in Seq(Name)
      BY <1>3, <1>4, <2>1, Paths1
    <2> QED BY <1>2, <2>1, <2>2, WithinTransitive, WithinAntisymmetric DEF Below
  <1>6. /\ \A x \in Path : x # p => fs'[x] = fs[x]
        /\ fs'[p] = Absent
    BY DEF RemoveAll, RemoveLeaf, RemoveDir, RestoreInv, TypeInv, TypeOK
  <1>7. RootsPutBack'
    BY <1>1, <1>3, <1>4, <1>5, <1>6, OtherRootStays DEF RootsPutBack, Below
  <1>8. RootAtWork'
    BY <1>1, <1>3, <1>4, <1>5, <1>6 DEF RootAtWork, InRoot, Below
  <1>9. ExtrasFound'
    <2> SUFFICES ASSUME NEW x \in Path, Below(restoring, x), fs'[x] # Absent,
                        Wanted(x) = Absent
                 PROVE  \E q \in todo' : Within(q, x)
      BY <1>1 DEF ExtrasFound, Wanted
    <2>1. x # p /\ fs[x] # Absent
      BY <1>6
    <2>2. PICK q \in todo : Within(q, x)
      BY <1>1, <2>1 DEF RestoreInv, Progress, ExtrasFound
    <2>3. CASE q = p
      <3> DEFINE c == StepTowards(p, x)
      <3>1. IsDir(p) /\ c \in Children(p)
        BY <2>1, <2>2, <2>3, TreeStep, Paths1 DEF RestoreInv
      <3> HIDE DEF c
      <3> QED BY <3>1, DirIsPath DEF RemoveAll, RemoveLeaf, RemoveDir
    <2> QED BY <1>1, <2>2, <2>3
  <1>10. DirsFound' /\ RootSoFar'
    BY <1>1 DEF DirsFound, RootSoFar
  <1> QED BY <1>7, <1>8, <1>9, <1>10 DEF Progress

(***************************************************************************)
(* MkdirAll in the two phases that make directories: what it makes lies    *)
(* above something the manifest holds.                                     *)
(***************************************************************************)
LEMMA MakeDirProgress ==
  ASSUME RestoreInv, pc \in {"mkdirs", "leaves"},
         UNCHANGED <<pc, work, todo, restoring, target>>,
         NEW p \in Path, Wanted(p) # Absent,
         NEW a \in Path, Within(a, p), a # p \/ Wanted(p) = Dir, MakeDir(a)
  PROVE  Progress'
  <1>1. /\ restoring \in target.roots \ work /\ fs[restoring] # Absent
        /\ work \subseteq target.roots
        /\ \A s \in target.roots \ work : s = restoring \/ PutBack(s)
    BY DEF RestoreInv, Progress, RootsPutBack, RootAtWork, Restoring, InRoot
  <1>2. /\ target.roots \subseteq Path /\ restoring \in Path /\ restoring \in AllRoots
        /\ GoodManifest(target)
    BY <1>1, TargetFacts DEF Restoring
  <1>3. /\ \A x \in Path : x # a => fs'[x] = fs[x]
        /\ fs[a] = Absent /\ fs'[a] \in Inode
    BY DEF MakeDir, Fresh, RestoreInv, TypeInv, TypeOK
  <1>4. Below(restoring, p)
    BY <1>2 DEF GoodManifest, Keyed, Wanted
  <1>5. Below(restoring, a)
    BY <1>1, <1>2, <1>3, <1>4, MadeBelowRoot DEF Below, RestoreInv
  <1>6. RootsPutBack'
    BY <1>1, <1>2, <1>3, <1>5, OtherRootStays DEF RootsPutBack, Below
  <1>7. RootAtWork'
    BY <1>1, <1>2, <1>3 DEF RootAtWork, InRoot
  <1>8. ExtrasFound' /\ DirsFound'
    BY DEF ExtrasFound, DirsFound, RestoreInv, Progress, Wanted
  <1>9. RootSoFar'
    <2> SUFFICES ASSUME NEW x \in Path, Below(restoring, x)
                 PROVE  SoFar(x)'
      BY DEF RootSoFar
    <2>1. SoFar(x)
      BY DEF RestoreInv, Progress, RootSoFar
    <2>2. CASE x # a
      BY <1>3, <2>1, <2>2, DirBefore DEF SoFar, Wanted, Implied, HoldsSomeOf
    <2>3. CASE x = a
      <3>1. IsDir(a)'
        BY <1>3, DirBefore
      <3>2. ASSUME Wanted(a) = Absent
            PROVE  Implied(target, restoring, a)'
        <4>1. a # p
          BY <3>2
        <4> QED BY <3>1, <3>2, <4>1 DEF Implied, HoldsSomeOf, Wanted
      <3>3. pc = "leaves" /\ Wanted(a) \in Leaf => a \in todo
        BY <1>3, <2>1, <2>3, SentinelAssumption DEF SoFar
      <3> QED BY <2>3, <3>1, <3>2, <3>3 DEF SoFar, Wanted
    <2> QED BY <2>2, <2>3
  <1> QED BY <1>6, <1>7, <1>8, <1>9 DEF Progress

LEMMA RestoreDirProgress ==
  ASSUME RestoreInv, NEW p \in todo, RestoreDir(p)
  PROVE  Progress'
  <1>1. /\ pc = "mkdirs" /\ UNCHANGED <<pc, work, restoring, target>>
    BY DEF RestoreDir, RestoreUnchanged
  <1>2. p \in Path /\ Wanted(p) = Dir
    BY <1>1 DEF RestoreInv, Progress, DirsFound
  <1>3. CASE IsDir(p)
    <2>1. todo' = todo \ {p} /\ fs' = fs
      BY <1>3 DEF RestoreDir
    <2>2. RootsPutBack'
      <3>1. \A s : PutBack(s) => PutBack(s)'
        BY <1>1, <2>1, DoneRootStays
      <3> QED BY <1>1, <3>1 DEF RestoreInv, Progress, RootsPutBack, Restoring
    <2>3. RootAtWork' /\ ExtrasFound' /\ DirsFound'
      BY <1>1, <2>1
      DEF RestoreInv, Progress, RootAtWork, ExtrasFound, DirsFound, InRoot, Wanted
    <2>4. RootSoFar'
      <3> SUFFICES ASSUME NEW x \in Path, Below(restoring, x)
                   PROVE  SoFar(x)'
        BY <1>1 DEF RootSoFar
      <3>1. SoFar(x)
        BY <1>1 DEF RestoreInv, Progress, RootSoFar
      <3> QED BY <1>1, <1>3, <2>1, <3>1 DEF SoFar, Wanted, Implied, HoldsSomeOf, IsDir, At
    <2> QED BY <2>2, <2>3, <2>4 DEF Progress
  <1>4. CASE ~IsDir(p)
    <2>1. todo' = todo
      BY <1>4 DEF RestoreDir
    <2>2. PICK a \in Path : Within(a, p) /\ MakeDir(a)
      BY <1>4 DEF RestoreDir, EnsureDir
    <2>3. Wanted(p) # Absent
      BY <1>2, SentinelAssumption
    <2> QED BY <1>1, <1>2, <2>1, <2>2, <2>3, MakeDirProgress
  <1> QED BY <1>3, <1>4

LEMMA RestoreLeafProgress ==
  ASSUME RestoreInv, NEW p \in todo, RestoreLeaf(p)
  PROVE  Progress'
  <1>1. /\ pc = "leaves" /\ UNCHANGED <<pc, work, restoring, target>>
    BY DEF RestoreLeaf, RestoreUnchanged
  <1>2. p \in Path /\ Wanted(p) \in Leaf
    BY <1>1 DEF RestoreInv, TypeInv, LeavesToWrite
  <1>3. Wanted(p) # Absent /\ Wanted(p) # Dir /\ Wanted(p) \notin Inode
    BY <1>2, SentinelAssumption
  <1>4. CASE HasParent(p)
    <2>1. /\ todo' = todo \ {p} /\ fs[p] \notin Inode
          /\ \A x \in Path : fs'[x] = IF x = p THEN Wanted(p) ELSE fs[x]
      BY <1>2, <1>4, DirBefore DEF RestoreLeaf, PutLeaf, RestoreInv, TypeInv, TypeOK
    <2>2. /\ restoring \in target.roots \ work /\ fs[restoring] # Absent
          /\ work \subseteq target.roots
          /\ \A s \in target.roots \ work : s = restoring \/ PutBack(s)
      BY <1>1 DEF RestoreInv, Progress, RootsPutBack, RootAtWork, Restoring, InRoot
    <2>3. /\ target.roots \subseteq Path /\ restoring \in Path /\ restoring \in AllRoots
          /\ GoodManifest(target)
      BY <1>1, <2>2, TargetFacts DEF Restoring
    <2>4. Below(restoring, p)
      BY <1>2, <1>3, <2>3 DEF GoodManifest, Keyed, Wanted
    <2>5. RootsPutBack'
      <3>1. \A x \in Path : x # p => fs'[x] = fs[x]
        BY <2>1
      <3> QED BY <1>1, <1>2, <2>2, <2>3, <2>4, <3>1, OtherRootStays DEF RootsPutBack, Below
    <2>6. RootAtWork'
      BY <1>1, <2>1, <2>2, <2>3, <2>4 DEF RootAtWork, InRoot, Below
    <2>7. ExtrasFound' /\ DirsFound'
      BY <1>1 DEF ExtrasFound, DirsFound
    <2>8. RootSoFar'
      <3> SUFFICES ASSUME NEW x \in Path, Below(restoring, x)
                   PROVE  SoFar(x)'
        BY <1>1 DEF RootSoFar
      <3>1. SoFar(x)
        BY <1>1 DEF RestoreInv, Progress, RootSoFar
      <3>2. CASE x = p
        BY <1>1, <1>3, <2>1, <3>2 DEF SoFar, Wanted
      <3>3. CASE x # p
        BY <1>1, <2>1, <3>1, <3>3, DirBefore DEF SoFar, Wanted, Implied, HoldsSomeOf
      <3> QED BY <3>2, <3>3
    <2> QED BY <2>5, <2>6, <2>7, <2>8 DEF Progress
  <1>5. CASE ~HasParent(p)
    <2>1. todo' = todo
      BY <1>5 DEF RestoreLeaf
    <2>2. PICK a \in Path : Within(a, Parent(p)) /\ MakeDir(a)
      BY <1>5 DEF RestoreLeaf, EnsureDir
    <2>3. Len(p) > 1
      <3>1. p \in Seq(Name) /\ p # << >>
        BY <1>2, Paths1
      <3>2. PICK n \in Nat : n = Len(p) /\ n # 0
        BY <3>1
      <3> QED BY <1>5, <3>2 DEF HasParent
    <2>4. Within(a, p) /\ a # p
      <3>1. Parent(p) \in Seq(Name) /\ Within(Parent(p), p) /\ Parent(p) # p
        BY <1>2, <2>3, ParentIsPath, Paths1
      <3>2. a \in Seq(Name) /\ p \in Seq(Name)
        BY <1>2, Paths1
      <3> QED BY <2>2, <3>1, <3>2, WithinTransitive, WithinAntisymmetric
    <2> QED BY <1>1, <1>2, <1>3, <2>1, <2>2, <2>4, MakeDirProgress
  <1> QED BY <1>4, <1>5

(* When a phase has nothing left to do, what it was there for is done.     *)
LEMMA NextPhaseProgress ==
  ASSUME RestoreInv, NextPhase
  PROVE  Progress'
  <1>1. /\ UNCHANGED <<fs, work, target>> /\ todo = {}
        /\ pc \in {"remove", "mkdirs", "leaves"}
    BY DEF NextPhase, RestoreUnchanged, worldVars
  <1>2. /\ restoring \in target.roots \ work /\ fs[restoring] # Absent
        /\ work \subseteq target.roots
        /\ \A s \in target.roots \ work : s = restoring \/ PutBack(s)
    BY <1>1 DEF RestoreInv, Progress, RootsPutBack, RootAtWork, Restoring, InRoot
  <1>3. restoring \in AllRoots
        /\ \A p \in Path : Wanted(p) \in Leaf \cup {Dir, Absent}
    BY <1>1, <1>2, TargetFacts DEF Restoring, Wanted
  <1>4. \A s : PutBack(s) => PutBack(s)'
    BY <1>1, DoneRootStays
  <1>5. CASE pc = "remove"
    <2>1. pc' = "mkdirs" /\ todo' = {p \in Path : Wanted(p) = Dir} /\ restoring' = restoring
      BY <1>5 DEF NextPhase
    <2>2. \A p \in Path : Below(restoring, p) /\ Wanted(p) = Absent => fs[p] = Absent
      BY <1>1, <1>5 DEF RestoreInv, Progress, ExtrasFound
    <2>3. RootSoFar'
      BY <1>1, <2>1, <2>2, SentinelAssumption DEF RootSoFar, SoFar, Wanted
    <2>4. RootsPutBack' /\ RootAtWork'
      BY <1>1, <1>2, <1>4, <2>1 DEF RootsPutBack, RootAtWork, InRoot
    <2>5. ExtrasFound' /\ DirsFound'
      BY <1>1, <2>1 DEF ExtrasFound, DirsFound, Wanted
    <2> QED BY <2>3, <2>4, <2>5 DEF Progress
  <1>6. CASE pc = "mkdirs"
    <2>1. /\ pc' = "leaves" /\ todo' = {p \in Path : Wanted(p) \in Leaf}
          /\ restoring' = restoring
      BY <1>6 DEF NextPhase
    <2>2. \A p \in Path : Below(restoring, p) => SoFar(p)
      BY <1>6 DEF RestoreInv, Progress, RootSoFar
    <2>3. ASSUME NEW p \in Path, Below(restoring, p)
          PROVE  SoFar(p)'
      <3>1. SoFar(p)
        BY <2>2, <2>3
      <3> QED BY <1>1, <2>1, <3>1 DEF SoFar, Wanted, Implied, HoldsSomeOf, IsDir, At
    <2>4. RootSoFar'
      BY <2>1, <2>3 DEF RootSoFar
    <2>5. RootsPutBack' /\ RootAtWork'
      BY <1>1, <1>2, <1>4, <2>1 DEF RootsPutBack, RootAtWork, InRoot
    <2>6. ExtrasFound' /\ DirsFound'
      BY <2>1 DEF ExtrasFound, DirsFound
    <2> QED BY <2>4, <2>5, <2>6 DEF Progress
  <1>7. CASE pc = "leaves"
    <2>1. pc' = "restore" /\ restoring' = NoPath
      BY <1>7 DEF NextPhase
    <2>2. PutBack(restoring)
      <3> SUFFICES ASSUME NEW p \in Path, Below(restoring, p)
                   PROVE  Wanted(p) = Kind(fs[p]) \/ Implied(target, restoring, p)
        BY DEF PutBack, Wanted
      <3>1. SoFar(p)
        BY <1>7 DEF RestoreInv, Progress, RootSoFar
      <3>2. CASE Wanted(p) = Absent
        BY <3>1, <3>2, SentinelAssumption DEF SoFar, Kind
      <3>3. CASE Wanted(p) = Dir
        BY <1>7, <3>1, <3>3, DirIsPath DEF SoFar, Kind
      <3>4. CASE Wanted(p) \in Leaf
        BY <1>1, <1>7, <3>1, <3>4, SentinelAssumption DEF SoFar, Kind
      <3> QED BY <1>3, <3>2, <3>3, <3>4
    <2>3. RootsPutBack'
      BY <1>1, <1>2, <1>4, <2>1, <2>2 DEF RootsPutBack
    <2>4. RootAtWork' /\ ExtrasFound' /\ DirsFound' /\ RootSoFar'
      BY <2>1 DEF RootAtWork, InRoot, ExtrasFound, DirsFound, RootSoFar
    <2> QED BY <2>3, <2>4 DEF Progress
  <1> QED BY <1>1, <1>5, <1>6, <1>7

LEMMA StepProgress ==
  ASSUME Undisturbed, RestoreInv, [Next]_vars
  PROVE  Progress'
  <1>1. CASE UNCHANGED <<fs, pc, work, todo, target, restoring>>
    <2>1. \A s : PutBack(s)' <=> PutBack(s)
      BY <1>1 DEF PutBack, Implied, HoldsSomeOf, IsDir, At
    <2>2. \A p : SoFar(p)' <=> SoFar(p)
      BY <1>1 DEF SoFar, Wanted, Implied, HoldsSomeOf, IsDir, At
    <2> QED BY <1>1, <2>1, <2>2
            DEF RestoreInv, Progress, RootsPutBack, RootAtWork, ExtrasFound, DirsFound,
                RootSoFar, Restoring, InRoot, Wanted
  <1>2. ASSUME ~Restoring', ~InRoot', restoring' = NoPath
        PROVE  Progress'
    BY <1>2 DEF Progress, RootsPutBack, RootAtWork, ExtrasFound, DirsFound, RootSoFar,
                InRoot
  <1>3. CASE ~Restore
    <2>1. CASE ~InRoot /\ ~Restoring' /\ ~InRoot' /\ restoring' = restoring
      BY <1>2, <2>1 DEF RestoreInv, Progress, RootAtWork
    <2> QED BY <1>1, <1>3, <2>1, WhoRuns
  <1>4. ASSUME NEW s \in Snapshot, BeginRestore(s)
        PROVE  Progress'
    <2>1. /\ pc' = "restore" /\ work' = target'.roots /\ restoring' = NoPath
      BY <1>4 DEF BeginRestore, RestoreInv, Progress, RootAtWork, InRoot
    <2> QED BY <2>1 DEF Progress, RootsPutBack, RootAtWork, ExtrasFound, DirsFound,
                        RootSoFar, InRoot
  <1>5. CASE RestoreFails
    BY <1>2, <1>5 DEF RestoreFails, Restoring, InRoot
  <1>6. CASE AdoptTarget
    BY <1>2, <1>6
    DEF AdoptTarget, Restoring, InRoot, RestoreInv, Progress, RootAtWork
  <1> QED BY <1>3, <1>4, <1>5, <1>6, MakeRootProgress, BeginRestoreRootProgress,
             RemoveAllProgress, RestoreDirProgress, RestoreLeafProgress, NextPhaseProgress
          DEF Restore

LEMMA InitRestore ==
  ASSUME Init
  PROVE  RestoreInv
  <1>1. TypeInv
    BY InitType
  <1>2. DisjointInv
    BY RootAssumption, CompactIsAntichain
    DEF Init, DisjointInv, RootsDisjoint, WorkIsCompact
  <1>3. IsTree /\ RemovesInsideRoot
    BY DEF Init, RemovesInsideRoot
  <1>4. KeysInv
    BY DEF Init, KeysInv, Keyed, ScanIsKeyed, NoEntries, Restoring
  <1>5. Progress
    BY DEF Init, Progress, RootsPutBack, RootAtWork, ExtrasFound, DirsFound, RootSoFar,
           Restoring, InRoot
  <1> QED BY <1>1, <1>2, <1>3, <1>4, <1>5 DEF RestoreInv

LEMMA StepRestore ==
  ASSUME Undisturbed, RestoreInv, [Next]_vars
  PROVE  RestoreInv'
  BY StepType, StepDisjoint, StepTree, StepRemoves, StepKeys, StepProgress DEF RestoreInv

(* What AdoptTarget finds on the disk.                                     *)
LEMMA AdoptedIsPutBack ==
  ASSUME RestoreInv, AdoptTarget
  PROVE  \A r \in target.roots : PutBack(r)
  <1>1. pc = "restore" /\ work = {} /\ Restoring
    BY DEF AdoptTarget, Restoring
  <1>2. restoring = NoPath /\ NoPath \notin target.roots
    BY <1>1, TargetFacts, Paths1 DEF RestoreInv, Progress, RootAtWork, InRoot
  <1> QED BY <1>1, <1>2 DEF RestoreInv, Progress, RootsPutBack

(***************************************************************************)
(* A restore that ends without an error has put back every entry of its    *)
(* manifest, on every root, and removed everything else but the            *)
(* directories that MkdirAll had to make.                                  *)
(***************************************************************************)
THEOREM RestoresAreExact ==
  ASSUME Undisturbed
  PROVE  Spec => RestoreIsExact
  <1>1. Init => RestoreInv
    BY InitRestore
  <1>2. RestoreInv /\ [Next]_vars => RestoreInv'
    BY StepRestore
  <1>3. RestoreInv /\ [Next]_vars =>
          [AdoptTarget =>
             \A r \in target.roots, p \in Path : p # r /\ Within(r, p) =>
               \/ target.entries[r][p] = Kind(fs[p])
               \/ /\ target.entries[r][p] = Absent
                  /\ IsDir(p) /\ HoldsSomeOf(target, r, p)]_vars
    BY AdoptedIsPutBack DEF PutBack, Below, Implied
  <1> QED BY <1>1, <1>2, <1>3, PTL DEF Spec, RestoreIsExact
-----------------------------------------------------------------------------
(***************************************************************************)
(* Part D: strict turns.  Commands, snapshots and restores follow one      *)
(* another, and Create begins when the reader has read every event.  Then  *)
(* a manifest is the disk, so it has a directory for every entry, the      *)
(* restore of it adds nothing, and what the restore drops from the dirty   *)
(* set is no loss.                                                         *)
(***************************************************************************)
StrictTurns == Readable /\ Hazards \cap {"lag", "background", "restoreRace"} = {}

StillWhileSyncing ==
  Syncing => queue = << >> /\ dirty = {} /\ ~forceFull /\ ~Walking

HasItsDirs(m) ==
  \A r \in m.roots, p, a \in Path :
    m.entries[r][p] # Absent /\ Below(r, a) /\ Within(a, p) /\ a # p
      => m.entries[r][a] = Dir

Whole(m) == m.roots = InitRoots /\ HasItsDirs(m)

ManifestsAreWhole ==
  /\ \A s \in Snapshot : manifests[s] # None => Whole(manifests[s])
  /\ Restoring => Whole(target)

StrictInv == LostInv /\ RestoreInv /\ StillWhileSyncing /\ ManifestsAreWhole

LEMMA SavedIsWhole ==
  ASSUME StrictInv, NEW s \in Snapshot, SaveManifest(s)
  PROVE  /\ \A r \in roots, x \in Path : InScope(r, x) => current[r][x] = Kind(fs[x])
         /\ Whole([roots |-> roots, entries |-> current])
  <1> DEFINE m == [roots |-> roots, entries |-> current]
  <1>1. \A r \in roots, x \in Path : InScope(r, x) => current[r][x] = Kind(fs[x])
    <2>1. Synced /\ queue = << >> /\ dirty = {} /\ ~forceFull
      BY DEF SaveManifest, Synced, StrictInv, StillWhileSyncing, Syncing
    <2> QED BY <2>1, QuietIsExact DEF StrictInv
  <1>2. roots = InitRoots /\ roots \subseteq AllRoots
    BY RootFacts DEF StrictInv, LostInv
  <1>3. ASSUME NEW r \in roots, NEW p \in Path, NEW a \in Path, current[r][p] # Absent,
               Below(r, a), Within(a, p), a # p
        PROVE  current[r][a] = Dir
    <2>1. Below(r, p)
      BY <1>2, <1>3 DEF StrictInv, RestoreInv, KeysInv, Keyed
    <2>2. Kind(fs[p]) # Absent
      BY <1>1, <1>3, <2>1 DEF InScope, Below
    <2>3. fs[p] # Absent
      BY <2>2, SentinelAssumption DEF Kind
    <2>4. IsDir(a)
      BY <1>3, <2>3 DEF StrictInv, RestoreInv, IsTree
    <2> QED BY <1>1, <1>3, <2>4, DirIsPath DEF InScope, Below, Kind
  <1> QED BY <1>1, <1>2, <1>3 DEF Whole, HasItsDirs

LEMMA WholeIsExact ==
  ASSUME StrictInv, AdoptTarget
  PROVE  MatchesDisk(target) /\ target.roots = roots
  <1>1. Restoring /\ Whole(target)
    BY DEF AdoptTarget, Restoring, StrictInv, ManifestsAreWhole
  <1>2. target.roots = roots
    BY <1>1, RootFacts DEF Whole, StrictInv, LostInv
  <1>3. ASSUME NEW r \in target.roots, NEW p \in Path, Below(r, p)
        PROVE  target.entries[r][p] = Kind(fs[p])
    <2>1. target.entries[r][p] = Kind(fs[p]) \/ Implied(target, r, p)
      BY <1>3, AdoptedIsPutBack DEF StrictInv, PutBack
    <2>2. ~Implied(target, r, p)
      BY <1>1, <1>3, SentinelAssumption DEF Implied, HoldsSomeOf, Whole, HasItsDirs
    <2> QED BY <2>1, <2>2
  <1> QED BY <1>2, <1>3 DEF MatchesDisk, Below

LEMMA StepStill ==
  ASSUME StrictTurns, StrictInv, [Next]_vars
  PROVE  StillWhileSyncing'
  <1>1. CASE UNCHANGED <<queue, dirty, forceFull, adding, listing>> /\ (Syncing' => Syncing)
    BY <1>1 DEF StrictInv, StillWhileSyncing, Walking
  <1>2. CASE ~Syncing'
    BY <1>2 DEF StillWhileSyncing
  <1>3. CASE Program
    <2>1. ProgramStep
      BY <1>3 DEF Program, Write, Mkdir, Unlink, Rmdir, RenameDir
    <2> QED BY <1>2, <2>1 DEF ProgramStep, backendVars, Syncing, Restoring, StrictTurns
  <1>4. CASE Reader \/ ReaderDies
    <2>1. ReaderDies => FALSE
      BY DEF ReaderDies, StrictTurns, Readable, Sound
    <2>2. Reader => ~Syncing
      BY DEF Reader, HandleEvent, AddWatch, ListDir, StrictInv, StillWhileSyncing, Walking
    <2>3. Reader => pc' = pc
      BY DEF Reader, HandleEvent, AddWatch, ListDir, backendVars
    <2> QED BY <1>2, <1>4, <2>1, <2>2, <2>3 DEF Syncing
  <1>5. CASE Extend
    BY <1>2, <1>5 DEF Extend, BeginExtendRoots, EndExtendRoots, AddRootsFails, Syncing
  <1>6. CASE BeginSync
    BY <1>6 DEF BeginSync, worldVars, Walking, StillWhileSyncing, StrictTurns
  <1>7. CASE (Create /\ ~BeginSync) \/ \E s \in Snapshot : Delete(s)
    BY <1>1, <1>7 DEF Create, ReconcilePath, Visit, EndScan, ScanFails, SaveManifest,
                      Delete, worldVars, watcherVars, Syncing
  <1>8. CASE Restore
    BY <1>2, <1>8 DEF Restore, BeginRestore, MakeRoot, BeginRestoreRoot, RemoveAll,
                      RestoreDir, RestoreLeaf, NextPhase, RestoreFails, AdoptTarget, Syncing
  <1>9. CASE UNCHANGED vars
    BY <1>1, <1>9 DEF vars, worldVars, watcherVars, backendVars, Syncing
  <1> QED BY <1>3, <1>4, <1>5, <1>6, <1>7, <1>8, <1>9 DEF Next, Backend

LEMMA StepWhole ==
  ASSUME StrictTurns, StrictInv, [Next]_vars
  PROVE  ManifestsAreWhole'
  <1>1. ASSUME NEW s \in Snapshot, SaveManifest(s)
        PROVE  ManifestsAreWhole'
    <2>1. /\ ~Restoring'
          /\ \A t \in Snapshot :
                manifests'[t] = IF t = s THEN [roots |-> roots, entries |-> current]
                                         ELSE manifests[t]
      BY <1>1 DEF SaveManifest, Restoring, StrictInv, RestoreInv, TypeInv, TypeOK
    <2>2. Whole([roots |-> roots, entries |-> current])
      BY <1>1, SavedIsWhole
    <2> QED BY <2>1, <2>2 DEF ManifestsAreWhole, StrictInv
  <1>2. ASSUME NEW s \in Snapshot, BeginRestore(s)
        PROVE  ManifestsAreWhole'
    BY <1>2 DEF BeginRestore, ManifestsAreWhole, StrictInv
  <1>3. ASSUME NEW s \in Snapshot, Delete(s)
        PROVE  ManifestsAreWhole'
    BY <1>3 DEF Delete, ManifestsAreWhole, StrictInv, RestoreInv, TypeInv, TypeOK, Restoring
  <1>4. CASE UNCHANGED manifests /\ (Restoring' => Restoring /\ UNCHANGED target)
    BY <1>4 DEF ManifestsAreWhole, StrictInv
  <1>5. CASE Restore /\ ~ \E s \in Snapshot : BeginRestore(s)
    BY <1>4, <1>5 DEF Restore, MakeRoot, BeginRestoreRoot, RemoveAll, RestoreDir,
                      RestoreLeaf, NextPhase, RestoreFails, AdoptTarget, RestoreUnchanged,
                      Restoring
  <1>6. CASE Create /\ ~ \E s \in Snapshot : SaveManifest(s)
    BY <1>4, <1>6 DEF Create, BeginSync, ReconcilePath, Visit, EndScan, ScanFails,
                      Restoring
  <1>7. CASE Extend
    BY <1>4, <1>7 DEF Extend, BeginExtendRoots, EndExtendRoots, AddRootsFails, Restoring
  <1>8. CASE Program
    <2>1. ProgramStep
      BY <1>8 DEF Program, Write, Mkdir, Unlink, Rmdir, RenameDir
    <2> QED BY <1>4, <2>1 DEF ProgramStep, backendVars, Restoring
  <1>9. CASE Reader \/ ReaderDies \/ UNCHANGED vars
    BY <1>4, <1>9 DEF Reader, ReaderDies, HandleEvent, AddWatch, ListDir, backendVars, vars,
                      Restoring
  <1> QED BY <1>1, <1>2, <1>3, <1>5, <1>6, <1>7, <1>8, <1>9 DEF Next, Backend, Create

LEMMA InitStrict ==
  ASSUME StrictTurns, Init
  PROVE  StrictInv
  BY InitKeepsAll, InitRestore
  DEF StrictTurns, StrictInv, Init, StillWhileSyncing, Syncing, ManifestsAreWhole, Restoring

LEMMA StepStrict ==
  ASSUME StrictTurns, StrictInv, [Next]_vars
  PROVE  StrictInv'
  <1>1. Readable /\ Undisturbed /\ LostInv /\ RestoreInv
    BY DEF StrictTurns, Readable, Sound, Undisturbed, StrictInv
  <1>2. LostInv' /\ RestoreInv'
    BY <1>1, WholeIsExact, StepKeepsAll, StepRestore
  <1> QED BY <1>2, StepStill, StepWhole DEF StrictInv

(***************************************************************************)
(* In strict turns no change is lost, whatever is restored and whenever a  *)
(* restore fails half-way.                                                 *)
(***************************************************************************)
THEOREM NoChangeIsLost ==
  ASSUME StrictTurns
  PROVE  Spec => []NoLostChange
  <1>1. Init => StrictInv
    BY InitStrict
  <1>2. StrictInv /\ [Next]_vars => StrictInv'
    BY StepStrict
  <1>3. StrictInv => NoLostChange
    BY NothingLostIsEnough DEF StrictInv
  <1> QED BY <1>1, <1>2, <1>3, PTL DEF Spec

(***************************************************************************)
(* In strict turns every manifest is the disk Create found.  The run `lag' *)
(* shows that the promise needs a reader that has caught up.               *)
(***************************************************************************)
THEOREM SnapshotsAreExact ==
  ASSUME StrictTurns
  PROVE  Spec => SnapshotIsExact
  <1>1. Init => StrictInv
    BY InitStrict
  <1>2. StrictInv /\ [Next]_vars => StrictInv'
    BY StepStrict
  <1>3. StrictInv /\ [Next]_vars =>
          [\A s \in Snapshot : SaveManifest(s) => MatchesDisk(manifests'[s])]_vars
    <2> SUFFICES ASSUME StrictInv, NEW s \in Snapshot, SaveManifest(s)
                 PROVE  MatchesDisk(manifests'[s])
      OBVIOUS
    <2>1. manifests'[s].roots = roots /\ manifests'[s].entries = current
      BY DEF SaveManifest, StrictInv, RestoreInv, TypeInv, TypeOK
    <2> QED BY <2>1, SavedIsWhole DEF MatchesDisk, InScope
  <1> QED BY <1>1, <1>2, <1>3, PTL DEF Spec, SnapshotIsExact
-----------------------------------------------------------------------------
(***************************************************************************)
(* The refinement of RewindStore.  A step of a session saves, forgets or   *)
(* restores a snapshot of the store, or only changes the disk.             *)
(***************************************************************************)
LEMMA DiskIsState ==
  ASSUME StrictInv
  PROVE  DiskEntries \in [AllRoots -> [Path -> Entry]]
  BY DEF StrictInv, RestoreInv, TypeInv, TypeOK, DiskEntries, Kind, Entry

(* What the store's variables stand for is fixed by these.                 *)
LEMMA DiskStays ==
  ASSUME UNCHANGED <<fs, roots>>
  PROVE  DiskEntries' = DiskEntries
  BY DEF DiskEntries, InScope

LEMMA ManifestIsSaved ==
  ASSUME StrictInv, NEW s \in Snapshot, manifests[s] # None
  PROVE  /\ manifests[s] \in Manifest
         /\ manifests[s].entries \in [AllRoots -> [Path -> Entry]]
         /\ manifests[s].entries # None
  BY StoreAssumption DEF StrictInv, RestoreInv, TypeInv, TypeOK, Manifest

LEMMA TargetIsGoal ==
  ASSUME StrictInv, Restoring
  PROVE  target.entries \in [AllRoots -> [Path -> Entry]] /\ target.entries # None
  BY StoreAssumption DEF StrictInv, RestoreInv, TypeInv, HasTarget, Manifest

(* Entries filed under roots that agree with the disk are the disk.        *)
LEMMA ExactIsDisk ==
  ASSUME StrictTurns, StrictInv, NEW entries \in [AllRoots -> [Path -> Entry]], Keyed(entries),
         \A r \in roots, p \in Path : InScope(r, p) => entries[r][p] = Kind(fs[p])
  PROVE  entries = DiskEntries
  <1>1. ASSUME NEW r \in AllRoots, NEW p \in Path
        PROVE  entries[r][p] = IF InScope(r, p) THEN Kind(fs[p]) ELSE Absent
    <2>1. r \in roots
      BY RootFacts DEF StrictTurns, Readable, Sound, StrictInv, LostInv, AllRoots
    <2> QED BY <2>1 DEF Keyed, Below, InScope
  <1>2. DiskEntries = [r \in AllRoots |->
          [p \in Path |-> IF InScope(r, p) THEN Kind(fs[p]) ELSE Absent]]
    BY DEF DiskEntries
  <1>3. \A r \in AllRoots : entries[r] = DiskEntries[r]
    BY <1>1, <1>2
  <1> QED BY <1>2, <1>3

LEMMA SaveIsStoreStep ==
  ASSUME StrictTurns, StrictInv, NEW s \in Snapshot, SaveManifest(s),
         returned' = returned
  PROVE  Store!Save(s)
  <1>1. current = DiskEntries
    <2>1. current \in [AllRoots -> [Path -> Entry]] /\ Keyed(current)
      BY DEF StrictInv, RestoreInv, TypeInv, TypeOK, KeysInv
    <2> QED BY <2>1, SavedIsWhole, ExactIsDisk
  <1>2. /\ ~Restoring /\ ~Restoring' /\ UNCHANGED <<fs, roots>>
        /\ manifests' = [manifests EXCEPT ![s] = [roots |-> roots, entries |-> current]]
    BY DEF SaveManifest, Synced, Restoring, worldVars
  <1>3. [roots |-> roots, entries |-> current] # None
    BY StoreAssumption DEF StrictInv, RestoreInv, TypeInv, TypeOK, Manifest
  <1>4. manifests \in [Snapshot -> Manifest \cup {None}]
    BY DEF StrictInv, RestoreInv, TypeInv, TypeOK
  <1>5. [t \in Snapshot |-> IF manifests[t] = None THEN None ELSE manifests[t].entries]'
          = [[t \in Snapshot |-> IF manifests[t] = None THEN None ELSE manifests[t].entries]
               EXCEPT ![s] = DiskEntries]
    BY <1>1, <1>2, <1>3, <1>4
  <1> QED BY <1>2, <1>5, DiskStays DEF Store!Save

LEMMA DeleteIsStoreStep ==
  ASSUME StrictInv, NEW s \in Snapshot, Delete(s), returned' = returned
  PROVE  Store!Forget(s)
  <1>1. /\ ~Restoring /\ ~Restoring' /\ UNCHANGED <<fs, roots>>
        /\ manifests' = [manifests EXCEPT ![s] = None]
    BY DEF Delete, Restoring, worldVars
  <1>2. manifests \in [Snapshot -> Manifest \cup {None}]
    BY DEF StrictInv, RestoreInv, TypeInv, TypeOK
  <1>3. [t \in Snapshot |-> IF manifests[t] = None THEN None ELSE manifests[t].entries]'
          = [[t \in Snapshot |-> IF manifests[t] = None THEN None ELSE manifests[t].entries]
               EXCEPT ![s] = None]
    BY <1>1, <1>2
  <1> QED BY <1>1, <1>3, DiskStays DEF Store!Forget

LEMMA BeginIsStoreStep ==
  ASSUME StrictInv, NEW s \in Snapshot, BeginRestore(s), returned' = "none"
  PROVE  Store!Begin(s)
  <1>1. /\ ~Restoring /\ Restoring' /\ target' = manifests[s] /\ manifests[s] # None
        /\ UNCHANGED <<fs, roots, manifests>>
    BY DEF BeginRestore, Restoring, worldVars
  <1> QED BY <1>1, DiskStays, ManifestIsSaved DEF Store!Begin

LEMMA AdoptIsStoreStep ==
  ASSUME StrictTurns, StrictInv, AdoptTarget, returned' = "ok"
  PROVE  Store!Succeed
  <1>1. /\ Restoring /\ ~Restoring' /\ UNCHANGED <<fs, roots, manifests>>
    BY DEF AdoptTarget, Restoring, worldVars
  <1>2. target.entries \in [AllRoots -> [Path -> Entry]] /\ target.entries # None
    BY <1>1, TargetIsGoal
  <1>3. Keyed(target.entries)
    BY <1>1 DEF StrictInv, RestoreInv, KeysInv, GoodManifest
  <1>4. \A r \in roots, p \in Path : InScope(r, p) => target.entries[r][p] = Kind(fs[p])
    BY WholeIsExact DEF MatchesDisk, InScope
  <1>5. target.entries = DiskEntries
    BY <1>2, <1>3, <1>4, ExactIsDisk
  <1> QED BY <1>1, <1>2, <1>5, DiskStays DEF Store!Succeed

LEMMA FailIsStoreStep ==
  ASSUME StrictInv, RestoreFails, returned' = "error"
  PROVE  Store!Fail
  <1>1. /\ Restoring /\ ~Restoring' /\ UNCHANGED <<fs, roots, manifests>>
    BY DEF RestoreFails, Restoring, worldVars
  <1> QED BY <1>1, DiskStays, TargetIsGoal DEF Store!Fail

(* Everything else leaves the manifests and the target as they are.        *)
LEMMA OtherIsStoreStep ==
  ASSUME StrictInv, StrictInv', returned' = returned,
         UNCHANGED <<manifests, target>>, Restoring' = Restoring
  PROVE  Store!Change
  <1>1. DiskEntries' \in [AllRoots -> [Path -> Entry]]
    BY DEF StrictInv, RestoreInv, TypeInv, TypeOK, DiskEntries, Kind, Entry
  <1> QED BY <1>1 DEF Store!Change

LEMMA OtherSteps ==
  ASSUME FixedRoots,
         ~ \E s \in Snapshot : SaveManifest(s) \/ Delete(s) \/ BeginRestore(s),
         ~AdoptTarget, ~RestoreFails
  PROVE  UNCHANGED <<manifests, target>> /\ Restoring' = Restoring
  <1>1. CASE Program
    <2>1. ProgramStep
      BY <1>1 DEF Program, Write, Mkdir, Unlink, Rmdir, RenameDir
    <2> QED BY <2>1 DEF ProgramStep, backendVars, Restoring
  <1>2. CASE Reader \/ ReaderDies
    BY <1>2 DEF Reader, ReaderDies, HandleEvent, AddWatch, ListDir, backendVars, Restoring
  <1>3. CASE Create
    BY <1>3 DEF Create, BeginSync, ReconcilePath, Visit, EndScan, ScanFails, Restoring
  <1>4. CASE Restore
    <2>1. CASE NextPhase
      <3>1. pc \in {"remove", "mkdirs", "leaves"} /\ UNCHANGED <<manifests, target>>
        BY <2>1 DEF NextPhase, RestoreUnchanged
      <3>2. pc' \in {"mkdirs", "leaves", "restore"}
        BY <2>1, <3>1 DEF NextPhase
      <3> QED BY <3>1, <3>2 DEF Restoring
    <2>2. CASE ~NextPhase
      BY <1>4, <2>2 DEF Restore, MakeRoot, BeginRestoreRoot, RemoveAll, RestoreDir,
                        RestoreLeaf, RestoreUnchanged, Restoring
    <2> QED BY <2>1, <2>2
  <1> QED BY <1>1, <1>2, <1>3, <1>4 DEF FixedRoots

LEMMA SessionStep ==
  ASSUME StrictTurns, StrictInv, SessionNext
  PROVE  Store!StoreNext
  <1>1. FixedRoots /\ Returned /\ StrictInv'
    BY StepStrict DEF SessionNext, FixedRoots, Next, Backend
  <1>2. ASSUME NEW s \in Snapshot, BeginRestore(s)
        PROVE  Store!StoreNext
    <2>1. ~AdoptTarget /\ ~RestoreFails
      BY <1>2 DEF BeginRestore, AdoptTarget, RestoreFails, Restoring
    <2>2. returned' = "none"
      BY <1>1, <1>2, <2>1, Zenon DEF Returned
    <2> QED BY <1>2, <2>2, BeginIsStoreStep DEF Store!StoreNext
  <1>3. CASE AdoptTarget
    <2>1. ~ \E s \in Snapshot : BeginRestore(s)
      BY <1>3 DEF AdoptTarget, BeginRestore
    <2>2. ~RestoreFails
      BY <1>3 DEF AdoptTarget, RestoreFails, StrictTurns
    <2>3. returned' = "ok"
      BY <1>1, <1>3, <2>1, <2>2, Zenon DEF Returned
    <2> QED BY <1>3, <2>3, AdoptIsStoreStep DEF Store!StoreNext
  <1>4. CASE RestoreFails /\ ~AdoptTarget
    <2>1. ~ \E s \in Snapshot : BeginRestore(s)
      BY <1>4 DEF RestoreFails, BeginRestore, Restoring
    <2>2. returned' = "error"
      BY <1>1, <1>4, <2>1, Zenon DEF Returned
    <2> QED BY <1>4, <2>2, FailIsStoreStep DEF Store!StoreNext
  <1>5. CASE ~RestoreFails /\ ~AdoptTarget /\ ~ \E s \in Snapshot : BeginRestore(s)
    <2>1. returned' = returned
      BY <1>1, <1>5 DEF Returned
    <2>2. ASSUME NEW s \in Snapshot, SaveManifest(s) \/ Delete(s)
          PROVE  Store!StoreNext
      BY <2>1, <2>2, SaveIsStoreStep, DeleteIsStoreStep DEF Store!StoreNext
    <2>3. CASE ~ \E s \in Snapshot : SaveManifest(s) \/ Delete(s)
      BY <1>1, <1>5, <2>1, <2>3, OtherSteps, OtherIsStoreStep DEF Store!StoreNext
    <2> QED BY <2>2, <2>3
  <1> QED BY <1>2, <1>3, <1>4, <1>5

LEMMA SessionStutter ==
  ASSUME UNCHANGED <<vars, returned>>
  PROVE  UNCHANGED Store!storeVars
  <1>1. UNCHANGED <<fs, roots, manifests, target, returned>> /\ Restoring' = Restoring
    BY DEF vars, worldVars, backendVars, Restoring
  <1> QED BY <1>1, DiskStays DEF Store!storeVars

(***************************************************************************)
(* The safety part of ImplementsStore: in strict turns a restore that      *)
(* returns "ok" has put back the very disk that was saved, and one that    *)
(* returns an error lost no manifest.  That every restore returns is       *)
(* checked by the run `store'.                                             *)
(***************************************************************************)
THEOREM TheStoreIsImplemented ==
  ASSUME StrictTurns
  PROVE  SessionSpec => Store!StoreInit /\ [][Store!StoreNext]_(Store!storeVars)
  <1>1. SessionInit => StrictInv /\ Store!StoreInit
    <2> SUFFICES ASSUME SessionInit
                 PROVE  StrictInv /\ Store!StoreInit
      OBVIOUS
    <2>1. StrictInv
      BY InitStrict DEF SessionInit
    <2>2. ~Restoring /\ (\A s \in Snapshot : manifests[s] = None) /\ returned = "none"
      BY DEF SessionInit, Init, Restoring
    <2> QED BY <2>1, <2>2, DiskIsState DEF Store!StoreInit
  <1>2. StrictInv /\ [SessionNext]_<<vars, returned>> => StrictInv'
    BY StepStrict DEF SessionNext, FixedRoots, Next, Backend
  <1>3. StrictInv /\ [SessionNext]_<<vars, returned>>
          => [Store!StoreNext]_(Store!storeVars)
    BY SessionStep, SessionStutter
  <1> QED BY <1>1, <1>2, <1>3, PTL DEF SessionSpec
-----------------------------------------------------------------------------
(***************************************************************************)
(* Part E: what is not lost when the watcher goes deaf.  A path is sure to *)
(* be looked at again when a scan of it is owed, or when an event that is  *)
(* still queued names it: one that makes everything be scanned, or one     *)
(* about a directory that is still where its watch says.  An event about a *)
(* directory that has moved since names the wrong path.                    *)
(***************************************************************************)
(* The directory a watch was added for is still where it was.              *)
AtHome(i) == wdToPath[i] \in Path /\ fs[wdToPath[i]] = i

Sure(p) ==
  \/ ScanOwed(p)
  \/ \E n \in 1..Len(queue) :
       \/ queue[n] = Overflow
       \/ wdToPath[queue[n].wd] = NoPath
       \/ AtHome(queue[n].wd) /\ Within(EventPath(queue[n]), p)

NothingMissed ==
  \A r \in roots, p \in Path : InScope(r, p) /\ IsDir(r) /\ InSight(r, p) =>
    \/ Entered(r, p) = Kind(fs[p])
    \/ Entered(r, p) = Absent /\ p \in made
    \/ Sure(p)

(* A directory that a restore made is remembered until it changes.         *)
MadeStays == \A p \in made : ~Changed(p) => p \in made'

(* Without a reader only what has changed since is not known of.           *)
OnlyMissed ==
  \A r \in roots, p \in Path : InScope(r, p) =>
    \/ Entered(r, p) = Kind(fs[p])
    \/ Entered(r, p) = Absent /\ p \in made
    \/ ScanOwed(p)
    \/ p \in missed

EventsNamed ==
  \A n \in 1..Len(queue) :
    /\ queue[n] # Overflow
    /\ queue[n].kind = "ignored" \/ wdToPath[queue[n].wd] = NoPath
    => Gone(queue[n].wd)

DeafInv ==
  /\ SideInv
  /\ IF reader = "running" THEN NothingMissed /\ EventsNamed ELSE OnlyMissed

(* The queue s is q and what came after.                                   *)
Extends(q, s) ==
  s \in Events /\ Len(q) <= Len(s) /\ \A n \in 1..Len(q) : s[n] = q[n]

Adds(q, s, E) == \A n \in 1..Len(s) : n > Len(q) => s[n] \in E \cup {Overflow}

Sent(s, e) == \E n \in 1..Len(s) : s[n] \in {e, Overflow}

Heard(p) == Len(p) > 1 /\ Watched(Parent(p))

LEMMA PostExtends ==
  ASSUME reader = "running", NEW q \in Events, NEW e \in Event
  PROVE  Extends(q, Post(q, e)) /\ Adds(q, Post(q, e), {e}) /\ Sent(Post(q, e), e)
  <1> DEFINE E == Event \cup {Overflow}
  <1>1. q \in Seq(E) /\ e \in E /\ Overflow \in E /\ Len(q) \in Nat
    BY DEF Events
  <1> HIDE DEF E
  <1>2. ASSUME NEW x \in {e, Overflow}, Post(q, e) = Append(q, x)
        PROVE  Extends(q, Post(q, e)) /\ Adds(q, Post(q, e), {e}) /\ Sent(Post(q, e), e)
    <2>1. x \in E
      BY <1>1
    <2>2. /\ Append(q, x) \in Seq(E) /\ Len(Append(q, x)) = Len(q) + 1
          /\ \A n \in 1..Len(q) : Append(q, x)[n] = q[n]
          /\ Append(q, x)[Len(q) + 1] = x
      BY <1>1, <2>1
    <2>3. PICK s : s = Append(q, x)
      OBVIOUS
    <2>4. /\ s \in Seq(E) /\ Len(s) = Len(q) + 1
          /\ \A n \in 1..Len(q) : s[n] = q[n]
          /\ s[Len(q) + 1] = x
      BY <2>2, <2>3
    <2>5. Extends(q, s)
      BY <1>1, <2>4 DEF Extends, Events, E
    <2>6. Adds(q, s, {e})
      <3>1. \A n \in 1..Len(s) : n > Len(q) => n = Len(q) + 1
        BY <1>1, <2>4
      <3> QED BY <2>4, <3>1 DEF Adds
    <2>7. Sent(s, e)
      <3>1. Len(q) + 1 \in 1..Len(s)
        BY <1>1, <2>4
      <3> QED BY <2>4, <3>1 DEF Sent
    <2> QED BY <1>2, <2>3, <2>5, <2>6, <2>7
  <1>3. ASSUME Post(q, e) = q, q # << >>, q[Len(q)] \in {e, Overflow}
        PROVE  Extends(q, Post(q, e)) /\ Adds(q, Post(q, e), {e}) /\ Sent(Post(q, e), e)
    <2>1. Len(q) \in 1..Len(q)
      BY <1>1, <1>3
    <2>2. Extends(q, q) /\ Adds(q, q, {e})
      BY <1>1 DEF Extends, Adds, Events, E
    <2>3. Sent(q, e)
      BY <1>3, <2>1 DEF Sent
    <2> QED BY <1>3, <2>2, <2>3
  <1>4. CASE q # << >> /\ q[Len(q)] = e
    BY <1>3, <1>4 DEF Post
  <1>5. CASE ~(q # << >> /\ q[Len(q)] = e) /\ Len(q) < MaxQueue
    BY <1>2, <1>5 DEF Post
  <1>6. CASE ~(q # << >> /\ q[Len(q)] = e) /\ ~(Len(q) < MaxQueue) /\ q[Len(q)] = Overflow
    <2>1. q # << >>
      BY <1>1, <1>6, BoundAssumption
    <2> QED BY <1>3, <1>6, <2>1 DEF Post
  <1>7. CASE ~(q # << >> /\ q[Len(q)] = e) /\ ~(Len(q) < MaxQueue) /\ q[Len(q)] # Overflow
    BY <1>2, <1>7 DEF Post
  <1> QED BY <1>4, <1>5, <1>6, <1>7

LEMMA NotifyExtends ==
  ASSUME TypeOK, reader = "running", NEW q \in Events, NEW p \in Path,
         NEW kind \in {"change", "mkdir"}
  PROVE  /\ Extends(q, Notify(q, p, kind))
         /\ Adds(q, Notify(q, p, kind), IF Heard(p) THEN {Notice(p, kind)} ELSE {})
         /\ Heard(p) => Sent(Notify(q, p, kind), Notice(p, kind))
  <1>1. CASE Heard(p)
    <2>1. fs[Parent(p)] \in Inode /\ p[Len(p)] \in Name
      BY <1>1, ParentIsPath, DirIsPath DEF Heard, Watched
    <2>2. Notice(p, kind) \in Event
      BY <2>1 DEF Notice, Event
    <2>3. Notify(q, p, kind) = Post(q, Notice(p, kind))
      BY <1>1 DEF Notify, Notice, Heard
    <2> QED BY <1>1, <2>2, <2>3, PostExtends
  <1>2. CASE ~Heard(p)
    <2>1. Notify(q, p, kind) = q
      BY <1>2 DEF Notify, Heard
    <2>2. q \in Seq(Event \cup {Overflow}) /\ Len(q) \in Nat
      BY DEF Events
    <2>3. Extends(q, q) /\ Adds(q, q, {})
      BY <2>2 DEF Extends, Adds, Events
    <2> QED BY <1>2, <2>1, <2>3
  <1> QED BY <1>1, <1>2

LEMMA ExtendsTwice ==
  ASSUME NEW q \in Events, NEW s, NEW u, NEW D, NEW E,
         Extends(q, s), Adds(q, s, D), Extends(s, u), Adds(s, u, E)
  PROVE  /\ Extends(q, u) /\ Adds(q, u, D \cup E)
         /\ \A e : Sent(s, e) => Sent(u, e)
  <1>1. /\ Len(q) \in Nat /\ Len(s) \in Nat /\ Len(u) \in Nat
        /\ Len(q) <= Len(s) /\ Len(s) <= Len(u)
        /\ \A n \in 1..Len(q) : s[n] = q[n]
        /\ \A n \in 1..Len(s) : u[n] = s[n]
        /\ u \in Events
    BY DEF Extends, Events
  <1>2. \A n \in 1..Len(q) : n \in 1..Len(s)
    BY <1>1
  <1>3. Extends(q, u)
    BY <1>1, <1>2 DEF Extends
  <1>4. Adds(q, u, D \cup E)
    <2> SUFFICES ASSUME NEW n \in 1..Len(u), n > Len(q)
                 PROVE  u[n] \in (D \cup E) \cup {Overflow}
      BY DEF Adds
    <2>1. CASE n \in 1..Len(s)
      BY <1>1, <2>1 DEF Adds
    <2>2. CASE n > Len(s)
      BY <2>2 DEF Adds
    <2> QED BY <1>1, <2>1, <2>2
  <1>5. ASSUME NEW e, Sent(s, e)
        PROVE  Sent(u, e)
    <2>1. \A n \in 1..Len(s) : n \in 1..Len(u)
      BY <1>1
    <2> QED BY <1>1, <1>5, <2>1 DEF Sent
  <1> QED BY <1>3, <1>4, <1>5

(***************************************************************************)
(* A step of the disk at the paths of T and below them: a notice about     *)
(* each of T is sent when its directory is watched.                        *)
(***************************************************************************)
SentAbout(e) ==
  \/ e.kind # "ignored" /\ wdToPath[e.wd] # NoPath
  \/ \A x \in Path : fs'[x] # e.wd

DiskStep(T) ==
  /\ T \subseteq Path
  /\ Extends(queue, queue')
  /\ \A n \in 1..Len(queue') :
        n > Len(queue) /\ queue'[n] # Overflow => SentAbout(queue'[n])
  /\ \A x \in Path : fs'[x] = fs[x] \/ \E t \in T : Within(t, x)
  /\ \A x \in Path : fs'[x] \in Inode =>
        \/ \E y \in Path : fs[y] = fs'[x]
        \/ \A n \in 1..Len(queue) : queue[n] # Overflow => queue[n].wd # fs'[x]
  /\ \A t \in T : Len(t) > 1 => /\ fs[Parent(t)] \in Inode
                                /\ fs'[Parent(t)] = fs[Parent(t)]
  /\ \A t \in T : Heard(t) =>
        \E kind \in {"change", "mkdir"} : Sent(queue', Notice(t, kind))
  /\ \A t \in T, r \in roots : Within(t, r) /\ IsDir(r)' => ~WatchedAs(r)'

LEMMA DiskStepMissesNothing ==
  ASSUME TypeInv, roots = InitRoots, WatcherAndScanStay, UNCHANGED reader,
         NothingMissed, EventsNamed, MadeStays, NEW T, DiskStep(T)
  PROVE  NothingMissed' /\ EventsNamed'
  <1>1. /\ UNCHANGED <<wdToPath, roots, dirty, forceFull, current, tmp>>
        /\ Syncing \/ Syncing' => UNCHANGED <<pc, work, todo>>
    BY DEF WatcherAndScanStay
  <1>2. /\ Len(queue) \in Nat /\ Len(queue') \in Nat /\ Len(queue) <= Len(queue')
        /\ queue \in Seq(Event \cup {Overflow})
        /\ queue' \in Seq(Event \cup {Overflow})
        /\ \A n \in 1..Len(queue) : queue'[n] = queue[n]
        /\ \A n \in 1..Len(queue) : n \in 1..Len(queue')
    BY DEF TypeInv, TypeOK, DiskStep, Extends, Events
  <1>3. T \subseteq Path /\ T \subseteq Seq(Name) /\ Path \subseteq Seq(Name)
        /\ roots \subseteq Seq(Name) /\ roots \subseteq Path
    BY Paths1, FixedRootFacts DEF DiskStep
  <1>4. EventsNamed'
    <2> SUFFICES ASSUME NEW n \in 1..Len(queue'), queue'[n] # Overflow,
                        queue'[n].kind = "ignored" \/ wdToPath[queue'[n].wd] = NoPath,
                        NEW x \in Path, fs'[x] = queue'[n].wd
                 PROVE  FALSE
      BY <1>1 DEF EventsNamed, Gone
    <2>1. queue'[n] \in Event /\ queue'[n].wd \in Inode
      BY <1>2 DEF Event
    <2>2. CASE n > Len(queue)
      BY <2>2 DEF DiskStep, SentAbout
    <2>3. CASE n <= Len(queue)
      <3>1. n \in 1..Len(queue) /\ queue'[n] = queue[n]
        BY <1>2, <2>3
      <3>2. Gone(queue[n].wd)
        BY <3>1 DEF EventsNamed
      <3>3. ~ \E y \in Path : fs[y] = fs'[x]
        BY <3>1, <3>2 DEF Gone
      <3> QED BY <2>1, <3>1, <3>3 DEF DiskStep
    <2> QED BY <1>2, <2>2, <2>3
  <1>5. NothingMissed'
    <2> SUFFICES ASSUME NEW r \in roots, NEW p \in Path, InScope(r, p), IsDir(r)',
                        InSight(r, p)'
                 PROVE  \/ Entered(r, p)' = Kind(fs'[p])
                        \/ Entered(r, p)' = Absent /\ p \in made'
                        \/ Sure(p)'
      BY <1>1 DEF NothingMissed, InScope
    <2>1. Within(r, p) /\ r # p /\ r \in Seq(Name) /\ p \in Seq(Name)
      BY <1>3 DEF InScope
    <2>2. \A a \in Path : Within(r, a) /\ Within(a, p) /\ a # p /\ fs'[a] \in Inode
             => wdToPath[fs'[a]] = a
      BY <1>1, DirBefore DEF InSight, WatchedAs
    <2>3. CASE \E t \in T : Within(t, p)
      <3>1. PICK t \in T : Within(t, p)
        BY <2>3
      <3>2. t \in Seq(Name) /\ t \in Path
        BY <1>3
      <3>3. ~Within(t, r)
        <4>1. SUFFICES ASSUME Within(t, r) PROVE FALSE
          OBVIOUS
        <4>2. WatchedAs(r)'
          BY <1>1, <1>3, <2>1, <2>2, DirBefore, WithinReflexive DEF WatchedAs
        <4> QED BY <3>1, <4>1, <4>2 DEF DiskStep
      <3>4. Within(r, t) /\ r # t
        BY <2>1, <3>1, <3>2, <3>3, WithinComparable, WithinReflexive
      <3> DEFINE d == Parent(t)
      <3>5. Len(t) > 1 /\ Within(r, d)
        BY <2>1, <3>2, <3>4, WithinParent
      <3>6. d \in Path /\ d \in Seq(Name) /\ Within(d, t) /\ d # t
            /\ Append(d, t[Len(t)]) = t
        BY <3>2, <3>5, ParentIsPath, Paths1
      <3>7. Within(d, p) /\ d # p
        BY <2>1, <3>1, <3>2, <3>6, WithinTransitive, WithinAntisymmetric
      <3>8. fs[d] \in Inode /\ fs'[d] = fs[d]
        BY <3>1, <3>5 DEF DiskStep
      <3>9. wdToPath[fs[d]] = d
        BY <2>2, <3>5, <3>6, <3>7, <3>8
      <3>10. Heard(t)
        BY <3>5, <3>6, <3>8, <3>9, Paths1, DirBefore DEF Heard, Watched
      <3>11. PICK kind \in {"change", "mkdir"}, n \in 1..Len(queue') :
                      queue'[n] \in {Notice(t, kind), Overflow}
        BY <3>1, <3>10 DEF DiskStep, Sent
      <3>12. CASE queue'[n] = Overflow
        BY <3>12 DEF Sure
      <3>13. CASE queue'[n] = Notice(t, kind)
        <4>1. queue'[n].wd = fs[d] /\ queue'[n].name = t[Len(t)]
              /\ queue'[n].kind # "ignored"
          BY <3>13 DEF Notice
        <4>2. AtHome(queue[n].wd)'
          BY <1>1, <3>6, <3>8, <3>9, <4>1 DEF AtHome
        <4>3. EventPath(queue[n])' = t
          BY <1>1, <3>6, <3>9, <4>1 DEF EventPath
        <4> QED BY <3>1, <4>2, <4>3 DEF Sure
      <3> QED BY <3>11, <3>12, <3>13
    <2>4. CASE ~ \E t \in T : Within(t, p)
      <3>1. ASSUME NEW a \in Path, Within(a, p)
            PROVE  fs'[a] = fs[a]
        <4>1. \A t \in T : ~Within(t, a)
          BY <1>3, <2>1, <2>4, <3>1, WithinTransitive
        <4> QED BY <4>1 DEF DiskStep
      <3>2. fs'[p] = fs[p] /\ fs'[r] = fs[r]
        BY <1>3, <2>1, <3>1, WithinReflexive
      <3>3. IsDir(r) /\ InSight(r, p)
        <4>1. IsDir(r)
          BY <1>3, <3>2, DirBefore
        <4>2. InSight(r, p)
          BY <2>2, <3>1, DirBefore DEF InSight, WatchedAs
        <4> QED BY <4>1, <4>2
      <3>4. \/ Entered(r, p) = Kind(fs[p])
            \/ Entered(r, p) = Absent /\ p \in made
            \/ Sure(p)
        BY <3>3 DEF NothingMissed
      <3>5. Entered(r, p)' = Entered(r, p)
        BY <1>1 DEF Entered, Merged, Syncing
      <3>6. p \in made => p \in made'
        BY <3>2 DEF MadeStays, Changed
      <3>7. ASSUME Sure(p)
            PROVE  Sure(p)'
        <4>1. CASE ScanOwed(p)
          BY <1>1, <4>1 DEF Sure, ScanOwed, NoCurrent, Syncing
        <4>2. CASE ~ScanOwed(p)
          <5>1. PICK n \in 1..Len(queue) :
                   \/ queue[n] = Overflow
                   \/ wdToPath[queue[n].wd] = NoPath
                   \/ AtHome(queue[n].wd) /\ Within(EventPath(queue[n]), p)
            BY <3>7, <4>2 DEF Sure
          <5>2. n \in 1..Len(queue') /\ queue'[n] = queue[n]
            BY <1>2
          <5>3. CASE queue[n] = Overflow \/ wdToPath[queue[n].wd] = NoPath
            BY <1>1, <5>2, <5>3 DEF Sure
          <5>4. CASE queue[n] # Overflow /\ AtHome(queue[n].wd) /\ Within(EventPath(queue[n]), p)
            <6> DEFINE h == wdToPath[queue[n].wd]
            <6>1. h \in Path /\ h \in Seq(Name) /\ h # << >> /\ fs[h] = queue[n].wd
              BY <5>4, Paths1 DEF AtHome
            <6>2. queue[n] \in Event
              BY <1>2, <5>4
            <6>3. Within(h, p)
              <7>1. CASE queue[n].kind = "ignored"
                BY <5>4, <7>1 DEF EventPath
              <7>2. CASE queue[n].kind # "ignored"
                <8>1. queue[n].name \in Name
                  BY <6>2, <7>2 DEF Event
                <8>2. Append(h, queue[n].name) \in Seq(Name)
                      /\ Within(h, Append(h, queue[n].name))
                  BY <6>1, <8>1, JoinedPath
                <8> QED BY <2>1, <5>4, <6>1, <7>2, <8>2, WithinTransitive DEF EventPath
              <7> QED BY <7>1, <7>2
            <6>4. fs'[h] = fs[h]
              BY <3>1, <6>1, <6>3
            <6>5. AtHome(queue[n].wd)' /\ EventPath(queue[n])' = EventPath(queue[n])
              BY <1>1, <5>2, <6>1, <6>4 DEF AtHome, EventPath
            <6> QED BY <5>2, <5>4, <6>5 DEF Sure
          <5> QED BY <5>1, <5>3, <5>4
        <4> QED BY <4>1, <4>2
      <3> QED BY <3>2, <3>4, <3>5, <3>6, <3>7
    <2> QED BY <2>3, <2>4
  <1> QED BY <1>4, <1>5

LEMMA NoticeIsSentAbout ==
  ASSUME NEW p, Heard(p), NEW kind \in {"change", "mkdir"}
  PROVE  SentAbout(Notice(p, kind))
  BY DEF Heard, Watched, Notice, SentAbout

LEMMA OneNoticeSuffices ==
  ASSUME TypeOK, reader = "running", NEW p \in Path, NEW kind \in {"change", "mkdir"},
         queue' = Notify(queue, p, kind)
  PROVE  /\ Extends(queue, queue')
         /\ \A n \in 1..Len(queue') :
               n > Len(queue) /\ queue'[n] # Overflow => SentAbout(queue'[n])
         /\ Heard(p) => Sent(queue', Notice(p, kind))
  <1>1. queue \in Events
    BY DEF TypeOK, Events
  <1>2. /\ Extends(queue, queue')
        /\ Adds(queue, queue', IF Heard(p) THEN {Notice(p, kind)} ELSE {})
        /\ Heard(p) => Sent(queue', Notice(p, kind))
    BY <1>1, NotifyExtends
  <1>3. ASSUME NEW n \in 1..Len(queue'), n > Len(queue), queue'[n] # Overflow
        PROVE  SentAbout(queue'[n])
    <2>1. Heard(p) /\ queue'[n] = Notice(p, kind)
      BY <1>2, <1>3 DEF Adds
    <2> QED BY <2>1, NoticeIsSentAbout
  <1> QED BY <1>2, <1>3

LEMMA FileStepIsDiskStep ==
  ASSUME TypeInv, IsTree, roots = InitRoots, UNCHANGED wdToPath, reader = "running",
         NEW p \in Path, FileStep(p)
  PROVE  DiskStep({p})
  <1>1. TypeOK /\ queue \in Events /\ p \in Seq(Name) /\ roots \subseteq Path
        /\ roots \subseteq Seq(Name)
    BY Paths1, FixedRootFacts DEF TypeInv, TypeOK, Events
  <1>2. \A x \in Path : x # p => fs'[x] = fs[x]
    BY DEF FileStep, PutLeaf, MakeDir, RemoveLeaf, RemoveDir, TypeInv, TypeOK
  <1>3. \A x \in Path : fs'[x] = fs[x] \/ \E t \in {p} : Within(t, x)
    BY <1>1, <1>2, WithinReflexive
  <1>4. \/ fs'[p] \notin Inode
        \/ MakeDir(p) /\ fs'[p] \in Fresh
    BY SentinelAssumption
    DEF FileStep, PutLeaf, MakeDir, RemoveLeaf, RemoveDir, TypeInv, TypeOK
  <1>5. \A x \in Path : fs'[x] \in Inode =>
          \/ \E y \in Path : fs[y] = fs'[x]
          \/ \A n \in 1..Len(queue) : queue[n] # Overflow => queue[n].wd # fs'[x]
    BY <1>2, <1>4 DEF Fresh
  <1>6. ASSUME Len(p) > 1
        PROVE  fs[Parent(p)] \in Inode /\ fs'[Parent(p)] = fs[Parent(p)]
    <2>1. Parent(p) \in Path /\ Parent(p) # p /\ Within(Parent(p), p)
      BY <1>6, ParentIsPath
    <2>2. CASE fs[p] # Absent
      BY <1>2, <2>1, <2>2, DirBefore DEF IsTree
    <2>3. CASE fs[p] = Absent
      <3>1. HasParent(p)
        BY <2>3, SentinelAssumption, DirIsPath
        DEF FileStep, PutLeaf, MakeDir, RemoveLeaf, RemoveDir
      <3>2. PICK n \in Nat : n = Len(p)
        BY <1>1
      <3>3. n # 1
        BY <1>6, <3>2
      <3>4. IsDir(Parent(p))
        BY <3>1, <3>2, <3>3 DEF HasParent
      <3> QED BY <1>2, <2>1, <3>4, DirBefore
    <2> QED BY <2>2, <2>3
  <1>7. ASSUME NEW r \in roots, Within(p, r), IsDir(r)'
        PROVE  ~WatchedAs(r)'
    <2>1. r \in Path /\ r \in Seq(Name) /\ fs'[r] \in Inode /\ r # NoPath
      BY <1>1, <1>7, DirBefore, Paths1
    <2>2. CASE r = p
      <3>1. wdToPath[fs'[p]] = NoPath
        BY <1>4, <2>1, <2>2 DEF Fresh
      <3> QED BY <2>1, <2>2, <3>1 DEF WatchedAs
    <2>3. CASE r # p
      <3>1. fs[r] \in Inode /\ fs[r] # Absent
        BY <1>2, <2>1, <2>3, SentinelAssumption
      <3>2. IsDir(p) /\ Children(p) # {}
        BY <1>1, <1>7, <2>1, <2>3, <3>1, TreeStep
      <3>3. FALSE
        BY <3>2, DirIsPath, SentinelAssumption
        DEF FileStep, PutLeaf, MakeDir, RemoveLeaf, RemoveDir
      <3> QED BY <3>3
    <2> QED BY <2>2, <2>3
  <1>8. ASSUME NEW kind \in {"change", "mkdir"}, queue' = Notify(queue, p, kind)
        PROVE  DiskStep({p})
    <2>1. /\ Extends(queue, queue')
          /\ \A n \in 1..Len(queue') :
                n > Len(queue) /\ queue'[n] # Overflow => SentAbout(queue'[n])
          /\ Heard(p) => Sent(queue', Notice(p, kind))
      BY <1>1, <1>8, OneNoticeSuffices
    <2> QED BY <1>3, <1>5, <1>6, <1>7, <2>1 DEF DiskStep
  <1>9. ASSUME RemoveDir(p), Watched(p)
        PROVE  DiskStep({p})
    <2>1. PICK q, e : /\ q = Notify(queue, p, "change")
                      /\ e = [wd |-> fs[p], name |-> NoName, kind |-> "ignored"]
      OBVIOUS
    <2>2. fs[p] \in Inode /\ e \in Event /\ fs'[p] = Absent
      BY <1>9, <2>1, DirIsPath DEF RemoveDir, Event, TypeInv, TypeOK
    <2>3. /\ Extends(queue, q)
          /\ Adds(queue, q, IF Heard(p) THEN {Notice(p, "change")} ELSE {})
          /\ Heard(p) => Sent(q, Notice(p, "change"))
      BY <1>1, <2>1, NotifyExtends
    <2>4. queue' = Post(q, e) /\ q \in Events
      BY <1>9, <2>1, <2>3 DEF RemoveDir, Extends
    <2>5. Extends(q, queue') /\ Adds(q, queue', {e})
      BY <2>2, <2>4, PostExtends
    <2>6. /\ Extends(queue, queue')
          /\ Adds(queue, queue', (IF Heard(p) THEN {Notice(p, "change")} ELSE {}) \cup {e})
          /\ Heard(p) => Sent(queue', Notice(p, "change"))
      BY <1>1, <2>3, <2>5, ExtendsTwice
    <2>7. SentAbout(e)
      <3>1. \A x \in Path : fs'[x] # fs[p]
        BY <1>2, <2>2, SentinelAssumption DEF IsTree
      <3> QED BY <2>1, <3>1 DEF SentAbout
    <2>8. ASSUME NEW n \in 1..Len(queue'), n > Len(queue), queue'[n] # Overflow
          PROVE  SentAbout(queue'[n])
      <3>1. queue'[n] = e \/ (Heard(p) /\ queue'[n] = Notice(p, "change"))
        BY <2>6, <2>8 DEF Adds
      <3> QED BY <2>7, <3>1, NoticeIsSentAbout
    <2> QED BY <1>3, <1>5, <1>6, <1>7, <2>6, <2>8 DEF DiskStep
  <1> QED BY <1>8, <1>9 DEF FileStep, PutLeaf, MakeDir, RemoveLeaf, RemoveDir

LEMMA RenameIsDiskStep ==
  ASSUME TypeInv, IsTree, reader = "running",
         NEW p \in Path, NEW q \in Path, RenameDir(p, q)
  PROVE  DiskStep({p, q})
  <1>1. TypeOK /\ queue \in Events /\ p \in Seq(Name) /\ q \in Seq(Name)
    BY Paths1 DEF TypeInv, TypeOK, Events
  <1>2. /\ ~Within(p, q) /\ ~Within(q, p) /\ IsDir(p) /\ HasParent(q)
        /\ \A r \in roots : ~Within(p, r) /\ ~Within(q, r)
        /\ queue' = Notify(Notify(queue, p, "change"), q, "change")
        /\ \A x \in Path : fs'[x] = IF Within(q, x) THEN At(Source(p, q, x))
                                    ELSE IF Within(p, x) THEN Absent ELSE fs[x]
    BY DEF RenameDir, Moved, Source
  <1>3. \A x \in Path : fs'[x] = fs[x] \/ \E t \in {p, q} : Within(t, x)
    BY <1>2
  <1>4. ASSUME NEW x \in Path, fs'[x] \in Inode
        PROVE  \E y \in Path : fs[y] = fs'[x]
    <2>1. fs'[x] # Absent
      BY <1>4, SentinelAssumption
    <2>2. CASE Within(q, x)
      BY <1>2, <2>1, <2>2 DEF At
    <2>3. CASE ~Within(q, x)
      BY <1>2, <2>1, <2>3
    <2> QED BY <2>2, <2>3
  <1>5. ASSUME NEW t \in {p, q}, Len(t) > 1
        PROVE  fs[Parent(t)] \in Inode /\ fs'[Parent(t)] = fs[Parent(t)]
    <2> DEFINE d == Parent(t)
    <2>1. d \in Path /\ d \in Seq(Name) /\ d # t /\ Within(d, t) /\ t \in Seq(Name)
      BY <1>1, <1>5, ParentIsPath, Paths1
    <2>2. IsDir(d)
      <3>1. CASE t = p
        BY <1>2, <2>1, <3>1, DirIsPath DEF IsTree
      <3>2. CASE t = q
        <4>1. PICK n \in Nat : n = Len(q)
          BY <1>1
        <4>2. n # 1
          BY <1>5, <3>2, <4>1
        <4> QED BY <1>2, <3>2, <4>1, <4>2 DEF HasParent
      <3> QED BY <3>1, <3>2
    <2> HIDE DEF d
    <2>3. ~Within(p, d) /\ ~Within(q, d)
      BY <1>1, <1>2, <2>1, WithinTransitive, WithinAntisymmetric
    <2>4. fs'[d] = fs[d]
      BY <1>2, <2>1, <2>3
    <2> QED BY <2>1, <2>2, <2>4, DirBefore DEF d
  <1>6. PICK s : s = Notify(queue, p, "change")
    OBVIOUS
  <1>7. /\ Extends(queue, s) /\ s \in Events
        /\ Adds(queue, s, IF Heard(p) THEN {Notice(p, "change")} ELSE {})
        /\ Heard(p) => Sent(s, Notice(p, "change"))
    BY <1>1, <1>6, NotifyExtends DEF Extends
  <1>8. /\ Extends(s, queue')
        /\ Adds(s, queue', IF Heard(q) THEN {Notice(q, "change")} ELSE {})
        /\ Heard(q) => Sent(queue', Notice(q, "change"))
    BY <1>1, <1>2, <1>6, <1>7, NotifyExtends
  <1>9. /\ Extends(queue, queue')
        /\ Adds(queue, queue', (IF Heard(p) THEN {Notice(p, "change")} ELSE {})
                                 \cup (IF Heard(q) THEN {Notice(q, "change")} ELSE {}))
        /\ Heard(p) => Sent(queue', Notice(p, "change"))
    BY <1>1, <1>7, <1>8, ExtendsTwice
  <1>10. ASSUME NEW n \in 1..Len(queue'), n > Len(queue), queue'[n] # Overflow
         PROVE  SentAbout(queue'[n])
    <2>1. \E t \in {p, q} : Heard(t) /\ queue'[n] = Notice(t, "change")
      BY <1>9, <1>10 DEF Adds
    <2> QED BY <2>1, NoticeIsSentAbout
  <1>11. \A t \in {p, q} : Heard(t) =>
           \E kind \in {"change", "mkdir"} : Sent(queue', Notice(t, kind))
    BY <1>8, <1>9
  <1> QED BY <1>2, <1>3, <1>4, <1>5, <1>9, <1>10, <1>11 DEF DiskStep

(***************************************************************************)
(* The reader.  An event it takes out of the queue becomes a dirty path or *)
(* a full scan; a watch it adds lies inside a dirty path.                  *)
(***************************************************************************)
LEMMA HandleEventMissesNothing ==
  ASSUME TypeInv, NothingMissed, EventsNamed, MadeStays, HandleEvent
  PROVE  NothingMissed' /\ EventsNamed'
  <1> DEFINE e == queue[1]
             plain == ~(e = Overflow \/ (e # Overflow /\ wdToPath[e.wd] = NoPath))
  <1>1. UNCHANGED <<fs, roots, current, pc, work, todo, tmp>> /\ queue # << >>
        /\ queue' = Tail(queue)
    BY DEF HandleEvent, backendVars
  <1>2. /\ Len(queue) \in Nat \ {0} /\ Len(queue') = Len(queue) - 1
        /\ \A n \in 1..Len(queue') : queue'[n] = queue[n + 1] /\ n + 1 \in 1..Len(queue)
        /\ \A n \in 1..Len(queue) : queue[n] \in Event \cup {Overflow}
        /\ 1 \in 1..Len(queue)
    BY <1>1 DEF TypeInv, TypeOK
  <1>3. ~plain => forceFull' = TRUE /\ UNCHANGED <<wdToPath, dirty>>
    BY DEF HandleEvent
  <1>4. plain => /\ dirty' = dirty \cup {EventPath(e)} /\ UNCHANGED forceFull
                 /\ wdToPath' = IF e.kind = "ignored" THEN [wdToPath EXCEPT ![e.wd] = NoPath]
                                                      ELSE wdToPath
    BY DEF HandleEvent
  <1>5. plain => e \in Event /\ e.wd \in Inode /\ e # Overflow /\ wdToPath[e.wd] # NoPath
    BY <1>2 DEF Event
  <1> HIDE DEF e
  <1>6. \A i \in Inode : wdToPath'[i] = wdToPath[i] \/
           (plain /\ e.kind = "ignored" /\ i = e.wd /\ wdToPath'[i] = NoPath)
    BY <1>3, <1>4, <1>5 DEF TypeInv, TypeOK
  <1> HIDE DEF plain
  <1>7. EventsNamed'
    <2> SUFFICES ASSUME NEW n \in 1..Len(queue'), queue'[n] # Overflow,
                        queue'[n].kind = "ignored" \/ wdToPath'[queue'[n].wd] = NoPath
                 PROVE  Gone(queue'[n].wd)
      BY <1>1 DEF EventsNamed, Gone
    <2>1. n + 1 \in 1..Len(queue) /\ queue'[n] = queue[n + 1]
          /\ queue'[n] \in Event /\ queue'[n].wd \in Inode
      BY <1>2 DEF Event
    <2>2. CASE wdToPath'[queue'[n].wd] = wdToPath[queue'[n].wd]
      BY <2>1, <2>2 DEF EventsNamed
    <2>3. CASE plain /\ e.kind = "ignored" /\ queue'[n].wd = e.wd
      BY <1>2, <1>5, <2>3 DEF EventsNamed, e
    <2> QED BY <1>6, <2>1, <2>2, <2>3
  <1>8. NothingMissed'
    <2> SUFFICES ASSUME NEW r \in roots, NEW p \in Path, InScope(r, p), IsDir(r),
                        InSight(r, p)'
                 PROVE  \/ Entered(r, p) = Kind(fs[p])
                        \/ Entered(r, p) = Absent /\ p \in made
                        \/ Sure(p)'
      <3>1. \A r, p : Entered(r, p)' = Entered(r, p)
        BY <1>1 DEF Entered, Merged
      <3>2. \A p : p \in made => p \in made'
        BY <1>1 DEF MadeStays, Changed
      <3> QED BY <1>1, <3>1, <3>2 DEF NothingMissed, InScope, IsDir, At
    <2>1. InSight(r, p)
      <3> SUFFICES ASSUME NEW a \in Path, Within(r, a), Within(a, p), a # p, IsDir(a)
                   PROVE  wdToPath[fs[a]] = a
        BY DEF InSight, WatchedAs
      <3>1. wdToPath'[fs[a]] = a
        BY <1>1 DEF InSight, WatchedAs, IsDir, At
      <3>2. a # NoPath /\ fs[a] \in Inode
        BY DirIsPath, Paths1
      <3> QED BY <1>6, <3>1, <3>2
    <2>2. \/ Entered(r, p) = Kind(fs[p])
          \/ Entered(r, p) = Absent /\ p \in made
          \/ Sure(p)
      BY <2>1 DEF NothingMissed
    <2>3. ASSUME ScanOwed(p)
          PROVE  ScanOwed(p)'
      BY <1>1, <1>3, <1>4, <2>3 DEF ScanOwed, NoCurrent, Syncing
    <2>4. ASSUME NEW n \in 1..Len(queue),
                 \/ queue[n] = Overflow
                 \/ wdToPath[queue[n].wd] = NoPath
                 \/ AtHome(queue[n].wd) /\ Within(EventPath(queue[n]), p)
          PROVE  Sure(p)'
      <3>1. CASE n = 1
        <4>1. CASE plain
          <5>1. Within(EventPath(e), p)
            BY <1>5, <2>4, <3>1, <4>1 DEF e
          <5> QED BY <1>4, <4>1, <5>1 DEF Sure, ScanOwed
        <4>2. CASE ~plain
          BY <1>3, <4>2 DEF Sure, ScanOwed
        <4> QED BY <4>1, <4>2
      <3>2. CASE n # 1
        <4>1. n - 1 \in 1..Len(queue') /\ queue'[n - 1] = queue[n]
          BY <1>2, <3>2
        <4>2. CASE queue[n] = Overflow
          BY <4>1, <4>2 DEF Sure
        <4>3. CASE queue[n] # Overflow
          <5>1. queue[n].wd \in Inode
            BY <1>2, <4>3 DEF Event
          <5>2. CASE wdToPath'[queue[n].wd] = NoPath
            BY <4>1, <5>2 DEF Sure
          <5>3. CASE wdToPath'[queue[n].wd] = wdToPath[queue[n].wd]
            <6>1. CASE wdToPath[queue[n].wd] = NoPath
              BY <4>1, <5>3, <6>1 DEF Sure
            <6>2. CASE AtHome(queue[n].wd) /\ Within(EventPath(queue[n]), p)
              <7>1. AtHome(queue[n - 1].wd)' /\ EventPath(queue[n - 1])' = EventPath(queue[n])
                BY <1>1, <4>1, <5>3, <6>2 DEF AtHome, EventPath
              <7> QED BY <4>1, <6>2, <7>1 DEF Sure
            <6> QED BY <2>4, <4>3, <6>1, <6>2
          <5> QED BY <1>6, <5>1, <5>2, <5>3
        <4> QED BY <4>2, <4>3
      <3> QED BY <3>1, <3>2
    <2> QED BY <2>2, <2>3, <2>4 DEF Sure
  <1> QED BY <1>7, <1>8

(* What is sure stays so while events are neither added nor handled.       *)
LEMMA SureStays ==
  ASSUME NEW p, Sure(p), UNCHANGED <<fs, queue>>, ScanOwed(p) => ScanOwed(p)',
         \A n \in 1..Len(queue) :
            queue[n] = Overflow \/ wdToPath'[queue[n].wd] = wdToPath[queue[n].wd]
  PROVE  Sure(p)'
  <1>1. CASE ScanOwed(p)
    BY <1>1 DEF Sure
  <1>2. ASSUME NEW n \in 1..Len(queue), queue[n] # Overflow, AtHome(queue[n].wd),
               Within(EventPath(queue[n]), p)
        PROVE  Sure(p)'
    <2>1. wdToPath'[queue[n].wd] = wdToPath[queue[n].wd]
      BY <1>2
    <2>2. AtHome(queue[n].wd)' /\ EventPath(queue[n])' = EventPath(queue[n])
      BY <1>2, <2>1 DEF AtHome, EventPath
    <2> QED BY <1>2, <2>2 DEF Sure
  <1> QED BY <1>1, <1>2 DEF Sure

LEMMA AddWatchMissesNothing ==
  ASSUME TypeInv, IsTree, roots = InitRoots, WalkIsDirty, NothingMissed, EventsNamed,
         MadeStays, pc # "extend", NEW y \in adding, AddWatch(y)
  PROVE  NothingMissed' /\ EventsNamed'
  <1>1. /\ UNCHANGED <<fs, queue, roots, dirty, forceFull, current, pc, work, todo, tmp>>
        /\ wdToPath' = wdToPath \/ (IsDir(y) /\ wdToPath' = [wdToPath EXCEPT ![fs[y]] = y])
    BY DEF AddWatch, worldVars, backendVars
  <1>2. /\ \A r, p : Entered(r, p)' = Entered(r, p)
        /\ \A p : ScanOwed(p)' <=> ScanOwed(p)
    BY <1>1 DEF Entered, Merged, ScanOwed, NoCurrent, Syncing
  <1>3. \A n \in 1..Len(queue) : queue[n] \in Event \cup {Overflow}
    BY DEF TypeInv, TypeOK
  <1>4. \A i \in Inode :
           wdToPath'[i] = wdToPath[i] \/ (y \in Path /\ fs[y] = i /\ wdToPath'[i] = y)
    BY <1>1, DirIsPath DEF TypeInv, TypeOK
  <1>5. EventsNamed'
    <2> SUFFICES ASSUME NEW n \in 1..Len(queue), queue[n] # Overflow,
                        queue[n].kind = "ignored" \/ wdToPath'[queue[n].wd] = NoPath
                 PROVE  Gone(queue[n].wd)
      BY <1>1 DEF EventsNamed, Gone
    <2>1. queue[n].wd \in Inode
      BY <1>3 DEF Event
    <2> QED BY <1>4, <2>1, Paths1 DEF EventsNamed
  <1>6. PICK d \in dirty : Within(d, y)
    BY DEF WalkIsDirty
  <1>7. NothingMissed'
    <2> SUFFICES ASSUME NEW r \in roots, NEW p \in Path, InScope(r, p), IsDir(r),
                        InSight(r, p)'
                 PROVE  \/ Entered(r, p) = Kind(fs[p])
                        \/ Entered(r, p) = Absent /\ p \in made
                        \/ Sure(p)'
      <3>1. \A p : p \in made => p \in made'
        BY <1>1 DEF MadeStays, Changed
      <3> QED BY <1>1, <1>2, <3>1 DEF NothingMissed, InScope, IsDir, At
    <2>1. CASE Within(y, p)
      <3>1. d \in Seq(Name) /\ y \in Seq(Name) /\ p \in Seq(Name)
        BY Paths1 DEF TypeInv, TypeOK
      <3>2. Within(d, p)
        BY <1>6, <2>1, <3>1, WithinTransitive
      <3> QED BY <1>1, <3>2 DEF Sure, ScanOwed
    <2>2. CASE ~Within(y, p)
      <3>1. ASSUME NEW a \in Path, Within(a, p), fs[a] \in Inode
            PROVE  wdToPath'[fs[a]] = wdToPath[fs[a]]
        <4>1. y \in Path /\ fs[y] = fs[a] => y = a
          BY <3>1 DEF IsTree
        <4> QED BY <1>4, <2>2, <3>1, <4>1
      <3>2. InSight(r, p)
        BY <1>1, <3>1, DirIsPath DEF InSight, WatchedAs, IsDir, At
      <3>3. \/ Entered(r, p) = Kind(fs[p])
            \/ Entered(r, p) = Absent /\ p \in made
            \/ Sure(p)
        BY <3>2 DEF NothingMissed
      <3>4. ASSUME NEW n \in 1..Len(queue), queue[n] # Overflow
            PROVE  \/ wdToPath'[queue[n].wd] = wdToPath[queue[n].wd]
                   \/ fs[y] = queue[n].wd /\ y \in Path /\ wdToPath[queue[n].wd] # NoPath
        <4>1. queue[n].wd \in Inode
          BY <1>3, <3>4 DEF Event
        <4> QED BY <1>4, <3>4, <4>1 DEF EventsNamed, Gone
      <3>5. ASSUME Sure(p)
            PROVE  Sure(p)'
        <4>1. CASE ScanOwed(p)
          BY <1>2, <4>1 DEF Sure
        <4>2. CASE ~ScanOwed(p)
          <5>1. PICK n \in 1..Len(queue) :
                   \/ queue[n] = Overflow
                   \/ wdToPath[queue[n].wd] = NoPath
                   \/ AtHome(queue[n].wd) /\ Within(EventPath(queue[n]), p)
            BY <3>5, <4>2 DEF Sure
          <5>2. CASE queue[n] = Overflow
            BY <1>1, <5>2 DEF Sure
          <5>3. CASE queue[n] # Overflow /\ wdToPath[queue[n].wd] = NoPath
            BY <1>1, <3>4, <5>3 DEF Sure
          <5>4. CASE /\ queue[n] # Overflow /\ AtHome(queue[n].wd)
                     /\ Within(EventPath(queue[n]), p)
            <6>1. queue[n].wd \in Inode
              BY <1>3, <5>4 DEF Event
            <6>2. wdToPath'[queue[n].wd] = wdToPath[queue[n].wd]
              <7>1. CASE fs[y] = queue[n].wd /\ y \in Path
                <8>1. wdToPath[queue[n].wd] = y
                  BY <5>4, <6>1, <7>1 DEF AtHome, IsTree
                <8> QED BY <1>4, <6>1, <8>1
              <7> QED BY <3>4, <5>4, <7>1
            <6>3. AtHome(queue[n].wd)' /\ EventPath(queue[n])' = EventPath(queue[n])
              BY <1>1, <5>4, <6>2 DEF AtHome, EventPath
            <6> QED BY <1>1, <5>4, <6>3 DEF Sure
          <5> QED BY <5>1, <5>2, <5>3, <5>4
        <4> QED BY <4>1, <4>2
      <3> QED BY <3>3, <3>5
    <2> QED BY <2>1, <2>2
  <1> QED BY <1>5, <1>7

LEMMA ReaderMissesNothing ==
  ASSUME TypeInv, IsTree, roots = InitRoots, WalkIsDirty, NothingMissed, EventsNamed,
         MadeStays, pc # "extend", Reader
  PROVE  NothingMissed' /\ EventsNamed'
  <1>1. ASSUME NEW p \in listing, ListDir(p)
        PROVE  NothingMissed' /\ EventsNamed'
    <2>1. UNCHANGED <<fs, queue, wdToPath, roots, dirty, forceFull, current, pc, work,
                      todo, tmp>>
      BY <1>1 DEF ListDir, worldVars, backendVars
    <2>2. \A x : Sure(x) => Sure(x)'
      BY <2>1, SureStays DEF ScanOwed, NoCurrent, Syncing
    <2>3. \A x : x \in made => x \in made'
      BY <2>1 DEF MadeStays, Changed
    <2> QED BY <2>1, <2>2, <2>3
            DEF NothingMissed, EventsNamed, Gone, InScope, IsDir, At, InSight, WatchedAs,
                Entered, Merged
  <1> QED BY <1>1, HandleEventMissesNothing, AddWatchMissesNothing DEF Reader

(* Create up to a scan that fails, and Delete.                             *)
LEMMA CreateMissesNothing ==
  ASSUME NothingMissed, EventsNamed, EntriesHandled, MadeStays,
         UNCHANGED <<fs, queue, wdToPath, roots>>
  PROVE  NothingMissed' /\ EventsNamed'
  <1>1. EventsNamed'
    BY DEF EventsNamed, Gone
  <1>2. NothingMissed'
    <2> SUFFICES ASSUME NEW r \in roots, NEW p \in Path, InScope(r, p), IsDir(r),
                        InSight(r, p)
                 PROVE  \/ Entered(r, p)' = Kind(fs[p])
                        \/ Entered(r, p)' = Absent /\ p \in made'
                        \/ Sure(p)'
      BY DEF NothingMissed, InScope, IsDir, At, InSight, WatchedAs
    <2>1. \/ Entered(r, p) = Kind(fs[p])
          \/ Entered(r, p) = Absent /\ p \in made'
          \/ Sure(p)
      BY DEF NothingMissed, MadeStays, Changed
    <2>2. CASE Entered(r, p)' = Entered(r, p) /\ (ScanOwed(p) => ScanOwed(p)')
      BY <2>1, <2>2, SureStays
    <2> QED BY <2>2 DEF EntriesHandled, Handled, Sure
  <1> QED BY <1>1, <1>2

(***************************************************************************)
(* The conditions.  A scan that meets an unreadable path, or a root that   *)
(* is gone, gives up and forgets what Drain returned, so nothing may be    *)
(* unreadable, and a session whose root may go has no other.  The queue    *)
(* may overflow, the reader may die or never start, directories may move,  *)
(* watches may run out and the reader may lag.                             *)
(***************************************************************************)
Deaf ==
  /\ Hazards \cap {"scanError", "restoreRace"} = {}
  /\ "rootRemoved" \in Hazards => \A r, s \in InitRoots : r = s

HomeRoots ==
  /\ \A s \in Snapshot : manifests[s] # None => manifests[s].roots = InitRoots
  /\ Restoring => target.roots = InitRoots

RootsThere == "rootRemoved" \notin Hazards => RootsAreDirs

SessionInv ==
  /\ RestoreInv /\ roots = InitRoots /\ pc # "extend" /\ HomeRoots /\ RootsThere
  /\ DeafInv

LEMMA FixedRootsStay ==
  ASSUME TypeInv, roots = InitRoots, pc # "extend", [FixedRoots]_vars
  PROVE  roots' = InitRoots /\ pc' # "extend"
  <1>1. CASE Program
    <2>1. ProgramStep
      BY <1>1 DEF Program, Write, Mkdir, Unlink, Rmdir, RenameDir
    <2> QED BY <2>1 DEF ProgramStep, backendVars
  <1>2. CASE Reader \/ ReaderDies \/ UNCHANGED vars
    BY <1>2 DEF Reader, ReaderDies, HandleEvent, AddWatch, ListDir, backendVars, vars
  <1>3. CASE Create \/ \E s \in Snapshot : Delete(s)
    BY <1>3 DEF Create, BeginSync, ReconcilePath, Visit, EndScan, ScanFails, SaveManifest,
                Delete
  <1>4. CASE Restore
    <2>1. CASE NextPhase
      BY <2>1 DEF NextPhase, RestoreUnchanged
    <2> QED BY <1>4, <2>1 DEF Restore, BeginRestore, MakeRoot, BeginRestoreRoot, RemoveAll,
                RestoreDir, RestoreLeaf, RestoreFails, AdoptTarget, RestoreUnchanged
  <1> QED BY <1>1, <1>2, <1>3, <1>4 DEF FixedRoots

LEMMA HomeRootsStay ==
  ASSUME TypeInv, roots = InitRoots, HomeRoots, [FixedRoots]_vars
  PROVE  HomeRoots'
  <1>1. ASSUME NEW s \in Snapshot, SaveManifest(s)
        PROVE  HomeRoots'
    <2>1. /\ ~Restoring'
          /\ \A t \in Snapshot :
                manifests'[t] = IF t = s THEN [roots |-> roots, entries |-> current]
                                         ELSE manifests[t]
      BY <1>1 DEF SaveManifest, Restoring, TypeInv, TypeOK
    <2> QED BY <2>1 DEF HomeRoots
  <1>2. ASSUME NEW s \in Snapshot, BeginRestore(s)
        PROVE  HomeRoots'
    BY <1>2 DEF BeginRestore, HomeRoots
  <1>3. ASSUME NEW s \in Snapshot, Delete(s)
        PROVE  HomeRoots'
    BY <1>3 DEF Delete, HomeRoots, TypeInv, TypeOK, Restoring
  <1>4. CASE UNCHANGED manifests /\ (Restoring' => Restoring /\ UNCHANGED target)
    BY <1>4 DEF HomeRoots
  <1>5. CASE Restore /\ ~ \E s \in Snapshot : BeginRestore(s)
    BY <1>4, <1>5 DEF Restore, MakeRoot, BeginRestoreRoot, RemoveAll, RestoreDir,
                      RestoreLeaf, NextPhase, RestoreFails, AdoptTarget, RestoreUnchanged,
                      Restoring
  <1>6. CASE Create /\ ~ \E s \in Snapshot : SaveManifest(s)
    BY <1>4, <1>6 DEF Create, BeginSync, ReconcilePath, Visit, EndScan, ScanFails,
                      Restoring
  <1>7. CASE Program
    <2>1. ProgramStep
      BY <1>7 DEF Program, Write, Mkdir, Unlink, Rmdir, RenameDir
    <2> QED BY <1>4, <2>1 DEF ProgramStep, backendVars, Restoring
  <1>8. CASE Reader \/ ReaderDies \/ UNCHANGED vars
    BY <1>4, <1>8 DEF Reader, ReaderDies, HandleEvent, AddWatch, ListDir, backendVars, vars,
                      Restoring
  <1> QED BY <1>1, <1>2, <1>3, <1>5, <1>6, <1>7, <1>8 DEF FixedRoots, Create

LEMMA RootsStayThere ==
  ASSUME Deaf, SessionInv, [FixedRoots]_vars, "rootRemoved" \notin Hazards
  PROVE  RootsAreDirs'
  <1>1. TypeOK /\ RootsAreDirs /\ roots = InitRoots
    BY DEF SessionInv, RestoreInv, TypeInv, RootsThere
  <1>2. CASE UNCHANGED fs
    BY <1>1, <1>2 DEF RootsAreDirs, IsDir, At
  <1>3. ASSUME NEW p \in Path, FileStep(p), IsDir(p) => p \notin InitRoots
        PROVE  RootsAreDirs'
    <2>1. \E v : fs' = [fs EXCEPT ![p] = v]
      BY <1>3 DEF FileStep, PutLeaf, MakeDir, RemoveLeaf, RemoveDir
    <2> QED BY <1>1, <1>3, <2>1, RootsStayDirs
  <1>4. ASSUME NEW p \in Path, FileStep(p), ~RemoveDir(p)
        PROVE  RootsAreDirs'
    <2>1. ~IsDir(p)
      BY <1>4, DirBefore, SentinelAssumption DEF FileStep, PutLeaf, MakeDir, RemoveLeaf
    <2> QED BY <1>3, <1>4, <2>1
  <1>5. CASE Program
    <2>1. ASSUME NEW p \in Path, Rmdir(p)
          PROVE  RootsAreDirs'
      BY <1>1, <1>3, <2>1 DEF Rmdir, MayVanish, FileStep
    <2>2. ASSUME NEW p \in Path, NEW q \in Path, RenameDir(p, q)
          PROVE  RootsAreDirs'
      <3>1. \A r \in InitRoots : r \in Path /\ ~Within(p, r) /\ ~Within(q, r)
        BY <1>1, <2>2, DirIsPath DEF RenameDir, RootsAreDirs
      <3>2. \A r \in InitRoots : fs'[r] = fs[r]
        BY <2>2, <3>1 DEF RenameDir, Moved
      <3> QED BY <1>1, <3>1, <3>2, DirBefore DEF RootsAreDirs
    <2>3. ASSUME NEW p \in Path, FileStep(p), ~IsDir(p)
          PROVE  RootsAreDirs'
      BY <1>3, <2>3
    <2>4. ASSUME NEW p \in Path, NEW v \in Leaf, Write(p, v)
          PROVE  RootsAreDirs'
      BY <2>3, <2>4 DEF Write, FileStep, PutLeaf
    <2>5. ASSUME NEW p \in Path, Mkdir(p)
          PROVE  RootsAreDirs'
      <3>1. ~IsDir(p)
        BY <2>5, DirBefore, SentinelAssumption DEF Mkdir, MakeDir
      <3> QED BY <2>3, <2>5, <3>1 DEF Mkdir, FileStep
    <2>6. ASSUME NEW p \in Path, Unlink(p)
          PROVE  RootsAreDirs'
      <3>1. ~IsDir(p)
        BY <2>6, DirBefore, SentinelAssumption DEF Unlink, RemoveLeaf
      <3> QED BY <2>3, <2>6, <3>1 DEF Unlink, FileStep
    <2> QED BY <1>5, <2>1, <2>2, <2>4, <2>5, <2>6 DEF Program
  <1>6. CASE Restore
    <2>1. ASSUME NEW p \in Path, RemoveAll(p)
          PROVE  RootsAreDirs'
      <3>1. pc = "remove" /\ restoring \in InitRoots /\ RemovesInsideRoot
        BY <2>1 DEF RemoveAll, SessionInv, HomeRoots, Restoring, RestoreInv, Progress,
                    RootAtWork, InRoot
      <3>2. p \notin InitRoots
        BY <2>1, <3>1, RemovedIsNoRoot DEF RemoveAll
      <3> QED BY <1>2, <1>3, <2>1, <3>2 DEF RemoveAll, FileStep
    <2>2. ASSUME NEW a, EnsureDir(a)
          PROVE  RootsAreDirs'
      <3>1. PICK b \in Path : MakeDir(b)
        BY <2>2 DEF EnsureDir
      <3>2. ~RemoveDir(b)
        BY <3>1, DirIsPath DEF MakeDir, RemoveDir
      <3> QED BY <1>4, <3>1, <3>2 DEF FileStep
    <2>3. ASSUME NEW p \in todo, RestoreLeaf(p)
          PROVE  RootsAreDirs'
      <3>1. p \in Path /\ Wanted(p) \in Leaf
        BY <2>3 DEF RestoreLeaf, SessionInv, RestoreInv, TypeInv, LeavesToWrite
      <3>2. CASE PutLeaf(p, Wanted(p))
        <4>1. ~IsDir(p)
          BY <3>2 DEF PutLeaf
        <4> QED BY <1>3, <3>1, <3>2, <4>1 DEF FileStep
      <3> QED BY <2>2, <2>3, <3>2 DEF RestoreLeaf
    <2> QED BY <1>2, <1>6, <2>1, <2>2, <2>3
            DEF Restore, BeginRestore, MakeRoot, BeginRestoreRoot, RestoreDir, NextPhase,
                RestoreFails, AdoptTarget, worldVars
  <1>7. CASE Reader \/ ReaderDies \/ UNCHANGED vars
    BY <1>2, <1>7 DEF Reader, ReaderDies, HandleEvent, AddWatch, ListDir, worldVars, vars
  <1>8. CASE Create \/ \E s \in Snapshot : Delete(s)
    BY <1>2, <1>8 DEF Create, BeginSync, ReconcilePath, Visit, EndScan, ScanFails,
                      SaveManifest, Delete, worldVars
  <1> QED BY <1>5, <1>6, <1>7, <1>8 DEF FixedRoots

LEMMA StillnessMissesNothing ==
  ASSUME TypeInv, roots = InitRoots, WatcherAndScanStay, UNCHANGED <<reader, fs, queue>>,
         NothingMissed, EventsNamed, MadeStays
  PROVE  NothingMissed' /\ EventsNamed'
  <1>1. queue \in Seq(Event \cup {Overflow}) /\ Len(queue) \in Nat
    BY DEF TypeInv, TypeOK
  <1>2. Extends(queue, queue')
    BY <1>1 DEF Extends, Events
  <1>3. DiskStep({})
    BY <1>1, <1>2 DEF DiskStep
  <1> QED BY <1>3, DiskStepMissesNothing

LEMMA ProgramMissesNothing ==
  ASSUME TypeInv, IsTree, roots = InitRoots, SideInv, reader = "running", Program,
         NothingMissed, EventsNamed, MadeStays
  PROVE  NothingMissed' /\ EventsNamed'
  <1>1. ProgramStep
    BY DEF Program, Write, Mkdir, Unlink, Rmdir, RenameDir
  <1>2. WatcherAndScanStay /\ UNCHANGED <<reader, wdToPath>>
    BY <1>1, ProgramTouchesDisk DEF WatcherAndScanStay
  <1>3. ASSUME NEW p \in Path, FileStep(p)
        PROVE  NothingMissed' /\ EventsNamed'
    BY <1>2, <1>3, FileStepIsDiskStep, DiskStepMissesNothing
  <1>4. ASSUME NEW p \in Path, NEW q \in Path, RenameDir(p, q)
        PROVE  NothingMissed' /\ EventsNamed'
    BY <1>2, <1>4, RenameIsDiskStep, DiskStepMissesNothing
  <1> QED BY <1>3, <1>4 DEF Program, Write, Mkdir, Unlink, Rmdir, FileStep

LEMMA RestoreMissesNothing ==
  ASSUME TypeInv, IsTree, roots = InitRoots, SideInv, reader = "running", Restore,
         ~AdoptTarget, NothingMissed, EventsNamed, MadeStays
  PROVE  NothingMissed' /\ EventsNamed'
  <1>1. WatcherAndScanStay /\ UNCHANGED <<reader, wdToPath>>
    BY RestoreTouchesDisk DEF WatcherAndScanStay
  <1>2. ASSUME NEW p \in Path, FileStep(p)
        PROVE  NothingMissed' /\ EventsNamed'
    BY <1>1, <1>2, FileStepIsDiskStep, DiskStepMissesNothing
  <1> QED BY <1>1, <1>2, RestoreIsFileStep, StillnessMissesNothing

(* What the restore put back is what `current' now says, but for the       *)
(* directories MkdirAll made.                                              *)
LEMMA AdoptMissesNothing ==
  ASSUME RestoreInv, roots = InitRoots, HomeRoots, SideInv, AdoptTarget, Made
  PROVE  OnlyMissed' /\ NothingMissed' /\ (EventsNamed => EventsNamed')
  <1>1. /\ UNCHANGED <<fs, queue, wdToPath, roots>>
        /\ pc' = "idle" /\ current' = target.entries
    BY AdoptSide
  <1>2. EventsNamed => EventsNamed'
    BY <1>1 DEF EventsNamed, Gone
  <1>3. target.roots = roots
    BY DEF AdoptTarget, Restoring, HomeRoots
  <1>4. ASSUME NEW r \in roots, NEW p \in Path, InScope(r, p)
        PROVE  \/ target.entries[r][p] = Kind(fs[p])
               \/ target.entries[r][p] = Absent /\ p \in made'
    BY <1>3, <1>4, AdoptedIsPutBack
       DEF PutBack, Below, Implied, InScope, Made, MadeFor
  <1>5. \A r, p : Entered(r, p)' = target.entries[r][p]
    BY <1>1 DEF Entered
  <1>6. OnlyMissed' /\ NothingMissed'
    <2> SUFFICES ASSUME NEW r \in roots, NEW p \in Path, InScope(r, p)
                 PROVE  \/ Entered(r, p)' = Kind(fs'[p])
                        \/ Entered(r, p)' = Absent /\ p \in made'
      BY <1>1 DEF OnlyMissed, NothingMissed, InScope
    <2> QED BY <1>1, <1>4, <1>5
  <1> QED BY <1>2, <1>6

(* A scan fails only when the session's one root is gone.                  *)
LEMMA ScanFailureMissesNothing ==
  ASSUME Deaf, roots = InitRoots, RootsThere, SideInv, ScanFails
  PROVE  SideInv' /\ NothingMissed' /\ (EventsNamed => EventsNamed')
  <1>1. /\ UNCHANGED <<fs, queue, wdToPath, roots, adding, listing, dirty>>
        /\ pc' = "idle" /\ todo' = {} /\ work' = {}
    BY DEF ScanFails, worldVars, watcherVars
  <1>2. PICK q \in roots : At(q) = Absent
    BY DEF ScanFails, Deaf
  <1>3. ~IsDir(q)
    BY <1>2, SentinelAssumption DEF IsDir
  <1>4. \A r \in InitRoots : r = q
    BY <1>2, <1>3 DEF RootsThere, RootsAreDirs, Deaf
  <1>5. NothingMissed'
    BY <1>1, <1>3, <1>4 DEF NothingMissed, InScope, IsDir, At
  <1>6. EventsNamed => EventsNamed'
    BY <1>1 DEF EventsNamed, Gone
  <1>7. SideInv'
    BY <1>1 DEF SideInv, AllInside, Inside, Syncing, WalkIsDirty, AtRest, ScanIsFresh
  <1> QED BY <1>5, <1>6, <1>7

(***************************************************************************)
(* Without a reader nothing is noticed any more.  What changes is missed,  *)
(* and only a scan that looks at everything makes up for it.               *)
(***************************************************************************)
MissedGrows == \A p \in Path : p \in missed \/ Changed(p) => p \in missed'

LEMMA MissedIsKept ==
  ASSUME Missed, reader # "running", ~ScanFails, ~AdoptTarget,
         ~(BeginSync /\ (forceFull \/ NoCurrent))
  PROVE  MissedGrows
  <1>1. missed' = missed \cup {p \in Path : Changed(p)}
    BY DEF Missed
  <1> QED BY <1>1 DEF MissedGrows

LEMMA DeafDiskStep ==
  ASSUME OnlyMissed, WatcherAndScanStay, MissedGrows, MadeStays
  PROVE  OnlyMissed'
  <1>1. /\ UNCHANGED <<roots, dirty, forceFull, current, tmp>>
        /\ Syncing \/ Syncing' => UNCHANGED <<pc, work, todo>>
    BY DEF WatcherAndScanStay
  <1> SUFFICES ASSUME NEW r \in roots, NEW p \in Path, InScope(r, p)
               PROVE  \/ Entered(r, p)' = Kind(fs'[p])
                      \/ Entered(r, p)' = Absent /\ p \in made'
                      \/ ScanOwed(p)'
                      \/ p \in missed'
    BY <1>1 DEF OnlyMissed, InScope
  <1>2. \/ Entered(r, p) = Kind(fs[p])
        \/ Entered(r, p) = Absent /\ p \in made
        \/ ScanOwed(p)
        \/ p \in missed
    BY DEF OnlyMissed
  <1>3. Entered(r, p)' = Entered(r, p)
    BY <1>1 DEF Entered, Merged, Syncing
  <1>4. ScanOwed(p) => ScanOwed(p)'
    BY <1>1 DEF ScanOwed, NoCurrent, Syncing
  <1>5. CASE Changed(p) \/ p \in missed
    BY <1>5 DEF MissedGrows
  <1>6. CASE ~Changed(p) /\ p \notin missed
    BY <1>2, <1>3, <1>4, <1>6 DEF MadeStays, Changed
  <1> QED BY <1>5, <1>6

LEMMA DeafCreate ==
  ASSUME OnlyMissed, EntriesHandled, MadeStays, Missed, ~ScanFails, reader # "running",
         roots = InitRoots, UNCHANGED <<fs, roots>>,
         Create \/ \E s \in Snapshot : Delete(s)
  PROVE  OnlyMissed'
  <1> SUFFICES ASSUME NEW r \in roots, NEW p \in Path, InScope(r, p)
               PROVE  \/ Entered(r, p)' = Kind(fs[p])
                      \/ Entered(r, p)' = Absent /\ p \in made'
                      \/ ScanOwed(p)'
                      \/ p \in missed'
    BY DEF OnlyMissed, InScope
  <1>1. CASE BeginSync /\ (forceFull \/ NoCurrent)
    <2>1. pc' = "fullScan" /\ todo' = roots
      BY <1>1 DEF BeginSync
    <2> QED BY <2>1 DEF ScanOwed, Syncing, InScope
  <1>2. CASE ~(BeginSync /\ (forceFull \/ NoCurrent))
    <2>1. ~AdoptTarget
      BY DEF AdoptTarget, Create, BeginSync, ReconcilePath, Visit, EndScan, ScanFails,
             SaveManifest, Synced, Delete
    <2>2. MissedGrows
      BY <1>2, <2>1, MissedIsKept
    <2>3. \/ Entered(r, p) = Kind(fs[p])
          \/ Entered(r, p) = Absent /\ p \in made'
          \/ ScanOwed(p)
          \/ p \in missed'
      BY <2>2 DEF OnlyMissed, MadeStays, Changed, MissedGrows
    <2> QED BY <2>3 DEF EntriesHandled, Handled
  <1> QED BY <1>1, <1>2

(* A walk of the reader looks at the disk and changes no entry.            *)
LEMMA DeafWalk ==
  ASSUME OnlyMissed, MadeStays, MissedGrows,
         UNCHANGED <<fs, roots, dirty, forceFull, current, tmp, pc, work, todo>>
  PROVE  OnlyMissed'
  <1>1. \A r, p : Entered(r, p)' = Entered(r, p)
    BY DEF Entered, Merged
  <1>2. \A p : ScanOwed(p)' <=> ScanOwed(p)
    BY DEF ScanOwed, NoCurrent, Syncing
  <1>3. \A p \in made : p \in made'
    BY DEF MadeStays, Changed
  <1> QED BY <1>1, <1>2, <1>3 DEF OnlyMissed, InScope, MissedGrows

(* A disk step of a program or of a restore is no end of either.           *)
LEMMA DiskStepEndsNothing ==
  ASSUME AtRest, Program \/ (Restore /\ ~AdoptTarget), WatcherAndScanStay
  PROVE  ~ScanFails /\ ~AdoptTarget /\ ~BeginSync
  <1>1. ~ScanFails /\ ~BeginSync
    BY DEF ScanFails, BeginSync, WatcherAndScanStay, Syncing
  <1>2. ASSUME Program
        PROVE  ~AdoptTarget
    <2>1. ProgramStep
      BY <1>2 DEF Program, Write, Mkdir, Unlink, Rmdir, RenameDir
    <2> QED BY <2>1 DEF ProgramStep, backendVars, AdoptTarget
  <1> QED BY <1>1, <1>2

LEMMA LossStays ==
  ASSUME UNCHANGED lossVars
  PROVE  MadeStays /\ (\A p : ~Changed(p)) /\ MissedGrows /\ UNCHANGED vars
  <1>1. \A p : ~Changed(p)
    BY DEF lossVars, vars, worldVars, Changed
  <1>2. UNCHANGED <<missed, made, vars>>
    BY DEF lossVars
  <1> QED BY <1>1, <1>2 DEF MadeStays, MissedGrows

LEMMA StepDeaf ==
  ASSUME Deaf, SessionInv, [LossNext]_lossVars
  PROVE  DeafInv'
  <1>1. /\ TypeInv /\ IsTree /\ RestoreInv /\ roots = InitRoots /\ pc # "extend"
        /\ HomeRoots /\ RootsThere /\ SideInv /\ ScanReady
        /\ reader = "running" => NothingMissed /\ EventsNamed /\ WalkIsDirty
        /\ reader # "running" => OnlyMissed
    BY DEF SessionInv, RestoreInv, DeafInv, ScanReady, SideInv
  <1>2. LossNext /\ ~AdoptTarget => MadeStays
    BY DEF LossNext, Made, MadeStays
  <1>3. ASSUME LossNext, Program \/ (Restore /\ ~AdoptTarget)
        PROVE  DeafInv'
    <2>1. SideInv' /\ WatcherAndScanStay /\ UNCHANGED reader
      <3>1. CASE Program
        <4>1. ProgramStep
          BY <3>1 DEF Program, Write, Mkdir, Unlink, Rmdir, RenameDir
        <4> QED BY <1>1, <4>1, ProgramTouchesDisk
      <3>2. CASE Restore /\ ~AdoptTarget
        BY <1>1, <3>2, RestoreTouchesDisk
      <3> QED BY <1>3, <3>1, <3>2
    <2>2. ~ScanFails /\ ~AdoptTarget /\ ~BeginSync
      BY <1>1, <1>3, <2>1, DiskStepEndsNothing DEF SideInv
    <2>3. MadeStays
      BY <1>2, <1>3, <2>2
    <2>4. CASE reader = "running"
      <3>1. NothingMissed' /\ EventsNamed'
        BY <1>1, <1>3, <2>3, <2>4, ProgramMissesNothing, RestoreMissesNothing
      <3> QED BY <2>1, <2>4, <3>1 DEF DeafInv
    <2>5. CASE reader # "running"
      <3>1. MissedGrows
        BY <1>3, <2>2, <2>5, MissedIsKept DEF LossNext
      <3> QED BY <1>1, <2>1, <2>3, <2>5, <3>1, DeafDiskStep DEF DeafInv
    <2> QED BY <2>4, <2>5
  <1>4. ASSUME LossNext, AdoptTarget
        PROVE  DeafInv'
    <2>1. SideInv' /\ UNCHANGED reader
      BY <1>1, <1>4, AdoptSide
    <2>2. OnlyMissed' /\ NothingMissed' /\ (EventsNamed => EventsNamed')
      BY <1>1, <1>4, AdoptMissesNothing DEF LossNext
    <2> QED BY <1>1, <2>1, <2>2 DEF DeafInv
  <1>5. ASSUME LossNext, Reader
        PROVE  DeafInv'
    <2>1. SideInv'
      BY <1>1, <1>5, ReaderSide
    <2>2. /\ UNCHANGED <<reader, pc, roots, current, tmp, work, todo, fs>>
          /\ reader # "running" => UNCHANGED <<dirty, forceFull>>
      BY <1>5 DEF Reader, HandleEvent, AddWatch, ListDir, backendVars, worldVars
    <2>3. ~ScanFails /\ ~AdoptTarget /\ ~BeginSync
      BY <2>2 DEF ScanFails, AdoptTarget, BeginSync
    <2>4. MadeStays
      BY <1>2, <1>5, <2>3
    <2>5. CASE reader = "running"
      BY <1>1, <1>5, <2>1, <2>2, <2>4, <2>5, ReaderMissesNothing DEF DeafInv
    <2>6. CASE reader # "running"
      <3>1. MissedGrows
        BY <1>5, <2>3, <2>6, MissedIsKept DEF LossNext
      <3> QED BY <1>1, <2>1, <2>2, <2>4, <2>6, <3>1, DeafWalk DEF DeafInv
    <2> QED BY <2>5, <2>6
  <1>6. CASE ReaderDies
    <2>1. /\ UNCHANGED <<wdToPath, dirty, adding, listing, roots, pc, work, todo, tmp, current>>
          /\ reader' = "dead" /\ forceFull' = TRUE
      BY <1>6 DEF ReaderDies, backendVars
    <2>2. SideInv'
      BY <1>1, <2>1 DEF SideInv, AllInside, Inside, Syncing, WalkIsDirty, AtRest,
                        ScanIsFresh, InScope
    <2>3. OnlyMissed'
      BY <2>1 DEF OnlyMissed, ScanOwed
    <2> QED BY <2>1, <2>2, <2>3 DEF DeafInv
  <1>7. ASSUME LossNext, ScanFails
        PROVE  DeafInv'
    <2>1. UNCHANGED <<reader, fs, roots>> /\ ~AdoptTarget /\ ~BeginSync
      BY <1>7 DEF ScanFails, AdoptTarget, BeginSync, watcherVars, worldVars
    <2>2. missed' = Path
      BY <1>7, <2>1 DEF LossNext, Missed
    <2>3. OnlyMissed'
      BY <2>2 DEF OnlyMissed
    <2> QED BY <1>1, <1>7, <2>1, <2>3, ScanFailureMissesNothing DEF DeafInv
  <1>8. ASSUME LossNext, Create \/ \E s \in Snapshot : Delete(s), ~ScanFails
        PROVE  DeafInv'
    <2>1. /\ SideInv' /\ EntriesHandled
          /\ UNCHANGED <<fs, queue, wdToPath, roots, reader>>
      BY <1>1, <1>8, CreateSide
    <2>2. ~AdoptTarget
      BY <1>8 DEF AdoptTarget, Create, BeginSync, ReconcilePath, Visit, EndScan,
                  ScanFails, SaveManifest, Synced, Delete
    <2>3. MadeStays
      BY <1>2, <1>8, <2>2
    <2>4. CASE reader = "running"
      BY <1>1, <2>1, <2>3, <2>4, CreateMissesNothing DEF DeafInv
    <2>5. CASE reader # "running"
      <3>1. OnlyMissed'
        BY <1>1, <1>8, <2>1, <2>3, <2>5, DeafCreate DEF LossNext
      <3> QED BY <2>1, <2>5, <3>1 DEF DeafInv
    <2> QED BY <2>4, <2>5
  <1>9. CASE UNCHANGED lossVars
    <2>1. MadeStays /\ MissedGrows /\ UNCHANGED vars
      BY <1>9, LossStays
    <2>2. /\ WatcherAndScanStay /\ AtRest' /\ UNCHANGED <<reader, fs, queue>>
      BY <1>1, <2>1 DEF vars, worldVars, watcherVars, backendVars, WatcherAndScanStay,
                        SideInv, AtRest
    <2>3. SideInv'
      BY <1>1, <2>2, OthersStay
    <2>4. CASE reader = "running"
      BY <1>1, <2>1, <2>2, <2>3, <2>4, StillnessMissesNothing DEF DeafInv
    <2>5. CASE reader # "running"
      BY <1>1, <2>1, <2>2, <2>3, <2>5, DeafDiskStep DEF DeafInv
    <2> QED BY <2>4, <2>5
  <1>10. LossNext => \/ Program \/ Reader \/ ReaderDies \/ Restore
                     \/ Create \/ \E s \in Snapshot : Delete(s)
    BY DEF LossNext, FixedRoots
  <1> QED BY <1>3, <1>4, <1>5, <1>6, <1>7, <1>8, <1>9, <1>10

LEMMA StepSession ==
  ASSUME Deaf, SessionInv, [LossNext]_lossVars
  PROVE  SessionInv'
  <1> [FixedRoots]_vars
    BY LossStays DEF LossNext
  <1>1. TypeInv /\ RestoreInv /\ roots = InitRoots /\ pc # "extend" /\ HomeRoots
    BY DEF SessionInv, RestoreInv
  <1>2. roots' = InitRoots /\ pc' # "extend"
    BY <1>1, FixedRootsStay
  <1>3. HomeRoots'
    BY <1>1, HomeRootsStay
  <1>4. RootsThere'
    BY RootsStayThere DEF RootsThere
  <1>5. RestoreInv'
    BY <1>1, StepRestore DEF FixedRoots, Next, Backend, Deaf, Undisturbed
  <1> QED BY <1>2, <1>3, <1>4, <1>5, StepDeaf DEF SessionInv

LEMMA InitSession ==
  ASSUME LossInit
  PROVE  SessionInv
  <1> Init
    BY DEF LossInit
  <1>1. roots = InitRoots /\ pc # "extend" /\ HomeRoots /\ RootsThere
    BY DEF Init, HomeRoots, Restoring, RootsThere, RootsAreDirs
  <1>2. OnlyMissed /\ NothingMissed /\ EventsNamed
    <2>1. \A p : ScanOwed(p)
      BY DEF Init, ScanOwed, NoCurrent, NoEntries, Syncing
    <2>2. queue = << >>
      BY DEF Init
    <2> QED BY <2>1, <2>2 DEF OnlyMissed, NothingMissed, EventsNamed, Sure
  <1> QED BY <1>1, <1>2, InitSide, InitRestore DEF SessionInv, DeafInv

LEMMA NothingMissedIsEnough ==
  ASSUME SessionInv
  PROVE  NoLostChangeWhereWatched
  <1>1. ASSUME NEW p, Sure(p)
        PROVE  Pending(p)
    BY <1>1 DEF Sure, ScanOwed, Pending, Syncing
  <1>2. \A p : ScanOwed(p) => Pending(p)
    BY DEF ScanOwed, Pending, Syncing
  <1>3. CASE reader = "running"
    BY <1>1, <1>3 DEF SessionInv, DeafInv, NothingMissed, NoLostChangeWhereWatched
  <1>4. CASE reader # "running"
    BY <1>2, <1>4 DEF SessionInv, DeafInv, OnlyMissed, NoLostChangeWhereWatched
  <1> QED BY <1>3, <1>4

(***************************************************************************)
(* Where the watcher goes deaf, the loss is confined, in a session that    *)
(* takes and restores snapshots.  With a reader, below directories that    *)
(* are watched under their own names every entry is right or will be       *)
(* looked at again, whatever overflowed, moved or was never watched.       *)
(* Without one, whether it died or never started, so is the entry of every *)
(* path that has not changed since.  Directories that a restore made are   *)
(* the one exception.                                                      *)
(***************************************************************************)
THEOREM WhereWatchedNothingIsLost ==
  ASSUME Deaf
  PROVE  LossSpec => []NoLostChangeWhereWatched
  <1>1. LossInit => SessionInv
    BY InitSession
  <1>2. SessionInv /\ [LossNext]_lossVars => SessionInv'
    BY StepSession
  <1>3. SessionInv => NoLostChangeWhereWatched
    BY NothingMissedIsEnough
  <1> QED BY <1>1, <1>2, <1>3, PTL DEF LossSpec
=============================================================================
