----------------------------- MODULE TreeProofs -----------------------------
(***************************************************************************)
(* The object store and the reach of a restore, for any tree of files,     *)
(* directories and links, any contents, and any changes by programs.       *)
(***************************************************************************)
EXTENDS RestoreTree, PathsProofs

TypeInv ==
  /\ node \in [Path -> Node]
  /\ object \in [Bytes -> Bytes \cup {Absent}]
  /\ tmp \in [Path -> Node]
  /\ manifest \in [Path -> Node] \cup {None}
  /\ todo \subseteq Path
  /\ pc \in {"idle", "store", "dirs", "leaves"}
  /\ job \in [Process -> Job \cup {None}]
  /\ found \in [Path -> Node] \cup {None}
  /\ suspect \subseteq Bytes

(* What a phase still has to do, and what it can rely on.                  *)
PhaseInv ==
  /\ pc = "store" => \A p \in todo : tmp[p] \in File
  /\ pc \in {"dirs", "leaves"} => manifest # None /\ manifest \in [Path -> Node]
  /\ pc = "dirs" => \A p \in todo : manifest[p] = Dir /\ p # Exe
  /\ pc = "leaves" => \A p \in todo : manifest[p] \in File \cup Link /\ p # Exe
  /\ pc \in {"dirs", "leaves"} =>
       found \in [Path -> Node] /\ \A i \in Process : job[i] = None
  /\ job[Me] # None =>
       pc = "store" /\ job[Me].from \in todo /\ job[Me].hash = tmp[job[Me].from].content

LEMMA Known ==
  /\ Path \subseteq Seq(Name) /\ << >> \notin Path /\ Root \in Path
  /\ Meta \in Path /\ Exe \in Path /\ Tracked \subseteq Inside /\ Inside \subseteq Path
  BY TreeAssumption DEF Inside, Tracked

LEMMA WrittenFile ==
  ASSUME TypeInv, PhaseInv, NEW p \in todo, pc = "leaves", manifest[p] \in File, CanWrite(p)
  PROVE  /\ Resolve(p) \in Path
         /\ [content |-> object[manifest[p].content],
             mode |-> IF node[Resolve(p)] \in File THEN node[Resolve(p)].mode
                                                   ELSE manifest[p].mode] \in File
  <1>1. object[manifest[p].content] \in Bytes
    BY DEF TypeInv, CanWrite, File
  <1>2. manifest[p].mode \in {"rw", "ro"}
    BY DEF File
  <1>3. node[Resolve(p)] \in File => node[Resolve(p)].mode \in {"rw", "ro"}
    BY DEF File
  <1>4. Resolve(p) \in Path
    BY TreeAssumption DEF CanWrite, At
  <1> QED BY <1>1, <1>2, <1>3, <1>4 DEF File

LEMMA TypeInit == Init => TypeInv /\ PhaseInv
  BY TreeAssumption DEF Init, TypeInv, PhaseInv, Node

(* A copy that is open has bytes to write, and under its hash.             *)
LEMMA JobTypes ==
  ASSUME TypeInv, NEW i \in Process, job[i] # None
  PROVE  /\ job[i] \in Job /\ job[i].hash \in Bytes /\ job[i].from \in Path
         /\ job[i].content # Absent => Read(job[i]) \subseteq Bytes
         /\ \A c \in Bytes : Written(job[i].hash, c) \in [Bytes -> Bytes \cup {Absent}]
  <1>1. job[i] \in Job
    BY DEF TypeInv
  <1>2. /\ job[i].hash \in Bytes /\ job[i].from \in Path
        /\ job[i].content \in Bytes \cup {Absent}
    BY <1>1 DEF Job
  <1>3. job[i].content # Absent => Read(job[i]) \subseteq Bytes
    BY <1>2 DEF Read, File, Bytes
  <1>4. \A c \in Bytes : Written(job[i].hash, c) \in [Bytes -> Bytes \cup {Absent}]
    BY <1>2 DEF Written, TypeInv, Bytes
  <1> QED BY <1>1, <1>2, <1>3, <1>4

LEMMA CopyHashes ==
  ASSUME TypeInv, PhaseInv, NEW c \in Copies
  PROVE  c.hash \in Bytes /\ c.from \in Path
  <1>1. CASE \E p \in todo : pc = "store" /\ c = [hash |-> tmp[p].content, from |-> p]
    BY <1>1 DEF TypeInv, PhaseInv, File
  <1>2. CASE \E i \in Process : job[i] # None /\ c = [hash |-> job[i].hash, from |-> job[i].from]
    BY <1>2, JobTypes
  <1> QED BY <1>1, <1>2 DEF Copies

(* The steps that make copies.                                             *)
LEMMA NewJob ==
  ASSUME TypeInv, NEW i \in Process, NEW n \in File, NEW p \in Path,
         job' = [job EXCEPT ![i] = [hash |-> n.content, from |-> p, content |-> Absent]]
  PROVE  job' \in [Process -> Job \cup {None}]
  <1>1. [hash |-> n.content, from |-> p, content |-> Absent] \in Job
    BY DEF File, Job
  <1> QED BY <1>1 DEF TypeInv

LEMMA StatStep ==
  ASSUME TypeInv, PhaseInv, NEW p \in todo, StatObject(p)
  PROVE  TypeInv' /\ PhaseInv'
  <1>1. /\ pc = "store" /\ pc' = pc /\ job[Me] = None /\ Me \in Process
        /\ UNCHANGED <<node, object, manifest, tmp, found, suspect>>
        /\ tmp[p] \in File /\ p \in Path
    BY TreeAssumption DEF StatObject, StoringVars, PhaseInv, TypeInv
  <1>2. CASE job' = job /\ todo' = todo \ {p}
    BY <1>1, <1>2 DEF TypeInv, PhaseInv
  <1>3. CASE /\ job' = [job EXCEPT ![Me] = [hash |-> tmp[p].content, from |-> p,
                                           content |-> Absent]]
             /\ todo' = todo
    <2>1. job' \in [Process -> Job \cup {None}]
      BY <1>1, <1>3, NewJob
    <2>2. job'[Me] = [hash |-> tmp[p].content, from |-> p, content |-> Absent]
      BY <1>1, <1>3 DEF TypeInv
    <2> QED BY <1>1, <1>3, <2>1, <2>2 DEF TypeInv, PhaseInv
  <1> QED BY <1>2, <1>3 DEF StatObject

LEMMA FindStep ==
  ASSUME TypeInv, PhaseInv, NEW i \in Process, NEW p \in Path, OtherFinds(i, p)
  PROVE  TypeInv' /\ PhaseInv'
  <1>1. /\ job' \in [Process -> Job \cup {None}] /\ job'[Me] = job[Me]
        /\ pc \in {"idle", "store"}
        /\ UNCHANGED <<node, object, manifest, tmp, found, suspect, pc, todo>>
    BY NewJob, TreeAssumption DEF OtherFinds, StoringVars, TypeInv
  <1> QED BY <1>1 DEF TypeInv, PhaseInv

LEMMA CopyStep ==
  ASSUME TypeInv, PhaseInv, NEW i \in Process, OpenCopy(i) \/ EndCopy(i) \/ CopyFails(i)
  PROVE  TypeInv' /\ PhaseInv'
  <1>1. /\ job[i] \in Job /\ job[i].hash \in Bytes /\ job[i] # None /\ Me \in Process
        /\ UNCHANGED <<node, manifest, tmp, found>>
    BY JobTypes, TreeAssumption DEF OpenCopy, EndCopy, CopyFails, StoringVars
  <1>2. pc \in {"idle", "store"}
    BY <1>1 DEF TypeInv, PhaseInv
  <1>3. CASE OpenCopy(i)
    <2> DEFINE j == [job[i] EXCEPT !.content = Source(job[i].from).content]
    <2>1. j \in Job /\ j.hash = job[i].hash /\ j.from = job[i].from
      BY <1>1, <1>3 DEF OpenCopy, Job, File
    <2>2. job' = [job EXCEPT ![i] = j]
      BY <1>3 DEF OpenCopy
    <2> HIDE DEF j
    <2>3. /\ job' \in [Process -> Job \cup {None}]
          /\ job'[Me] = IF i = Me THEN j ELSE job[Me]
      BY <1>1, <2>1, <2>2 DEF TypeInv
    <2>4. object' \in [Bytes -> Bytes \cup {Absent}]
      BY <1>1, <1>3 DEF OpenCopy, TypeInv, Bytes
    <2>5. UNCHANGED <<pc, todo, suspect>>
      BY <1>3 DEF OpenCopy
    <2> QED BY <1>1, <1>2, <2>1, <2>3, <2>4, <2>5 DEF TypeInv, PhaseInv
  <1>4. CASE EndCopy(i)
    <2>3. PICK c \in Read(job[i]) : object' = Written(job[i].hash, c)
      BY <1>4 DEF EndCopy
    <2>1. object' \in [Bytes -> Bytes \cup {Absent}]
      BY <1>1, <1>4, <2>3, JobTypes DEF EndCopy
    <2>2. /\ job' \in [Process -> Job \cup {None}]
          /\ job'[Me] = IF i = Me THEN None ELSE job[Me]
          /\ todo' = IF i = Me THEN todo \ {job[i].from} ELSE todo
          /\ UNCHANGED <<pc, suspect>>
      BY <1>1, <1>4 DEF EndCopy, TypeInv
    <2> QED BY <1>1, <1>2, <2>1, <2>2 DEF TypeInv, PhaseInv
  <1>5. CASE CopyFails(i)
    <2>1. /\ job' \in [Process -> Job \cup {None}]
          /\ job'[Me] = IF i = Me THEN None ELSE job[Me]
          /\ suspect' \subseteq Bytes /\ object' = object
          /\ \/ i = Me /\ pc' = "idle" /\ todo' = {}
             \/ i # Me /\ UNCHANGED <<pc, todo>>
      BY <1>1, <1>5 DEF CopyFails, TypeInv
    <2> QED BY <1>1, <1>2, <2>1 DEF TypeInv, PhaseInv
  <1> QED BY <1>3, <1>4, <1>5

LEMMA TypeStep == TypeInv /\ PhaseInv /\ [Next]_vars => TypeInv' /\ PhaseInv'
  <1> SUFFICES ASSUME TypeInv, PhaseInv, [Next]_vars
               PROVE  TypeInv' /\ PhaseInv'
    OBVIOUS
  <1>1. ASSUME NEW p \in Path, NEW n \in Holds[p], Change(p, n)
        PROVE  TypeInv' /\ PhaseInv'
    <2>1. n \in Node
      BY TreeAssumption
    <2>2. suspect' \subseteq Bytes
      BY <1>1, CopyHashes DEF Change, TypeInv
    <2> QED BY <1>1, <2>1, <2>2 DEF Change, TypeInv, PhaseInv
  <1>2. CASE Scan
    <2>1. tmp' \in [Path -> Node]
      BY <1>2 DEF Scan, TypeInv, Node
    <2> QED BY <1>2, <2>1 DEF Scan, ghosts, TypeInv, PhaseInv
  <1>3. ASSUME NEW p \in todo, StatObject(p)
        PROVE  TypeInv' /\ PhaseInv'
    BY <1>3, StatStep
  <1>4. ASSUME NEW i \in Process, OpenCopy(i) \/ EndCopy(i) \/ CopyFails(i)
        PROVE  TypeInv' /\ PhaseInv'
    BY <1>4, CopyStep
  <1>12. ASSUME NEW i \in Process, NEW p \in Path, OtherFinds(i, p)
        PROVE  TypeInv' /\ PhaseInv'
    BY <1>12, FindStep
  <1>5. CASE SaveManifest
    BY <1>5 DEF SaveManifest, ghosts, TypeInv, PhaseInv
  <1>6. CASE RemoveExtra
    <2>1. node' \in [Path -> Node]
      BY <1>6 DEF RemoveExtra, TypeInv, Node
    <2> QED BY <1>6, <2>1 DEF RemoveExtra, RestoringVars, ghosts, TypeInv, PhaseInv
  <1>7. ASSUME NEW p \in todo, MakeDir(p)
        PROVE  TypeInv' /\ PhaseInv'
    <2>1. node' \in [Path -> Node]
      BY <1>7 DEF MakeDir, TypeInv, Node
    <2> QED BY <1>7, <2>1 DEF MakeDir, RestoringVars, ghosts, TypeInv, PhaseInv
  <1>8. ASSUME NEW p \in todo, MakeLink(p)
        PROVE  TypeInv' /\ PhaseInv'
    <2>1. node' \in [Path -> Node]
      BY <1>8 DEF MakeLink, TypeInv, Node
    <2> QED BY <1>8, <2>1 DEF MakeLink, RestoringVars, ghosts, TypeInv, PhaseInv
  <1>9. ASSUME NEW p \in todo, WriteFile(p)
        PROVE  TypeInv' /\ PhaseInv'
    <2>1. node' \in [Path -> Node]
      BY <1>9, WrittenFile DEF WriteFile, TypeInv, Node
    <2> QED BY <1>9, <2>1 DEF WriteFile, RestoringVars, ghosts, TypeInv, PhaseInv
  <1>10. CASE DirsMade \/ RestoreFails \/ EndRestore
    BY <1>10 DEF DirsMade, RestoreFails, EndRestore, RestoringVars, ghosts, TypeInv, PhaseInv
  <1>11. CASE UNCHANGED vars
    BY <1>11 DEF vars, ghosts, TypeInv, PhaseInv
  <1> QED BY <1>1, <1>2, <1>3, <1>4, <1>5, <1>6, <1>7, <1>8, <1>9, <1>10, <1>11, <1>12
          DEF Next, Create, Other, Restore

LEMMA Types == Spec => [](TypeInv /\ PhaseInv)
  BY TypeInit, TypeStep, PTL DEF Spec
-----------------------------------------------------------------------------
(* The entries of a scan have their object, or it is still to be stored.   *)
ObjectInv ==
  /\ pc = "store" =>
       \A p \in Path : tmp[p] \in File => p \in todo \/ object[tmp[p].content] # Absent
  /\ ManifestHasObjects

(* Objects come and stay, good or bad.                                     *)
LEMMA ObjectsStayStored ==
  ASSUME TypeInv, [Next]_vars, NEW h \in Bytes, object[h] # Absent
  PROVE  object'[h] # Absent
  <1>1. CASE object' = object
    BY <1>1
  <1>2. ASSUME NEW i \in Process, OpenCopy(i)
        PROVE  object'[h] # Absent
    BY <1>2, JobTypes, TreeAssumption DEF OpenCopy, TypeInv, Bytes
  <1>3. ASSUME NEW i \in Process, EndCopy(i)
        PROVE  object'[h] # Absent
    <2>1. PICK c \in Bytes : object' = Written(job[i].hash, c)
      BY <1>3, JobTypes DEF EndCopy
    <2> QED BY <1>3, <2>1, JobTypes, TreeAssumption DEF EndCopy, Written, TypeInv, Bytes
  <1>4. ASSUME ~ \E i \in Process : OpenCopy(i) \/ EndCopy(i)
        PROVE  object' = object
    BY <1>4 DEF Next, vars, Change, Create, Other, Restore, Scan, StatObject, OtherFinds,
       CopyFails, StoringVars, RestoringVars, SaveManifest, RemoveExtra, MakeDir,
       MakeLink, WriteFile, DirsMade, RestoreFails, EndRestore
  <1> QED BY <1>1, <1>2, <1>3, <1>4

(* What is copied is stored.                                               *)
LEMMA CopiedIsStored ==
  ASSUME TypeInv, NEW i \in Process, EndCopy(i)
  PROVE  object'[job[i].hash] # Absent
  <1>1. PICK c \in Bytes : object' = Written(job[i].hash, c)
    BY JobTypes DEF EndCopy
  <1> QED BY <1>1, JobTypes, TreeAssumption DEF EndCopy, Written, TypeInv, Bytes

LEMMA ObjectStep ==
  ASSUME TypeInv, PhaseInv, ObjectInv, [Next]_vars
  PROVE  ObjectInv'
  <1> DEFINE Kept == \A h \in Bytes : object[h] # Absent => object'[h] # Absent
  <1>1. Kept
    BY ObjectsStayStored
  <1>2. ASSUME manifest' = manifest
        PROVE  ManifestHasObjects'
    <2>1. \A n \in File : n.content \in Bytes
      BY DEF File
    <2> QED BY <1>1, <1>2, <2>1 DEF ObjectInv, ManifestHasObjects
  <1> HIDE DEF Kept
  <1>3. CASE Scan
    BY <1>2, <1>3 DEF Scan, ObjectInv
  <1>10. \A n \in File : n.content \in Bytes
    BY DEF File
  <1>4. ASSUME NEW p \in todo, StatObject(p)
        PROVE  ObjectInv'
    BY <1>2, <1>4 DEF StatObject, StoringVars, Stored, ObjectInv
  <1>6. ASSUME NEW i \in Process, OpenCopy(i) \/ EndCopy(i) \/ CopyFails(i)
        PROVE  ObjectInv'
    <2>1. tmp' = tmp /\ manifest' = manifest /\ (pc' = "store" => pc = "store")
      BY <1>6 DEF OpenCopy, EndCopy, CopyFails, StoringVars
    <2> SUFFICES ASSUME pc' = "store", NEW p \in Path, tmp[p] \in File, p \notin todo'
                 PROVE  object'[tmp[p].content] # Absent
      BY <1>2, <2>1 DEF ObjectInv
    <2>2. CASE p \notin todo
      BY <1>1, <1>10, <2>1, <2>2 DEF ObjectInv, Kept
    <2>3. CASE p \in todo
      <3>1. EndCopy(i) /\ i = Me /\ p = job[i].from
        BY <1>6, <2>3 DEF OpenCopy, EndCopy, CopyFails
      <3>2. job[i] # None
        BY <3>1 DEF EndCopy
      <3> QED BY <3>1, <3>2, CopiedIsStored DEF PhaseInv
    <2> QED BY <2>2, <2>3
  <1>11. ASSUME NEW i \in Process, NEW p \in Path, OtherFinds(i, p)
        PROVE  ObjectInv'
    BY <1>2, <1>11 DEF OtherFinds, StoringVars, ObjectInv
  <1>5. CASE SaveManifest
    BY <1>5 DEF SaveManifest, ObjectInv, ManifestHasObjects
  <1>7. CASE Restore
    <2>1. manifest' = manifest /\ pc' # "store"
      BY <1>7 DEF Restore, RemoveExtra, MakeDir, MakeLink, WriteFile, DirsMade,
                  RestoreFails, EndRestore, RestoringVars
    <2> QED BY <1>2, <2>1 DEF ObjectInv
  <1>8. ASSUME NEW p \in Path, NEW n \in Holds[p], Change(p, n)
        PROVE  ObjectInv'
    BY <1>2, <1>8 DEF Change, ObjectInv
  <1>9. CASE UNCHANGED vars
    BY <1>9 DEF vars, ObjectInv, ManifestHasObjects
  <1> QED BY <1>3, <1>4, <1>5, <1>6, <1>7, <1>8, <1>9, <1>11 DEF Next, Create, Other

(* No restore fails for want of an object.                                 *)
THEOREM SnapshotsHaveObjects == Spec => []ManifestHasObjects
  <1>1. Init => ObjectInv
    BY DEF Init, ObjectInv, ManifestHasObjects
  <1>2. ObjectInv => ManifestHasObjects
    BY DEF ObjectInv
  <1> QED BY <1>1, <1>2, Types, ObjectStep, PTL DEF Spec

-----------------------------------------------------------------------------
(* Of two paths that contain a third one contains the other.               *)
LEMMA PrefixesCompare ==
  ASSUME NEW S, NEW a \in Seq(S), NEW b \in Seq(S), NEW p \in Seq(S),
         Within(a, p), Within(b, p)
  PROVE  Within(a, b) \/ Within(b, a)
  <1>1. CASE a = p \/ b = p
    BY <1>1
  <1>2. CASE a # p /\ b # p
    <2>1. a # << >> /\ Len(a) \in Nat /\ Len(a) <= Len(p) /\ \A i \in 1..Len(a) : a[i] = p[i]
      BY <1>2, WithinElements
    <2>2. b # << >> /\ Len(b) \in Nat /\ Len(b) <= Len(p) /\ \A i \in 1..Len(b) : b[i] = p[i]
      BY <1>2, WithinElements
    <2>3. CASE Len(a) <= Len(b)
      <3>1. \A i \in 1..Len(a) : a[i] = b[i]
        BY <2>1, <2>2, <2>3
      <3> QED BY <2>1, <2>3, <3>1, WithinElements
    <2>4. CASE Len(b) <= Len(a)
      <3>1. \A i \in 1..Len(b) : b[i] = a[i]
        BY <2>1, <2>2, <2>4
      <3> QED BY <2>2, <2>4, <3>1, WithinElements
    <2> QED BY <2>1, <2>2, <2>3, <2>4
  <1> QED BY <1>1, <1>2

LEMMA ConcatIsBelow ==
  ASSUME NEW S, NEW s \in Seq(S), s # << >>, NEW e \in Seq(S)
  PROVE  s \o e \in Seq(S) /\ s \o e # << >> /\ Within(s, s \o e)
  <1> DEFINE r == s \o e
  <1>1. /\ r \in Seq(S) /\ Len(r) = Len(s) + Len(e)
        /\ Len(s) \in Nat /\ Len(s) # 0 /\ Len(e) \in Nat
        /\ \A i \in 1..Len(s) : r[i] = s[i]
    OBVIOUS
  <1>2. Len(s) <= Len(r) /\ r # << >>
    BY <1>1
  <1>3. Within(s, r)
    BY <1>1, <1>2, WithinElements
  <1> QED BY <1>1, <1>2, <1>3

(* What is inside a tracked path is inside the root and not in Meta.       *)
LEMMA BelowTracked ==
  ASSUME NEW a \in Tracked, NEW p \in Path, Within(a, p)
  PROVE  p \in Tracked
  <1>1. /\ a \in Seq(Name) /\ p \in Seq(Name) /\ Root \in Seq(Name) /\ Meta \in Seq(Name)
        /\ Within(Root, a) /\ a # Root /\ ~Within(Meta, a)
    BY Known DEF Tracked, Inside, InMeta
  <1>2. Within(Root, p)
    BY <1>1, WithinTransitive
  <1>3. p # Root
    BY <1>1, WithinAntisymmetric
  <1>4. ASSUME Within(Meta, p)
        PROVE  FALSE
    <2>1. Within(a, Meta) /\ a # Meta
      BY <1>1, <1>4, PrefixesCompare, WithinReflexive
    <2>2. Within(a, Root)
      BY <1>1, <2>1, WithinParent, TreeAssumption
    <2> QED BY <1>1, <2>2, WithinAntisymmetric
  <1> QED BY <1>2, <1>3, <1>4 DEF Tracked, Inside, InMeta

(* A snapshot has nothing but tracked paths, and the directories above.    *)
Entries(m) ==
  /\ \A p \in Path \ Tracked : m[p] = Absent
  /\ \A a \in Inside, p \in Path : Within(a, p) /\ a # p /\ m[p] # Absent => m[a] = Dir

RootStands(t) == \A a \in Path : Within(a, Root) => t[a] = Dir

TreeInv ==
  /\ IsTree(node) /\ RootStands(node)
  /\ pc = "store" => Entries(tmp)
  /\ manifest # None => Entries(manifest)

LEMMA ParentIsLonger ==
  ASSUME NEW x \in Path, Parent(x) \in Path
  PROVE  Len(x) > 1
  <1>1. x \in Seq(Name) /\ x # << >> /\ Parent(x) # << >>
    BY Known
  <1>2. Len(x) \in Nat /\ Len(x) # 0
    BY <1>1
  <1>3. CASE Len(x) = 1
    <2>1. Parent(x) = SubSeq(x, 1, 0)
      BY <1>3 DEF Parent, Front
    <2>2. SubSeq(x, 1, 0) = << >>
      BY <1>1
    <2> QED BY <1>1, <2>1, <2>2
  <1>4. \A n \in Nat : n # 0 /\ n # 1 => n > 1
    OBVIOUS
  <1> QED BY <1>2, <1>3, <1>4

(* One node is put where its directory is, or where there was a node.      *)
LEMMA PutNode ==
  ASSUME NEW t \in [Path -> Node], IsTree(t), RootStands(t), NEW x \in Path, NEW n,
         \/ t[x] # Absent
         \/ Len(x) > 1 /\ Parent(x) \in Path /\ t[Parent(x)] = Dir,
         \/ n = Dir
         \/ /\ \A p \in Path : Within(x, p) /\ p # x => t[p] = Absent
            /\ ~Within(x, Root)
  PROVE  IsTree([t EXCEPT ![x] = n]) /\ RootStands([t EXCEPT ![x] = n])
  <1> DEFINE u == [t EXCEPT ![x] = n]
  <1>1. ASSUME NEW a \in Path, Within(a, x), a # x
        PROVE  t[a] = Dir
    <2>1. CASE t[x] # Absent
      BY <1>1, <2>1 DEF IsTree
    <2>2. CASE Len(x) > 1 /\ Parent(x) \in Path /\ t[Parent(x)] = Dir
      <3>1. Within(a, Parent(x))
        BY <1>1, Known, WithinParent
      <3> QED BY <2>2, <3>1, TreeAssumption DEF IsTree
    <2> QED BY <2>1, <2>2
  <1>2. ASSUME NEW a \in Path, NEW p \in Path, Within(a, p), a # p, u[p] # Absent
        PROVE  u[a] = Dir
    <2>1. CASE p = x
      BY <1>1, <1>2, <2>1
    <2>2. CASE p # x
      BY <1>2, <2>2 DEF IsTree
    <2> QED BY <2>1, <2>2
  <1>3. RootStands(u)
    BY DEF RootStands
  <1> QED BY <1>2, <1>3 DEF IsTree

LEMMA FileStandsAlone ==
  ASSUME IsTree(node), NEW x \in Path, node[x] # Dir
  PROVE  \A p \in Path : Within(x, p) /\ p # x => node[p] = Absent
  BY DEF IsTree

(* Where a link below p's directory puts p.                                *)
LEMMA ResolvedPlace ==
  ASSUME TypeInv, NEW p \in Path, Len(p) > 1, At(Parent(Place(p))) = Dir
  PROVE  /\ Place(p) \in Seq(Name) /\ Len(Place(p)) > 1
         /\ Parent(Place(p)) \in Path /\ node[Parent(Place(p))] = Dir
         /\ \/ Place(p) = p
            \/ \E a \in Path : node[a] \in Link /\ Within(node[a].to, Place(p))
  <1> DEFINE d == Parent(p)
             r == Resolve(d)
  <1>1. p \in Seq(Name) /\ d \in Seq(Name) /\ d # << >> /\ p[Len(p)] \in Name
        /\ Append(d, p[Len(p)]) = p
    BY Known, SplitPath
  <1>2. CASE ~ \E a \in Path : Within(a, d) /\ node[a] \in Link
    <2>1. r = d
      BY <1>2 DEF Resolve
    <2>2. Place(p) = p
      BY <1>1, <2>1 DEF Place
    <2> QED BY <1>1, <2>2, TreeAssumption DEF At
  <1>3. CASE \E a \in Path : Within(a, d) /\ node[a] \in Link
    <2>1. PICK a \in Path : node[a] \in Link /\ r = node[a].to \o SubSeq(d, Len(a) + 1, Len(d))
      BY <1>3 DEF Resolve
    <2>2. node[a].to \in Path /\ node[a].to \in Seq(Name) /\ node[a].to # << >>
      BY <2>1, Known DEF Link
    <2>3. SubSeq(d, Len(a) + 1, Len(d)) \in Seq(Name)
      BY <1>1, Known
    <2>4. r \in Seq(Name) /\ r # << >> /\ Within(node[a].to, r)
      BY <2>1, <2>2, <2>3, ConcatIsBelow
    <2>5. /\ Place(p) \in Seq(Name) /\ Parent(Place(p)) = r
          /\ Within(r, Place(p)) /\ Place(p) # r
      BY <1>1, <2>4, JoinedPath DEF Place
    <2>6. Within(node[a].to, Place(p))
      BY <2>2, <2>4, <2>5, WithinTransitive
    <2>7. Len(Place(p)) > 1
      BY <2>4, <2>5, WithinParent
    <2>8. Parent(Place(p)) \in Path /\ node[Parent(Place(p))] = Dir
      BY TreeAssumption DEF At
    <2> QED BY <2>1, <2>5, <2>6, <2>7, <2>8
  <1> QED BY <1>2, <1>3

(* Without a link in the way, restoreRoot writes where it says it does.    *)
LEMMA NoDetour ==
  ASSUME TypeInv, TreeInv, PhaseInv, pc \in {"dirs", "leaves"}, ~LinkInTheWay,
         manifest # None, NEW p \in Tracked, manifest[p] # Absent
  PROVE  /\ manifest[p] \in File \cup {Dir} => Resolve(p) = p
         /\ Place(p) = p
  <1>1. /\ p \in Path /\ p \in Inside /\ p \in Seq(Name) /\ Root \in Seq(Name)
        /\ Within(Root, p) /\ p # Root
    BY Known DEF Tracked, Inside
  <1>2. ASSUME NEW a \in Path, Within(a, p), a # p
        PROVE  node[a] \notin Link
    <2>1. CASE Within(a, Root)
      BY <2>1, TreeAssumption DEF TreeInv, RootStands
    <2>2. CASE Within(Root, a) /\ a # Root
      <3>1. a \in Inside
        BY <2>2 DEF Inside
      <3>2. manifest[a] = Dir
        BY <1>1, <1>2, <3>1 DEF TreeInv, Entries
      <3> QED BY <3>1, <3>2 DEF LinkInTheWay
    <2> QED BY <1>1, <1>2, <2>1, <2>2, Known, PrefixesCompare, WithinReflexive
  <1>3. ASSUME manifest[p] \in File \cup {Dir}
        PROVE  Resolve(p) = p
    <2>1. node[p] \notin Link
      BY <1>1, <1>3 DEF LinkInTheWay
    <2> QED BY <1>2, <2>1 DEF Resolve
  <1>4. Place(p) = p
    <2>1. Len(p) > 1
      BY <1>1, WithinParent
    <2>2. /\ Parent(p) \in Seq(Name) /\ Parent(p) # << >> /\ p[Len(p)] \in Name
          /\ Append(Parent(p), p[Len(p)]) = p
      BY <1>1, <2>1, SplitPath
    <2>3. Within(Parent(p), p) /\ Parent(p) # p
      BY <2>2, JoinedPath
    <2>4. ASSUME NEW a \in Path, Within(a, Parent(p))
          PROVE  node[a] \notin Link
      <3>1. Within(a, p)
        BY <1>1, <2>2, <2>3, <2>4, Known, WithinTransitive
      <3>2. a # p
        BY <1>1, <2>2, <2>3, <2>4, WithinAntisymmetric
      <3> QED BY <1>2, <3>1, <3>2
    <2>5. Resolve(Parent(p)) = Parent(p)
      BY <2>4 DEF Resolve
    <2> QED BY <2>2, <2>5 DEF Place
  <1> QED BY <1>3, <1>4

(* A link never takes the place of the root.                               *)
LEMMA PlaceIsNotAbove ==
  ASSUME TypeInv, NEW p \in Tracked, At(Parent(Place(p))) = Dir
  PROVE  /\ Place(p) \in Seq(Name) /\ Len(Place(p)) > 1
         /\ Parent(Place(p)) \in Path /\ node[Parent(Place(p))] = Dir
         /\ ~Within(Place(p), Root)
  <1>1. /\ p \in Path /\ p \in Seq(Name) /\ Root \in Seq(Name)
        /\ Within(Root, p) /\ p # Root
    BY Known DEF Tracked, Inside
  <1>2. Len(p) > 1
    BY <1>1, WithinParent
  <1>3. Place(p) \in Seq(Name)
    BY <1>1, <1>2, ResolvedPlace
  <1>4. CASE Place(p) = p
    BY <1>1, <1>2, <1>4, ResolvedPlace, WithinAntisymmetric
  <1>5. ASSUME NEW a \in Path, node[a] \in Link, Within(node[a].to, Place(p))
        PROVE  ~Within(Place(p), Root)
    <2>1. node[a].to \in Seq(Name) /\ ~Within(node[a].to, Root)
      BY <1>5, Known DEF Link
    <2> QED BY <1>1, <1>3, <1>5, <2>1, WithinTransitive
  <1> QED BY <1>1, <1>2, <1>4, <1>5, ResolvedPlace

LEMMA TreeStart == Init => TreeInv
  BY TreeAssumption DEF Init, TreeInv, RootStands

LEMMA EntriesOfScan ==
  ASSUME TreeInv, ~MetaWatched, Scan
  PROVE  Entries(tmp')
  <1>1. tmp' = [p \in Path |-> IF p \in Tracked THEN node[p] ELSE Absent]
    BY DEF Scan
  <1>2. ASSUME NEW a \in Inside, NEW p \in Tracked, Within(a, p), a # p, node[p] # Absent
        PROVE  tmp'[a] = Dir
    <2>1. a \in Path /\ p \in Path
      BY Known
    <2>2. node[a] = Dir
      BY <1>2, <2>1 DEF TreeInv, IsTree
    <2>3. a \in Tracked
      <3>1. Within(Meta, a) => Within(Meta, p)
        BY <1>2, <2>1, Known, WithinTransitive
      <3> QED BY <1>2, <3>1 DEF Tracked, InMeta
    <2> QED BY <1>1, <2>1, <2>2, <2>3
  <1>3. \A p \in Path \ Tracked : tmp'[p] = Absent
    BY <1>1
  <1> QED BY <1>1, <1>2, <1>3 DEF Entries

LEMMA TreeStep ==
  ASSUME TypeInv, PhaseInv, TreeInv, ~MetaWatched, [Next]_vars
  PROVE  TreeInv'
  <1>1. ASSUME IsTree(node') /\ RootStands(node'), manifest' = manifest,
               pc' = "store" => pc = "store" /\ tmp' = tmp
        PROVE  TreeInv'
    BY <1>1 DEF TreeInv
  <1>2. ASSUME NEW p \in Path, NEW n \in Holds[p], Change(p, n)
        PROVE  TreeInv'
    <2>1. /\ Len(p) > 1 /\ Parent(p) \in Path /\ node[Parent(p)] = Dir
          /\ \A q \in Path : Within(p, q) /\ q # p => node[q] = Absent
      BY <1>2, TreeAssumption DEF Change, At
    <2>2. ~Within(p, Root)
      BY <1>2, <2>1, Known, WithinReflexive, TreeAssumption DEF Change, TreeInv, RootStands
    <2>3. IsTree(node') /\ RootStands(node')
      BY <1>2, <2>1, <2>2, PutNode DEF Change, TypeInv, TreeInv
    <2> QED BY <1>1, <1>2, <2>3 DEF Change
  <1>3. CASE Scan
    <2>1. Entries(tmp')
      BY <1>3, EntriesOfScan
    <2> QED BY <1>3, <2>1 DEF Scan, TreeInv
  <1>4. ASSUME \/ \E p \in todo : StatObject(p)
               \/ \E i \in Process : OpenCopy(i) \/ EndCopy(i) \/ CopyFails(i)
               \/ Other
        PROVE  TreeInv'
    BY <1>4 DEF StatObject, OpenCopy, EndCopy, CopyFails, Other, OtherFinds, StoringVars,
                TreeInv
  <1>5. CASE SaveManifest
    BY <1>5 DEF SaveManifest, TreeInv
  <1>6. CASE RemoveExtra
    <2> DEFINE Gone(p) == \E a \in Inside : Extra(a) /\ Within(a, p)
    <2>1. node' = [p \in Path |-> IF Gone(p) THEN Absent ELSE node[p]]
      BY <1>6 DEF RemoveExtra
    <2>2. ASSUME NEW a \in Path, NEW p \in Path, Within(a, p), Gone(a)
          PROVE  Gone(p)
      BY <2>2, Known, WithinTransitive
    <2>3. ASSUME NEW p \in Path, Within(p, Root)
          PROVE  ~Gone(p)
      <3>1. SUFFICES ASSUME NEW a \in Tracked, Within(a, p)
                     PROVE  FALSE
        BY DEF Extra
      <3>2. a \in Path /\ a # Root /\ Within(Root, a)
        BY Known DEF Tracked, Inside
      <3>3. Within(a, Root)
        BY <2>3, <3>1, <3>2, Known, WithinTransitive
      <3> QED BY <3>2, <3>3, Known, WithinAntisymmetric
    <2> HIDE DEF Gone
    <2>4. IsTree(node')
      BY <2>1, <2>2 DEF IsTree, TreeInv
    <2>5. RootStands(node')
      BY <2>1, <2>3 DEF RootStands, TreeInv
    <2> QED BY <1>1, <1>6, <2>4, <2>5 DEF RemoveExtra, RestoringVars
  <1>7. ASSUME NEW p \in todo, MakeDir(p)
        PROVE  TreeInv'
    <2>1. /\ Resolve(p) \in Path
          /\ \/ node[Resolve(p)] # Absent
             \/ Parent(Resolve(p)) \in Path /\ node[Parent(Resolve(p))] = Dir
      BY <1>7, TreeAssumption DEF MakeDir, CanMake, At
    <2>2. \/ node[Resolve(p)] # Absent
          \/ /\ Len(Resolve(p)) > 1
             /\ Parent(Resolve(p)) \in Path /\ node[Parent(Resolve(p))] = Dir
      BY <2>1, Known, ParentIsLonger
    <2>3. IsTree(node') /\ RootStands(node')
      BY <1>7, <2>1, <2>2, PutNode DEF MakeDir, TypeInv, TreeInv
    <2> QED BY <1>1, <1>7, <2>3 DEF MakeDir, RestoringVars
  <1>8. ASSUME NEW p \in todo, WriteFile(p)
        PROVE  TreeInv'
    <2> DEFINE x == Resolve(p)
               n == [content |-> object[manifest[p].content],
                     mode |-> IF node[x] \in File THEN node[x].mode ELSE manifest[p].mode]
    <2>1. /\ x \in Path /\ node[x] # Dir
          /\ \/ node[x] # Absent
             \/ Parent(x) \in Path /\ node[Parent(x)] = Dir
      BY <1>8, TreeAssumption DEF WriteFile, CanWrite, At
    <2>2. \/ node[x] # Absent
          \/ Len(x) > 1 /\ Parent(x) \in Path /\ node[Parent(x)] = Dir
      BY <2>1, Known, ParentIsLonger
    <2>3. \A q \in Path : Within(x, q) /\ q # x => node[q] = Absent
      BY <2>1, FileStandsAlone DEF TreeInv
    <2>4. ~Within(x, Root)
      BY <2>1 DEF TreeInv, RootStands
    <2>5. node' = [node EXCEPT ![x] = n]
      BY <1>8 DEF WriteFile
    <2>6. IsTree(node') /\ RootStands(node')
      <3> HIDE DEF x, n
      <3> QED BY <2>1, <2>2, <2>3, <2>4, <2>5, PutNode DEF TypeInv, TreeInv
    <2> QED BY <1>1, <1>8, <2>6 DEF WriteFile, RestoringVars
  <1>9. ASSUME NEW p \in todo, MakeLink(p)
        PROVE  TreeInv'
    <2> DEFINE x == Place(p)
    <2>1. p \in Tracked
      <3>1. manifest[p] # Absent /\ p \in Path
        BY <1>9, TreeAssumption DEF MakeLink, TypeInv
      <3>2. manifest # None
        BY <1>9 DEF MakeLink, PhaseInv
      <3> QED BY <3>1, <3>2 DEF TreeInv, Entries
    <2>2. /\ x \in Seq(Name) /\ Len(x) > 1
          /\ Parent(x) \in Path /\ node[Parent(x)] = Dir
          /\ ~Within(x, Root)
      BY <1>9, <2>1, PlaceIsNotAbove DEF MakeLink
    <2>3. node' = [q \in Path |-> IF q = x THEN manifest[p]
                                  ELSE IF Within(x, q) THEN Absent ELSE node[q]]
      BY <1>9 DEF MakeLink
    <2> HIDE DEF x
    <2>4. ASSUME NEW a \in Path, NEW q \in Path, Within(a, q), a # q, node'[q] # Absent
          PROVE  node'[a] = Dir
      <3>1. CASE q = x
        <4>1. Within(a, Parent(x))
          BY <2>2, <2>4, <3>1, Known, WithinParent
        <4>2. node[a] = Dir
          BY <2>2, <4>1, TreeAssumption DEF TreeInv, IsTree
        <4>3. a # x /\ ~Within(x, a)
          BY <2>2, <2>4, <3>1, Known, WithinAntisymmetric
        <4> QED BY <2>3, <4>2, <4>3
      <3>2. CASE q # x
        <4>1. ~Within(x, q) /\ node[q] # Absent
          BY <2>3, <2>4, <3>2
        <4>2. ~Within(x, a)
          BY <2>2, <2>4, <4>1, Known, WithinTransitive
        <4>3. a # x
          BY <2>4, <4>1
        <4> QED BY <2>3, <2>4, <4>1, <4>2, <4>3 DEF TreeInv, IsTree
      <3> QED BY <3>1, <3>2
    <2>5. RootStands(node')
      <3>1. ASSUME NEW a \in Path, Within(a, Root)
            PROVE  a # x /\ ~Within(x, a)
        BY <2>2, <3>1, Known, WithinTransitive
      <3> QED BY <2>3, <3>1 DEF RootStands, TreeInv
    <2> QED BY <1>1, <1>9, <2>4, <2>5 DEF MakeLink, RestoringVars, IsTree
  <1>10. CASE DirsMade \/ RestoreFails \/ EndRestore
    BY <1>10 DEF DirsMade, RestoreFails, EndRestore, RestoringVars, TreeInv
  <1>11. CASE UNCHANGED vars
    BY <1>11 DEF vars, TreeInv
  <1> QED BY <1>2, <1>3, <1>4, <1>5, <1>6, <1>7, <1>8, <1>9, <1>10, <1>11
          DEF Next, Create, Restore
-----------------------------------------------------------------------------
(***************************************************************************)
(* The copies that processes make of their objects.  A copy yet to be made *)
(* finds in the file what was hashed, or the hash is suspect; so does one  *)
(* that has its file open; and a process that has opened an object has     *)
(* truncated it.                                                           *)
(***************************************************************************)
Sound(h, p) == h \in suspect \/ Source(p) \notin File \/ Source(p).content = h

TodoSound ==
  pc = "store" => \A p \in todo : ~Stored(tmp[p].content) => Sound(tmp[p].content, p)

JobSound(i) ==
  job[i] # None =>
    /\ Sound(job[i].hash, job[i].from)
    /\ job[i].content # Absent => object[job[i].hash] # Absent
    /\ job[i].content # Absent => job[i].content = job[i].hash \/ job[i].hash \in suspect

CopyInv ==
  /\ TodoSound
  /\ \A i \in Process : JobSound(i)
  /\ \A h \in Bytes : object[h] \in {Absent, Torn, h} \/ h \in suspect
  /\ ObjectsAreTrue

LEMMA ScannedSource ==
  ASSUME IsTree(node), NEW p \in Path, node[p] \in File
  PROVE  Source(p) = node[p]
  <1>1. \A a \in Path : Within(a, p) => node[a] \notin Link
    BY TreeAssumption DEF IsTree
  <1> QED BY <1>1 DEF Source, Resolve, At

(* What a step that changes no file leaves sound.                          *)
LEMMA TodoKept ==
  ASSUME TypeInv, PhaseInv, TodoSound, node' = node, suspect \subseteq suspect',
         \A h \in Bytes : object[h] # Absent => object'[h] # Absent,
         pc' = "store" => pc = "store" /\ tmp' = tmp /\ todo' \subseteq todo
  PROVE  TodoSound'
  <1> SUFFICES ASSUME pc' = "store", NEW p \in todo', ~Stored(tmp[p].content)'
               PROVE  Sound(tmp[p].content, p)'
    BY DEF TodoSound
  <1>1. tmp' = tmp /\ p \in todo /\ tmp[p].content \in Bytes /\ pc = "store"
    BY DEF PhaseInv, File
  <1>2. ~Stored(tmp[p].content)
    BY <1>1 DEF Stored
  <1>3. Sound(tmp[p].content, p)
    BY <1>1, <1>2 DEF TodoSound
  <1> QED BY <1>1, <1>3 DEF Sound, Source, At, Resolve

LEMMA JobKept ==
  ASSUME TypeInv, NEW i \in Process, JobSound(i), node' = node, job'[i] = job[i],
         suspect \subseteq suspect',
         \A h \in Bytes : object[h] # Absent => object'[h] # Absent
  PROVE  JobSound(i)'
  <1> SUFFICES ASSUME job[i] # None
               PROVE  JobSound(i)'
    BY DEF JobSound
  <1>1. job[i].hash \in Bytes
    BY JobTypes
  <1>2. Sound(job[i].hash, job[i].from)'
    BY DEF JobSound, Sound, Source, At, Resolve
  <1> QED BY <1>1, <1>2 DEF JobSound

(* A step that changes no file, no object and no copy.                     *)
LEMMA CopiesAside ==
  ASSUME TypeInv, PhaseInv, CopyInv, node' = node, object' = object, job' = job,
         suspect' = suspect,
         pc' = "store" => pc = "store" /\ tmp' = tmp /\ todo' \subseteq todo
  PROVE  CopyInv'
  BY TodoKept, JobKept DEF CopyInv, ObjectsAreTrue

(* A process has hashed a file, and found no object.                       *)
LEMMA JobMade ==
  ASSUME TypeInv, PhaseInv, CopyInv, NEW i \in Process, job[i] = None,
         NEW h, NEW p, Sound(h, p),
         job' = [job EXCEPT ![i] = [hash |-> h, from |-> p, content |-> Absent]],
         UNCHANGED <<node, object, suspect, pc, tmp, todo>>
  PROVE  CopyInv'
  <1>1. job'[i] = [hash |-> h, from |-> p, content |-> Absent]
    BY DEF TypeInv
  <1>2. \A k \in Process : k # i => job'[k] = job[k]
    BY DEF TypeInv
  <1>3. Sound(job[i].hash, job[i].from)'
    <2>1. job'[i].hash = h /\ job'[i].from = p
      BY <1>1
    <2>2. Resolve(job[i].from)' = Resolve(p)
      <3> DEFINE R(x) == IF \E a \in Path : Within(a, x) /\ node[a] \in Link
                           THEN LET a == CHOOSE a \in Path : Within(a, x) /\ node[a] \in Link
                                IN  node[a].to \o SubSeq(x, Len(a) + 1, Len(x))
                           ELSE x
      <3>1. Resolve(job[i].from)' = R(job'[i].from)
        BY DEF Resolve
      <3>2. Resolve(p) = R(p)
        BY DEF Resolve
      <3> HIDE DEF R
      <3> QED BY <2>1, <3>1, <3>2
    <2>3. Source(job[i].from)' = Source(p)
      BY <2>2 DEF Source, At
    <2> QED BY <2>1, <2>3 DEF Sound
  <1>4. JobSound(i)'
    BY <1>1, <1>3 DEF JobSound
  <1>5. \A k \in Process : JobSound(k)'
    BY <1>2, <1>4, JobKept DEF CopyInv
  <1>6. TodoSound'
    BY TodoKept DEF CopyInv
  <1>7. ObjectsAreTrue'
    BY <1>2 DEF CopyInv, ObjectsAreTrue
  <1> QED BY <1>5, <1>6, <1>7 DEF CopyInv

(* A copier truncates the object, which is then being written.             *)
LEMMA OpenKeepsTrue ==
  ASSUME TypeInv, PhaseInv, CopyInv, NEW i \in Process, OpenCopy(i)
  PROVE  CopyInv'
  <1> DEFINE hash == job[i].hash
             c    == Source(job[i].from).content
  <1>1. /\ UNCHANGED <<node, tmp, pc, todo, suspect>> /\ job[i] \in Job
        /\ job[i] # None /\ hash \in Bytes /\ Source(job[i].from) \in File
    BY JobTypes DEF OpenCopy, StoringVars
  <1>2. \A h \in Bytes : object'[h] = IF h = hash THEN Torn ELSE object[h]
    BY <1>1 DEF OpenCopy, TypeInv
  <1>3. /\ \A k \in Process : k # i => job'[k] = job[k]
        /\ job'[i].hash = hash /\ job'[i].from = job[i].from /\ job'[i].content = c
        /\ job'[i] # None
    <2>1. [job[i] EXCEPT !.content = c] \in Job
      BY <1>1 DEF Job, File
    <2> QED BY <1>1, <2>1, TreeAssumption DEF OpenCopy, TypeInv, Job
  <1>4. c # Absent /\ Torn # Absent
    BY <1>1, TreeAssumption DEF File, Bytes
  <1>5. \A h \in Bytes : object[h] # Absent => object'[h] # Absent
    BY <1>2, <1>4
  <1>6. Sound(hash, job[i].from)
    BY <1>1 DEF CopyInv, JobSound
  <1>7. c = hash \/ hash \in suspect
    BY <1>1, <1>6 DEF Sound
  <1>8. JobSound(i)'
    <2>1. Sound(job[i].hash, job[i].from)'
      BY <1>1, <1>3, <1>6 DEF Sound, Source, At, Resolve
    <2>2. object'[job'[i].hash] # Absent
      BY <1>1, <1>2, <1>3, <1>4
    <2> QED BY <1>1, <1>3, <1>7, <2>1, <2>2 DEF JobSound
  <1>9. \A k \in Process : JobSound(k)'
    BY <1>1, <1>3, <1>5, <1>8, JobKept DEF CopyInv
  <1>10. TodoSound'
    BY <1>1, <1>5, TodoKept DEF CopyInv
  <1>11. \A h \in Bytes : object'[h] \in {Absent, Torn, h} \/ h \in suspect
    BY <1>2 DEF CopyInv
  <1>12. ObjectsAreTrue'
    <2> SUFFICES ASSUME NEW h \in Bytes, object'[h] \notin {Absent, h}, h \notin suspect
                 PROVE  \E k \in Process : /\ job'[k] # None /\ job'[k].hash = h
                                          /\ job'[k].content # Absent
      BY <1>1 DEF ObjectsAreTrue
    <2>1. CASE h = hash
      BY <1>3, <1>4, <2>1
    <2>2. CASE h # hash
      <3>1. PICK k \in Process : job[k] # None /\ job[k].hash = h /\ job[k].content # Absent
        BY <1>2, <2>2 DEF CopyInv, ObjectsAreTrue
      <3>2. k # i
        BY <2>2, <3>1
      <3> QED BY <1>3, <3>1, <3>2
    <2> QED BY <2>1, <2>2
  <1> QED BY <1>1, <1>9, <1>10, <1>11, <1>12 DEF CopyInv

(* A copier that ends has written what was hashed, or the hash is suspect. *)
LEMMA EndKeepsTrue ==
  ASSUME TypeInv, PhaseInv, CopyInv, NEW i \in Process, EndCopy(i)
  PROVE  CopyInv'
  <1> DEFINE hash == job[i].hash
  <1>1. /\ UNCHANGED <<node, tmp, pc, suspect>> /\ todo' \subseteq todo
        /\ job[i] # None /\ job[i].content # Absent /\ hash \in Bytes
        /\ \A k \in Process : job'[k] = IF k = i THEN None ELSE job[k]
    BY JobTypes DEF EndCopy, StoringVars, TypeInv
  <1>2. PICK c \in Read(job[i]) : object' = Written(hash, c)
    BY DEF EndCopy
  <1>3. c \in Bytes
    BY <1>1, <1>2, JobTypes
  <1>4. \A h \in Bytes : object'[h] = IF h # hash THEN object[h]
                                    ELSE IF object[h] \in {Torn, c} THEN c ELSE Torn
    BY <1>2 DEF Written, TypeInv
  <1>5. JobSound(i)
    BY DEF CopyInv
  <1>6. hash \in suspect \/ c = hash
    <2>1. \/ hash \in suspect
          \/ /\ job[i].content = hash
             /\ Source(job[i].from) \notin File \/ Source(job[i].from).content = hash
      BY <1>1, <1>5 DEF JobSound, Sound
    <2> QED BY <1>2, <2>1 DEF Read
  <1>7. object'[hash] = hash \/ hash \in suspect
    BY <1>1, <1>4, <1>5, <1>6 DEF CopyInv, JobSound
  <1>8. \A h \in Bytes : object[h] # Absent => object'[h] # Absent
    BY <1>3, <1>4, TreeAssumption DEF Bytes
  <1>9. \A k \in Process : JobSound(k)'
    <2>1. JobSound(i)'
      BY <1>1 DEF JobSound
    <2>2. ASSUME NEW k \in Process, k # i
          PROVE  JobSound(k)'
      BY <1>1, <1>8, <2>2, JobKept DEF CopyInv
    <2> QED BY <2>1, <2>2
  <1>10. TodoSound'
    BY <1>1, <1>8, TodoKept DEF CopyInv
  <1>11. \A h \in Bytes : object'[h] \in {Absent, Torn, h} \/ h \in suspect
    BY <1>4, <1>7 DEF CopyInv
  <1>12. ObjectsAreTrue'
    <2> SUFFICES ASSUME NEW h \in Bytes, object'[h] \notin {Absent, h}, h \notin suspect
                 PROVE  \E k \in Process : /\ job'[k] # None /\ job'[k].hash = h
                                          /\ job'[k].content # Absent
      BY <1>1 DEF ObjectsAreTrue
    <2>1. h # hash
      BY <1>7
    <2>2. PICK k \in Process : job[k] # None /\ job[k].hash = h /\ job[k].content # Absent
      BY <1>4, <2>1 DEF CopyInv, ObjectsAreTrue
    <2>3. k # i
      BY <2>1, <2>2
    <2> QED BY <1>1, <2>2, <2>3
  <1> QED BY <1>1, <1>9, <1>10, <1>11, <1>12 DEF CopyInv

(* A copy that is cut short makes its hash suspect.                        *)
LEMMA FailKeepsTrue ==
  ASSUME TypeInv, PhaseInv, CopyInv, NEW i \in Process, CopyFails(i)
  PROVE  CopyInv'
  <1>1. /\ UNCHANGED <<node, object, tmp>> /\ suspect \subseteq suspect'
        /\ job[i] # None /\ (job[i].content # Absent => job[i].hash \in suspect')
        /\ \A k \in Process : job'[k] = IF k = i THEN None ELSE job[k]
        /\ pc' = "store" => pc = "store" /\ todo' \subseteq todo
    BY DEF CopyFails, StoringVars, TypeInv
  <1>2. \A k \in Process : JobSound(k)'
    <2>1. JobSound(i)'
      BY <1>1 DEF JobSound
    <2>2. ASSUME NEW k \in Process, k # i
          PROVE  JobSound(k)'
      BY <1>1, <2>2, JobKept DEF CopyInv
    <2> QED BY <2>1, <2>2
  <1>3. TodoSound'
    BY <1>1, TodoKept DEF CopyInv
  <1>4. ObjectsAreTrue'
    <2> SUFFICES ASSUME NEW h \in Bytes, object[h] \notin {Absent, h}, h \notin suspect'
                 PROVE  \E k \in Process : /\ job'[k] # None /\ job'[k].hash = h
                                          /\ job'[k].content # Absent
      BY <1>1 DEF ObjectsAreTrue
    <2>1. PICK k \in Process : job[k] # None /\ job[k].hash = h /\ job[k].content # Absent
      BY <1>1 DEF CopyInv, ObjectsAreTrue
    <2>2. k # i
      BY <1>1, <2>1
    <2> QED BY <1>1, <2>1, <2>2
  <1> QED BY <1>1, <1>2, <1>3, <1>4 DEF CopyInv

(* A program that changes a file under a copy makes the hash suspect.      *)
LEMMA ChangeKeepsTrue ==
  ASSUME TypeInv, PhaseInv, CopyInv, NEW p \in Path, NEW n \in Holds[p], Change(p, n)
  PROVE  CopyInv'
  <1>1. /\ UNCHANGED <<object, job, pc, tmp, todo>> /\ suspect \subseteq suspect'
        /\ \A k \in Copies : \/ k.hash \in suspect' \/ Source(k.from)' \notin File
                             \/ Source(k.from)'.content = k.hash
    BY DEF Change
  <1>2. ASSUME pc = "store", NEW q \in todo, ~Stored(tmp[q].content)
        PROVE  Sound(tmp[q].content, q)'
    <2>1. [hash |-> tmp[q].content, from |-> q] \in Copies
      BY <1>2 DEF Copies
    <2> QED BY <1>1, <2>1 DEF Sound, Source, At, Resolve
  <1>3. ASSUME NEW i \in Process, job[i] # None
        PROVE  Sound(job[i].hash, job[i].from)'
    <2>1. [hash |-> job[i].hash, from |-> job[i].from] \in Copies
      BY <1>3 DEF Copies
    <2> QED BY <1>1, <2>1 DEF Sound, Source, At, Resolve
  <1>4. TodoSound'
    BY <1>1, <1>2 DEF TodoSound, Stored
  <1>5. \A i \in Process : JobSound(i)'
    BY <1>1, <1>3 DEF CopyInv, JobSound
  <1> QED BY <1>1, <1>4, <1>5 DEF CopyInv, ObjectsAreTrue

LEMMA CopyInvStep ==
  ASSUME TypeInv, PhaseInv, IsTree(node), CopyInv, [Next]_vars
  PROVE  CopyInv'
  <1>1. ASSUME NEW p \in Path, NEW n \in Holds[p], Change(p, n)
        PROVE  CopyInv'
    BY <1>1, ChangeKeepsTrue
  <1>2. CASE Scan
    <2>1. /\ UNCHANGED <<node, object, job, suspect>>
          /\ todo' = {p \in Path : tmp'[p] \in File}
          /\ \A p \in Path : tmp'[p] \in File => tmp'[p] = node[p]
      BY <1>2, TreeAssumption DEF Scan, ghosts
    <2>2. ASSUME NEW p \in todo'
          PROVE  Sound(tmp[p].content, p)'
      <3>1. p \in Path /\ tmp'[p] = node[p] /\ node[p] \in File
        BY <2>1
      <3>2. Source(p) = node[p]
        BY <3>1, ScannedSource
      <3> QED BY <2>1, <3>1, <3>2 DEF Sound, Source, At, Resolve
    <2>3. TodoSound'
      BY <2>2 DEF TodoSound
    <2> QED BY <2>1, <2>3, JobKept DEF CopyInv, ObjectsAreTrue
  <1>3. ASSUME NEW p \in todo, StatObject(p)
        PROVE  CopyInv'
    <2>1. /\ UNCHANGED <<node, object, suspect, tmp, pc>> /\ todo' \subseteq todo
          /\ pc = "store" /\ job[Me] = None /\ Me \in Process
      BY <1>3, TreeAssumption DEF StatObject, StoringVars
    <2>2. CASE job' = job
      BY <2>1, <2>2, CopiesAside
    <2>3. CASE /\ ~Stored(tmp[p].content) /\ todo' = todo
               /\ job' = [job EXCEPT ![Me] = [hash |-> tmp[p].content, from |-> p,
                                             content |-> Absent]]
      <3>1. Sound(tmp[p].content, p)
        BY <2>1, <2>3 DEF CopyInv, TodoSound
      <3> QED BY <2>1, <2>3, <3>1, JobMade
    <2> QED BY <1>3, <2>2, <2>3 DEF StatObject
  <1>4. ASSUME NEW i \in Process, NEW p \in Path, OtherFinds(i, p)
        PROVE  CopyInv'
    <2>1. /\ UNCHANGED <<node, object, suspect, tmp, todo, pc>> /\ job[i] = None
          /\ node[p] \in File
          /\ job' = [job EXCEPT ![i] = [hash |-> node[p].content, from |-> p,
                                       content |-> Absent]]
      BY <1>4 DEF OtherFinds, StoringVars
    <2>2. Sound(node[p].content, p)
      BY <2>1, ScannedSource DEF Sound
    <2> QED BY <2>1, <2>2, JobMade
  <1>5. ASSUME NEW i \in Process, OpenCopy(i) \/ EndCopy(i) \/ CopyFails(i)
        PROVE  CopyInv'
    BY <1>5, OpenKeepsTrue, EndKeepsTrue, FailKeepsTrue
  <1>6. CASE SaveManifest
    BY <1>6, CopiesAside DEF SaveManifest, ghosts
  <1>7. CASE Restore
    <2>1. /\ UNCHANGED <<object, job, suspect>> /\ pc' # "store"
          /\ \A i \in Process : job[i] = None
      BY <1>7 DEF Restore, RemoveExtra, MakeDir, MakeLink, WriteFile, DirsMade,
                  RestoreFails, EndRestore, RestoringVars, ghosts, PhaseInv
    <2> QED BY <2>1 DEF CopyInv, TodoSound, JobSound, ObjectsAreTrue
  <1>8. CASE UNCHANGED vars
    BY <1>8, CopiesAside DEF vars, ghosts
  <1> QED BY <1>1, <1>2, <1>3, <1>4, <1>5, <1>6, <1>7, <1>8 DEF Next, Create, Other

(***************************************************************************)
(* However many processes store their snapshots in one directory at the    *)
(* same time, an object is what its name says unless its file changed      *)
(* while it was being stored, or a copy of it was cut short.               *)
(***************************************************************************)
THEOREM ObjectsStayTrue == ASSUME ~MetaWatched PROVE Spec => []ObjectsAreTrue
  <1>1. Init => CopyInv
    BY DEF Init, CopyInv, ObjectsAreTrue, TodoSound, JobSound
  <1>2. TypeInv /\ PhaseInv /\ TreeInv /\ [Next]_vars => TreeInv'
    BY TreeStep
  <1>3. TypeInv /\ PhaseInv /\ TreeInv /\ CopyInv /\ [Next]_vars => CopyInv'
    BY CopyInvStep DEF TreeInv
  <1>4. CopyInv => ObjectsAreTrue
    BY DEF CopyInv
  <1> QED BY <1>1, <1>2, <1>3, <1>4, Types, TreeStart, PTL DEF Spec
-----------------------------------------------------------------------------
(* What RestoreSparesOthers lets a step of a restore touch.                *)
Free(p) ==
  /\ p \in Tracked
  /\ p = Exe => \E a \in Inside : Within(a, p) /\ a # p /\ manifest[a] # Dir

LEMMA WhatIsToDo ==
  ASSUME TypeInv, PhaseInv, TreeInv, ~LinkInTheWay, pc \in {"dirs", "leaves"},
         NEW p \in todo
  PROVE  /\ p \in Tracked /\ p # Exe /\ Free(p)
         /\ manifest[p] \in File \cup {Dir} => Resolve(p) = p
         /\ Place(p) = p
  <1>1. manifest[p] # Absent /\ manifest # None /\ p \in Path /\ p # Exe
    BY TreeAssumption DEF TypeInv, PhaseInv
  <1>2. p \in Tracked
    BY <1>1 DEF TreeInv, Entries
  <1> QED BY <1>1, <1>2, NoDetour DEF Free

(* What a restore puts in the place of a directory, or removes, and all    *)
(* that is below it, is its own.                                           *)
LEMMA BelowIsFree ==
  ASSUME NEW a \in Tracked \ {Exe}, NEW p \in Path, Within(a, p), manifest[a] # Dir
  PROVE  Free(p)
  BY BelowTracked, Known DEF Free

LEMMA ReachStep ==
  ASSUME TypeInv, PhaseInv, TreeInv, ~LinkInTheWay, Restore, NEW p \in Path,
         node'[p] # node[p]
  PROVE  Free(p)
  <1>1. CASE RemoveExtra
    <2>1. PICK a \in Inside : Extra(a) /\ Within(a, p)
      BY <1>1 DEF RemoveExtra
    <2> QED BY <2>1, BelowIsFree, TreeAssumption DEF Extra
  <1>2. ASSUME NEW q \in todo, MakeDir(q) \/ WriteFile(q)
        PROVE  Free(p)
    <2>1. pc \in {"dirs", "leaves"} /\ manifest[q] \in File \cup {Dir}
      BY <1>2 DEF MakeDir, WriteFile, PhaseInv
    <2>2. Resolve(q) = q /\ Free(q)
      BY <2>1, WhatIsToDo
    <2>3. p = q
      BY <1>2, <2>2 DEF MakeDir, WriteFile, TypeInv
    <2> QED BY <2>2, <2>3
  <1>3. ASSUME NEW q \in todo, MakeLink(q)
        PROVE  Free(p)
    <2>1. /\ q \in Tracked \ {Exe} /\ Place(q) = q /\ Free(q)
          /\ manifest[q] # Dir
      BY <1>3, WhatIsToDo, TreeAssumption DEF MakeLink
    <2>2. p = q \/ Within(q, p)
      BY <1>3, <2>1 DEF MakeLink
    <2> QED BY <2>1, <2>2, BelowIsFree
  <1> QED BY <1>1, <1>2, <1>3
          DEF Restore, DirsMade, RestoreFails, EndRestore

(* A restore reaches nothing but what the scan reached, and not the        *)
(* running executable, when the meta directory was never watched.          *)
THEOREM RestoreReach == ASSUME ~MetaWatched PROVE Spec => RestoreSparesOthers
  <1> DEFINE Spares ==
        Restore /\ ~LinkInTheWay =>
          \A p \in Path :
            \/ p \notin Inside
            \/ InMeta(p)
            \/ p = Exe /\ \A a \in Inside : Within(a, p) /\ a # p => manifest[a] = Dir
            => node'[p] = node[p]
  <1>1. TypeInv /\ PhaseInv /\ TreeInv /\ [Next]_vars => [Spares]_vars
    BY ReachStep DEF Free, Tracked
  <1>2. TypeInv /\ PhaseInv /\ TreeInv /\ [Next]_vars => TreeInv'
    BY TreeStep
  <1> QED BY <1>1, <1>2, Types, TreeStart, PTL DEF Spec, RestoreSparesOthers

-----------------------------------------------------------------------------
(***************************************************************************)
(* A restore that ends gives the tree back.                                *)
(***************************************************************************)

(* The way to a path, without the root directory, consists of paths.       *)
LEMMA AboveIsPath ==
  ASSUME NEW q \in Path, NEW x \in Seq(Name), x # << >>, Within(x, q)
  PROVE  x \in Path
  <1>1. q \in Seq(Name)
    BY Known
  <1>2. /\ Len(x) \in Nat /\ Len(x) # 0 /\ Len(q) \in Nat
        /\ Len(x) <= Len(q) /\ \A i \in 1..Len(x) : x[i] = q[i]
    BY <1>1, WithinElements
  <1>3. Len(x) \in 1..Len(q)
    BY <1>2
  <1>4. SubSeq(q, 1, Len(x)) = x
    <2>1. /\ SubSeq(q, 1, Len(x)) \in Seq(Name) /\ Len(SubSeq(q, 1, Len(x))) = Len(x)
          /\ \A i \in 1..Len(x) : SubSeq(q, 1, Len(x))[i] = q[i]
      BY <1>1, <1>2
    <2> QED BY <1>2, <2>1
  <1> QED BY <1>3, <1>4, TreeAssumption

(* A restore never takes a link out of the way that it did not make: one   *)
(* that sends a write elsewhere is still there when the restore ends.      *)
LEMMA LinkStaysInTheWay ==
  ASSUME TypeInv, PhaseInv, TreeInv, pc \in {"dirs", "leaves"}, Restore, LinkInTheWay
  PROVE  LinkInTheWay'
  <1>1. PICK q \in Inside : manifest[q] \in File \cup {Dir} /\ node[q] \in Link
    BY DEF LinkInTheWay
  <1>2. /\ manifest # None /\ UNCHANGED manifest /\ q \in Path /\ q \in Seq(Name)
        /\ manifest[q] # Absent /\ node[q] \notin File \cup {Dir, Absent}
    BY <1>1, Known, TreeAssumption
    DEF PhaseInv, Restore, RemoveExtra, MakeDir, MakeLink, WriteFile, DirsMade,
        RestoreFails, EndRestore, RestoringVars
  <1>3. CASE node'[q] = node[q]
    BY <1>1, <1>2, <1>3 DEF LinkInTheWay
  <1>4. CASE RemoveExtra \/ DirsMade \/ RestoreFails \/ EndRestore
    BY <1>3, <1>4 DEF RemoveExtra, DirsMade, RestoreFails, EndRestore
  <1>5. ASSUME NEW p \in todo, MakeDir(p)
        PROVE  LinkInTheWay'
    <2>1. Resolve(p) # q
      BY <1>2, <1>5 DEF MakeDir, CanMake, At
    <2> QED BY <1>2, <1>3, <1>5, <2>1 DEF MakeDir, TypeInv
  <1>6. ASSUME NEW p \in todo, WriteFile(p)
        PROVE  LinkInTheWay'
    <2>1. Resolve(p) # q
      BY <1>2, <1>6 DEF WriteFile, CanWrite, At
    <2> QED BY <1>2, <1>3, <1>6, <2>1 DEF WriteFile, TypeInv
  <1>7. ASSUME NEW p \in todo, MakeLink(p)
        PROVE  LinkInTheWay'
    <2> DEFINE x == Place(p)
    <2>1. p \in Tracked
      BY <1>2, <1>7, TreeAssumption DEF MakeLink, TypeInv, TreeInv, Entries
    <2>2. x \in Seq(Name) /\ Len(x) > 1 /\ ~Within(x, Root)
      BY <1>7, <2>1, PlaceIsNotAbove DEF MakeLink
    <2>3. /\ manifest[p] \in Link
          /\ node' = [y \in Path |-> IF y = x THEN manifest[p]
                                     ELSE IF Within(x, y) THEN Absent ELSE node[y]]
      BY <1>7 DEF MakeLink
    <2> HIDE DEF x
    <2>4. CASE x = q
      <3>1. node'[q] \in Link
        BY <1>2, <2>3, <2>4
      <3> QED BY <1>1, <1>2, <3>1 DEF LinkInTheWay
    <2>5. CASE x # q /\ Within(x, q)
      <3>1. x # << >>
        BY <2>2
      <3>2. x \in Path
        BY <1>2, <2>2, <2>5, <3>1, AboveIsPath
      <3>3. Root \in Seq(Name) /\ Within(Root, q)
        BY Known DEF Inside
      <3>4. Within(Root, x) /\ x # Root
        BY <1>2, <2>2, <2>5, <3>3, PrefixesCompare, WithinReflexive
      <3>5. x \in Inside
        BY <3>2, <3>4 DEF Inside
      <3>6. manifest[x] = Dir
        BY <1>2, <2>5, <3>5 DEF TreeInv, Entries
      <3>7. node'[x] \in Link
        BY <2>3, <3>2
      <3> QED BY <1>2, <3>5, <3>6, <3>7 DEF LinkInTheWay
    <2>6. CASE ~Within(x, q) /\ x # q
      BY <1>2, <1>3, <2>3, <2>6
    <2> QED BY <2>4, <2>5, <2>6
  <1> QED BY <1>4, <1>5, <1>6, <1>7 DEF Restore

(***************************************************************************)
(* What is back so far: nothing the snapshot lacks is there once           *)
(* RemoveExtra is over, and what it has is there or still to be made.      *)
(***************************************************************************)
Back(p) ==
  /\ manifest[p] = Absent => node[p] = Absent
  /\ manifest[p] = Dir => node[p] = Dir \/ (pc = "dirs" /\ p \in todo)
  /\ pc = "leaves" /\ manifest[p] \in Link /\ p \notin todo => node[p] = manifest[p]
  /\ manifest[p] \in File =>
       IF pc = "leaves" /\ p \notin todo
         THEN /\ node[p] \in File /\ node[p].content = object[manifest[p].content]
              /\ node[p].mode = IF found[p] \in File THEN found[p].mode ELSE manifest[p].mode
         ELSE node[p] = found[p]

BackInv ==
  pc \in {"dirs", "leaves"} /\ ~LinkInTheWay => \A p \in Tracked \ {Exe} : Back(p)

LEMMA RestoreGetsBack ==
  ASSUME TypeInv, PhaseInv, TreeInv, BackInv, Restore,
         pc \in {"dirs", "leaves"}, ~LinkInTheWay
  PROVE  BackInv'
  <1> USE DEF BackInv
  <1>1. /\ manifest # None /\ UNCHANGED <<manifest, object>>
        /\ pc' = "idle" \/ found' = found
        /\ \A p \in Tracked \ {Exe} : p \in Path /\ Back(p)
    BY Known
    DEF PhaseInv, Restore, RemoveExtra, MakeDir, MakeLink, WriteFile, DirsMade,
        RestoreFails, EndRestore, RestoringVars, ghosts
  <1>2. CASE pc' = "idle"
    BY <1>2
  <1>3. CASE DirsMade
    <2> SUFFICES ASSUME NEW p \in Tracked \ {Exe} PROVE Back(p)'
      OBVIOUS
    <2>1. /\ pc = "dirs" /\ todo = {} /\ pc' = "leaves" /\ node' = node
          /\ todo' = {y \in Path : manifest[y] \in File \cup Link /\ y # Exe}
      BY <1>3 DEF DirsMade
    <2> QED BY <1>1, <2>1, TreeAssumption DEF Back
  <1>4. ASSUME NEW q \in todo, MakeDir(q)
        PROVE  BackInv'
    <2>1. /\ q \in Path /\ manifest[q] = Dir /\ Resolve(q) = q
          /\ pc = "dirs" /\ pc' = "dirs" /\ todo' = todo \ {q}
          /\ node' = [node EXCEPT ![q] = Dir]
      BY <1>4, WhatIsToDo DEF MakeDir, PhaseInv, TypeInv
    <2> SUFFICES ASSUME NEW p \in Tracked \ {Exe} PROVE Back(p)'
      OBVIOUS
    <2> QED BY <1>1, <2>1, TreeAssumption DEF Back, TypeInv
  <1>5. ASSUME NEW q \in todo, WriteFile(q)
        PROVE  BackInv'
    <2> DEFINE n == [content |-> object[manifest[q].content],
                     mode |-> IF node[q] \in File THEN node[q].mode ELSE manifest[q].mode]
    <2>1. /\ q \in Path /\ manifest[q] \in File /\ Resolve(q) = q
          /\ pc = "leaves" /\ pc' = "leaves" /\ todo' = todo \ {q}
          /\ CanWrite(q) /\ node' = [node EXCEPT ![q] = n]
      BY <1>5, WhatIsToDo DEF WriteFile, PhaseInv, TypeInv
    <2>2. n \in File /\ n.content = object[manifest[q].content]
      BY <2>1, WrittenFile
    <2>6. q \in Tracked \ {Exe} => n.mode = IF found[q] \in File THEN found[q].mode
                                                            ELSE manifest[q].mode
      BY <1>1, <2>1 DEF Back
    <2>3. manifest[q] \notin Link \cup {Dir, Absent}
      BY <2>1, TreeAssumption
    <2> HIDE DEF n
    <2> SUFFICES ASSUME NEW p \in Tracked \ {Exe} PROVE Back(p)'
      OBVIOUS
    <2>4. CASE p = q
      BY <1>1, <2>1, <2>2, <2>3, <2>4, <2>6 DEF Back, TypeInv
    <2>5. CASE p # q
      BY <1>1, <2>1, <2>5 DEF Back, TypeInv
    <2> QED BY <2>4, <2>5
  <1>6. ASSUME NEW q \in todo, MakeLink(q)
        PROVE  BackInv'
    <2>1. /\ q \in Tracked /\ q \in Path /\ manifest[q] \in Link /\ Place(q) = q
          /\ pc = "leaves" /\ pc' = "leaves" /\ todo' = todo \ {q}
      BY <1>6, WhatIsToDo DEF MakeLink, TypeInv
    <2>2. node' = [y \in Path |-> IF y = q THEN manifest[q]
                                  ELSE IF Within(q, y) THEN Absent ELSE node[y]]
      BY <1>6, <2>1 DEF MakeLink
    <2>3. manifest[q] \notin File \cup {Dir, Absent}
      BY <2>1, TreeAssumption
    <2> SUFFICES ASSUME NEW p \in Tracked \ {Exe} PROVE Back(p)'
      OBVIOUS
    <2>4. CASE p = q
      BY <1>1, <2>1, <2>2, <2>3, <2>4 DEF Back
    <2>5. CASE p # q /\ Within(q, p)
      <3>1. manifest[p] = Absent
        BY <1>1, <2>1, <2>3, <2>5 DEF TreeInv, Entries, Tracked
      <3>2. node'[p] = Absent
        BY <1>1, <2>2, <2>5
      <3> QED BY <1>1, <3>1, <3>2, TreeAssumption DEF Back
    <2>6. CASE p # q /\ ~Within(q, p)
      BY <1>1, <2>1, <2>2, <2>6 DEF Back
    <2> QED BY <2>4, <2>5, <2>6
  <1> QED BY <1>2, <1>3, <1>4, <1>5, <1>6
          DEF Restore, RemoveExtra, RestoreFails, EndRestore

LEMMA BackStep ==
  ASSUME TypeInv, PhaseInv, TreeInv, BackInv, [Next]_vars
  PROVE  BackInv'
  <1>1. CASE RemoveExtra
    <2>1. /\ manifest # None /\ UNCHANGED manifest /\ pc' = "dirs" /\ found' = node
          /\ todo' = {p \in Path : manifest[p] = Dir /\ p # Exe}
          /\ node' = [p \in Path |->
               IF \E a \in Inside : Extra(a) /\ Within(a, p) THEN Absent ELSE node[p]]
      BY <1>1 DEF RemoveExtra, RestoringVars
    <2> SUFFICES ASSUME NEW p \in Tracked \ {Exe} PROVE Back(p)'
      BY DEF BackInv
    <2>2. p \in Path /\ p \in Inside /\ p \in Seq(Name)
      BY Known
    <2>3. CASE manifest[p] = Absent /\ node[p] # Absent
      <3>1. Extra(p) /\ Within(p, p)
        BY <2>2, <2>3, WithinReflexive DEF Extra
      <3>2. node'[p] = Absent
        BY <2>1, <2>2, <3>1
      <3> QED BY <2>1, <2>3, <3>2, TreeAssumption DEF Back
    <2>4. CASE manifest[p] = Absent /\ node[p] = Absent
      <3>1. node'[p] = Absent
        BY <2>1, <2>2, <2>4
      <3> QED BY <2>1, <2>4, <3>1, TreeAssumption DEF Back
    <2>5. CASE manifest[p] # Absent
      <3>1. ASSUME NEW a \in Inside, Extra(a), Within(a, p)
            PROVE  FALSE
        <4>1. manifest[a] = Absent /\ a # p
          BY <2>5, <3>1 DEF Extra
        <4> QED BY <2>1, <2>2, <2>5, <3>1, <4>1, TreeAssumption DEF TreeInv, Entries
      <3>2. node'[p] = node[p]
        BY <2>1, <2>2, <3>1
      <3> QED BY <2>1, <2>2, <2>5, <3>2, TreeAssumption DEF Back
    <2> QED BY <2>3, <2>4, <2>5
  <1>2. CASE pc' \in {"idle", "store"}
    BY <1>2 DEF BackInv
  <1>3. CASE Create \/ Other \/ \E p \in Path : \E n \in Holds[p] : Change(p, n)
    <2>1. ASSUME NEW i \in Process, OpenCopy(i) \/ EndCopy(i) \/ CopyFails(i)
          PROVE  pc' \in {"idle", "store"}
      <3>1. pc \in {"idle", "store"}
        BY <2>1 DEF OpenCopy, EndCopy, CopyFails, TypeInv, PhaseInv
      <3> QED BY <2>1, <3>1 DEF OpenCopy, EndCopy, CopyFails
    <2> QED BY <1>2, <1>3, <2>1 DEF Create, Scan, StatObject, SaveManifest, Other,
               OtherFinds, Change
  <1>4. CASE Restore /\ ~RemoveExtra
    <2>1. pc \in {"dirs", "leaves"} \/ pc' = "idle"
      BY <1>4 DEF Restore, MakeDir, MakeLink, WriteFile, DirsMade, RestoreFails, EndRestore
    <2>2. CASE pc \in {"dirs", "leaves"} /\ LinkInTheWay
      BY <1>4, <2>2, LinkStaysInTheWay DEF BackInv
    <2> QED BY <1>2, <1>4, <2>1, <2>2, RestoreGetsBack
  <1>5. CASE UNCHANGED vars
    BY <1>5 DEF vars, ghosts, BackInv, Back, LinkInTheWay
  <1> QED BY <1>1, <1>3, <1>4, <1>5 DEF Next

(***************************************************************************)
(* A restore that ends without an error, and finds no link in the place of *)
(* a file or a directory, has given back each file, link and directory of  *)
(* the snapshot and left nothing else, when the meta directory was never   *)
(* watched: each file with the bytes that were hashed unless its object is *)
(* suspect, and with its mode unless the file was there before.            *)
(***************************************************************************)
THEOREM TreeIsGivenBack == ASSUME ~MetaWatched PROVE Spec => RestoreGivesTree
  <1> DEFINE Gives == EndRestore /\ ~LinkInTheWay => \A p \in Tracked \ {Exe} : GivenBack(p)
  <1>1. TypeInv /\ PhaseInv /\ BackInv /\ ManifestHasObjects /\ ObjectsAreTrue /\ [Next]_vars
        => [Gives]_vars
    <2> SUFFICES ASSUME TypeInv, PhaseInv, BackInv, ManifestHasObjects, ObjectsAreTrue,
                        EndRestore, ~LinkInTheWay, NEW p \in Tracked \ {Exe}
                 PROVE  GivenBack(p)
      OBVIOUS
    <2>1. /\ p \in Path /\ pc = "leaves" /\ todo = {} /\ Back(p)
          /\ manifest # None /\ \A i \in Process : job[i] = None
      BY Known DEF EndRestore, BackInv, PhaseInv
    <2>2. manifest[p] \in File \cup Link \cup {Dir, Absent}
      BY <2>1 DEF PhaseInv, Node
    <2>3. ASSUME manifest[p] \in File
          PROVE  \/ object[manifest[p].content] = manifest[p].content
                 \/ manifest[p].content \in suspect
      <3>1. manifest[p].content \in Bytes
        BY <2>3 DEF File
      <3> QED BY <2>1, <2>3, <3>1 DEF ManifestHasObjects, ObjectsAreTrue
    <2> QED BY <2>1, <2>2, <2>3 DEF Back, GivenBack
  <1>2. TypeInv /\ PhaseInv /\ TreeInv /\ [Next]_vars => TreeInv'
    BY TreeStep
  <1>3. TypeInv /\ PhaseInv /\ TreeInv /\ BackInv /\ [Next]_vars => BackInv'
    BY BackStep
  <1>4. Init => BackInv
    BY DEF Init, BackInv
  <1> QED BY <1>1, <1>2, <1>3, <1>4, Types, TreeStart, SnapshotsHaveObjects, ObjectsStayTrue,
             PTL DEF Spec, RestoreGivesTree
=============================================================================
