---------------------------- MODULE RestoreTree ----------------------------
(***************************************************************************)
(* One monitored root in the detail WatchDiff leaves out: symbolic links,  *)
(* file modes, the rewind meta directory, the running executable and the   *)
(* object store.  Create scans, stores an object for each file and saves;  *)
(* Restore removes, makes directories and writes files and links.          *)
(*                                                                         *)
(* Other processes may have the same state directory: each may be storing  *)
(* an object of its own while Create does, or programs change files.       *)
(*                                                                         *)
(* A content is its own hash.  Links lead to paths that are no links and   *)
(* not to the root or above it, the user is one whom modes bind, and       *)
(* neither programs nor other processes run during a restore (WatchDiff    *)
(* and CheckpointStore have the interleavings, and Create's incremental    *)
(* scan).                                                                  *)
(***************************************************************************)
EXTENDS Paths

CONSTANTS
  Name,         \* file names
  Path,         \* the paths of the universe, inside the root and outside
  Root,         \* the monitored root
  Meta,         \* the meta directory in it (.rewind or .rewind-sh)
  Exe,          \* where the running rewind-sh is
  Content,      \* what a file can hold
  Torn,         \* part of a file, or a mixture of two
  Process, Me,  \* the processes on one state directory, and the one that restores
  Dir, Absent,  \* a directory; nothing
  None,         \* no manifest, no copy
  Holds,        \* what programs put where
  Start,        \* what they left before rewind-sh was started
  MetaWatched,  \* the meta directory was made while its parent was watched
  MaxChanges    \* bound on the changes programs make

Bytes == Content \cup {Torn}
File  == [content : Bytes, mode : {"rw", "ro"}]
Link  == [to : {p \in Path : ~Within(p, Root)}]
Node  == File \cup Link \cup {Dir, Absent}

(* A copy under way: what was hashed, and what the open file held, if it is open. *)
Job   == [hash : Bytes, from : Path, content : Bytes \cup {Absent}]

Inside    == {p \in Path : Within(Root, p) /\ p # Root}
InMeta(p) == Within(Meta, p)
Tracked   == {p \in Inside : ~InMeta(p)}

IsTree(t) ==
  \A a, p \in Path : Within(a, p) /\ a # p /\ t[p] # Absent => t[a] = Dir

ASSUME TreeAssumption ==
  /\ Path \subseteq Seq(Name) \ {<< >>} /\ Root \in Path
  /\ \A p \in Path : \A n \in 1..Len(p) : SubSeq(p, 1, n) \in Path
  /\ Meta \in Inside /\ Parent(Meta) = Root /\ Exe \in Tracked
  /\ {Dir, Absent, None} \cap (File \cup Link) = {} /\ Dir # Absent
  /\ Absent \notin Bytes /\ File \cap Link = {}
  /\ Me \in Process /\ None \notin Job
  /\ Holds \in [Path -> SUBSET Node] /\ Start \subseteq [Path -> Node]
  /\ \A t \in Start : IsTree(t) /\ \A a \in Path : Within(a, Root) => t[a] = Dir
  /\ MetaWatched \in BOOLEAN /\ MaxChanges \in Nat

VARIABLES
  node,      \* the file system
  object,    \* the object store, by hash
  manifest,  \* the snapshot on disk, or None
  pc,        \* where Create or Restore is
  tmp,       \* the entries of the scan
  todo,      \* paths the phase has still to handle
  job,       \* the copy into the object store each process is making
  found,     \* ghost: the file system the restore began with, or None
  suspect,   \* ghost: hashes whose file changed under a copy, or lost its copier
  changes

ghosts == <<found, suspect>>
vars   == <<node, object, manifest, pc, tmp, todo, job, ghosts, changes>>

At(p)  == IF p \in Path THEN node[p] ELSE Absent

(* Where the kernel gets to from p, a link at its end followed or not.     *)
Resolve(p) ==
  IF \E a \in Path : Within(a, p) /\ node[a] \in Link
    THEN LET a == CHOOSE a \in Path : Within(a, p) /\ node[a] \in Link
         IN  node[a].to \o SubSeq(p, Len(a) + 1, Len(p))
    ELSE p
Place(p) == Append(Resolve(Parent(p)), p[Len(p)])

Source(p) == At(Resolve(p))
Stored(h) == object[h] # Absent

(* The copies that are being made or will be.                              *)
Copies ==
  {[hash |-> tmp[p].content, from |-> p] :
     p \in {q \in todo : pc = "store" /\ ~Stored(tmp[q].content)}}
  \cup {[hash |-> job[i].hash, from |-> job[i].from] : i \in {k \in Process : job[k] # None}}
-----------------------------------------------------------------------------
Change(p, n) ==
  /\ pc \in {"idle", "store"} /\ changes < MaxChanges
  /\ Len(p) > 1 /\ p # Root /\ At(Parent(p)) = Dir /\ n # node[p]
  /\ \A q \in Path : Within(p, q) /\ q # p => node[q] = Absent
  /\ node' = [node EXCEPT ![p] = n]
  /\ suspect' = suspect \cup
       {c.hash : c \in {k \in Copies : Source(k.from)' \in File
                                    /\ Source(k.from)'.content # k.hash}}
  /\ changes' = changes + 1
  /\ UNCHANGED <<object, manifest, pc, tmp, todo, job, found>>

(***************************************************************************)
(* scanTree skips the meta directory.  handleEvent does not when it walks  *)
(* a new directory, so files in a meta directory that appeared later turn  *)
(* up as dirty paths, and reconcilePath records them.                      *)
(***************************************************************************)
Scan ==
  /\ pc = "idle"
  /\ \E dirty \in SUBSET {p \in Inside \ Tracked : MetaWatched /\ node[p] \in File} :
        tmp' = [p \in Path |-> IF p \in Tracked \cup dirty THEN node[p] ELSE Absent]
  /\ todo' = {p \in Path : tmp'[p] \in File}
  /\ pc' = "store"
  /\ UNCHANGED <<node, object, manifest, job, ghosts, changes>>

StoringVars == <<node, manifest, tmp, found, changes>>

(* Mutant: a file that has vanished since the scan is passed over.         *)
StatObjectPassesOver(p) ==
  /\ pc = "store" /\ p \in todo /\ job[Me] = None
  /\ IF Stored(tmp[p].content) \/ Source(p) \notin File
       THEN todo' = todo \ {p} /\ UNCHANGED job
       ELSE job' = [job EXCEPT ![Me] = [hash |-> tmp[p].content, from |-> p,
                                        content |-> Absent]] /\ UNCHANGED todo
  /\ UNCHANGED <<StoringVars, object, pc, suspect>>

(* ensureObject: an object that is there is trusted.                       *)
StatObject(p) ==
  /\ pc = "store" /\ p \in todo /\ job[Me] = None
  /\ IF Stored(tmp[p].content)
       THEN todo' = todo \ {p} /\ UNCHANGED job
       ELSE job' = [job EXCEPT ![Me] = [hash |-> tmp[p].content, from |-> p,
                                        content |-> Absent]] /\ UNCHANGED todo
  /\ UNCHANGED <<StoringVars, object, pc, suspect>>

(* Another process has hashed a file, and found no object for it.          *)
OtherFinds(i, p) ==
  /\ pc \in {"idle", "store"} /\ i # Me /\ job[i] = None
  /\ p \in Tracked /\ node[p] \in File /\ ~Stored(node[p].content)
  /\ job' = [job EXCEPT ![i] = [hash |-> node[p].content, from |-> p, content |-> Absent]]
  /\ UNCHANGED <<StoringVars, object, pc, todo, suspect>>

(* copyFile opens the file, which is read a second time, and truncates the *)
(* object, which another process may have written since.                   *)
OpenCopy(i) ==
  /\ job[i] # None /\ job[i].content = Absent
  /\ Source(job[i].from) \in File
  /\ job' = [job EXCEPT ![i].content = Source(job[i].from).content]
  /\ object' = [object EXCEPT ![job[i].hash] = Torn]
  /\ UNCHANGED <<StoringVars, pc, todo, suspect>>

(* What the rest of the copy may read: the file may be written meanwhile.  *)
Read(j) ==
  LET n == Source(j.from)
  IN  IF n \in File /\ n.content # j.content THEN {j.content, n.content, Torn}
                                            ELSE {j.content}

Written(h, c) == [object EXCEPT ![h] = IF @ \in {Torn, c} THEN c ELSE Torn]

(* Mutant: an error of io.Copy is ignored.                                 *)
EndCopyUnnoticed(i) ==
  /\ job[i] # None /\ job[i].content # Absent
  /\ \E c \in Read(job[i]) : object' \in {object, Written(job[i].hash, c)}
  /\ job' = [job EXCEPT ![i] = None]
  /\ todo' = IF i = Me THEN todo \ {job[i].from} ELSE todo
  /\ UNCHANGED <<StoringVars, pc, suspect>>

EndCopy(i) ==
  /\ job[i] # None /\ job[i].content # Absent
  /\ \E c \in Read(job[i]) : object' = Written(job[i].hash, c)
  /\ job' = [job EXCEPT ![i] = None]
  /\ todo' = IF i = Me THEN todo \ {job[i].from} ELSE todo
  /\ UNCHANGED <<StoringVars, pc, suspect>>

(* A file cannot be opened, or the copy fails or dies half way.            *)
CopyFails(i) ==
  /\ job[i] # None
  /\ job' = [job EXCEPT ![i] = None]
  /\ suspect' = IF job[i].content = Absent THEN suspect ELSE suspect \cup {job[i].hash}
  /\ IF i = Me THEN pc' = "idle" /\ todo' = {} ELSE UNCHANGED <<pc, todo>>
  /\ UNCHANGED <<StoringVars, object>>

SaveManifest ==
  /\ pc = "store" /\ todo = {}
  /\ manifest' = tmp
  /\ pc' = "idle"
  /\ UNCHANGED <<node, object, tmp, todo, job, ghosts, changes>>
-----------------------------------------------------------------------------
RestoringVars == <<object, manifest, tmp, job, changes>>

(* What the walk of restoreRoot removes.                                   *)
Extra(p) == p \in Tracked \ {Exe} /\ node[p] # Absent /\ manifest[p] = Absent

(* Mutant: the walk does not skip the meta directory.                      *)
RemoveExtraMeta ==
  /\ pc = "idle" /\ manifest # None /\ \A i \in Process : job[i] = None
  /\ node' = [p \in Path |->
       IF \E a \in Inside \ {Exe} : manifest[a] = Absent /\ Within(a, p)
         THEN Absent ELSE node[p]]
  /\ pc' = "dirs"
  /\ todo' = {p \in Path : manifest[p] = Dir /\ p # Exe}
  /\ found' = node
  /\ UNCHANGED <<RestoringVars, suspect>>

(***************************************************************************)
(* os.RemoveAll takes all that is below with it, the executable as well,   *)
(* and of a link the link only.                                            *)
(***************************************************************************)
RemoveExtra ==
  /\ pc = "idle" /\ manifest # None /\ \A i \in Process : job[i] = None
  /\ node' = [p \in Path |->
       IF \E a \in Inside : Extra(a) /\ Within(a, p) THEN Absent ELSE node[p]]
  /\ pc' = "dirs"
  /\ todo' = {p \in Path : manifest[p] = Dir /\ p # Exe}
  /\ found' = node
  /\ UNCHANGED <<RestoringVars, suspect>>

(* os.MkdirAll is content with a link to a directory; p's parent is made.  *)
CanMake(p) ==
  \/ At(Resolve(p)) = Dir
  \/ /\ node[p] \notin Link /\ Resolve(p) \in Path
     /\ At(Resolve(p)) = Absent /\ At(Parent(Resolve(p))) = Dir

MakeDir(p) ==
  /\ pc = "dirs" /\ p \in todo
  /\ \A q \in todo : Within(q, p) => q = p
  /\ CanMake(p)
  /\ node' = [node EXCEPT ![Resolve(p)] = Dir]
  /\ todo' = todo \ {p}
  /\ UNCHANGED <<RestoringVars, pc, ghosts>>

DirsMade ==
  /\ pc = "dirs" /\ todo = {}
  /\ pc' = "leaves"
  /\ todo' = {p \in Path : manifest[p] \in File \cup Link /\ p # Exe}
  /\ UNCHANGED <<RestoringVars, node, ghosts>>

MakeLink(p) ==
  /\ pc = "leaves" /\ p \in todo /\ manifest[p] \in Link
  /\ At(Parent(Place(p))) = Dir
  /\ node' = [q \in Path |-> IF q = Place(p)           THEN manifest[p]
                             ELSE IF Within(Place(p), q) THEN Absent
                             ELSE node[q]]
  /\ todo' = todo \ {p}
  /\ UNCHANGED <<RestoringVars, pc, ghosts>>

(* os.OpenFile follows a link, and gives a mode to a new file only.        *)
CanWrite(p) ==
  LET n == At(Resolve(p))
  IN  /\ object[manifest[p].content] # Absent
      /\ \/ n \in File /\ n.mode = "rw"
         \/ n = Absent /\ Resolve(p) \in Path /\ At(Parent(Resolve(p))) = Dir

(* Mutant: a file that is there already is taken for the right one.        *)
WriteFileKeeps(p) ==
  /\ pc = "leaves" /\ p \in todo /\ manifest[p] \in File
  /\ CanWrite(p)
  /\ node' = [node EXCEPT ![Resolve(p)] =
       IF @ \in File THEN @
       ELSE [content |-> object[manifest[p].content], mode |-> manifest[p].mode]]
  /\ todo' = todo \ {p}
  /\ UNCHANGED <<RestoringVars, pc, ghosts>>

WriteFile(p) ==
  /\ pc = "leaves" /\ p \in todo /\ manifest[p] \in File
  /\ CanWrite(p)
  /\ node' = [node EXCEPT ![Resolve(p)] =
       [content |-> object[manifest[p].content],
        mode |-> IF @ \in File THEN @.mode ELSE manifest[p].mode]]
  /\ todo' = todo \ {p}
  /\ UNCHANGED <<RestoringVars, pc, ghosts>>

RestoreFails ==
  /\ \E p \in todo :
       \/ /\ pc = "dirs" /\ ~CanMake(p)
          /\ \A q \in todo : Within(q, p) => q = p
       \/ pc = "leaves" /\ manifest[p] \in File /\ ~CanWrite(p)
       \/ pc = "leaves" /\ manifest[p] \in Link /\ At(Parent(Place(p))) # Dir
  /\ pc' = "idle" /\ todo' = {} /\ found' = None
  /\ UNCHANGED <<RestoringVars, node, suspect>>

EndRestore ==
  /\ pc = "leaves" /\ todo = {}
  /\ pc' = "idle" /\ found' = None
  /\ UNCHANGED <<RestoringVars, node, todo, suspect>>
-----------------------------------------------------------------------------
Init ==
  /\ node \in Start
  /\ object = [h \in Bytes |-> Absent]
  /\ manifest = None /\ pc = "idle"
  /\ tmp = [p \in Path |-> Absent] /\ todo = {} /\ changes = 0
  /\ job = [i \in Process |-> None] /\ found = None /\ suspect = {}

Create ==
  \/ Scan
  \/ \E p \in todo : StatObject(p)
  \/ \E i \in Process : OpenCopy(i) \/ EndCopy(i) \/ CopyFails(i)
  \/ SaveManifest

Other == \E i \in Process, p \in Path : OtherFinds(i, p)

Restore ==
  \/ RemoveExtra
  \/ \E p \in todo : MakeDir(p) \/ MakeLink(p) \/ WriteFile(p)
  \/ DirsMade
  \/ RestoreFails
  \/ EndRestore

Next == (\E p \in Path : \E n \in Holds[p] : Change(p, n)) \/ Create \/ Other \/ Restore

Spec == Init /\ [][Next]_vars
-----------------------------------------------------------------------------
(* A link stands where the snapshot has a file or a directory.             *)
LinkInTheWay ==
  manifest # None /\ \E p \in Inside : manifest[p] \in File \cup {Dir} /\ node[p] \in Link

(***************************************************************************)
(* Every file of a saved snapshot has an object under its hash, whatever   *)
(* vanished or was cut short while it was taken: no restore fails for want *)
(* of one.                                                                 *)
(***************************************************************************)
ManifestHasObjects ==
  manifest # None =>
    \A p \in Path : manifest[p] \in File => object[manifest[p].content] # Absent

(***************************************************************************)
(* Processes that store the same object at the same time do not damage it: *)
(* it is what its name says, or being written, unless its file changed     *)
(* between the hashing and the copying, or a copy of it was cut short.     *)
(***************************************************************************)
ObjectsAreTrue ==
  \A h \in Bytes :
    \/ object[h] \in {Absent, h}
    \/ h \in suspect
    \/ \E i \in Process : job[i] # None /\ job[i].hash = h /\ job[i].content # Absent

(* A file that was there before keeps its mode, whatever the snapshot has. *)
GivenBack(p) ==
  IF manifest[p] \in File
    THEN /\ node[p] \in File
         /\ node[p].content = manifest[p].content \/ manifest[p].content \in suspect
         /\ node[p].mode = IF found[p] \in File THEN found[p].mode ELSE manifest[p].mode
    ELSE node[p] = manifest[p]

(***************************************************************************)
(* "rewind restore 3 -> state before command 3" (skills/SKILL.md:17): a    *)
(* restore that ends without an error leaves what the snapshot has and     *)
(* nothing else, unless a link had taken the place of a file or directory. *)
(* Two differences remain: a file that was there keeps the mode it had,    *)
(* and the content of a suspect object may be anything.                    *)
(***************************************************************************)
RestoreGivesTree ==
  [][EndRestore /\ ~LinkInTheWay =>
       \A p \in Tracked \ {Exe} : GivenBack(p)]_vars

(***************************************************************************)
(* A restore touches nothing else: not the meta directory, not the running *)
(* executable ("the currently running rewind-sh binary path is protected", *)
(* README.md:50) as long as the snapshot knows the directories above it,   *)
(* and nothing outside the root unless a link leads there.                 *)
(***************************************************************************)
RestoreSparesOthers ==
  [][Restore /\ ~LinkInTheWay =>
       \A p \in Path :
         \/ p \notin Inside
         \/ InMeta(p)
         \/ p = Exe /\ \A a \in Inside : Within(a, p) /\ a # p => manifest[a] = Dir
         => node'[p] = node[p]]_vars

(***************************************************************************)
(* "rewind restore 3 -> state before command 3" (skills/SKILL.md:17): to   *)
(* restore what is there already is no error.                              *)
(***************************************************************************)
SameStateRestores ==
  [][RestoreFails => \E p \in Tracked : node[p] # manifest[p]]_vars
=============================================================================
