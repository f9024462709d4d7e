# Verification of rewind-sh

rewind-sh is a shell that takes a snapshot of the protected directories and of the
environment before each command, so that `rewind restore <id>` brings back the state before
command `<id>`. This directory holds TLA+ models of the program, the TLC configurations that
check them on small instances, and TLAPS proofs of what holds in every instance.

    tlc -config WatchDiffSync.cfg MCWatchDiff     # one run, see "Runs"
    tlapm WatchProofs.tla                         # the proofs of one module

## The system

| Component | State | Operations | Correct when |
|---|---|---|---|
| Shell loop (`internal/cli`) | current directory, copy of the scope | `cd`, `pwd`, `rewind ...`, commands | every command runs inside the protected scope |
| Engine (`internal/shell`) | `history.json`, `env/*.json`, the process environment | `ExecuteCommandIn`, `Restore`, `List` | each record has the snapshot and environment its command started from; the latest records are kept; a restore brings both back |
| Watch-diff backend (`internal/snapshot/watchdiff_backend.go`) | `roots`, the incremental map `current`, manifests, the object store | `Initialize`, `ExtendRoots`, `Create`, `Restore`, `Delete` | a manifest is the disk at `Create`; after `Restore` the disk is the manifest; no change is lost in between |
| Dirty watcher (`dirty_watcher_linux.go`) | `wdToPath`, `pathToWd`, `dirty`, `forceFull`, the inotify queue | `Start`, `loop`, `handleEvent`, `AddRoots`, `Drain` | every directory of a root is watched; what cannot be named asks for a full scan |
| Path algebra (`within`, `compactRoots`, ...) | none | pure functions | compaction keeps coverage and leaves no path inside another |
| Monitor scope (`monitor_scope.go`) | none | `resolveMonitorRoots`, `countWatchTargets`, the watch limit | roots are compacted, the limit is respected |
| Checkpoint store (`internal/checkpoint`) | one directory per name: copies and `meta.json` | `Create`, `Restore`, `EnvScript`, `List` | every copy `meta.json` names is there; an undisturbed `Create` repairs what interrupted ones left; a restore gives back what was read |
| Runner, process monitor, state directories, backend selection | none | start and wait, `ps`, path construction | - |

How they meet. The shell loop calls the engine, and the engine the backend, one call at a time
under `WatchDiffBackend.mu`. The watcher is a goroutine of its own: it reads the kernel's inotify
queue and holds its mutex for the whole of `handleEvent`, a directory walk included; `Drain`,
called by `Create` and `Restore`, waits for that mutex and empties the dirty set. Programs (the
command, and what earlier commands left in the background) share nothing with these two but the
file system. Several processes can share a state directory: two `rewind-sh exec` without a
session id do, and so do two uses of one session id. Nothing locks it.

What is hard: the watch on a new directory races with what is created in it; the kernel's queue
trails the disk and may overflow; a scan walks a disk that changes; a restore or a scan can fail
half way after its input was consumed; a directory can be moved under the watcher; roots can be
added during a session; the files of one command are written one after the other and the process
may die between them. `PROJECT.json` lists each such hazard at its line, with the properties that
cover it.

## Modules

| Module | Models |
|---|---|
| `Paths` | `within`, the loop `compactRoots` and `compactDirtyPaths` share, `rootsNeedAdd`, `matchRoot` |
| `PathLists` | every sorted list of paths the loop can be given, compared with what it should return |
| `WatchDiff` | the file system, the kernel's queue, the reader goroutine, the backend |
| `RewindStore` | what the engine asks of any backend: abstract disk, snapshots, restores |
| `WatchDiffLoss` | `WatchDiff` with two history variables: which changes nobody saw, which directories a restore had to make |
| `WatchDiffStore` | `WatchDiff` as an implementation of `RewindStore` (refinement mapping, fairness) |
| `ShellLoop` | the command loop of `shellCommand` driving `WatchDiff` |
| `RestoreTree` | one root with links, modes, meta directory, executable and object store |
| `Engine` | history, environment, trimming, crashes and write errors |
| `CheckpointStore` | named checkpoints, several processes, errors and crashes |
| `MC*` | the instances TLC checks: universes of paths, trees and names |
| `PathsProofs`, `PathListProofs`, `WatchProofs`, `SnapshotProofs`, `ShellProofs`, `TreeProofs`, `EngineProofs`, `CheckpointProofs` | the theorems |

`ShellLoop`, `WatchDiffLoss` and `WatchDiffStore` extend `WatchDiff`, which extends `Paths`, as `RestoreTree`
and `PathLists` do; `Engine` and `CheckpointStore` stand alone. `SnapshotProofs` and `ShellProofs` build on
`WatchProofs`, and that, `PathListProofs` and `TreeProofs` on `PathsProofs`.

**Paths.** A cleaned absolute path is the sequence of its components, `/` the empty one.
`Within(root, path)` is `path == root || strings.HasPrefix(path, root+"/")`; for the root `/`
the prefix is `//`, so `/` contains nothing but itself, as in the code. `KeepOutermost` is the loop,
as a recursive function of how many paths it has looked at; `Compact` is what it should keep.
`PathLists` grows, a path at a time, every list that `sort.Slice` can leave, which orders by the length
of the string and is not stable.

**WatchDiff.** State and code correspond one to one where the names are the same. `fs` says
what each path holds: nothing, a leaf (a file's content, which is also its hash), or the inode of
a directory. A watch descriptor is the inode's, as in inotify. `pc` is what the holder of the
backend's mutex is doing, and `work`, `todo` and `tmp` are that operation's local state. One
action stands for one step other parties can interleave with:

- programs: `Write`, `Mkdir`, `Unlink`, `Rmdir`, `RenameDir`. Each queues the event the kernel
  queues for it, with `fsnotify`'s merging of equal neighbours and its overflow event
  (`RenameDir` moves no root, nor a directory with a root in it);
- the reader: `HandleEvent`, then `AddWatch` and `ListDir` for each directory of the `WalkDir`
  that a directory creation starts; `Walking` is the time it holds its mutex;
- `Create`: `BeginSync` (`Drain`, and the choice of a full scan), `ReconcilePath`, `Visit` once
  for each path a scan reaches, `EndScan`, `SaveManifest`, or `ScanFails`;
- `Restore`: `BeginRestore`, then for each root the phases of `restoreRoot` one system call at
  a time, then `AdoptTarget` (which is where the watcher is drained again), or `RestoreFails`;
- `ExtendRoots`: `BeginExtendRoots`, the walk of `AddRoots` (`AddWatch`, `ListDir`),
  `EndExtendRoots` or `AddRootsFails`. Nobody looks at what the new root is: a plain file is accepted, and
  what is not there too when its watches need not be added. A directory that vanishes between its watch and its
  listing is an error, unlike in the reader's walk;
- `Delete`, `ReaderDies`. The reader is `running`, `dead` (`loop` has returned; the watcher is still
  initialised, so `AddRoots` adds watches nobody reads) or `off` (`Start` failed; `AddRoots` does nothing).

The constant `Hazards` turns on, for one instance, what may go wrong: `background` programs,
a `lag`ging reader, `rename`, `overflow`, `scanError`, `readerDeath`, `startFailure`,
`restoreRace`, `rootRemoved`, `leftovers` (another `ExtendRoots` after one that failed half way).
Without a flag that thing does not happen; nothing in the program's own steps depends on it.

Left out of `WatchDiff`: modes, sizes and times, symbolic links, the rewind meta directories and the
protected executable, and the object store, which are in `RestoreTree`. Reading a file and storing
its content is one step.

**WatchDiffLoss.** `missed` collects the paths that change while no reader runs, from the last full scan or
restore on; `made` the directories a restore's `MkdirAll` made and its manifest lacks, as long as they
are not touched. No step of `WatchDiff` reads either.

**RewindStore, WatchDiffStore.** `RewindStore` knows only what the roots hold, what each snapshot
holds and which restore is under way: `Save` stores the disk, `Begin` sets the goal, `Succeed` is
possible only when the disk is the goal, `Fail` leaves the disk where it is. `WatchDiffStore` maps
the disk to the entries a manifest would have, a manifest to its entries, and a running restore
to its target; `Returned` records how `WatchDiffBackend.Restore` ended.

**ShellLoop.** The loop's own state is `currentDir`, its copy `scope` of the roots and what it is
doing; `info` is the backend's `ScopeInfo`, which `ExtendRoots` updates last. `Cd` and `Enter`
extend the roots first when the directory is outside `scope`; `cd` and `cd ~` go `Home` without a look at
whether it is there. `ExtendReturns`, `LogFails` and
`ExtendFails` are the ways that call ends (the walk of `writeWatchLog` fails on a root that is not there);
`Execute` is the check of the directory in `ExecuteCommandIn`, `CreateSnapshot` the steps of `Create`, `EndCommand` the run and the eviction.
Programs and restores act at any step, so the current directory may be gone at any of them.

**RestoreTree.** `node` says what each path holds: a file with content and mode, a link, a
directory or nothing. A content is its own hash, and `object` is the store. `Create` is `Scan`, then
for each file `ensureObject` in its steps, then `SaveManifest`: `StatObject` looks for the object,
`OpenCopy` opens the file (the second reading, in which it may have changed) and truncates the object,
`EndCopy` writes it. `CopyFails` is a file that vanished, an object that cannot be opened, or a copy cut
short, which leaves a torn object under its final name. `job` is the copy each process is at: any number of other
processes of the same state directory find a file without an object (`OtherFinds`) and store
it too, between any two of these steps. `found` (the disk a restore began with) and `suspect` (the hashes whose file
changed between being hashed and copied, or whose copy was cut short) are ghosts. An object's own mode is
left out; the one effect it has, that another process cannot open it for writing, is a `CopyFails`.
`Restore` is `RemoveExtra` (the walk), `MakeDir` in order of length, then
`MakeLink` and `WriteFile` in any order, as the map iteration gives them. `Resolve` and `Place`
say where the kernel gets to when a link stands on the way. Every `Create` scans in full (the
incremental scan is `WatchDiff`'s), neither a program nor another process runs during a restore, links lead to paths that are
no links, and the user is one whom modes bind.

**CheckpointStore.** One action per system call of `Create` and `Restore`, by process: read a
source, truncate and fill its slot, truncate and fill `meta.json`; read a slot, truncate and fill
the source. `CutShort` ends any call between two of them. `seen` in an entry, `alone` and `settled`
are ghosts: what `Create` read, and whether another `Create` of the name interfered.

**Engine.** One action per step of `ExecuteCommandIn` and `Restore` between two effects on files:
`LoadHistory`, `CreateSnapshot`, `SaveEnv`, `Run`, `SaveHistory`, then `DeleteSnapshot` and
`RemoveEnv` for each evicted record; `BeginRestore`, `RestoreDisk`, `RestoreEnv`. `os.WriteFile`
truncates first, so a write that fails or a process that dies can leave a `Torn` file
(`CutShort`); a torn history reads as an empty one that counts from 1 (its copy `.corrupt` is not
modelled: nothing reads it). A size in the file wins over the option. `lost` is a ghost: the numbers
whose files a crash or an error left behind. The monitored directories
are one value here, which `Create` copies: `WatchDiff` is about when that is so. A record carries
two fields that are not in the file, what the disk and the environment were when its command
started; the properties compare the files with them.

## Runs

| Run | Shows |
|---|---|
| `paths` | the compaction loop yields the outermost paths and loses no coverage; `matchRoot` finds the only root that can own a path; `rootsNeedAdd` with the old roots covers all new ones |
| `sync` | with programs in the background and a lagging reader, as long as a scan finds what it has listed (`BusyNext`): every directory is watched or about to be (`EveryDirWatched`), no change is lost (`NoLostChange`), a manifest saved when nothing is left to handle is the disk (`QuietSnapshotIsExact`), and once programs stop the disk is known exactly by all later commands (`EventuallyExact`) |
| `restore` | commands and restores in strict turns: the backend implements `RewindStore` (`ImplementsStore`: snapshots are the disk, a restore without an error put that disk back, every restore returns), and one that fails half way loses no change |
| `faults` | moved directories, overflow, an exhausted watch limit, a reader that died or never started, a removed root (`NoLostChangeWhereWatched`): with a reader, what is lost is below directories that are not watched under their own name, and of a root that is gone, or back without its watch, nothing is said; without one, it is what has changed since, because the scan a dying reader asks for, or the first one, makes up for the rest. The one exception is a directory that a restore's `MkdirAll` had to make, the notice of which its `Drain` drops. A restore is exact whatever the watcher missed (`RestoreIsExact`), since it walks the disk and trusts only the manifest |
| `shell` | the loop over the backend: roots stay disjoint and watched while `cd` extends them, errors of `AddRoots` and of the log leave the loop a scope that is too small, never too large (`ScopeIsBacked`), no command runs outside the roots (`CommandsAreCovered`) |
| `tree` | a manifest has an object for every file; processes that store the same object at once do not damage it (`ObjectsAreTrue`), but for the `suspect` ones; a restore that ends gives back files, links and directories, with content and mode, except that a file that was there keeps its mode and that the content of a suspect object may be anything (`RestoreGivesTree`); it touches neither the meta directory nor the executable nor anything outside |
| `checkpoint` | two processes on one checkpoint, cut short anywhere: it can be mixed up but not incomplete (`NamedCopiesExist`), an undisturbed `Create` repairs it (`SettledIsFaithful`), and its restore gives back what was read |
| `engine` | four commands, restores, write errors, a crash at any step: records are true, as many of the latest are kept as `--history-size` says when every start says the same, only what an error or a crash left is left over (`NothingLeaks`), a restore brings disk and environment back |
| `lag`, `rename`, `new_root`, `read_only` | the disagreements below |

Bounds. One workspace `/w` with at most three paths below it: a file next to a directory that can
hold another directory, which is the least in which a subtree is created inside a directory whose
watch is not there yet, a directory takes a file's place and the reverse, and a moved directory has
content. `shell` uses two sibling directories of a project and the project itself, so that a new root
can be beside an old one or contain it. `MaxChanges` program steps (four in `sync`, two in
`restore`, `faults` and `shell`) allow a directory to be made, filled and removed around a step
of the reader; `faults` and `shell` multiply them by the faults and by the loop. A snapshot id that is
saved again stands for a fresh one whose predecessor is no longer asked for, so one id is enough;
`restore` has two, so that a restore can go back behind the state in `current`. `MaxQueue` is large
enough not to matter where `overflow` is off (a step that could overflow waits), and 2 where it is on.
`WatchLimit` is 3 in `faults`, one less than the directories there can be, and five inodes are enough for a
directory to come back while the name of the old one is still in `wdToPath`. No restore of
`faults` gets as far as the exception for made directories: in a larger
instance (one leaf, four inodes, `MaxQueue` 6, `MaxChanges` 4, only `background` and `lag`) `NoLostChangeWhereWatched`
holds in 1.9 million states, and fails without the exception. Inodes are reused as the
kernel may, when no path, watch or event refers to one. Files have two contents, except in `shell`,
where contents play no part, and in `faults`, where a file that is made, removed or replaced by a directory
stands for one that is written. `tree` has a file or link next to a directory or link with the
executable in it, a meta directory and a directory outside to link to, any initial tree, and two
changes, anywhere around two or more creates and restores (these are not bounded), with a second process that
stores objects: two are enough for one to truncate what the other has stored. `checkpoint` has
two processes, four calls, and two sources whose names collide. `Engine`: a history of size two
and four commands trim twice, and trimming starts at, below and above the limit. Symmetric are inodes,
contents and snapshots, disks and environments, processes; not where liveness is checked.

Fairness. `BusySpec` (`sync`) has `WF_vars(Reader)`, because the Go scheduler and the kernel run a
goroutine that can run, and `WF_vars(Create)`, because the claim is about a session whose commands keep
coming. `SessionSpec` (`restore`) has it of the reader and of a restore that has begun, which runs
on the loop's goroutine and waits for nothing but the disk and the watcher's mutex; nobody has to
start one. Programs are not fair: they may stop at any time.

`CHECK_DEADLOCK FALSE` is in `checkpoint`, whose calls are counted, and in `paths`, whose list is full at
three.

## Disagreements with the documents

The promise is `skills/SKILL.md:17`, "rewind restore 3 → state before command 3".

- `lag`: `syncCurrent` drains the dirty set without waiting for the reader to have read what the
  kernel queued. The last changes of a command may be missing from the next manifest (they are in
  a later one: `sync`). Such a manifest may hold a file and not the directory it is in, when a directory was
  removed and made again and the reader is in between; `RestoreIsExact` allows for it (`HoldsSomeOf`).
  The restore of that manifest makes the directory and drops the notice of it: with restores (as in
  `lag`, with `MaxQueue` 6) TLC refutes `NoLostChange`.
- `rename`: `handleEvent` adds watches on `IN_CREATE` only. A moved directory keeps its old name,
  or has no watch; what happens below it is not seen.
- `new_root`: `ExtendRoots` neither scans the new root nor re-keys `current`; the next manifest has
  the root and no entries below it, and restoring it empties the directory.
- `read_only`: `restoreRoot` copies every file over the one that is there, whether or not it changed,
  and `copyFile` opens it for writing. For a user whom modes bind a file of mode 0444, such as each
  object of a git repository, makes the restore fail, after it has removed what was new.

The same code disagrees with its documents in four more ways, which the properties name as their
exceptions:

- Modes. A manifest records the mode of each file, but `copyFile` (`utils.go:19`) passes it to `os.OpenFile`, which
  gives it to new files only: after a `chmod` the restore reports success and the file keeps the new mode.
  `RestoreGivesTree` asks for the snapshot's mode only where there was no file; asked for everywhere, it fails.
- Objects. `ensureObject` trusts an object that exists (`watchdiff_backend.go:523`), and `copyFile` writes it
  under its final name, from a file it reads a second time. When the file changes in between, or the copy
  is cut short, all later snapshots of that content name an object that holds something else, and
  their restores succeed with it. `suspect` is exactly these hashes; without that clause
  `ObjectsAreTrue` and `RestoreGivesTree` fail.
- One object, two processes. Both can find no object, and the later one truncates what the earlier has
  stored; a manifest that is already saved names an empty object until the copy ends, for good if it
  does not (`CopyFails`).
- The size of the history. `--history-size` ("保留命令状态数", the number of command states to keep, `cli.go:63`;
  "保留 500 条历史", keep 500, `README.zh-CN.md:68`) is used when `history.json` is made. On any later start
  `loadHistory` keeps the size in the file (`state.go:47`) and says nothing. With `Size = {1, 2}` in `Engine.cfg`, where
  restarts ask for another size, `KeepsTheLatest` fails.

The same promise is refuted by TLC in instances that are not among the runs, by turning on one
flag in `MCStore.cfg` or in `WatchDiffLag.cfg`: `scanError` (what was drained for a scan that fails is
gone), `restoreRace` (the `Drain` that ends a restore drops what other programs changed meanwhile),
and, of what `faults` confines, `overflow` (the full scan adds no watch for a directory whose CREATE was
dropped), `startFailure` (`init` goes on with a watcher nobody feeds), `rootRemoved` (nothing watches
a root's parent) and `WatchLimit = 1` (a failed `InotifyAddWatch` is ignored). With `leftovers`, and a
new root that has a subdirectory, `EveryDirWatched` fails: a directory left in `pathToWd` by a failed
`AddRoots`, removed and made again, is skipped by the next one. With two processes in `Engine.cfg`
and no fault, `RecordsAreTrue` fails: both load the same history, take the same number and overwrite
each other's files. With `MetaWatched = TRUE` in `MCTree.cfg`, `RestoreSparesOthers` fails:
`handleEvent` watches a meta directory that is made during the session, although `addRootLocked` and
`scanTree` skip it, and a restore then rolls back the files that turned up as dirty. And `within("/", p)` is
false for every other `p`, so with `--paths /` no dirty path is reconciled, against "recursive" at
`README.md:54`.

## Proofs

Constants are arbitrary: any prefix-closed set of paths, any contents, roots, limits and bounds. Each
theorem says under which hazards it holds; where it excludes one, the run that has it on shows why.

**Paths** (`PathsProofs`, `PathListProofs`). Containment is reflexive, transitive and antisymmetric, and agrees with
joining and taking the directory of a path; two containers of one path compare. `Compact` yields an
antichain with the same coverage, because among the containers of a path there is a shortest one.
`KeepOutermostIsCompact` says that the loop computes `Compact` for every list in which no path comes after
one it contains: induction over how far the loop has come, as the minimal number at which the claim
would fail. A list sorted by string length is such a list, so the four properties of the run `paths` hold for
lists of any length, over any names, with ties in any order.

**The watcher** (`WatchProofs`).

- `TypeCorrect`, `Spec => []TypeOK`, under every hazard. `TypeOK` is not inductive; `TypeInv` adds that the
  work of `ExtendRoots` and of a restore is a set of roots, that a restore has a manifest and in its later
  phases a root, and that its last phase only has paths for which the manifest holds a file.
- `RootsStayDisjoint`, `Spec => []RootsDisjoint`, under every hazard, from the fact that what `ExtendRoots` is
  about to install is compacted too.
- `NoDirectoryEscapes`, `Spec => []EveryDirWatched` assuming `Sound`: no directory is moved, no root
  removed, the reader started and lives, the queue does not overflow, there are no more paths than
  watches, and the session does not extend its roots. Background programs, lag, failing scans,
  racing and failing restores are all allowed. The inductive invariant `WatchInv` says besides: the
  file system is a tree (`IsTree`); a name in `wdToPath` is right as long as the directory lives
  (`RightName`); every queued event belongs to a known descriptor (`KnownEvents`); a descriptor's
  "ignored" event comes when the directory is gone and is its last (`IgnoredIsLast`, without which
  forgetting the name would orphan later events); and what a restore removes is strictly inside one root
  (`RemovesInsideRoot`, which with disjoint roots means it removes none). `WorldStep` states once
  what the four file system steps have in common; then there is one lemma per step, for programs and restores
  alike, and one per step of the reader. The heart is `ListDirWatch`: on the way from a listed directory to
  any directory below it there is a child that the listing hands to the walk (`TreeStep`).

**Snapshots and restores** (`SnapshotProofs`). `SideInv` is common to all parts: whatever the watcher
names is inside a root, so that `ReconcilePath` skips nothing; a walk lies inside a dirty path; and a scan
has not yet entered what it has still to visit.

- `SnapshotsLoseNothing` and `QuietSnapshotsAreExact`: `NoLostChange` and `QuietSnapshotIsExact` in a session that
  takes snapshots, assuming `Sound` and that a scan can read what it meets (`Readable`). Programs may change
  files at any moment of a `Drain`, a walk or a scan, and the reader may lag without bound. `LostInv` is
  `WatchInv` with `NothingLost`: an entry is right, or a scan of it is owed (`ScanOwed`: by the dirty set or by
  the scan under way, which has not come to it), or a queued event names it. `EveryDirWatched` is what makes
  the last case complete, so it is part of the invariant. `scanError` is excluded since a scan that gives
  up forgets what `Drain` returned.
- `RestoresAreExact`: `RestoreIsExact` under every hazard but `restoreRace` (`Undisturbed`): lost events, failed
  scans, extended roots, moved directories, a dead reader. `RestoreInv` says that every entry of a manifest is
  filed under the one root that contains it (`Keyed`), and how far the restore has come, phase by phase
  (`Progress`); that the roots of a manifest are disjoint is why one root's restore does not touch what
  another has got back.
- `NoChangeIsLost`, `SnapshotsAreExact`: in strict turns (`StrictTurns`: `Readable`, and no `lag`, `background` or
  `restoreRace`), with restores that may fail anywhere, still no change is lost and each manifest is the disk;
  so what `lag`, `rename` and `new_root` refute does hold without their cause. `StrictInv` adds that nothing
  is dirty during a scan, and that a manifest has a directory for every entry (`ManifestsAreWhole`): so the
  restore makes nothing the manifest lacks, and what it drops from the dirty set is no loss.
- `TheStoreIsImplemented`: the safety half of `ImplementsStore`. Initial states map to initial states of
  `RewindStore`, and every step of `SessionNext` to a step or a stutter.
- `WhereWatchedNothingIsLost`: `LossSpec => []NoLostChangeWhereWatched`, with restores, and with overflow,
  moved directories, an exhausted watch limit, a reader that dies or never starts, background programs, lag
  (`Deaf`). While the reader runs (`NothingMissed`): an event
  about a directory that has moved since names the wrong path; so the invariant counts only the events of
  directories that are where their watch says (`AtHome`), and shows that an event whose descriptor has no name
  any more is about a directory that is gone. Without a reader (`OnlyMissed`): every entry is right, owed to a scan,
  made by a restore, or of a path in `missed`. The step from one to the other is `ReaderDies`, which asks
  for a full scan, so that every entry is owed. A change is the only thing that makes an entry wrong, and
  `missed` is emptied only by a scan of everything, to which every entry is owed, and by a restore, which sets
  them right. `MadeStays` says
  that a made directory leaves `made` only when it changes, and that is a change like any
  other. Excluded are `scanError` and `restoreRace`, as above, and
  `rootRemoved` in a session of several roots: the scan of a root that is gone is an error, which
  loses what was drained for the others.

**The shell loop** (`ShellProofs`).

- `LoopIsASession`, `ShellSpec => Spec`: each step of the loop is a step of `WatchDiff`'s
  backend or leaves it alone, so `TypeCorrect`, `RootsStayDisjoint` and `RestoresAreExact` hold of a session.
- `ScopeStaysBacked` and `CommandsStayCovered`, under every hazard. Neither is inductive:
  `LoopInv` adds that the roots `ExtendRoots` is about to install cover the old ones and the
  directory it was called for (`WorkCovers`, from which what the loop takes over is covered), that the
  backend is extending exactly while the loop waits for it (`ExtendsInLoop`), and that a command that
  is about to run is covered (`RunsCovered`); roots only ever grow.

**The tree and its objects** (`TreeProofs`), for any tree of any depth.

- `SnapshotsHaveObjects`: `ObjectInv` says that each file of the
  scan under way has its object or is still to be stored.
- `ObjectsStayTrue`, `Spec => []ObjectsAreTrue`, for any number of processes. `CopyInv` says of each copy, before and after
  it has opened its file, that the file holds what was hashed or the hash is `suspect` (`Sound`, `JobSound`),
  and the same of the files `Create` has still to look for (`TodoSound`); so whatever order the copies of one
  object end in, each writes its content over the same content, or over a part of it.
- `RestoreReach`, `Spec => RestoreSparesOthers` assuming `~MetaWatched`. `TreeInv` says that the disk is a
  tree whose root stands, and that a snapshot has entries only for
  tracked paths, each below directories it has too (`Entries`). So no link is on the way to a path
  the snapshot has unless `LinkInTheWay` (`NoDetour`), and what is below a tracked path is tracked
  (`BelowTracked`, from the fact that two prefixes of one path compare, `PrefixesCompare`).
- `TreeIsGivenBack`, `Spec => RestoreGivesTree` assuming `~MetaWatched`: files with the bytes that were hashed
  unless the object is suspect (from `ObjectsStayTrue`: nothing is being copied during a restore), and with the
  mode of the snapshot, or the one `found` has when a file was there. `BackInv` says what is back after
  each phase as long as no link is in the way, and that what stands where a file must go is, before its turn,
  what stood there when the restore began. That is enough because a link in the way never leaves it
  (`LinkStaysInTheWay`: no directory or file the restore writes arrives at it, and a link that replaces what it
  is in is in the way itself), so that a restore which ends without one never had one.

**The engine** (`EngineProofs`), for one process in its state directory (`OneProcess`), any number of commands,
with write errors and crashes at every step: `RecordsHold`, `TheLatestAreKept`,
`NoFileLeaks`, `RestoreIsTrue` state the four properties of the run `engine`. Any size may be asked for at
any restart, but in `TheLatestAreKept`, which assumes that it is always the same (`OneSize`).
`EngineInv` follows a command from
step to step: the process' copy of the history is ahead of the file until `SaveHistory` (`BeforeSave`), the
ids of its records are consecutive and end before the next number (`Latest`), so that trimming takes the
oldest and no number is in use twice, and what is on the disk is recorded, about to be deleted, or left behind by a
crash (`LeftIsOut`, `HalfDeleted`).

**Checkpoints** (`CheckpointProofs`). `CheckpointsAreComplete`, `CreateRepairs`, `RestoreGivesBack`, for any number of
processes, names and files. The first rests on the fact that a slot, once written, is never absent
again and that a `Create` writes the slot before it makes the entry; the others follow a `Create`
that is `alone` up to its `meta.json`, and a restore that started on a settled checkpoint, slot by
slot; that two entries never share a slot is the index in `Slot`.

Only model-checked: all liveness (`EventuallyExact`, and that every restore returns, the other half of
`ImplementsStore`), since fairness and ENABLED are outside the prover, and `EveryDirWatched` while roots are
extended (the run `shell`).

## Not modelled, and the plan

Runner, process monitor, state directory names and backend selection keep no state of their own:
process starts, terminals and signals, `ps`, string construction. Neither do the one-shot subcommands
of the command line, the flags and the output; the text of the watch log and the environment values
in a checkpoint are data no property is about. Files that are neither regular nor links (a FIFO
blocks `fileHash`), roots that are links themselves, relative checkpoint sources, and process ids (a
restore signals a recorded process group that may be another's by then) are outside the models.

Still ahead, in this order:

1. `EveryDirWatched` proved while `ExtendRoots` runs, and with it `SnapshotProofs` for sessions whose roots
   grow, as far as a new root has been scanned.
2. The state directory inside a root: the meta directory is recognised only directly below a root, so
   that after `cd /home` the snapshots hold the store that holds them. `Engine` over `RestoreTree`.
3. `RestoreTree` with the incremental scan, several roots, and programs that run during a restore.
4. Two processes on one history (`Engine`; the object store they share is in `RestoreTree`), with a run that
   shows how far the damage goes.
