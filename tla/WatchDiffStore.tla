-------------------------- MODULE WatchDiffStore ---------------------------
(***************************************************************************)
(* WatchDiff as an implementation of RewindStore, for a session whose      *)
(* commands and restores take strict turns on roots that do not change.    *)
(***************************************************************************)
EXTENDS WatchDiff

(* No manifest, and no state of a store, is taken for "no manifest".       *)
ASSUME StoreAssumption ==
  None \notin Manifest \cup [AllRoots -> [Path -> Entry]]

VARIABLE returned  \* how the last call of WatchDiffBackend.Restore ended

Returned ==
  returned' = CASE \E s \in Snapshot : BeginRestore(s) -> "none"
                [] AdoptTarget                         -> "ok"
                [] RestoreFails                        -> "error"
                [] OTHER                               -> returned

SessionInit == Init /\ returned = "none"
SessionNext == FixedRoots /\ Returned

(***************************************************************************)
(* A restore that has begun runs on the goroutine of the command loop,     *)
(* which waits for nothing but the disk and the watcher's mutex, and the   *)
(* reader gives that up.  Nobody has to ask for a restore.                 *)
(***************************************************************************)
SessionSpec ==
  /\ SessionInit /\ [][SessionNext]_<<vars, returned>>
  /\ WF_<<vars, returned>>(Restoring /\ Restore /\ Returned)
  /\ WF_<<vars, returned>>(Reader /\ Returned)

(* The disk as a manifest writes it: one entry for each path below a root. *)
DiskEntries ==
  [r \in AllRoots |->
     [p \in Path |-> IF InScope(r, p) THEN Kind(fs[p]) ELSE Absent]]

Store == INSTANCE RewindStore WITH
  State <- [AllRoots -> [Path -> Entry]],
  disk  <- DiskEntries,
  saved <- [s \in Snapshot |->
              IF manifests[s] = None THEN None ELSE manifests[s].entries],
  goal  <- IF Restoring THEN target.entries ELSE None

(***************************************************************************)
(* The backend keeps the promise of RewindStore: "rewind restore 3 ->      *)
(* state before command 3" (skills/SKILL.md:17), whatever came between the *)
(* snapshot and the restore, and every restore returns.                    *)
(***************************************************************************)
ImplementsStore == Store!StoreSpec
=============================================================================
