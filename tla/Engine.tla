------------------------------- MODULE Engine -------------------------------
(***************************************************************************)
(* The shell engine (internal/shell): numbered commands, a snapshot and    *)
(* the environment saved before each, a history file of bounded length,    *)
(* and restores by number.  The processes in Proc (a shell, or an `exec'   *)
(* or `rewind restore' run beside it) share one state directory.           *)
(*                                                                         *)
(* The monitored directories and an environment are single values here:    *)
(* a Create that succeeds stores the one the disk has (WatchDiff says when *)
(* that is so), and a manifest is Torn when writing it was cut short.      *)
(***************************************************************************)
EXTENDS Naturals, Sequences, FiniteSets, Functions

CONSTANTS
  Proc,     \* processes that share the state directory
  Disk,     \* what the monitored directories can hold
  Env,      \* what the environment of a process can be
  Size,     \* values of --history-size
  None,     \* no file
  Torn,     \* a file whose write was cut short
  MaxId,    \* bound on the numbers of commands
  Faults    \* what may go wrong: "crash", "storage" (an error of the file system)

ASSUME EngineAssumption ==
  /\ Proc # {} /\ Disk # {} /\ Env # {}
  /\ Size # {} /\ Size \subseteq Nat \ {0}
  /\ None # Torn /\ {None, Torn} \cap (Disk \cup Env) = {}
  /\ MaxId \in Nat
  /\ Faults \subseteq {"crash", "storage"}

VARIABLES
  disk,       \* what the monitored directories hold
  history,    \* history.json: None, Torn or a History
  manifests,  \* snapshots/cmd-<id>, by id
  envs,       \* env/cmd-<id>.json, by id
  env,        \* the environment of every process
  size,       \* Config.HistorySize of every process
  pc,         \* how far every process is in ExecuteCommandIn or Restore
  h,          \* its copy of the history
  evicted,    \* the records trimHistory took out, not yet deleted
  target,     \* the record it restores
  lost        \* ghost: numbers whose files an error or a crash left behind

files == <<history, manifests, envs>>
local == <<h, evicted, target>>
vars  == <<disk, files, env, size, pc, local, lost>>

Id == 1..MaxId

(***************************************************************************)
(* A record of history.json.  `before' and `env' are not in the file: they *)
(* are what the disk and the environment were when the command started.    *)
(***************************************************************************)
Record  == [id : Id, before : Disk, env : Env]
History == [max : Size, next : 1..(MaxId + 1), items : Seq(Record)]

EngineTypeOK ==
  /\ disk \in Disk
  /\ history \in History \cup {None, Torn}
  /\ manifests \in [Id -> Disk \cup {None, Torn}]
  /\ envs \in [Id -> Env \cup {None, Torn}]
  /\ env \in [Proc -> Env] /\ size \in [Proc -> Size]
  /\ pc \in [Proc -> {"idle", "create", "saveEnv", "run", "save", "delete",
                      "removeEnv", "restore", "restoreEnv"}]
  /\ h \in [Proc -> History \cup {None}]
  /\ evicted \in [Proc -> Seq(Record)]
  /\ target \in [Proc -> Record \cup {None}]
  /\ lost \subseteq Id

Go(p, where) == pc' = [pc EXCEPT ![p] = where]

Finish(p) ==
  /\ Go(p, "idle")
  /\ h' = [h EXCEPT ![p] = None]
  /\ evicted' = [evicted EXCEPT ![p] = << >>]
  /\ target' = [target EXCEPT ![p] = None]
-----------------------------------------------------------------------------
(* The order loadHistory puts the records in (sort.Slice).                 *)
SortedById(items) ==
  LET place == 1..Len(items)
      order == CHOOSE f \in Bijection(place, place) :
                 \A i, j \in place : i < j => items[f[i]].id <= items[f[j]].id
  IN  [i \in place |-> items[order[i]]]

(***************************************************************************)
(* loadHistory: no file, or one that cannot be parsed, is an empty history *)
(* that counts from 1; the size in the file wins over the option.          *)
(***************************************************************************)
Loaded(p) ==
  IF history \in {None, Torn}
    THEN [max |-> size[p], next |-> 1, items |-> << >>]
    ELSE [history EXCEPT !.items = SortedById(@)]

LoadHistory(p) ==
  /\ pc[p] = "idle"
  /\ Loaded(p).next <= MaxId
  /\ Go(p, "create")
  /\ h' = [h EXCEPT ![p] = Loaded(p)]
  /\ UNCHANGED <<disk, files, env, size, evicted, target, lost>>

CreateSnapshot(p) ==
  /\ pc[p] = "create"
  /\ manifests' = [manifests EXCEPT ![h[p].next] = disk]
  /\ lost' = lost \ {h[p].next}
  /\ Go(p, "saveEnv")
  /\ UNCHANGED <<disk, history, envs, env, size, local>>

SaveEnv(p) ==
  /\ pc[p] = "saveEnv"
  /\ envs' = [envs EXCEPT ![h[p].next] = env[p]]
  /\ Go(p, "run")
  /\ UNCHANGED <<disk, history, manifests, env, size, local, lost>>

(* Mutant: one record too many goes.                                       *)
TrimOffByOne(items, max) == IF Len(items) < max THEN 0 ELSE Len(items) - max + 1

(* trimHistory: how many of the oldest records have to go.                 *)
Trim(items, max) == IF Len(items) <= max THEN 0 ELSE Len(items) - max

(* Mutant: the number is not taken.                                        *)
RunKeepsNumber(p, d) ==
  /\ pc[p] = "run"
  /\ disk' = d
  /\ LET items == Append(h[p].items, [id |-> h[p].next, before |-> disk, env |-> env[p]])
         n == Trim(items, h[p].max)
     IN  /\ h' = [h EXCEPT ![p].items = SubSeq(items, n + 1, Len(items))]
         /\ evicted' = [evicted EXCEPT ![p] = SubSeq(items, 1, n)]
  /\ Go(p, "save")
  /\ UNCHANGED <<files, env, size, target, lost>>

(* The command runs: a child cannot change the environment of the shell.   *)
Run(p, d) ==
  /\ pc[p] = "run"
  /\ disk' = d
  /\ LET items == Append(h[p].items, [id |-> h[p].next, before |-> disk, env |-> env[p]])
         n == Trim(items, h[p].max)
     IN  /\ h' = [h EXCEPT ![p].items = SubSeq(items, n + 1, Len(items)),
                           ![p].next = @ + 1]
         /\ evicted' = [evicted EXCEPT ![p] = SubSeq(items, 1, n)]
  /\ Go(p, "save")
  /\ UNCHANGED <<files, env, size, target, lost>>

SaveHistory(p) ==
  /\ pc[p] = "save"
  /\ history' = h[p]
  /\ Go(p, "delete")
  /\ UNCHANGED <<disk, manifests, envs, env, size, local, lost>>

Left(p) == {evicted[p][i].id : i \in 1..Len(evicted[p])}

(* The two files of an evicted record go one after the other.              *)
DeleteSnapshot(p) ==
  /\ pc[p] = "delete" /\ evicted[p] # << >>
  /\ manifests' = [manifests EXCEPT ![Head(evicted[p]).id] = None]
  /\ Go(p, "removeEnv")
  /\ UNCHANGED <<disk, history, envs, env, size, local, lost>>

(* Mutant: only the snapshot of the record goes.                           *)
RemoveEnvForgotten(p) ==
  /\ pc[p] = "removeEnv"
  /\ evicted' = [evicted EXCEPT ![p] = Tail(@)]
  /\ Go(p, "delete")
  /\ UNCHANGED <<disk, files, env, size, h, target, lost>>

RemoveEnv(p) ==
  /\ pc[p] = "removeEnv"
  /\ envs' = [envs EXCEPT ![Head(evicted[p]).id] = None]
  /\ evicted' = [evicted EXCEPT ![p] = Tail(@)]
  /\ Go(p, "delete")
  /\ UNCHANGED <<disk, history, manifests, env, size, h, target, lost>>

EndCommand(p) ==
  /\ pc[p] = "delete" /\ evicted[p] = << >>
  /\ Finish(p)
  /\ UNCHANGED <<disk, files, env, size, lost>>
-----------------------------------------------------------------------------
(* Restore: an id that is not in the history changes nothing, and so does  *)
(* a record whose manifest is missing or torn.                             *)
BeginRestore(p) ==
  /\ pc[p] = "idle"
  /\ \E i \in 1..Len(Loaded(p).items) :
        target' = [target EXCEPT ![p] = Loaded(p).items[i]]
  /\ Go(p, "restore")
  /\ UNCHANGED <<disk, files, env, size, h, evicted, lost>>

(* Mutant: the error of the backend's Restore is dropped.                  *)
RestoreDiskDropsError(p) ==
  /\ pc[p] = "restore"
  /\ \/ manifests[target[p].id] \in Disk /\ disk' = manifests[target[p].id]
     \/ "storage" \in Faults /\ disk' \in Disk
  /\ Go(p, "restoreEnv")
  /\ UNCHANGED <<files, env, size, local, lost>>

RestoreDisk(p) ==
  /\ pc[p] = "restore"
  /\ IF manifests[target[p].id] \in Disk
       THEN /\ disk' = manifests[target[p].id]
            /\ Go(p, "restoreEnv")
            /\ UNCHANGED local
       ELSE /\ Finish(p)
            /\ UNCHANGED disk
  /\ UNCHANGED <<files, env, size, lost>>

(* A missing or torn environment file is no error and changes nothing.     *)
RestoreEnv(p) ==
  /\ pc[p] = "restoreEnv"
  /\ env' = IF envs[target[p].id] \in Env
              THEN [env EXCEPT ![p] = envs[target[p].id]]
              ELSE env
  /\ Finish(p)
  /\ UNCHANGED <<disk, files, size, lost>>
-----------------------------------------------------------------------------
(***************************************************************************)
(* What is left of the step a process was at when its write failed or the  *)
(* process died: os.WriteFile truncates the file before it writes, and a   *)
(* command or a restore may have changed any part of the disk.             *)
(***************************************************************************)
CutShort(p) ==
  /\ history' \in IF pc[p] = "save" THEN {history, Torn} ELSE {history}
  /\ manifests' \in {manifests} \cup
       (IF pc[p] = "create" THEN {[manifests EXCEPT ![h[p].next] = Torn]} ELSE {})
  /\ envs' \in {envs} \cup
       (IF pc[p] = "saveEnv" THEN {[envs EXCEPT ![h[p].next] = Torn]} ELSE {})
  /\ disk' \in IF pc[p] \in {"run", "restore"} THEN Disk ELSE {disk}
  /\ lost' = IF pc[p] \in {"delete", "removeEnv"} THEN lost \cup Left(p) ELSE lost
  /\ Finish(p)

(* A step returns an error; a record whose Delete fails is passed over.    *)
StorageError(p) ==
  /\ "storage" \in Faults
  /\ pc[p] \in {"create", "saveEnv", "save", "restore", "restoreEnv"}
  /\ CutShort(p)
  /\ UNCHANGED <<env, size>>

DeleteFails(p) ==
  /\ "storage" \in Faults
  /\ pc[p] \in {"delete", "removeEnv"} /\ evicted[p] # << >>
  /\ IF pc[p] = "delete"
       THEN Go(p, "removeEnv") /\ UNCHANGED evicted
       ELSE Go(p, "delete") /\ evicted' = [evicted EXCEPT ![p] = Tail(@)]
  /\ lost' = lost \cup {Head(evicted[p]).id}
  /\ UNCHANGED <<disk, files, env, size, h, target>>

(***************************************************************************)
(* A process ends between two commands, or dies anywhere; the next one has *)
(* its own environment and options and finds the files as they are.        *)
(***************************************************************************)
Restart(p) ==
  /\ pc[p] = "idle" \/ "crash" \in Faults
  /\ CutShort(p)
  /\ \E e \in Env, s \in Size : env' = [env EXCEPT ![p] = e] /\ size' = [size EXCEPT ![p] = s]

Init ==
  /\ disk \in Disk /\ history = None
  /\ manifests = [n \in Id |-> None] /\ envs = [n \in Id |-> None]
  /\ env \in [Proc -> Env] /\ size \in [Proc -> Size]
  /\ pc = [p \in Proc |-> "idle"]
  /\ h = [p \in Proc |-> None]
  /\ evicted = [p \in Proc |-> << >>]
  /\ target = [p \in Proc |-> None]
  /\ lost = {}

ExecuteCommandIn(p) ==
  \/ LoadHistory(p) \/ CreateSnapshot(p) \/ SaveEnv(p)
  \/ \E d \in Disk : Run(p, d)
  \/ SaveHistory(p) \/ DeleteSnapshot(p) \/ RemoveEnv(p) \/ EndCommand(p)

Restore(p) == BeginRestore(p) \/ RestoreDisk(p) \/ RestoreEnv(p)

Next ==
  \E p \in Proc :
    ExecuteCommandIn(p) \/ Restore(p) \/ StorageError(p) \/ DeleteFails(p) \/ Restart(p)

Spec == Init /\ [][Next]_vars
-----------------------------------------------------------------------------
Recorded == IF history \in {None, Torn} THEN << >> ELSE history.items

(***************************************************************************)
(* "rewind restore 3 -> state before command 3" (skills/SKILL.md:17): for  *)
(* every record of the history there are the snapshot and the environment  *)
(* its command started from, whatever failed or crashed since.             *)
(***************************************************************************)
RecordsAreTrue ==
  \A i \in 1..Len(Recorded) :
    LET r == Recorded[i]
    IN  manifests[r.id] = r.before /\ envs[r.id] = r.env

(***************************************************************************)
(* The history is the latest commands, without a gap, as many as the       *)
(* option --history-size (internal/cli/cli.go:63) asks for: trimming takes *)
(* the oldest and no more than it has to.  It is so while the option stays *)
(* the same: after a restart with another one, loadHistory keeps the size  *)
(* in the file.                                                            *)
(***************************************************************************)
KeepsTheLatest ==
  history \notin {None, Torn} =>
    /\ \A p \in Proc : Len(history.items) = IF history.next <= size[p]
                                                THEN history.next - 1
                                                ELSE size[p]
    /\ \A i \in 1..Len(history.items) :
         history.items[i].id = history.next - 1 - Len(history.items) + i

NextNumber == IF history \in {None, Torn} THEN 1 ELSE history.next

(***************************************************************************)
(* No snapshot and no environment file is left without an owner: it has a  *)
(* record, or is about to be deleted, or a later command will take its     *)
(* number; all that leaks is what a failed or interrupted deletion leaves. *)
(***************************************************************************)
NothingLeaks ==
  \A n \in Id : manifests[n] # None \/ envs[n] # None =>
    \/ n >= NextNumber
    \/ \E i \in 1..Len(Recorded) : Recorded[i].id = n
    \/ \E p \in Proc : pc[p] \in {"delete", "removeEnv"} /\ n \in Left(p)
    \/ n \in lost

(***************************************************************************)
(* A restore that succeeds brings back both what the disk and what the     *)
(* environment were when the command started.                              *)
(***************************************************************************)
RestoreBringsBack ==
  [][\A p \in Proc : RestoreEnv(p) =>
       disk = target[p].before /\ env'[p] = target[p].env]_vars
=============================================================================
