-------------------------- MODULE CheckpointStore --------------------------
(***************************************************************************)
(* The named checkpoints of internal/checkpoint/store.go: one directory    *)
(* per name, a numbered copy of every file and, written last, meta.json.   *)
(* Each invocation of checkpoint-create or checkpoint-restore is a process *)
(* of its own; nothing locks the directory, a Create of an existing name   *)
(* writes over it, and os.WriteFile truncates before it writes.            *)
(*                                                                         *)
(* Not modelled: the environment values in meta.json, which are written    *)
(* and read with it, and EnvScript and List, which only read.              *)
(***************************************************************************)
EXTENDS Naturals, Sequences, FiniteSets

CONSTANTS
  Proc,        \* processes
  Name,        \* checkpoint names
  File,        \* source files
  Flat,        \* fileName without its index: separators and colons become _
  Base,        \* what Flat can yield
  Content,     \* what a file can hold
  Absent,      \* no such file
  Torn,        \* a file that was truncated and not written yet
  Lists,       \* the file lists given to Create
  MaxFiles,    \* the length of the longest of them
  MaxChanges,  \* bound on the changes other programs make
  MaxOps       \* bound on the Create and Restore calls

ASSUME CheckpointAssumption ==
  /\ Flat \in [File -> Base]
  /\ MaxFiles \in Nat /\ MaxChanges \in Nat /\ MaxOps \in Nat
  /\ \A l \in Lists : l \in Seq(File) /\ Len(l) <= MaxFiles
  /\ Absent \notin Content /\ Torn \notin Content /\ Absent # Torn

VARIABLES
  files,    \* what every source file holds
  slots,    \* by name, the copies in the directory files/
  metaFile, \* by name, whether meta.json is missing, cut short or readable
  meta,     \* ... the entries in it
  pc,       \* by process, the next step of its call
  name,     \* ... the checkpoint it works on
  list,     \* ... Create's files
  entries,  \* ... the entries Create has made, or those Restore has read
  done,     \* ... how many of them are handled
  buf,      \* ... the bytes os.ReadFile returned
  alone,    \* ... ghost: no Create of this checkpoint began since it did
  settled,  \* by name, ghost: the last to write it was a Create all alone
  changes, ops

storeVars == <<slots, metaFile, meta, settled>>
callVars  == <<pc, name, list, entries, done, buf, alone>>
vars      == <<files, storeVars, callVars, changes, ops>>

Slots == (1..MaxFiles) \X Base
Bytes == Content \cup {Torn}
Entry == [source : File, slot : Slots, seen : Bytes]
Step  == {"idle", "readFile", "truncateSlot", "fillSlot", "fillMeta",
          "readSlot", "truncateFile", "fillFile"}

TypeOK ==
  /\ files \in [File -> Bytes \cup {Absent}]
  /\ slots \in [Name -> [Slots -> Bytes \cup {Absent}]]
  /\ metaFile \in [Name -> {"absent", "torn", "whole"}]
  /\ meta \in [Name -> Seq(Entry)]
  /\ pc \in [Proc -> Step]
  /\ name \in [Proc -> Name]
  /\ list \in [Proc -> Lists \cup {<< >>}]
  /\ entries \in [Proc -> Seq(Entry)]
  /\ done \in [Proc -> Nat]
  /\ buf \in [Proc -> Bytes]
  /\ alone \in [Proc -> BOOLEAN] /\ settled \in [Name -> BOOLEAN]
  /\ changes \in Nat /\ ops \in Nat

Whole(n)    == metaFile[n] = "whole"
Creating(p) == pc[p] \in {"readFile", "truncateSlot", "fillSlot", "fillMeta"}

(* Mutant: without the index, two sources may get one slot.                *)
SlotNoIndex(i, src) == <<1, Flat[src]>>

Slot(i, src) == <<i, Flat[src]>>
-----------------------------------------------------------------------------
(* Other programs write and remove the source files.                       *)
ChangeFile(f, v) ==
  /\ changes < MaxChanges /\ files[f] # v
  /\ files' = [files EXCEPT ![f] = v]
  /\ changes' = changes + 1
  /\ UNCHANGED <<storeVars, callVars, ops>>

(***************************************************************************)
(* Create reads each file and copies it to its slot, then writes meta.json.*)
(***************************************************************************)
Idle(p) == pc[p] = "idle" /\ ops < MaxOps /\ ops' = ops + 1

(* Mutant: the copies of an earlier Create are cleared away first.         *)
BeginCreateClears(p, n, l) ==
  /\ Idle(p)
  /\ pc' = [pc EXCEPT ![p] = "readFile"]
  /\ name' = [name EXCEPT ![p] = n]
  /\ list' = [list EXCEPT ![p] = l]
  /\ entries' = [entries EXCEPT ![p] = << >>]
  /\ done' = [done EXCEPT ![p] = 0]
  /\ slots' = [slots EXCEPT ![n] = [s \in Slots |-> Absent]]
  /\ alone' = [q \in Proc |->
       IF q = p THEN \A r \in Proc : ~(Creating(r) /\ name[r] = n)
                ELSE alone[q] /\ name[q] # n]
  /\ settled' = [settled EXCEPT ![n] = FALSE]
  /\ UNCHANGED <<files, metaFile, meta, buf, changes>>

BeginCreate(p, n, l) ==
  /\ Idle(p)
  /\ pc' = [pc EXCEPT ![p] = "readFile"]
  /\ name' = [name EXCEPT ![p] = n]
  /\ list' = [list EXCEPT ![p] = l]
  /\ entries' = [entries EXCEPT ![p] = << >>]
  /\ done' = [done EXCEPT ![p] = 0]
  /\ alone' = [q \in Proc |->
       IF q = p THEN \A r \in Proc : ~(Creating(r) /\ name[r] = n)
                ELSE alone[q] /\ name[q] # n]
  /\ UNCHANGED <<files, storeVars, buf, changes>>

ReadFile(p) ==
  /\ pc[p] = "readFile" /\ done[p] < Len(list[p])
  /\ LET v == files[list[p][done[p] + 1]]
     IN  /\ v # Absent
         /\ buf' = [buf EXCEPT ![p] = v]
  /\ pc' = [pc EXCEPT ![p] = "truncateSlot"]
  /\ UNCHANGED <<files, storeVars, name, list, entries, done, alone, changes, ops>>

CreateSlot(p) == Slot(done[p] + 1, list[p][done[p] + 1])

TruncateSlot(p) ==
  /\ pc[p] = "truncateSlot"
  /\ slots' = [slots EXCEPT ![name[p]][CreateSlot(p)] = Torn]
  /\ settled' = [settled EXCEPT ![name[p]] = FALSE]
  /\ pc' = [pc EXCEPT ![p] = "fillSlot"]
  /\ UNCHANGED <<files, metaFile, meta, name, list, entries, done, buf, alone,
                 changes, ops>>

FillSlot(p) ==
  /\ pc[p] = "fillSlot"
  /\ slots' = [slots EXCEPT ![name[p]][CreateSlot(p)] = buf[p]]
  /\ settled' = [settled EXCEPT ![name[p]] = FALSE]
  /\ entries' = [entries EXCEPT ![p] = Append(@,
       [source |-> list[p][done[p] + 1], slot |-> CreateSlot(p), seen |-> buf[p]])]
  /\ done' = [done EXCEPT ![p] = @ + 1]
  /\ pc' = [pc EXCEPT ![p] = "readFile"]
  /\ UNCHANGED <<files, metaFile, meta, name, list, buf, alone, changes, ops>>

TruncateMeta(p) ==
  /\ pc[p] = "readFile" /\ done[p] = Len(list[p])
  /\ metaFile' = [metaFile EXCEPT ![name[p]] = "torn"]
  /\ meta' = [meta EXCEPT ![name[p]] = << >>]
  /\ settled' = [settled EXCEPT ![name[p]] = FALSE]
  /\ pc' = [pc EXCEPT ![p] = "fillMeta"]
  /\ UNCHANGED <<files, slots, name, list, entries, done, buf, alone, changes, ops>>

FillMeta(p) ==
  /\ pc[p] = "fillMeta"
  /\ metaFile' = [metaFile EXCEPT ![name[p]] = "whole"]
  /\ meta' = [meta EXCEPT ![name[p]] = entries[p]]
  /\ settled' = [settled EXCEPT ![name[p]] = alone[p]]
  /\ pc' = [pc EXCEPT ![p] = "idle"]
  /\ UNCHANGED <<files, slots, name, list, entries, done, buf, alone, changes, ops>>
-----------------------------------------------------------------------------
(***************************************************************************)
(* Restore reads meta.json, then copies each slot back to its source.  A   *)
(* meta.json that is missing or cut short is an error that changes nothing.*)
(***************************************************************************)
BeginRestore(p, n) ==
  /\ Idle(p) /\ Whole(n)
  /\ pc' = [pc EXCEPT ![p] = "readSlot"]
  /\ name' = [name EXCEPT ![p] = n]
  /\ entries' = [entries EXCEPT ![p] = meta[n]]
  /\ done' = [done EXCEPT ![p] = 0]
  /\ alone' = [alone EXCEPT ![p] =
       settled[n] /\ \A r \in Proc : ~(Creating(r) /\ name[r] = n)]
  /\ UNCHANGED <<files, storeVars, list, buf, changes>>

Current(p) == entries[p][done[p] + 1]

(* Mutant: the copy is looked up by its source and not by its slot.        *)
ReadSlotBySource(p) ==
  /\ pc[p] = "readSlot" /\ done[p] < Len(entries[p])
  /\ LET v == slots[name[p]][Slot(1, Current(p).source)]
     IN  /\ v # Absent
         /\ buf' = [buf EXCEPT ![p] = v]
  /\ pc' = [pc EXCEPT ![p] = "truncateFile"]
  /\ UNCHANGED <<files, storeVars, name, list, entries, done, alone, changes, ops>>

ReadSlot(p) ==
  /\ pc[p] = "readSlot" /\ done[p] < Len(entries[p])
  /\ LET v == slots[name[p]][Current(p).slot]
     IN  /\ v # Absent
         /\ buf' = [buf EXCEPT ![p] = v]
  /\ pc' = [pc EXCEPT ![p] = "truncateFile"]
  /\ UNCHANGED <<files, storeVars, name, list, entries, done, alone, changes, ops>>

TruncateFile(p) ==
  /\ pc[p] = "truncateFile"
  /\ files' = [files EXCEPT ![Current(p).source] = Torn]
  /\ pc' = [pc EXCEPT ![p] = "fillFile"]
  /\ UNCHANGED <<storeVars, name, list, entries, done, buf, alone, changes, ops>>

FillFile(p) ==
  /\ pc[p] = "fillFile"
  /\ files' = [files EXCEPT ![Current(p).source] = buf[p]]
  /\ done' = [done EXCEPT ![p] = @ + 1]
  /\ pc' = [pc EXCEPT ![p] = "readSlot"]
  /\ UNCHANGED <<storeVars, name, list, entries, buf, alone, changes, ops>>

EndRestore(p) ==
  /\ pc[p] = "readSlot" /\ done[p] = Len(entries[p])
  /\ pc' = [pc EXCEPT ![p] = "idle"]
  /\ UNCHANGED <<files, storeVars, name, list, entries, done, buf, alone, changes, ops>>

(***************************************************************************)
(* Any call can end between two steps: a file cannot be read or written    *)
(* and the error is returned, or the process dies.  Nothing is undone.     *)
(***************************************************************************)
CutShort(p) ==
  /\ pc[p] # "idle"
  /\ pc' = [pc EXCEPT ![p] = "idle"]
  /\ UNCHANGED <<files, storeVars, name, list, entries, done, buf, alone, changes, ops>>
-----------------------------------------------------------------------------
Init ==
  /\ files \in [File -> Content \cup {Absent}]
  /\ slots = [n \in Name |-> [s \in Slots |-> Absent]]
  /\ metaFile = [n \in Name |-> "absent"] /\ meta = [n \in Name |-> << >>]
  /\ pc = [p \in Proc |-> "idle"]
  /\ name \in [Proc -> Name]
  /\ list = [p \in Proc |-> << >>] /\ entries = [p \in Proc |-> << >>]
  /\ done = [p \in Proc |-> 0]
  /\ buf = [p \in Proc |-> Torn]
  /\ alone = [p \in Proc |-> FALSE] /\ settled = [n \in Name |-> FALSE]
  /\ changes = 0 /\ ops = 0

Create(p) ==
  \/ \E n \in Name, l \in Lists : BeginCreate(p, n, l)
  \/ ReadFile(p)
  \/ TruncateSlot(p)
  \/ FillSlot(p)
  \/ TruncateMeta(p)
  \/ FillMeta(p)

Restore(p) ==
  \/ \E n \in Name : BeginRestore(p, n)
  \/ ReadSlot(p)
  \/ TruncateFile(p)
  \/ FillFile(p)
  \/ EndRestore(p)

Next ==
  \/ \E f \in File, v \in Content \cup {Absent} : ChangeFile(f, v)
  \/ \E p \in Proc : Create(p) \/ Restore(p) \/ CutShort(p)

Spec == Init /\ [][Next]_vars
-----------------------------------------------------------------------------
(***************************************************************************)
(* Whatever was interrupted and whoever wrote at the same time, every copy *)
(* that a readable meta.json names is there: an overwritten checkpoint can *)
(* be mixed up, it cannot be incomplete.                                   *)
(***************************************************************************)
NamedCopiesExist ==
  \A n \in Name : Whole(n) =>
    \A i \in 1..Len(meta[n]) : slots[n][meta[n][i].slot] # Absent

(***************************************************************************)
(* A Create that nobody interfered with repairs all that interrupted ones  *)
(* left behind: each copy is what it read from that source.                *)
(***************************************************************************)
SettledIsFaithful ==
  \A n \in Name : settled[n] =>
    /\ Whole(n)
    /\ \A i \in 1..Len(meta[n]) : slots[n][meta[n][i].slot] = meta[n][i].seen

(***************************************************************************)
(* A restore of such a checkpoint gives every source back what Create read *)
(* there, unless another Create of the name begins before it is through.   *)
(***************************************************************************)
GivesBackWhatWasSeen ==
  [][\A p \in Proc : FillFile(p) /\ alone[p]
       => files'[Current(p).source] = Current(p).seen]_vars
=============================================================================
