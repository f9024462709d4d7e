------------------------- MODULE CheckpointProofs --------------------------
(***************************************************************************)
(* The checkpoint store, for any number of processes, names and files and  *)
(* any interleaving of their calls, failures and crashes.                  *)
(***************************************************************************)
EXTENDS CheckpointStore, TLAPS

Storing(p) == pc[p] \in {"truncateSlot", "fillSlot"}
Reading(p) == pc[p] \in {"readSlot", "truncateFile", "fillFile"}
Putting(p) == pc[p] \in {"truncateFile", "fillFile"}

(* Where a call is in its list, and which slots its entries have.          *)
Progress(p) ==
  /\ Creating(p) => /\ done[p] = Len(entries[p]) /\ done[p] <= Len(list[p])
                    /\ \A i \in 1..Len(entries[p]) : entries[p][i].slot[1] = i
  /\ Storing(p)  => done[p] < Len(list[p])
  /\ Putting(p)  => done[p] < Len(entries[p])

TypeInv == TypeOK /\ \A p \in Proc : Progress(p)

Present(copies, es)  == \A i \in 1..Len(es) : copies[es[i].slot] # Absent
Faithful(copies, es) == \A i \in 1..Len(es) : copies[es[i].slot] = es[i].seen

(* The copies of a Create that is not through yet are there already.       *)
CopiesExist == \A p \in Proc : Creating(p) => Present(slots[name[p]], entries[p])

(* Nobody writes the checkpoint of a call that is alone with it.           *)
NoOtherCreates ==
  \A p, q \in Proc :
    alone[p] /\ pc[p] # "idle" /\ Creating(q) /\ p # q => name[q] # name[p]

(* So its copies stay what was read, up to the bytes it is about to write. *)
AloneIsFaithful ==
  \A p \in Proc :
    alone[p] /\ pc[p] # "idle" =>
      /\ Faithful(slots[name[p]], entries[p])
      /\ Putting(p) => buf[p] = Current(p).seen

StoreInv ==
  /\ TypeInv
  /\ NamedCopiesExist /\ SettledIsFaithful
  /\ CopiesExist /\ NoOtherCreates /\ AloneIsFaithful

LEMMA Assumed ==
  /\ Flat \in [File -> Base]
  /\ \A l \in Lists \cup {<< >>} : l \in Seq(File) /\ Len(l) <= MaxFiles
  /\ MaxFiles \in Nat /\ MaxChanges \in Nat /\ MaxOps \in Nat
  /\ Absent \notin Bytes /\ Torn \in Bytes
  <1>1. << >> \in Seq(File) /\ Len(<< >>) <= MaxFiles
    BY CheckpointAssumption
  <1> QED BY <1>1, CheckpointAssumption DEF Bytes

USE DEF Step

LEMMA CreateSlotType ==
  ASSUME TypeInv, NEW p \in Proc, Storing(p)
  PROVE  /\ done[p] + 1 \in 1..MaxFiles
         /\ list[p][done[p] + 1] \in File
         /\ CreateSlot(p) \in Slots
         /\ CreateSlot(p)[1] = done[p] + 1
  <1>1. /\ list[p] \in Seq(File) /\ Len(list[p]) <= MaxFiles
        /\ done[p] \in Nat /\ done[p] < Len(list[p])
    BY Assumed DEF TypeInv, TypeOK, Progress
  <1>2. done[p] + 1 \in 1..MaxFiles /\ list[p][done[p] + 1] \in File
    BY <1>1, Assumed
  <1> QED BY <1>2, Assumed DEF CreateSlot, Slot, Slots

LEMMA CurrentType ==
  ASSUME TypeInv, NEW p \in Proc, Reading(p), done[p] < Len(entries[p])
  PROVE  Current(p) \in Entry /\ done[p] + 1 \in 1..Len(entries[p])
  <1>1. entries[p] \in Seq(Entry) /\ done[p] \in Nat
    BY DEF TypeInv, TypeOK
  <1>2. done[p] + 1 \in 1..Len(entries[p])
    BY <1>1
  <1> QED BY <1>1, <1>2 DEF Current

(* A step of one process on its own variables, the files and meta.json.    *)
LEMMA StepType ==
  ASSUME TypeInv, NEW p \in Proc, Create(p) \/ Restore(p) \/ CutShort(p)
  PROVE  TypeInv'
  <1> USE DEF TypeInv, TypeOK
  <1>1. ASSUME NEW n \in Name, NEW l \in Lists, BeginCreate(p, n, l)
        PROVE  TypeInv'
    <2>1. << >> \in Seq(Entry) /\ l \in Seq(File)
      BY Assumed
    <2>2. TypeOK'
      <3>1. alone' \in [Proc -> BOOLEAN]
        BY <1>1, Zenon DEF BeginCreate
      <3>2. list' \in [Proc -> Lists \cup {<< >>}] /\ entries' \in [Proc -> Seq(Entry)]
        BY <1>1, <2>1 DEF BeginCreate
      <3>3. pc' \in [Proc -> Step] /\ name' \in [Proc -> Name] /\ done' \in [Proc -> Nat]
        BY <1>1 DEF BeginCreate
      <3>4. UNCHANGED <<files, slots, metaFile, meta, settled, buf, changes>> /\ ops' \in Nat
        BY <1>1 DEF BeginCreate, Idle, storeVars
      <3> QED BY <3>1, <3>2, <3>3, <3>4
    <2>3. Progress(p)'
      BY <1>1, <2>1 DEF BeginCreate, Progress, Creating, Storing, Putting
    <2>4. \A q \in Proc \ {p} : Progress(q)'
      BY <1>1 DEF BeginCreate, Progress, Creating, Storing, Putting
    <2> QED BY <2>2, <2>3, <2>4
  <1>2. CASE ReadFile(p)
    <2>1. list[p] \in Seq(File)
      BY Assumed
    <2>2. list[p][done[p] + 1] \in File
      BY <1>2, <2>1 DEF ReadFile
    <2> QED BY <1>2, <2>2 DEF ReadFile, storeVars, Progress, Creating, Storing, Putting, Bytes
  <1>3. CASE TruncateSlot(p)
    <2>1. Torn \in Bytes
      BY DEF Bytes
    <2> QED BY <1>3, <2>1, CreateSlotType DEF TruncateSlot, Progress, Creating, Storing, Putting
  <1>4. CASE FillSlot(p)
    <2>1. /\ CreateSlot(p) \in Slots /\ list[p][done[p] + 1] \in File
          /\ CreateSlot(p)[1] = done[p] + 1
      BY <1>4, CreateSlotType DEF FillSlot, Storing
    <2> DEFINE e == [source |-> list[p][done[p] + 1], slot |-> CreateSlot(p),
                     seen |-> buf[p]]
    <2>2. e \in Entry /\ e.slot[1] = done[p] + 1
      BY <2>1 DEF Entry
    <2> HIDE DEF e
    <2>3. entries'[p] = Append(entries[p], e) /\ \A q \in Proc \ {p} : entries'[q] = entries[q]
      BY <1>4 DEF FillSlot, e
    <2>4. entries' \in [Proc -> Seq(Entry)]
      <3>1. Append(entries[p], e) \in Seq(Entry)
        BY <2>2
      <3> QED BY <1>4, <2>3, <3>1 DEF FillSlot, e
    <2>5. TypeOK'
      BY <1>4, <2>1, <2>4 DEF FillSlot
    <2>6. Progress(p)'
      BY <1>4, <2>2, <2>3 DEF FillSlot, Progress, Creating, Storing, Putting
    <2>7. \A q \in Proc \ {p} : Progress(q)'
      BY <1>4, <2>3 DEF FillSlot, Progress, Creating, Storing, Putting
    <2> QED BY <2>5, <2>6, <2>7
  <1>5. CASE TruncateMeta(p)
    BY <1>5 DEF TruncateMeta, Progress, Creating, Storing, Putting
  <1>6. CASE FillMeta(p)
    BY <1>6 DEF FillMeta, Progress, Creating, Storing, Putting
  <1>7. ASSUME NEW n \in Name, BeginRestore(p, n)
        PROVE  TypeInv'
    <2>1. TypeOK'
      BY <1>7 DEF BeginRestore, Idle, storeVars
    <2>2. \A q \in Proc : Progress(q)'
      BY <1>7 DEF BeginRestore, Progress, Creating, Storing, Putting
    <2> QED BY <2>1, <2>2
  <1>8. CASE ReadSlot(p)
    <2>1. Current(p) \in Entry
      BY <1>8, CurrentType DEF ReadSlot, Reading
    <2>2. slots[name[p]][Current(p).slot] \in Bytes \cup {Absent}
      BY <2>1 DEF Entry
    <2>3. TypeOK'
      BY <1>8, <2>2 DEF ReadSlot, storeVars
    <2>4. \A q \in Proc : Progress(q)'
      BY <1>8 DEF ReadSlot, Progress, Creating, Storing, Putting
    <2> QED BY <2>3, <2>4
  <1>9. CASE TruncateFile(p)
    <2>1. TypeOK'
      BY <1>9, Assumed DEF TruncateFile, storeVars
    <2>2. \A q \in Proc : Progress(q)'
      BY <1>9 DEF TruncateFile, Progress, Creating, Storing, Putting
    <2> QED BY <2>1, <2>2
  <1>10. CASE FillFile(p)
    <2>1. TypeOK'
      <3>1. files' \in [File -> Bytes \cup {Absent}]
        BY <1>10 DEF FillFile
      <3>2. done' \in [Proc -> Nat] /\ pc' \in [Proc -> Step]
        BY <1>10 DEF FillFile
      <3> QED BY <1>10, <3>1, <3>2 DEF FillFile, storeVars
    <2>2. \A q \in Proc : Progress(q)'
      BY <1>10 DEF FillFile, Progress, Creating, Storing, Putting
    <2> QED BY <2>1, <2>2
  <1>11. CASE EndRestore(p)
    BY <1>11 DEF EndRestore, storeVars, Progress, Creating, Storing, Putting
  <1>12. CASE CutShort(p)
    BY <1>12 DEF CutShort, storeVars, Progress, Creating, Storing, Putting
  <1> QED BY <1>1, <1>2, <1>3, <1>4, <1>5, <1>6, <1>7, <1>8, <1>9, <1>10, <1>11,
             <1>12 DEF Create, Restore

LEMMA InitStore ==
  ASSUME Init
  PROVE  StoreInv
  <1>1. TypeOK
    <2>1. << >> \in Seq(Entry) /\ 0 \in Nat
      OBVIOUS
    <2>2. alone \in [Proc -> BOOLEAN] /\ settled \in [Name -> BOOLEAN]
      BY DEF Init
    <2>3. files \in [File -> Bytes \cup {Absent}]
      BY DEF Init, Bytes
    <2> QED BY <2>1, <2>2, <2>3, Assumed DEF Init, TypeOK
  <1>2. \A q \in Proc : Progress(q)
    BY DEF Init, Progress, Creating, Storing, Putting
  <1>3. NamedCopiesExist /\ SettledIsFaithful
    BY DEF Init, NamedCopiesExist, SettledIsFaithful, Whole
  <1>4. CopiesExist /\ NoOtherCreates /\ AloneIsFaithful
    BY DEF Init, CopiesExist, NoOtherCreates, AloneIsFaithful, Creating
  <1> QED BY <1>1, <1>2, <1>3, <1>4 DEF StoreInv, TypeInv

(* Steps that leave the checkpoints, and everybody's place in them, alone. *)
LEMMA OutsideStep ==
  ASSUME StoreInv, TypeInv', UNCHANGED storeVars,
         UNCHANGED <<name, entries, alone>>,
         \A q \in Proc : /\ Creating(q)' => Creating(q)
                         /\ pc'[q] # "idle" => pc[q] # "idle"
                         /\ alone[q] /\ Putting(q)' => buf'[q] = Current(q)'.seen
  PROVE  StoreInv'
  <1>1. NamedCopiesExist' /\ SettledIsFaithful'
    BY DEF StoreInv, NamedCopiesExist, SettledIsFaithful, storeVars, Whole
  <1>2. CopiesExist' /\ NoOtherCreates' /\ AloneIsFaithful'
    BY DEF StoreInv, CopiesExist, NoOtherCreates, AloneIsFaithful, storeVars, Present, Faithful
  <1> QED BY <1>1, <1>2 DEF StoreInv

(* What writing a slot keeps.                                              *)
LEMMA SlotWrite ==
  ASSUME TypeInv, NEW p \in Proc, Storing(p), NEW v \in Bytes,
         slots' = [slots EXCEPT ![name[p]][CreateSlot(p)] = v]
  PROVE  /\ slots'[name[p]][CreateSlot(p)] = v
         /\ \A n \in Name, es \in Seq(Entry) : Present(slots[n], es) => Present(slots'[n], es)
         /\ \A n \in Name, es \in Seq(Entry) :
              n # name[p] /\ Faithful(slots[n], es) => Faithful(slots'[n], es)
         /\ Faithful(slots[name[p]], entries[p]) =>
              Faithful(slots'[name[p]], entries[p])
  <1>1. CreateSlot(p) \in Slots /\ CreateSlot(p)[1] = done[p] + 1
    BY CreateSlotType
  <1>2. name[p] \in Name /\ slots \in [Name -> [Slots -> Bytes \cup {Absent}]]
    BY DEF TypeInv, TypeOK
  <1>3. \A n \in Name, s \in Slots :
          slots'[n][s] = IF n = name[p] /\ s = CreateSlot(p) THEN v ELSE slots[n][s]
    BY <1>1, <1>2
  <1>4. \A es \in Seq(Entry) : \A i \in 1..Len(es) : es[i].slot \in Slots
    <2>1. \A e \in Entry : e.slot \in Slots
      BY DEF Entry
    <2> QED BY <2>1
  <1>5. \A i \in 1..Len(entries[p]) : entries[p][i].slot # CreateSlot(p)
    <2>1. Creating(p) /\ done[p] \in Nat
      BY DEF Storing, Creating, TypeInv, TypeOK
    <2> QED BY <1>1, <2>1 DEF TypeInv, Progress
  <1>6. entries[p] \in Seq(Entry)
    BY DEF TypeInv, TypeOK
  <1> QED BY <1>1, <1>2, <1>3, <1>4, <1>5, <1>6, Assumed DEF Present, Faithful

(* A Create at work on its slots: the checkpoint is not settled meanwhile. *)
LEMMA SlotStep ==
  ASSUME StoreInv, TypeInv', NEW p \in Proc, NEW v \in Bytes, Storing(p),
         slots' = [slots EXCEPT ![name[p]][CreateSlot(p)] = v],
         settled' = [settled EXCEPT ![name[p]] = FALSE],
         UNCHANGED <<metaFile, meta, name, alone>>,
         \A q \in Proc \ {p} : /\ pc'[q] = pc[q] /\ entries'[q] = entries[q]
                               /\ buf'[q] = buf[q] /\ Current(q)' = Current(q),
         Creating(p)', Present(slots'[name[p]], entries'[p]),
         alone[p] => Faithful(slots'[name[p]], entries'[p])
  PROVE  StoreInv'
  <1> USE DEF StoreInv
  <1>1. /\ name \in [Proc -> Name] /\ meta \in [Name -> Seq(Entry)]
        /\ settled \in [Name -> BOOLEAN] /\ entries \in [Proc -> Seq(Entry)]
    BY DEF TypeInv, TypeOK
  <1>2. \A q \in Proc \ {p} : /\ Creating(q)' <=> Creating(q)
                              /\ Putting(q)' <=> Putting(q)
    BY DEF Creating, Putting
  <1>3. ~Putting(p)' /\ Creating(p) /\ pc[p] # "idle"
    BY DEF Creating, Putting, Storing
  <1>4. NamedCopiesExist'
    <2> SUFFICES ASSUME NEW n \in Name, Whole(n)
                 PROVE  Present(slots'[n], meta[n])
      BY DEF NamedCopiesExist, Whole, Present
    <2>1. Present(slots[n], meta[n])
      BY DEF NamedCopiesExist, Present
    <2> QED BY <1>1, <2>1, SlotWrite
  <1>5. SettledIsFaithful'
    <2> SUFFICES ASSUME NEW n \in Name, settled'[n]
                 PROVE  Whole(n) /\ Faithful(slots'[n], meta[n])
      BY DEF SettledIsFaithful, Faithful, Whole
    <2>1. n # name[p] /\ settled[n]
      BY <1>1, Zenon
    <2>2. Whole(n) /\ Faithful(slots[n], meta[n])
      BY <2>1 DEF SettledIsFaithful, Faithful
    <2> QED BY <1>1, <2>1, <2>2, SlotWrite
  <1>6. CopiesExist'
    <2> SUFFICES ASSUME NEW q \in Proc, Creating(q)'
                 PROVE  Present(slots'[name[q]], entries'[q])
      BY DEF CopiesExist
    <2>1. CASE q # p
      <3>1. Present(slots[name[q]], entries[q])
        BY <1>2, <2>1 DEF CopiesExist
      <3> QED BY <1>1, <2>1, <3>1, SlotWrite
    <2> QED BY <2>1
  <1>7. NoOtherCreates'
    BY <1>2, <1>3 DEF NoOtherCreates
  <1>8. AloneIsFaithful'
    <2> SUFFICES ASSUME NEW q \in Proc, alone[q], pc'[q] # "idle"
                 PROVE  /\ Faithful(slots'[name[q]], entries'[q])
                        /\ Putting(q)' => buf'[q] = Current(q)'.seen
      BY DEF AloneIsFaithful
    <2>1. CASE q = p
      BY <1>3, <2>1
    <2>2. CASE q # p
      <3>1. /\ name[q] # name[p] /\ Faithful(slots[name[q]], entries[q])
            /\ Putting(q) => buf[q] = Current(q).seen
        BY <1>3, <2>2 DEF NoOtherCreates, AloneIsFaithful
      <3>2. Faithful(slots'[name[q]], entries[q])
        BY <1>1, <3>1, SlotWrite
      <3> QED BY <1>2, <2>2, <3>1, <3>2
    <2> QED BY <2>1, <2>2
  <1> QED BY <1>4, <1>5, <1>6, <1>7, <1>8

LEMMA BeginCreateStore ==
  ASSUME StoreInv, TypeInv', NEW p \in Proc, NEW n \in Name, NEW l \in Lists,
         BeginCreate(p, n, l)
  PROVE  StoreInv'
  <1> USE DEF StoreInv, BeginCreate
  <1>1. /\ name' = [name EXCEPT ![p] = n] /\ entries'[p] = << >>
        /\ \A q \in Proc \ {p} : /\ name'[q] = name[q] /\ entries'[q] = entries[q]
                                 /\ pc'[q] = pc[q] /\ Current(q)' = Current(q)
                                 /\ Creating(q)' <=> Creating(q)
                                 /\ Putting(q)' <=> Putting(q)
                                 /\ alone'[q] => alone[q] /\ name[q] # n
        /\ alone'[p] => \A r \in Proc : ~(Creating(r) /\ name[r] = n)
        /\ name'[p] = n /\ Creating(p)' /\ ~Putting(p)' /\ pc[p] = "idle"
    <2>1. /\ alone'[p] => \A r \in Proc : ~(Creating(r) /\ name[r] = n)
          /\ \A q \in Proc \ {p} : alone'[q] => alone[q] /\ name[q] # n
      BY Zenon
    <2>2. /\ entries'[p] = << >> /\ name'[p] = n /\ pc'[p] = "readFile" /\ pc[p] = "idle"
          /\ \A q \in Proc \ {p} :
               /\ name'[q] = name[q] /\ entries'[q] = entries[q]
               /\ pc'[q] = pc[q] /\ done'[q] = done[q]
      BY DEF TypeInv, TypeOK, Idle
    <2> QED BY <2>1, <2>2 DEF Current, Creating, Putting
  <1>2. NamedCopiesExist' /\ SettledIsFaithful'
    BY DEF NamedCopiesExist, SettledIsFaithful, storeVars, Whole
  <1>3. CopiesExist'
    BY <1>1 DEF CopiesExist, storeVars, Present
  <1>4. NoOtherCreates'
    <2> SUFFICES ASSUME NEW q \in Proc, NEW r \in Proc, q # r, alone'[q],
                        pc'[q] # "idle", Creating(r)'
                 PROVE  name'[r] # name'[q]
      BY DEF NoOtherCreates
    <2> QED BY <1>1 DEF NoOtherCreates
  <1>5. AloneIsFaithful'
    BY <1>1 DEF AloneIsFaithful, storeVars, Faithful
  <1> QED BY <1>2, <1>3, <1>4, <1>5

LEMMA BeginRestoreStore ==
  ASSUME StoreInv, TypeInv', NEW p \in Proc, NEW n \in Name, BeginRestore(p, n)
  PROVE  StoreInv'
  <1> USE DEF StoreInv, BeginRestore
  <1>1. /\ entries'[p] = meta[n]
        /\ \A q \in Proc \ {p} : /\ name'[q] = name[q] /\ entries'[q] = entries[q]
                                 /\ pc'[q] = pc[q] /\ Current(q)' = Current(q)
                                 /\ Creating(q)' <=> Creating(q)
                                 /\ Putting(q)' <=> Putting(q)
                                 /\ alone'[q] = alone[q]
        /\ alone'[p] <=> settled[n] /\ \A r \in Proc : ~(Creating(r) /\ name[r] = n)
        /\ name'[p] = n /\ ~Creating(p)' /\ ~Putting(p)' /\ pc[p] = "idle"
    <2> DEFINE quiet == settled[n] /\ \A r \in Proc : ~(Creating(r) /\ name[r] = n)
    <2>1. alone'[p] <=> quiet
      <3>1. alone' = [alone EXCEPT ![p] = quiet] /\ alone \in [Proc -> BOOLEAN]
        BY DEF TypeInv, TypeOK
      <3> HIDE DEF quiet
      <3> QED BY <3>1, Zenon
    <2> QED BY <2>1 DEF TypeInv, TypeOK, Idle, Current, Creating, Putting
  <1>2. NamedCopiesExist' /\ SettledIsFaithful'
    BY DEF NamedCopiesExist, SettledIsFaithful, storeVars, Whole
  <1>3. CopiesExist'
    BY <1>1 DEF CopiesExist, storeVars, Present
  <1>4. NoOtherCreates'
    <2> SUFFICES ASSUME NEW q \in Proc, NEW r \in Proc, q # r, alone'[q],
                        pc'[q] # "idle", Creating(r)'
                 PROVE  name'[r] # name'[q]
      BY DEF NoOtherCreates
    <2> QED BY <1>1 DEF NoOtherCreates
  <1>5. AloneIsFaithful'
    <2>1. settled[n] => Faithful(slots[n], meta[n])
      BY DEF SettledIsFaithful, Faithful
    <2> QED BY <1>1, <2>1 DEF AloneIsFaithful, storeVars
  <1> QED BY <1>2, <1>3, <1>4, <1>5

LEMMA TruncateSlotStore ==
  ASSUME StoreInv, TypeInv', NEW p \in Proc, TruncateSlot(p)
  PROVE  StoreInv'
  <1> USE DEF TruncateSlot
  <1>1. Storing(p) /\ Creating(p) /\ Creating(p)' /\ pc[p] # "idle" /\ Torn \in Bytes
    BY Assumed DEF Storing, Creating, StoreInv, TypeInv, TypeOK
  <1>2. /\ slots' = [slots EXCEPT ![name[p]][CreateSlot(p)] = Torn]
        /\ name[p] \in Name /\ entries[p] \in Seq(Entry)
    BY DEF StoreInv, TypeInv, TypeOK
  <1>3. Present(slots'[name[p]], entries'[p])
    BY <1>1, <1>2, SlotWrite DEF StoreInv, CopiesExist
  <1>4. alone[p] => Faithful(slots'[name[p]], entries'[p])
    BY <1>1, <1>2, SlotWrite DEF StoreInv, AloneIsFaithful
  <1>5. \A q \in Proc \ {p} : /\ pc'[q] = pc[q] /\ entries'[q] = entries[q]
                              /\ buf'[q] = buf[q] /\ Current(q)' = Current(q)
    BY DEF StoreInv, TypeInv, TypeOK, Current
  <1> QED BY <1>1, <1>2, <1>3, <1>4, <1>5, SlotStep

LEMMA FillSlotStore ==
  ASSUME StoreInv, TypeInv', NEW p \in Proc, FillSlot(p)
  PROVE  StoreInv'
  <1> USE DEF FillSlot
  <1>1. Storing(p) /\ Creating(p) /\ Creating(p)' /\ pc[p] # "idle" /\ buf[p] \in Bytes
    BY DEF Storing, Creating, StoreInv, TypeInv, TypeOK
  <1>2. /\ slots' = [slots EXCEPT ![name[p]][CreateSlot(p)] = buf[p]]
        /\ name[p] \in Name /\ entries[p] \in Seq(Entry)
    BY DEF StoreInv, TypeInv, TypeOK
  <1> DEFINE e == [source |-> list[p][done[p] + 1], slot |-> CreateSlot(p),
                   seen |-> buf[p]]
  <1>3. e.slot = CreateSlot(p) /\ e.seen = buf[p] /\ entries'[p] = Append(entries[p], e)
    BY DEF StoreInv, TypeInv, TypeOK
  <1> HIDE DEF e
  <1>4. /\ slots'[name[p]][e.slot] = e.seen /\ e.seen # Absent
    <2>1. slots'[name[p]][CreateSlot(p)] = buf[p]
      BY <1>1, <1>2, SlotWrite DEF StoreInv
    <2> QED BY <1>1, <1>3, <2>1, Assumed
  <1>5. Present(slots'[name[p]], entries[p])
    BY <1>1, <1>2, SlotWrite DEF StoreInv, CopiesExist
  <1>6. alone[p] => Faithful(slots'[name[p]], entries[p])
    BY <1>1, <1>2, SlotWrite DEF StoreInv, AloneIsFaithful
  <1>7. \A i \in 1..Len(entries'[p]) :
           entries'[p][i] = IF i <= Len(entries[p]) THEN entries[p][i] ELSE e
    BY <1>2, <1>3
  <1>8. Len(entries'[p]) = Len(entries[p]) + 1 /\ Len(entries[p]) \in Nat
    BY <1>2, <1>3
  <1>9. Present(slots'[name[p]], entries'[p])
    BY <1>4, <1>5, <1>7, <1>8 DEF Present
  <1>10. alone[p] => Faithful(slots'[name[p]], entries'[p])
    BY <1>4, <1>6, <1>7, <1>8 DEF Faithful
  <1>11. \A q \in Proc \ {p} : /\ pc'[q] = pc[q] /\ entries'[q] = entries[q]
                               /\ buf'[q] = buf[q] /\ Current(q)' = Current(q)
    BY DEF StoreInv, TypeInv, TypeOK, Current
  <1> QED BY <1>1, <1>2, <1>9, <1>10, <1>11, SlotStep

(* The two halves of writing meta.json.                                    *)
LEMMA MetaStore ==
  ASSUME StoreInv, TypeInv', NEW p \in Proc, TruncateMeta(p) \/ FillMeta(p)
  PROVE  StoreInv'
  <1> USE DEF StoreInv, TruncateMeta, FillMeta
  <1>1. /\ name[p] \in Name /\ Creating(p) /\ pc[p] # "idle"
        /\ meta \in [Name -> Seq(Entry)] /\ metaFile \in [Name -> {"absent", "torn", "whole"}]
        /\ settled \in [Name -> BOOLEAN]
    BY DEF TypeInv, TypeOK, Creating
  <1>2. UNCHANGED <<slots, name, entries, alone, buf, done>>
    OBVIOUS
  <1>3. \A n \in Name \ {name[p]} : /\ Whole(n)' <=> Whole(n)
                                    /\ meta'[n] = meta[n] /\ (settled'[n] <=> settled[n])
    BY <1>1 DEF Whole
  <1>4. Present(slots[name[p]], entries[p]) /\ (alone[p] => Faithful(slots[name[p]], entries[p]))
    BY <1>1 DEF CopiesExist, AloneIsFaithful
  <1>5. \/ ~Whole(name[p])' /\ ~settled'[name[p]]
        \/ /\ Whole(name[p])' /\ meta'[name[p]] = entries[p]
           /\ settled'[name[p]] <=> alone[p]
    <2>1. CASE TruncateMeta(p)
      BY <1>1, <2>1 DEF Whole
    <2>2. CASE FillMeta(p)
      BY <1>1, <2>2 DEF Whole
    <2> QED BY <2>1, <2>2
  <1>6. NamedCopiesExist'
    <2> SUFFICES ASSUME NEW n \in Name, Whole(n)'
                 PROVE  Present(slots[n], meta'[n])
      BY <1>2 DEF NamedCopiesExist, Present
    <2>1. Whole(n) => Present(slots[n], meta[n])
      BY DEF NamedCopiesExist, Present
    <2> QED BY <1>3, <1>4, <1>5, <2>1
  <1>7. SettledIsFaithful'
    <2> SUFFICES ASSUME NEW n \in Name, settled'[n]
                 PROVE  Whole(n)' /\ Faithful(slots[n], meta'[n])
      BY <1>2 DEF SettledIsFaithful, Faithful
    <2>1. settled[n] => Whole(n) /\ Faithful(slots[n], meta[n])
      BY DEF SettledIsFaithful, Faithful
    <2> QED BY <1>3, <1>4, <1>5, <2>1
  <1>8. \A q \in Proc : /\ Creating(q)' => Creating(q)
                        /\ pc'[q] # "idle" => pc[q] # "idle"
                        /\ Putting(q)' => Putting(q)
                        /\ Current(q)' = Current(q)
    BY <1>1, <1>2 DEF Creating, Putting, TypeInv, TypeOK, Current
  <1>9. CopiesExist' /\ NoOtherCreates' /\ AloneIsFaithful'
    BY <1>2, <1>8 DEF CopiesExist, NoOtherCreates, AloneIsFaithful
  <1> QED BY <1>6, <1>7, <1>9

LEMMA OwnStep ==
  ASSUME StoreInv, TypeInv', NEW p \in Proc,
         \/ ReadFile(p) \/ ReadSlot(p) \/ TruncateFile(p) \/ FillFile(p)
         \/ EndRestore(p) \/ CutShort(p)
  PROVE  StoreInv'
  <1>1. UNCHANGED storeVars /\ UNCHANGED <<name, entries, alone>>
    BY DEF ReadFile, ReadSlot, TruncateFile, FillFile, EndRestore, CutShort
  <1>2. ASSUME NEW q \in Proc
        PROVE  /\ Creating(q)' => Creating(q)
               /\ pc'[q] # "idle" => pc[q] # "idle"
               /\ alone[q] /\ Putting(q)' => buf'[q] = Current(q)'.seen
    <2>1. /\ q # p => /\ pc'[q] = pc[q] /\ buf'[q] = buf[q] /\ done'[q] = done[q]
          /\ pc[p] # "idle"
      BY DEF ReadFile, ReadSlot, TruncateFile, FillFile, EndRestore, CutShort,
             StoreInv, TypeInv, TypeOK
    <2>2. CASE q # p
      BY <1>1, <2>1, <2>2 DEF Creating, Putting, Current, StoreInv, AloneIsFaithful
    <2>3. CASE q = p /\ ReadSlot(p)
      <3>1. /\ pc[p] = "readSlot" /\ pc'[p] = "truncateFile" /\ Current(p)' = Current(p)
            /\ buf'[p] = slots[name[p]][Current(p).slot]
        BY <2>3 DEF ReadSlot, Current, StoreInv, TypeInv, TypeOK
      <3>2. done[p] + 1 \in 1..Len(entries[p])
        BY <2>3, <3>1, CurrentType DEF ReadSlot, Reading, StoreInv
      <3>3. alone[p] => slots[name[p]][Current(p).slot] = Current(p).seen
        BY <3>1, <3>2 DEF StoreInv, AloneIsFaithful, Faithful, Current
      <3> QED BY <2>3, <3>1, <3>3 DEF Creating
    <2>4. CASE q = p /\ TruncateFile(p)
      <3>1. /\ pc[p] = "truncateFile" /\ pc'[p] = "fillFile" /\ Current(p)' = Current(p)
            /\ buf'[p] = buf[p]
        BY <2>4 DEF TruncateFile, Current, StoreInv, TypeInv, TypeOK
      <3> QED BY <2>4, <3>1 DEF Creating, Putting, StoreInv, AloneIsFaithful
    <2>5. CASE q = p /\ ~ReadSlot(p) /\ ~TruncateFile(p)
      <3>1. ~Putting(p)' /\ (Creating(p)' => Creating(p))
        BY <2>5 DEF ReadFile, FillFile, EndRestore, CutShort, Creating, Putting,
                    StoreInv, TypeInv, TypeOK
      <3> QED BY <2>1, <2>5, <3>1
    <2> QED BY <2>2, <2>3, <2>4, <2>5
  <1> QED BY <1>1, <1>2, OutsideStep

LEMMA NextStore ==
  ASSUME StoreInv, [Next]_vars
  PROVE  StoreInv'
  <1>1. ASSUME NEW f \in File, NEW v \in Content \cup {Absent}, ChangeFile(f, v)
        PROVE  StoreInv'
    <2>1. files' \in [File -> Bytes \cup {Absent}]
      BY <1>1 DEF ChangeFile, StoreInv, TypeInv, TypeOK, Bytes
    <2>2. changes' \in Nat
      BY <1>1 DEF ChangeFile, StoreInv, TypeInv, TypeOK
    <2>3. UNCHANGED <<storeVars, callVars, ops>>
      BY <1>1 DEF ChangeFile
    <2>4. TypeInv'
      BY <2>1, <2>2, <2>3 DEF StoreInv, TypeInv, TypeOK, storeVars, callVars, Progress,
                              Creating, Storing, Putting
    <2> QED BY <2>3, <2>4, OutsideStep DEF callVars, Creating, Putting, Current,
                                         StoreInv, AloneIsFaithful
  <1>2. ASSUME NEW p \in Proc, Create(p) \/ Restore(p) \/ CutShort(p)
        PROVE  StoreInv'
    <2>1. TypeInv'
      BY <1>2, StepType DEF StoreInv
    <2>2. ASSUME NEW n \in Name, NEW l \in Lists, BeginCreate(p, n, l)
          PROVE  StoreInv'
      BY <2>1, <2>2, BeginCreateStore
    <2>3. ASSUME NEW n \in Name, BeginRestore(p, n)
          PROVE  StoreInv'
      BY <2>1, <2>3, BeginRestoreStore
    <2> QED BY <1>2, <2>1, <2>2, <2>3, TruncateSlotStore, FillSlotStore, MetaStore,
               OwnStep DEF Create, Restore
  <1>3. CASE UNCHANGED vars
    <2>1. TypeInv'
      BY <1>3 DEF StoreInv, TypeInv, TypeOK, vars, storeVars, callVars, Progress,
                  Creating, Storing, Putting
    <2> QED BY <1>3, <2>1, OutsideStep DEF vars, callVars, Creating, Putting, Current,
                                         StoreInv, AloneIsFaithful
  <1> QED BY <1>1, <1>2, <1>3 DEF Next

LEMMA StoreInvariant == Spec => []StoreInv
  <1>1. Init => StoreInv
    BY InitStore
  <1>2. StoreInv /\ [Next]_vars => StoreInv'
    BY NextStore
  <1> QED BY <1>1, <1>2, PTL DEF Spec

(* A checkpoint whose meta.json can be read is never incomplete.           *)
THEOREM CheckpointsAreComplete == Spec => []NamedCopiesExist
  <1>1. StoreInv => NamedCopiesExist
    BY DEF StoreInv
  <1> QED BY <1>1, StoreInvariant, PTL

(* A Create that ran alone leaves the copies its meta.json describes,      *)
(* whatever interrupted or overlapping calls there were before.            *)
THEOREM CreateRepairs == Spec => []SettledIsFaithful
  <1>1. StoreInv => SettledIsFaithful
    BY DEF StoreInv
  <1> QED BY <1>1, StoreInvariant, PTL

(* A restore no Create interferes with gives back what Create read.        *)
THEOREM RestoreGivesBack == Spec => GivesBackWhatWasSeen
  <1>1. ASSUME StoreInv, NEW p \in Proc, FillFile(p), alone[p]
        PROVE  files'[Current(p).source] = Current(p).seen
    <2>1. Reading(p) /\ Putting(p) /\ pc[p] # "idle"
      BY <1>1 DEF FillFile, Reading, Putting
    <2>2. Current(p) \in Entry
      BY <1>1, <2>1, CurrentType DEF StoreInv, TypeInv, Progress
    <2>3. Current(p).source \in File
      BY <2>2 DEF Entry
    <2>4. buf[p] = Current(p).seen
      BY <1>1, <2>1 DEF StoreInv, AloneIsFaithful
    <2> QED BY <1>1, <2>3, <2>4 DEF FillFile, StoreInv, TypeInv, TypeOK
  <1>2. StoreInv => \A p \in Proc : FillFile(p) /\ alone[p]
                      => files'[Current(p).source] = Current(p).seen
    BY <1>1
  <1> QED BY <1>2, StoreInvariant, PTL DEF GivesBackWhatWasSeen
=============================================================================
