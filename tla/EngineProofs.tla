---------------------------- MODULE EngineProofs ----------------------------
(***************************************************************************)
(* What the history promises, for a process that has its state directory   *)
(* to itself: any number of commands, any sizes of the history, write      *)
(* errors and crashes at any step.                                         *)
(***************************************************************************)
EXTENDS Engine, WellFoundedInduction, TLAPS

OneProcess == \A p, q \in Proc : p = q

(* Every process of the state directory has the same --history-size.       *)
OneSize == \A n, m \in Size : n = m

(***************************************************************************)
(* The inductive invariant.  Between two commands the files agree with the *)
(* history; during one the process' copy of the history runs ahead of the  *)
(* file, and what it has to delete is in the file until that is saved.     *)
(***************************************************************************)
Opened(p) ==
  IF history \in {None, Torn}
    THEN [max |-> size[p], next |-> 1, items |-> << >>]
    ELSE history

Latest(hist) ==
  /\ Len(hist.items) = IF hist.next <= hist.max THEN hist.next - 1 ELSE hist.max
  /\ \A i \in 1..Len(hist.items) :
       hist.items[i].id = hist.next - 1 - Len(hist.items) + i

LatestKept == history \notin {None, Torn} => Latest(history)

IsTrue(r)    == manifests[r.id] = r.before /\ envs[r.id] = r.env
IdsOf(items) == {items[i].id : i \in 1..Len(items)}

InCommand(p) ==
  pc[p] \in {"create", "saveEnv", "run"} => h[p] = Opened(p) /\ h[p].next <= MaxId
HasSnapshot(p) == pc[p] \in {"saveEnv", "run"} => manifests[h[p].next] = disk
HasEnv(p)      == pc[p] = "run" => envs[h[p].next] = env[p]

BeforeSave(p) ==
  pc[p] = "save" =>
    /\ Latest(h[p]) /\ h[p].next = NextNumber + 1
    /\ \A i \in 1..Len(h[p].items) : IsTrue(h[p].items[i])
    /\ IdsOf(Recorded) \cup {NextNumber} \subseteq Left(p) \cup IdsOf(h[p].items)

AfterSave(p) == pc[p] \in {"delete", "removeEnv"} => history = h[p]

LeftIsOut(p) ==
  pc[p] \in {"save", "delete", "removeEnv"} => Left(p) \cap IdsOf(h[p].items) = {}

HalfDeleted(p) ==
  pc[p] = "removeEnv" =>
    /\ evicted[p] # << >>
    /\ manifests[Head(evicted[p]).id] = None \/ Head(evicted[p]).id \in lost

Restores(p) ==
  /\ pc[p] \in {"restore", "restoreEnv"} =>
       target[p] \in Record /\ \E i \in 1..Len(Recorded) : Recorded[i] = target[p]
  /\ pc[p] = "restoreEnv" => disk = target[p].before

HasHistory(p) == pc[p] \notin {"idle", "restore", "restoreEnv"} => h[p] \in History

PlaceInv(p) ==
  /\ HasHistory(p) /\ InCommand(p) /\ HasSnapshot(p) /\ HasEnv(p)
  /\ BeforeSave(p) /\ AfterSave(p) /\ LeftIsOut(p) /\ HalfDeleted(p)
  /\ Restores(p)

EngineInv ==
  /\ EngineTypeOK /\ LatestKept /\ RecordsAreTrue /\ NothingLeaks
  /\ \A p \in Proc : PlaceInv(p)
-----------------------------------------------------------------------------
(***************************************************************************)
(* A set of naturals has a least element: induction without an operator.   *)
(***************************************************************************)
LEMMA LeastNatural ==
  ASSUME NEW T, T \subseteq Nat, T # {}
  PROVE  \E x \in T : \A y \in T : x <= y
  <1> DEFINE R == {s \in Nat \X Nat : s[1] < s[2]}
  <1>1. IsWellFoundedOn(R, Nat)
    BY NatLessThanWellFounded DEF OpToRel
  <1>2. \A x, y \in Nat : x < y => <<x, y>> \in R
    OBVIOUS
  <1> HIDE DEF R
  <1>3. PICK x \in T : \A y \in T : <<y, x>> \notin R
    BY <1>1, WFMin
  <1>4. \A y \in T : ~(y < x)
    BY <1>2, <1>3
  <1> QED BY <1>4

(* A rising function of 1..n into itself never falls behind.               *)
LEMMA RisingIsAhead ==
  ASSUME NEW n \in Nat, NEW f \in [1..n -> 1..n],
         \A i, j \in 1..n : i < j => f[i] < f[j]
  PROVE  \A i \in 1..n : i <= f[i]
  <1> DEFINE T == {i \in 1..n : f[i] < i}
  <1>1. CASE T = {}
    BY <1>1
  <1>2. CASE T # {}
    <2>0. T \subseteq Nat
      OBVIOUS
    <2>1. PICK m \in T : \A y \in T : m <= y
      <3> HIDE DEF T
      <3> QED BY <1>2, <2>0, LeastNatural
    <2>2. f[m] \in 1..n /\ f[m] < m
      BY <2>1
    <2>3. f[f[m]] < f[m]
      BY <2>1, <2>2
    <2> QED BY <2>1, <2>2, <2>3
  <1> QED BY <1>1, <1>2

(* The only order that keeps a rising list rising is the one it has.       *)
LEMMA OnlyOneOrder ==
  ASSUME NEW n \in Nat, NEW f \in Bijection(1..n, 1..n),
         \A i, j \in 1..n : i < j => f[i] <= f[j]
  PROVE  \A i \in 1..n : f[i] = i
  <1>1. /\ f \in [1..n -> 1..n]
        /\ \A i, j \in 1..n : f[i] = f[j] => i = j
        /\ \A k \in 1..n : \E i \in 1..n : f[i] = k
    BY DEF Bijection, Injection, Surjection, IsInjective
  <1>2. \A i, j \in 1..n : i < j => f[i] < f[j]
    BY <1>1
  <1> DEFINE g == [k \in 1..n |-> CHOOSE i \in 1..n : f[i] = k]
  <1>3. \A k \in 1..n : g[k] \in 1..n /\ f[g[k]] = k
    BY <1>1
  <1>4. g \in [1..n -> 1..n]
    BY <1>3
  <1> HIDE DEF g
  <1>5. \A k, l \in 1..n : k < l => g[k] < g[l]
    <2> SUFFICES ASSUME NEW k \in 1..n, NEW l \in 1..n, k < l, ~(g[k] < g[l])
                 PROVE  FALSE
      OBVIOUS
    <2>1. g[k] \in 1..n /\ g[l] \in 1..n /\ f[g[k]] = k /\ f[g[l]] = l
      BY <1>3
    <2>2. g[l] = g[k] \/ f[g[l]] < f[g[k]]
      BY <1>2, <2>1
    <2> QED BY <2>1, <2>2
  <1>6. \A i \in 1..n : i <= f[i] /\ f[i] <= g[f[i]]
    BY <1>1, <1>2, <1>4, <1>5, RisingIsAhead
  <1>7. \A i \in 1..n : g[f[i]] = i
    BY <1>1, <1>3
  <1>8. \A i \in 1..n : f[i] \in 1..n
    BY <1>1
  <1> QED BY <1>6, <1>7, <1>8

(* Sorting records that are in the order of their numbers changes nothing. *)
LEMMA SortedStays ==
  ASSUME NEW items \in Seq(Record),
         \A i, j \in 1..Len(items) : i < j => items[i].id < items[j].id
  PROVE  SortedById(items) = items
  <1> DEFINE place == 1..Len(items)
             Sorts(f) == \A i, j \in place : i < j => items[f[i]].id <= items[f[j]].id
             order == CHOOSE f \in Bijection(place, place) : Sorts(f)
             same == [i \in place |-> i]
  <1>1. Len(items) \in Nat /\ \A i \in place : items[i].id \in Nat
    <2>1. \A i \in 1..Len(items) : items[i] \in Record
      OBVIOUS
    <2> QED BY <2>1, EngineAssumption DEF Record, Id
  <1>2. same \in Bijection(place, place)
    BY DEF Bijection, Injection, Surjection, IsInjective
  <1>3. Sorts(same)
    BY <1>1
  <1>4. order \in Bijection(place, place) /\ Sorts(order)
    BY <1>2, <1>3
  <1> HIDE DEF order
  <1>5. order \in [place -> place]
    BY <1>4 DEF Bijection, Injection
  <1>6. \A i, j \in place : i < j => order[i] <= order[j]
    <2> SUFFICES ASSUME NEW i \in place, NEW j \in place, i < j, order[j] < order[i]
                 PROVE  FALSE
      BY <1>5
    <2>1. items[order[j]].id < items[order[i]].id
      BY <1>5
    <2>2. items[order[i]].id <= items[order[j]].id
      BY <1>4
    <2> QED BY <1>1, <1>5, <2>1, <2>2
  <1>7. \A i \in place : order[i] = i
    BY <1>1, <1>4, <1>6, OnlyOneOrder
  <1>8. SortedById(items) = [i \in place |-> items[i]]
    BY <1>7 DEF SortedById, order
  <1> QED BY <1>8
-----------------------------------------------------------------------------
LEMMA Sizes == MaxId \in Nat /\ Id \subseteq Nat /\ 1 \in 1..(MaxId + 1) /\ Size \subseteq Nat \ {0}
  BY EngineAssumption DEF Id

(* What a process finds when it opens the history.                         *)
LEMMA OpenedFacts ==
  ASSUME EngineTypeOK, LatestKept, NEW p \in Proc
  PROVE  /\ Opened(p) \in History /\ Latest(Opened(p))
         /\ Opened(p).next = NextNumber /\ Opened(p).items = Recorded
         /\ Loaded(p) = Opened(p)
  <1>1. CASE history \in {None, Torn}
    <2>1. size[p] \in Size
      BY DEF EngineTypeOK
    <2>2. << >> \in Seq(Record) /\ Len(<< >>) = 0
      OBVIOUS
    <2>3. Opened(p) = [max |-> size[p], next |-> 1, items |-> << >>]
      BY <1>1 DEF Opened
    <2>4. Opened(p) \in History
      BY <2>1, <2>2, <2>3, Sizes DEF History
    <2>5. Latest(Opened(p))
      <3>1. /\ Opened(p).max \in Nat /\ 1 <= Opened(p).max
            /\ Opened(p).next = 1 /\ Opened(p).items = << >>
        <4>1. size[p] \in Nat /\ 1 <= size[p]
          <5>1. size[p] \in Nat /\ size[p] # 0
            BY <2>1, Sizes
          <5> QED BY <5>1
        <4> QED BY <2>3, <4>1
      <3> QED BY <3>1 DEF Latest
    <2> QED BY <1>1, <2>3, <2>4, <2>5 DEF Loaded, NextNumber, Recorded
  <1>2. CASE history \notin {None, Torn}
    <2>1. history \in History
      BY <1>2 DEF EngineTypeOK
    <2>2. history.items \in Seq(Record) /\ history.next \in Nat
      BY <2>1, Sizes DEF History
    <2>3. Latest(history)
      BY <1>2 DEF LatestKept, Latest
    <2>4. \A i, j \in 1..Len(history.items) :
            i < j => history.items[i].id < history.items[j].id
      BY <2>2, <2>3 DEF Latest
    <2>5. SortedById(history.items) = history.items
      BY <2>2, <2>4, SortedStays
    <2>6. [history EXCEPT !.items = SortedById(@)] = history
      BY <2>1, <2>5 DEF History
    <2> QED BY <1>2, <2>1, <2>3, <2>6 DEF Opened, Loaded, NextNumber, Recorded
  <1> QED BY <1>1, <1>2

(* Numbers of the records are below the next one.                          *)
LEMMA RecordedFacts ==
  ASSUME EngineTypeOK, LatestKept
  PROVE  /\ Recorded \in Seq(Record) /\ NextNumber \in 1..(MaxId + 1)
         /\ \A i \in 1..Len(Recorded) :
              Recorded[i] \in Record /\ Recorded[i].id \in Id /\ Recorded[i].id < NextNumber
  <1>1. PICK p \in Proc : TRUE
    BY EngineAssumption
  <1> DEFINE o == Opened(p)
  <1>2. o \in History /\ Latest(o) /\ o.next = NextNumber /\ o.items = Recorded
    BY OpenedFacts
  <1> HIDE DEF o
  <1>3. o.items \in Seq(Record) /\ o.next \in 1..(MaxId + 1)
    BY <1>2 DEF History
  <1>4. \A i \in 1..Len(o.items) : o.items[i] \in Record /\ o.items[i].id \in Id
    <2>1. \A i \in 1..Len(o.items) : o.items[i] \in Record
      BY <1>3
    <2> QED BY <2>1 DEF Record
  <1>5. \A i \in 1..Len(o.items) : o.items[i].id < o.next
    BY <1>2, <1>3, Sizes DEF Latest
  <1> QED BY <1>2, <1>3, <1>4, <1>5

(* The process is the only one.                                            *)
LEMMA Alone ==
  ASSUME OneProcess, NEW p \in Proc, PlaceInv(p)'
  PROVE  \A q \in Proc : PlaceInv(q)'
  BY DEF OneProcess

(***************************************************************************)
(* A step that leaves the files alone, and neither drops nor empties the   *)
(* list of what is still to be deleted.                                    *)
(***************************************************************************)
LEMMA FilesStay ==
  ASSUME OneProcess, EngineInv, NEW p \in Proc,
         UNCHANGED files, lost \subseteq lost',
         pc[p] \in {"delete", "removeEnv"} =>
           \/ Left(p) \subseteq lost'
           \/ pc'[p] \in {"delete", "removeEnv"} /\ evicted'[p] = evicted[p]
  PROVE  LatestKept' /\ RecordsAreTrue' /\ NothingLeaks'
  <1>1. history' = history /\ manifests' = manifests /\ envs' = envs
    BY DEF files
  <1>2. LatestKept' /\ RecordsAreTrue' /\ Recorded' = Recorded /\ NextNumber' = NextNumber
    BY <1>1 DEF EngineInv, LatestKept, Latest, RecordsAreTrue, Recorded, NextNumber
  <1>3. NothingLeaks'
    BY <1>1, <1>2 DEF EngineInv, NothingLeaks, OneProcess, Left
  <1> QED BY <1>2, <1>3

(* A process that is idle again.                                           *)
LEMMA FinishedPlace ==
  ASSUME EngineTypeOK, NEW p \in Proc, Finish(p),
         disk' \in Disk, history' \in History \cup {None, Torn},
         manifests' \in [Id -> Disk \cup {None, Torn}],
         envs' \in [Id -> Env \cup {None, Torn}],
         env' \in [Proc -> Env], size' \in [Proc -> Size], lost' \subseteq Id
  PROVE  EngineTypeOK' /\ PlaceInv(p)'
  <1>1. /\ pc' = [pc EXCEPT ![p] = "idle"] /\ h' = [h EXCEPT ![p] = None]
        /\ evicted' = [evicted EXCEPT ![p] = << >>]
        /\ target' = [target EXCEPT ![p] = None]
    BY DEF Finish, Go
  <1>2. << >> \in Seq(Record)
    OBVIOUS
  <1>3. EngineTypeOK'
    BY <1>1, <1>2 DEF EngineTypeOK
  <1>4. pc'[p] = "idle"
    BY <1>1 DEF EngineTypeOK
  <1> QED BY <1>3, <1>4
      DEF PlaceInv, HasHistory, InCommand, HasSnapshot, HasEnv, BeforeSave, AfterSave,
          LeftIsOut, HalfDeleted, Restores
-----------------------------------------------------------------------------
(* One lemma for each step of a command.                                   *)
LEMMA LoadHistoryKeeps ==
  ASSUME OneProcess, EngineInv, NEW p \in Proc, LoadHistory(p)
  PROVE  EngineInv'
  <1>1. /\ pc[p] = "idle" /\ pc' = [pc EXCEPT ![p] = "create"]
        /\ h' = [h EXCEPT ![p] = Loaded(p)] /\ Loaded(p).next <= MaxId
        /\ UNCHANGED <<disk, history, manifests, envs, env, size, evicted, target, lost>>
    BY DEF LoadHistory, Go, files
  <1>2. Loaded(p) = Opened(p) /\ Opened(p) \in History
    BY OpenedFacts DEF EngineInv
  <1>3. EngineTypeOK'
    BY <1>1, <1>2 DEF EngineInv, EngineTypeOK
  <1>4. LatestKept' /\ RecordsAreTrue' /\ NothingLeaks'
    BY <1>1, FilesStay DEF files
  <1>5. pc'[p] = "create" /\ h'[p] = Opened(p) /\ Opened(p)' = Opened(p)
    BY <1>1, <1>2 DEF EngineInv, EngineTypeOK, Opened
  <1>6. PlaceInv(p)'
    BY <1>1, <1>2, <1>5
    DEF PlaceInv, HasHistory, InCommand, HasSnapshot, HasEnv, BeforeSave, AfterSave,
        LeftIsOut, HalfDeleted, Restores
  <1> QED BY <1>3, <1>4, <1>6, Alone DEF EngineInv

(* The number that is being taken is none of the recorded ones.            *)
LEMMA TakenNumber ==
  ASSUME EngineInv, NEW p \in Proc, pc[p] \in {"create", "saveEnv", "run"}
  PROVE  /\ h[p] = Opened(p) /\ h[p] \in History /\ Latest(h[p])
         /\ h[p].next \in Id /\ h[p].next = NextNumber /\ h[p].items = Recorded
         /\ \A i \in 1..Len(Recorded) : Recorded[i].id \in Id /\ Recorded[i].id # h[p].next
  <1>1. h[p] = Opened(p) /\ h[p].next <= MaxId
    BY DEF EngineInv, PlaceInv, InCommand
  <1>2. /\ Opened(p) \in History /\ Latest(Opened(p))
        /\ Opened(p).next = NextNumber /\ Opened(p).items = Recorded
    BY OpenedFacts DEF EngineInv
  <1>3. NextNumber \in 1..(MaxId + 1)
        /\ \A i \in 1..Len(Recorded) : Recorded[i].id \in Id /\ Recorded[i].id < NextNumber
    BY RecordedFacts DEF EngineInv
  <1>4. NextNumber \in Id /\ NextNumber \in Nat
    BY <1>1, <1>2, <1>3, Sizes DEF Id
  <1>5. \A i \in 1..Len(Recorded) : Recorded[i].id \in Id /\ Recorded[i].id # NextNumber
    BY <1>3, <1>4, Sizes
  <1> QED BY <1>1, <1>2, <1>4, <1>5

LEMMA CreateSnapshotKeeps ==
  ASSUME OneProcess, EngineInv, NEW p \in Proc, CreateSnapshot(p)
  PROVE  EngineInv'
  <1> DEFINE n == h[p].next
  <1>1. /\ pc[p] = "create" /\ pc' = [pc EXCEPT ![p] = "saveEnv"]
        /\ manifests' = [manifests EXCEPT ![n] = disk]
        /\ lost' = lost \ {n}
        /\ UNCHANGED <<disk, history, envs, env, size, h, evicted, target>>
    BY DEF CreateSnapshot, Go, local
  <1>2. /\ h[p] = Opened(p) /\ h[p] \in History
        /\ n \in Id /\ n = NextNumber
        /\ \A i \in 1..Len(Recorded) : Recorded[i].id \in Id /\ Recorded[i].id # n
    BY <1>1, TakenNumber
  <1> HIDE DEF n
  <1>3. EngineTypeOK'
    BY <1>1, <1>2 DEF EngineInv, EngineTypeOK
  <1>4. LatestKept' /\ Recorded' = Recorded /\ NextNumber' = NextNumber /\ Opened(p)' = Opened(p)
    BY <1>1 DEF EngineInv, LatestKept, Latest, Recorded, NextNumber, Opened
  <1>5. RecordsAreTrue'
    BY <1>1, <1>2, <1>4 DEF EngineInv, EngineTypeOK, RecordsAreTrue
  <1>6. NothingLeaks'
    <2> SUFFICES ASSUME NEW k \in Id, manifests'[k] # None \/ envs'[k] # None, k # n
                 PROVE  \/ k >= NextNumber
                        \/ \E i \in 1..Len(Recorded) : Recorded[i].id = k
                        \/ k \in lost
      BY <1>1, <1>2, <1>4, Sizes DEF NothingLeaks
    <2>1. manifests[k] # None \/ envs[k] # None
      BY <1>1 DEF EngineInv, EngineTypeOK
    <2> QED BY <1>1, <2>1 DEF EngineInv, NothingLeaks, OneProcess
  <1>7. PlaceInv(p)'
    <2>1. pc'[p] = "saveEnv" /\ manifests'[n] = disk
      BY <1>1, <1>2 DEF EngineInv, EngineTypeOK
    <2>2. h'[p] = h[p] /\ disk' = disk /\ h[p].next <= MaxId /\ h[p] = Opened(p)'
      BY <1>1, <1>2, <1>4 DEF EngineInv, PlaceInv, InCommand
    <2> QED BY <1>2, <2>1, <2>2
        DEF PlaceInv, HasHistory, InCommand, HasSnapshot, HasEnv, BeforeSave, AfterSave,
            LeftIsOut, HalfDeleted, Restores, n
  <1> QED BY <1>3, <1>4, <1>5, <1>6, <1>7, Alone DEF EngineInv

LEMMA SaveEnvKeeps ==
  ASSUME OneProcess, EngineInv, NEW p \in Proc, SaveEnv(p)
  PROVE  EngineInv'
  <1> DEFINE n == h[p].next
  <1>1. /\ pc[p] = "saveEnv" /\ pc' = [pc EXCEPT ![p] = "run"]
        /\ envs' = [envs EXCEPT ![n] = env[p]]
        /\ UNCHANGED <<disk, history, manifests, env, size, h, evicted, target, lost>>
    BY DEF SaveEnv, Go, local
  <1>2. /\ h[p] = Opened(p) /\ h[p] \in History
        /\ n \in Id /\ n = NextNumber
        /\ \A i \in 1..Len(Recorded) : Recorded[i].id \in Id /\ Recorded[i].id # n
    BY <1>1, TakenNumber
  <1> HIDE DEF n
  <1>3. EngineTypeOK'
    BY <1>1, <1>2 DEF EngineInv, EngineTypeOK
  <1>4. LatestKept' /\ Recorded' = Recorded /\ NextNumber' = NextNumber /\ Opened(p)' = Opened(p)
    BY <1>1 DEF EngineInv, LatestKept, Latest, Recorded, NextNumber, Opened
  <1>5. RecordsAreTrue'
    BY <1>1, <1>2, <1>4 DEF EngineInv, EngineTypeOK, RecordsAreTrue
  <1>6. NothingLeaks'
    <2> SUFFICES ASSUME NEW k \in Id, manifests'[k] # None \/ envs'[k] # None, k # n
                 PROVE  \/ k >= NextNumber
                        \/ \E i \in 1..Len(Recorded) : Recorded[i].id = k
                        \/ k \in lost
      BY <1>1, <1>2, <1>4, Sizes DEF NothingLeaks
    <2>1. manifests[k] # None \/ envs[k] # None
      BY <1>1 DEF EngineInv, EngineTypeOK
    <2> QED BY <1>1, <2>1 DEF EngineInv, NothingLeaks, OneProcess
  <1>7. PlaceInv(p)'
    <2>1. pc'[p] = "run" /\ envs'[n] = env'[p] /\ manifests'[n] = disk'
      BY <1>1, <1>2 DEF EngineInv, EngineTypeOK, PlaceInv, HasSnapshot, n
    <2>2. h'[p] = h[p] /\ h[p].next <= MaxId /\ h[p] = Opened(p)'
      BY <1>1, <1>2, <1>4 DEF EngineInv, PlaceInv, InCommand
    <2> QED BY <1>2, <2>1, <2>2
        DEF PlaceInv, HasHistory, InCommand, HasSnapshot, HasEnv, BeforeSave, AfterSave,
            LeftIsOut, HalfDeleted, Restores, n
  <1> QED BY <1>3, <1>4, <1>5, <1>6, <1>7, Alone DEF EngineInv

LEMMA NextHistory ==
  ASSUME NEW hist \in History, hist.next \in Id, NEW kept \in Seq(Record)
  PROVE  LET new == [hist EXCEPT !.items = kept, !.next = @ + 1]
         IN  new \in History /\ new.items = kept /\ new.next = hist.next + 1 /\ new.max = hist.max
  <1>1. hist.next \in Nat /\ 1 <= hist.next /\ hist.next <= MaxId /\ MaxId \in Nat
    BY Sizes DEF Id
  <1>2. hist.next + 1 \in 1..(MaxId + 1)
    BY <1>1
  <1> QED BY <1>2 DEF History

(***************************************************************************)
(* trimHistory after the append: what stays is the latest records, what    *)
(* goes is the ones before, and none is both or neither.                   *)
(***************************************************************************)
LEMMA TrimFacts ==
  ASSUME NEW hist \in History, Latest(hist), hist.next \in Id,
         NEW r \in Record, r.id = hist.next
  PROVE  LET items == Append(hist.items, r)
             n     == Trim(items, hist.max)
             left  == SubSeq(items, 1, n)
             kept  == SubSeq(items, n + 1, Len(items))
             new   == [hist EXCEPT !.items = kept, !.next = @ + 1]
         IN  /\ new \in History /\ Latest(new) /\ new.items = kept
             /\ new.next = hist.next + 1
             /\ left \in Seq(Record)
             /\ \A i \in 1..Len(kept) : kept[i] = r \/ \E j \in 1..Len(hist.items) : kept[i] = hist.items[j]
             /\ IdsOf(hist.items) \cup {r.id} \subseteq IdsOf(left) \cup IdsOf(kept)
             /\ IdsOf(left) \cap IdsOf(kept) = {}
  <1> DEFINE max   == hist.max
             old   == hist.items
             items == Append(old, r)
             n     == Trim(items, max)
             left  == SubSeq(items, 1, n)
             kept  == SubSeq(items, n + 1, Len(items))
             new   == [hist EXCEPT !.items = kept, !.next = @ + 1]
             len   == Len(old)
             next  == hist.next
  <1> HIDE DEF new, kept, left, n
  <1>1. /\ old \in Seq(Record) /\ len \in Nat /\ next \in Nat
        /\ next <= MaxId /\ MaxId \in Nat /\ 1 <= next
    BY Sizes DEF History, Id
  <1>2. max \in Nat /\ max # 0
    BY Sizes DEF History
  <1>3. /\ items \in Seq(Record) /\ Len(items) = len + 1
        /\ \A i \in 1..len : items[i] = old[i]
        /\ items[len + 1] = r
    BY <1>1
  <1>4. /\ len = IF next <= max THEN next - 1 ELSE max
        /\ \A i \in 1..len : old[i].id = next - 1 - len + i
    BY DEF Latest
  <1> HIDE DEF items, old, len, next, max
  <1>5. n = IF len + 1 <= max THEN 0 ELSE len + 1 - max
    BY <1>1, <1>2, <1>3 DEF Trim, n
  <1>6. \A i \in 1..(len + 1) : items[i].id = next - 1 - len + i
    <2>1. r.id = next - 1 - len + (len + 1)
      BY <1>1 DEF next
    <2>2. \A i \in 1..(len + 1) : i \in 1..len \/ i = len + 1
      BY <1>1
    <2> QED BY <1>3, <1>4, <2>1, <2>2
  <1>7. n \in {0, 1} /\ n <= len
    BY <1>1, <1>2, <1>4, <1>5
  <1>8. /\ left \in Seq(Record) /\ Len(left) = n /\ \A i \in 1..n : left[i] = items[i]
    BY <1>1, <1>3, <1>7 DEF left
  <1>9. /\ kept \in Seq(Record) /\ Len(kept) = len + 1 - n
        /\ \A i \in 1..(len + 1 - n) : kept[i] = items[n + i]
    BY <1>1, <1>3, <1>7 DEF kept
  <1>10. new \in History /\ new.items = kept /\ new.next = next + 1 /\ new.max = max
    BY <1>9, NextHistory DEF next, max, new
  <1>11. Latest(new)
    <2>1. Len(kept) = IF next + 1 <= max THEN next + 1 - 1 ELSE max
      BY <1>1, <1>2, <1>4, <1>5, <1>9
    <2>2. \A i \in 1..Len(kept) : kept[i].id = next + 1 - 1 - Len(kept) + i
      <3> SUFFICES ASSUME NEW i \in 1..Len(kept)
                   PROVE  kept[i].id = next + 1 - 1 - Len(kept) + i
        OBVIOUS
      <3>1. i \in Nat /\ n + i \in 1..(len + 1) /\ kept[i] = items[n + i]
        BY <1>1, <1>7, <1>9
      <3>2. items[n + i].id = next - 1 - len + (n + i)
        BY <1>6, <3>1
      <3> QED BY <1>1, <1>7, <1>9, <3>1, <3>2
    <2>3. /\ Len(new.items) = IF new.next <= new.max THEN new.next - 1 ELSE new.max
          /\ \A i \in 1..Len(new.items) :
               new.items[i].id = new.next - 1 - Len(new.items) + i
      <3> DEFINE m == new.next
                 l == Len(new.items)
      <3>1. /\ m \in Nat /\ m = next + 1 /\ new.max = max /\ new.items = kept
            /\ l \in Nat /\ l = Len(kept)
        BY <1>1, <1>9, <1>10
      <3> HIDE DEF m, l
      <3>2. l = IF m <= max THEN m - 1 ELSE max
        BY <1>1, <1>2, <2>1, <3>1
      <3>3. \A i \in 1..l : kept[i].id = m - 1 - l + i
        BY <1>1, <2>2, <3>1
      <3> QED BY <3>1, <3>2, <3>3 DEF m, l
    <2> QED BY <2>3 DEF Latest
  <1>12. \A i \in 1..Len(kept) : kept[i] = r \/ \E j \in 1..len : kept[i] = old[j]
    <2> SUFFICES ASSUME NEW i \in 1..Len(kept)
                 PROVE  kept[i] = r \/ \E j \in 1..len : kept[i] = old[j]
      OBVIOUS
    <2>1. kept[i] = items[n + i] /\ (n + i = len + 1 \/ n + i \in 1..len)
      BY <1>1, <1>7, <1>9
    <2> QED BY <1>3, <2>1
  <1>13. \A j \in 1..(len + 1) : items[j].id \in IdsOf(left) \cup IdsOf(kept)
    <2> SUFFICES ASSUME NEW j \in 1..(len + 1)
                 PROVE  items[j].id \in IdsOf(left) \cup IdsOf(kept)
      OBVIOUS
    <2>1. CASE j <= n
      BY <1>1, <1>7, <1>8, <2>1 DEF IdsOf
    <2>2. CASE j > n
      <3>1. j - n \in 1..Len(kept) /\ n + (j - n) = j
        BY <1>1, <1>7, <1>9, <2>2
      <3>2. kept[j - n] = items[j]
        BY <1>9, <3>1
      <3> QED BY <3>1, <3>2 DEF IdsOf
    <2> QED BY <1>7, <2>1, <2>2
  <1>14. IdsOf(old) \cup {r.id} \subseteq IdsOf(left) \cup IdsOf(kept)
    <2>1. r.id \in IdsOf(left) \cup IdsOf(kept)
      BY <1>1, <1>3, <1>13
    <2>2. ASSUME NEW j \in 1..len
          PROVE  old[j].id \in IdsOf(left) \cup IdsOf(kept)
      BY <1>1, <1>3, <1>13
    <2> QED BY <2>1, <2>2 DEF IdsOf, len
  <1>15. IdsOf(left) \cap IdsOf(kept) = {}
    <2> SUFFICES ASSUME NEW i \in 1..Len(left), NEW j \in 1..Len(kept), left[i].id = kept[j].id
                 PROVE  FALSE
      BY DEF IdsOf
    <2>1. i \in 1..(len + 1) /\ n + j \in 1..(len + 1) /\ i < n + j
      BY <1>1, <1>7, <1>8, <1>9
    <2>2. left[i] = items[i] /\ kept[j] = items[n + j]
      BY <1>8, <1>9
    <2>3. items[i].id = next - 1 - len + i /\ items[n + j].id = next - 1 - len + (n + j)
      BY <1>6, <2>1
    <2> QED BY <1>1, <1>7, <2>1, <2>2, <2>3
  <1> QED BY <1>8, <1>10, <1>11, <1>12, <1>14, <1>15
          DEF items, n, left, kept, new, old, len, next, max

LEMMA RunKeeps ==
  ASSUME OneProcess, EngineInv, NEW p \in Proc, NEW d \in Disk, Run(p, d)
  PROVE  EngineInv'
  <1> DEFINE hist  == h[p]
             r     == [id |-> h[p].next, before |-> disk, env |-> env[p]]
             items == Append(hist.items, r)
             n     == Trim(items, hist.max)
             left  == SubSeq(items, 1, n)
             kept  == SubSeq(items, n + 1, Len(items))
             new   == [hist EXCEPT !.items = kept, !.next = @ + 1]
  <1>1. /\ pc[p] = "run" /\ pc' = [pc EXCEPT ![p] = "save"] /\ disk' = d
        /\ UNCHANGED <<history, manifests, envs, env, size, target, lost>>
    BY DEF Run, Go, files
  <1>2. evicted' = [evicted EXCEPT ![p] = left]
    BY DEF Run
  <1>3. h' = [h EXCEPT ![p] = new]
    BY DEF Run
  <1>4. /\ hist = Opened(p) /\ hist \in History /\ Latest(hist)
        /\ hist.next \in Id /\ hist.next = NextNumber /\ hist.items = Recorded
    BY <1>1, TakenNumber
  <1>5. r \in Record /\ r.id = hist.next
    BY <1>4 DEF EngineInv, EngineTypeOK, Record
  <1>6. IsTrue(r)
    BY <1>1 DEF EngineInv, PlaceInv, HasSnapshot, HasEnv, IsTrue
  <1> HIDE DEF r, hist
  <1>7. /\ new \in History /\ Latest(new) /\ new.items = kept /\ new.next = hist.next + 1
        /\ left \in Seq(Record)
        /\ \A i \in 1..Len(kept) : kept[i] = r \/ \E j \in 1..Len(hist.items) : kept[i] = hist.items[j]
        /\ IdsOf(hist.items) \cup {r.id} \subseteq IdsOf(left) \cup IdsOf(kept)
        /\ IdsOf(left) \cap IdsOf(kept) = {}
    BY <1>4, <1>5, TrimFacts
  <1> HIDE DEF new, kept, left, items, n
  <1>8. EngineTypeOK'
    BY <1>1, <1>2, <1>3, <1>7 DEF EngineInv, EngineTypeOK
  <1>9. LatestKept' /\ RecordsAreTrue' /\ NothingLeaks'
    BY <1>1, FilesStay DEF files
  <1>10. pc'[p] = "save" /\ h'[p] = new /\ evicted'[p] = left
    BY <1>1, <1>2, <1>3 DEF EngineInv, EngineTypeOK
  <1>11. Left(p)' = IdsOf(left)
    BY <1>10 DEF Left, IdsOf
  <1>12. \A i \in 1..Len(new.items) :
           /\ manifests'[new.items[i].id] = new.items[i].before
           /\ envs'[new.items[i].id] = new.items[i].env
    <2>1. \A j \in 1..Len(hist.items) : IsTrue(hist.items[j])
      BY <1>4 DEF EngineInv, RecordsAreTrue, IsTrue
    <2>2. \A i \in 1..Len(new.items) : IsTrue(new.items[i])
      BY <1>6, <1>7, <2>1
    <2>3. manifests' = manifests /\ envs' = envs
      BY <1>1
    <2> QED BY <2>2, <2>3 DEF IsTrue
  <1>13. /\ NextNumber' = NextNumber /\ Recorded' = Recorded
    BY <1>1 DEF NextNumber, Recorded
  <1>14. BeforeSave(p)'
    <2>1. Latest(h'[p]) /\ h'[p].next = NextNumber' + 1
      BY <1>4, <1>7, <1>10, <1>13
    <2>2. IdsOf(Recorded)' = IdsOf(hist.items) /\ IdsOf(h[p].items)' = IdsOf(kept)
      BY <1>4, <1>7, <1>10, <1>13 DEF IdsOf
    <2>3. IdsOf(Recorded)' \cup {NextNumber'} \subseteq Left(p)' \cup IdsOf(h[p].items)'
      BY <1>4, <1>5, <1>7, <1>11, <1>13, <2>2
    <2>4. Latest(h[p])'
      BY <2>1 DEF Latest
    <2>5. \A i \in 1..Len(h'[p].items) : IsTrue(h[p].items[i])'
      BY <1>10, <1>12 DEF IsTrue
    <2> QED BY <2>1, <2>3, <2>4, <2>5 DEF BeforeSave
  <1>15. LeftIsOut(p)'
    <2>1. IdsOf(h[p].items)' = IdsOf(kept)
      BY <1>7, <1>10 DEF IdsOf
    <2> QED BY <1>7, <1>11, <2>1 DEF LeftIsOut
  <1>16. PlaceInv(p)'
    BY <1>7, <1>10, <1>14, <1>15
    DEF PlaceInv, HasHistory, InCommand, HasSnapshot, HasEnv, AfterSave, HalfDeleted, Restores
  <1> QED BY <1>8, <1>9, <1>16, Alone DEF EngineInv

LEMMA SaveHistoryKeeps ==
  ASSUME OneProcess, EngineInv, NEW p \in Proc, SaveHistory(p)
  PROVE  EngineInv'
  <1>1. /\ pc[p] = "save" /\ pc' = [pc EXCEPT ![p] = "delete"] /\ history' = h[p]
        /\ UNCHANGED <<disk, manifests, envs, env, size, h, evicted, target, lost>>
    BY DEF SaveHistory, Go, local
  <1>2. h[p] \in History /\ BeforeSave(p) /\ LeftIsOut(p)
    BY <1>1 DEF EngineInv, PlaceInv, HasHistory
  <1>3. /\ Latest(h[p]) /\ h[p].next = NextNumber + 1
        /\ \A i \in 1..Len(h[p].items) : IsTrue(h[p].items[i])
        /\ IdsOf(Recorded) \cup {NextNumber} \subseteq Left(p) \cup IdsOf(h[p].items)
    BY <1>1, <1>2 DEF BeforeSave
  <1>4. EngineTypeOK'
    BY <1>1, <1>2 DEF EngineInv, EngineTypeOK
  <1>5. LatestKept'
    BY <1>1, <1>3 DEF LatestKept, Latest
  <1>6. RecordsAreTrue'
    BY <1>1, <1>3 DEF RecordsAreTrue, Recorded, IsTrue
  <1>7. NothingLeaks'
    <2>0. /\ pc'[p] = "delete" /\ Left(p)' = Left(p)
          /\ manifests' = manifests /\ envs' = envs /\ lost' = lost
      BY <1>1 DEF Left, EngineInv, EngineTypeOK
    <2> SUFFICES ASSUME NEW k \in Id, manifests[k] # None \/ envs[k] # None
                 PROVE  \/ k >= NextNumber'
                        \/ \E i \in 1..Len(Recorded') : Recorded'[i].id = k
                        \/ k \in Left(p)
                        \/ k \in lost
      BY <2>0 DEF NothingLeaks
    <2>1. k \in Nat /\ k >= 1 /\ NextNumber \in Nat
      BY RecordedFacts, Sizes DEF EngineInv, Id
    <2>2. CASE history' \in {None, Torn}
      BY <2>1, <2>2 DEF NextNumber
    <2>3. CASE history' \notin {None, Torn}
      <3>1. NextNumber' = NextNumber + 1 /\ Recorded' = h[p].items
        BY <1>1, <1>3, <2>3 DEF NextNumber, Recorded
      <3>2. k >= NextNumber \/ k \in IdsOf(Recorded) \/ k \in lost
        BY <1>1, OneProcess DEF EngineInv, NothingLeaks, OneProcess, IdsOf
      <3>3. CASE k \in IdsOf(Recorded) \cup {NextNumber}
        BY <1>3, <3>1, <3>3 DEF IdsOf
      <3>4. CASE k >= NextNumber /\ k # NextNumber
        BY <2>1, <3>1, <3>4
      <3> QED BY <3>2, <3>3, <3>4
    <2> QED BY <2>2, <2>3
  <1>8. PlaceInv(p)'
    <2>1. pc'[p] = "delete" /\ h'[p] = history'
      BY <1>1 DEF EngineInv, EngineTypeOK
    <2>2. LeftIsOut(p)'
      BY <1>1, <1>2 DEF LeftIsOut, Left, IdsOf
    <2> QED BY <1>1, <1>2, <2>1, <2>2
        DEF PlaceInv, HasHistory, InCommand, HasSnapshot, HasEnv, BeforeSave, AfterSave,
            HalfDeleted, Restores
  <1> QED BY <1>4, <1>5, <1>6, <1>7, <1>8, Alone DEF EngineInv

(* The record that is deleted next, and those after it.                    *)
LEMMA EvictedFacts ==
  ASSUME EngineInv, NEW p \in Proc, evicted[p] # << >>
  PROVE  /\ Head(evicted[p]).id \in Id /\ Head(evicted[p]).id \in Left(p)
         /\ Tail(evicted[p]) \in Seq(Record)
         /\ IdsOf(Tail(evicted[p])) \subseteq Left(p)
         /\ Left(p) \subseteq IdsOf(Tail(evicted[p])) \cup {Head(evicted[p]).id}
  <1> DEFINE e == evicted[p]
             t == Tail(e)
  <1>1. e \in Seq(Record) /\ e # << >>
    BY DEF EngineInv, EngineTypeOK
  <1> HIDE DEF e
  <1>2. /\ Head(e) = e[1] /\ Head(e) \in Record /\ 1 \in 1..Len(e) /\ Len(e) \in Nat
        /\ t \in Seq(Record) /\ Len(t) = Len(e) - 1
        /\ \A i \in 1..Len(t) : t[i] = e[i + 1]
    BY <1>1
  <1> HIDE DEF t
  <1>3. \A i \in 1..Len(t) : i + 1 \in 1..Len(e)
    BY <1>2
  <1>4. \A i \in 1..Len(e) : i = 1 \/ (i - 1 \in 1..Len(t) /\ t[i - 1] = e[i])
    BY <1>2
  <1>5. Head(e).id \in Id
    BY <1>2 DEF Record
  <1>6. IdsOf(t) \subseteq IdsOf(e)
    BY <1>2, <1>3 DEF IdsOf
  <1>7. ASSUME NEW i \in 1..Len(e)
        PROVE  e[i].id \in IdsOf(t) \cup {Head(e).id}
    BY <1>2, <1>4 DEF IdsOf
  <1>8. Head(e).id \in IdsOf(e) /\ IdsOf(e) \subseteq IdsOf(t) \cup {Head(e).id}
    BY <1>2, <1>7 DEF IdsOf
  <1>9. Left(p) = IdsOf(e)
    BY DEF Left, IdsOf, e
  <1> QED BY <1>2, <1>5, <1>6, <1>8, <1>9 DEF e, t

(* What is being deleted is in no record.                                  *)
LEMMA LeftIsNotRecorded ==
  ASSUME EngineInv, NEW p \in Proc, pc[p] \in {"delete", "removeEnv"}
  PROVE  \A i \in 1..Len(Recorded) : Recorded[i].id \in Id /\ Recorded[i].id \notin Left(p)
  <1>1. history = h[p] /\ Left(p) \cap IdsOf(h[p].items) = {}
    BY DEF EngineInv, PlaceInv, AfterSave, LeftIsOut
  <1>2. \A i \in 1..Len(Recorded) : Recorded[i].id \in Id
    BY RecordedFacts DEF EngineInv
  <1> QED BY <1>1, <1>2 DEF Recorded, IdsOf

LEMMA DeleteSnapshotKeeps ==
  ASSUME OneProcess, EngineInv, NEW p \in Proc, DeleteSnapshot(p)
  PROVE  EngineInv'
  <1> DEFINE n == Head(evicted[p]).id
  <1>1. /\ pc[p] = "delete" /\ evicted[p] # << >>
        /\ manifests' = [manifests EXCEPT ![n] = None]
        /\ pc' = [pc EXCEPT ![p] = "removeEnv"]
        /\ UNCHANGED <<disk, history, envs, env, size, h, evicted, target, lost>>
    BY DEF DeleteSnapshot, Go, local
  <1>2. n \in Id /\ n \in Left(p)
    BY <1>1, EvictedFacts
  <1>3. \A i \in 1..Len(Recorded) : Recorded[i].id \in Id /\ Recorded[i].id # n
    BY <1>1, <1>2, LeftIsNotRecorded
  <1> HIDE DEF n
  <1>4. EngineTypeOK'
    BY <1>1, <1>2 DEF EngineInv, EngineTypeOK
  <1>5. LatestKept' /\ Recorded' = Recorded /\ NextNumber' = NextNumber
    BY <1>1 DEF EngineInv, LatestKept, Latest, Recorded, NextNumber
  <1>6. RecordsAreTrue'
    BY <1>1, <1>3, <1>5 DEF EngineInv, EngineTypeOK, RecordsAreTrue
  <1>7. pc'[p] = "removeEnv" /\ Left(p)' = Left(p) /\ manifests'[n] = None
    BY <1>1, <1>2 DEF EngineInv, EngineTypeOK, Left
  <1>8. NothingLeaks'
    <2>1. \A k \in Id : manifests'[k] # None => manifests[k] # None
      BY <1>1 DEF EngineInv, EngineTypeOK
    <2> QED BY <1>1, <1>5, <1>7, <2>1 DEF EngineInv, NothingLeaks, OneProcess
  <1>9. PlaceInv(p)'
    <2>1. LeftIsOut(p)'
      BY <1>1, <1>7 DEF EngineInv, PlaceInv, LeftIsOut, IdsOf
    <2>2. HalfDeleted(p)'
      BY <1>1, <1>7 DEF HalfDeleted, n
    <2> QED BY <1>1, <1>7, <2>1, <2>2
        DEF EngineInv, PlaceInv, HasHistory, InCommand, HasSnapshot, HasEnv, BeforeSave,
            AfterSave, Restores
  <1> QED BY <1>4, <1>5, <1>6, <1>8, <1>9, Alone DEF EngineInv

LEMMA RemoveEnvKeeps ==
  ASSUME OneProcess, EngineInv, NEW p \in Proc, RemoveEnv(p)
  PROVE  EngineInv'
  <1> DEFINE n == Head(evicted[p]).id
  <1>1. /\ pc[p] = "removeEnv"
        /\ envs' = [envs EXCEPT ![n] = None]
        /\ evicted' = [evicted EXCEPT ![p] = Tail(@)]
        /\ pc' = [pc EXCEPT ![p] = "delete"]
        /\ UNCHANGED <<disk, history, manifests, env, size, h, target, lost>>
    BY DEF RemoveEnv, Go
  <1>2. evicted[p] # << >> /\ (manifests[n] = None \/ n \in lost)
    BY <1>1 DEF EngineInv, PlaceInv, HalfDeleted
  <1>3. /\ n \in Id /\ n \in Left(p) /\ Tail(evicted[p]) \in Seq(Record)
        /\ IdsOf(Tail(evicted[p])) \subseteq Left(p)
        /\ Left(p) \subseteq IdsOf(Tail(evicted[p])) \cup {n}
    BY <1>2, EvictedFacts
  <1>4. \A i \in 1..Len(Recorded) : Recorded[i].id \in Id /\ Recorded[i].id # n
    BY <1>1, <1>3, LeftIsNotRecorded
  <1> HIDE DEF n
  <1>5. EngineTypeOK'
    BY <1>1, <1>3 DEF EngineInv, EngineTypeOK
  <1>6. LatestKept' /\ Recorded' = Recorded /\ NextNumber' = NextNumber
    BY <1>1 DEF EngineInv, LatestKept, Latest, Recorded, NextNumber
  <1>7. RecordsAreTrue'
    BY <1>1, <1>4, <1>6 DEF EngineInv, EngineTypeOK, RecordsAreTrue
  <1>8. /\ pc'[p] = "delete" /\ evicted'[p] = Tail(evicted[p]) /\ envs'[n] = None
        /\ Left(p)' = IdsOf(Tail(evicted[p]))
    BY <1>1, <1>3 DEF EngineInv, EngineTypeOK, Left, IdsOf
  <1>9. NothingLeaks'
    <2> SUFFICES ASSUME NEW k \in Id, manifests'[k] # None \/ envs'[k] # None
                 PROVE  \/ k >= NextNumber
                        \/ \E i \in 1..Len(Recorded) : Recorded[i].id = k
                        \/ k \in Left(p)'
                        \/ k \in lost
      BY <1>1, <1>6, <1>8 DEF NothingLeaks
    <2>1. k # n \/ k \in lost
      BY <1>1, <1>2, <1>8
    <2>2. manifests[k] # None \/ envs[k] # None
      BY <1>1 DEF EngineInv, EngineTypeOK
    <2>3. \/ k >= NextNumber
          \/ \E i \in 1..Len(Recorded) : Recorded[i].id = k
          \/ k \in Left(p)
          \/ k \in lost
      BY <2>2 DEF EngineInv, NothingLeaks, OneProcess
    <2> QED BY <1>3, <1>8, <2>1, <2>3
  <1>10. PlaceInv(p)'
    <2>1. Left(p) \cap IdsOf(h[p].items) = {}
      BY <1>1 DEF EngineInv, PlaceInv, LeftIsOut
    <2>2. IdsOf(h[p].items)' = IdsOf(h[p].items)
      BY <1>1 DEF IdsOf
    <2>3. LeftIsOut(p)'
      BY <1>3, <1>8, <2>1, <2>2 DEF LeftIsOut
    <2> QED BY <1>1, <1>8, <2>3
        DEF EngineInv, PlaceInv, HasHistory, InCommand, HasSnapshot, HasEnv, BeforeSave,
            AfterSave, HalfDeleted, Restores
  <1> QED BY <1>5, <1>6, <1>7, <1>9, <1>10, Alone DEF EngineInv

LEMMA EndCommandKeeps ==
  ASSUME OneProcess, EngineInv, NEW p \in Proc, EndCommand(p)
  PROVE  EngineInv'
  <1>1. /\ pc[p] = "delete" /\ evicted[p] = << >> /\ Finish(p)
        /\ UNCHANGED <<disk, history, manifests, envs, env, size, lost>>
    BY DEF EndCommand, files
  <1>2. Left(p) = {}
    BY <1>1 DEF Left
  <1>3. LatestKept' /\ RecordsAreTrue' /\ NothingLeaks'
    BY <1>1, <1>2, FilesStay DEF files
  <1>4. EngineTypeOK' /\ PlaceInv(p)'
    BY <1>1, FinishedPlace DEF EngineInv, EngineTypeOK
  <1> QED BY <1>3, <1>4, Alone DEF EngineInv
-----------------------------------------------------------------------------
LEMMA BeginRestoreKeeps ==
  ASSUME OneProcess, EngineInv, NEW p \in Proc, BeginRestore(p)
  PROVE  EngineInv'
  <1>1. /\ pc[p] = "idle" /\ pc' = [pc EXCEPT ![p] = "restore"]
        /\ UNCHANGED <<disk, history, manifests, envs, env, size, h, evicted, lost>>
    BY DEF BeginRestore, Go, files
  <1>2. Loaded(p).items = Recorded
    BY OpenedFacts DEF EngineInv
  <1>3. PICK i \in 1..Len(Recorded) : target' = [target EXCEPT ![p] = Recorded[i]]
    BY <1>2 DEF BeginRestore
  <1>4. Recorded[i] \in Record
    BY RecordedFacts DEF EngineInv
  <1>5. EngineTypeOK'
    BY <1>1, <1>3, <1>4 DEF EngineInv, EngineTypeOK
  <1>6. LatestKept' /\ RecordsAreTrue' /\ NothingLeaks'
    BY <1>1, FilesStay DEF files
  <1>7. /\ pc'[p] = "restore" /\ target'[p] = Recorded[i] /\ Recorded' = Recorded
    BY <1>1, <1>3 DEF EngineInv, EngineTypeOK, Recorded
  <1>8. PlaceInv(p)'
    BY <1>4, <1>7
    DEF PlaceInv, HasHistory, InCommand, HasSnapshot, HasEnv, BeforeSave, AfterSave,
        LeftIsOut, HalfDeleted, Restores
  <1> QED BY <1>5, <1>6, <1>8, Alone DEF EngineInv

(* The record that is restored is still what the files hold.               *)
LEMMA TargetIsTrue ==
  ASSUME EngineInv, NEW p \in Proc, pc[p] \in {"restore", "restoreEnv"}
  PROVE  /\ target[p] \in Record
         /\ manifests[target[p].id] = target[p].before /\ envs[target[p].id] = target[p].env
  <1>1. target[p] \in Record /\ \E i \in 1..Len(Recorded) : Recorded[i] = target[p]
    BY DEF EngineInv, PlaceInv, Restores
  <1> QED BY <1>1 DEF EngineInv, RecordsAreTrue

LEMMA RestoreDiskKeeps ==
  ASSUME OneProcess, EngineInv, NEW p \in Proc, RestoreDisk(p)
  PROVE  EngineInv'
  <1>1. pc[p] = "restore" /\ UNCHANGED <<history, manifests, envs, env, size, lost>>
    BY DEF RestoreDisk, files
  <1>2. target[p] \in Record /\ manifests[target[p].id] = target[p].before
    BY <1>1, TargetIsTrue
  <1>3. target[p].before \in Disk
    BY <1>2 DEF Record
  <1>4. /\ disk' = target[p].before /\ pc' = [pc EXCEPT ![p] = "restoreEnv"]
        /\ UNCHANGED <<h, evicted, target>>
    BY <1>2, <1>3 DEF RestoreDisk, Go, local
  <1>5. EngineTypeOK'
    BY <1>1, <1>3, <1>4 DEF EngineInv, EngineTypeOK
  <1>6. LatestKept' /\ RecordsAreTrue' /\ NothingLeaks'
    BY <1>1, FilesStay DEF files
  <1>7. pc'[p] = "restoreEnv" /\ Recorded' = Recorded
    BY <1>1, <1>4 DEF EngineInv, EngineTypeOK, Recorded
  <1>8. Restores(p)'
    BY <1>1, <1>4, <1>7 DEF EngineInv, PlaceInv, Restores
  <1>9. PlaceInv(p)'
    BY <1>7, <1>8
    DEF PlaceInv, HasHistory, InCommand, HasSnapshot, HasEnv, BeforeSave, AfterSave,
        LeftIsOut, HalfDeleted
  <1> QED BY <1>5, <1>6, <1>9, Alone DEF EngineInv

LEMMA RestoreEnvKeeps ==
  ASSUME OneProcess, EngineInv, NEW p \in Proc, RestoreEnv(p)
  PROVE  EngineInv'
  <1>1. /\ pc[p] = "restoreEnv" /\ Finish(p)
        /\ UNCHANGED <<disk, history, manifests, envs, size, lost>>
        /\ env' = env \/ (envs[target[p].id] \in Env /\ env' = [env EXCEPT ![p] = envs[target[p].id]])
    BY DEF RestoreEnv, files
  <1>2. LatestKept' /\ RecordsAreTrue' /\ NothingLeaks'
    BY <1>1, FilesStay DEF files
  <1>3. env' \in [Proc -> Env]
    BY <1>1 DEF EngineInv, EngineTypeOK
  <1>4. EngineTypeOK' /\ PlaceInv(p)'
    BY <1>1, <1>3, FinishedPlace DEF EngineInv, EngineTypeOK
  <1> QED BY <1>2, <1>4, Alone DEF EngineInv
-----------------------------------------------------------------------------
(* A file cut short has the number that is being taken, or is the history. *)
LEMMA CutShortKeeps ==
  ASSUME OneProcess, EngineInv, NEW p \in Proc, CutShort(p),
         env' \in [Proc -> Env], size' \in [Proc -> Size]
  PROVE  EngineInv'
  <1>1. /\ history' \in IF pc[p] = "save" THEN {history, Torn} ELSE {history}
        /\ manifests' \in {manifests} \cup
             (IF pc[p] = "create" THEN {[manifests EXCEPT ![h[p].next] = Torn]} ELSE {})
        /\ envs' \in {envs} \cup
             (IF pc[p] = "saveEnv" THEN {[envs EXCEPT ![h[p].next] = Torn]} ELSE {})
        /\ disk' \in IF pc[p] \in {"run", "restore"} THEN Disk ELSE {disk}
        /\ lost' = IF pc[p] \in {"delete", "removeEnv"} THEN lost \cup Left(p) ELSE lost
        /\ Finish(p)
    BY DEF CutShort
  <1>2. /\ disk' \in Disk /\ history' \in History \cup {None, Torn}
        /\ manifests' \in [Id -> Disk \cup {None, Torn}]
        /\ envs' \in [Id -> Env \cup {None, Torn}]
        /\ lost' \subseteq Id
    <2>1. disk' \in Disk /\ history' \in History \cup {None, Torn}
      BY <1>1 DEF EngineInv, EngineTypeOK
    <2>2. /\ manifests' \in [Id -> Disk \cup {None, Torn}]
          /\ envs' \in [Id -> Env \cup {None, Torn}]
      BY <1>1 DEF EngineInv, EngineTypeOK
    <2>3. Left(p) \subseteq Id
      <3>1. \A i \in 1..Len(evicted[p]) : evicted[p][i] \in Record
        BY DEF EngineInv, EngineTypeOK
      <3> QED BY <3>1 DEF Left, Record
    <2>4. lost' \subseteq Id
      BY <1>1, <2>3 DEF EngineInv, EngineTypeOK
    <2> QED BY <2>1, <2>2, <2>4
  <1>3. EngineTypeOK' /\ PlaceInv(p)'
    BY <1>1, <1>2, FinishedPlace DEF EngineInv
  <1>4. LatestKept' /\ RecordsAreTrue' /\ NothingLeaks'
    <2>1. CASE UNCHANGED files
      BY <1>1, <2>1, FilesStay
    <2>2. CASE pc[p] = "save" /\ history' = Torn
      <3>1. Recorded' = << >> /\ NextNumber' = 1
        BY <2>2 DEF Recorded, NextNumber
      <3>2. LatestKept'
        BY <2>2 DEF LatestKept, Latest
      <3>3. RecordsAreTrue'
        BY <3>1 DEF RecordsAreTrue
      <3>4. \A n \in Id : n >= 1
        BY Sizes DEF Id
      <3> QED BY <3>1, <3>2, <3>3, <3>4 DEF NothingLeaks
    <2>3. CASE pc[p] \in {"create", "saveEnv"} /\ ~UNCHANGED files
      <3> DEFINE n == h[p].next
      <3>1. n \in Id /\ n = NextNumber
            /\ \A i \in 1..Len(Recorded) : Recorded[i].id \in Id /\ Recorded[i].id # n
        BY <2>3, TakenNumber
      <3>2. /\ history' = history /\ lost' = lost
            /\ manifests' \in {manifests, [manifests EXCEPT ![n] = Torn]}
            /\ envs' \in {envs, [envs EXCEPT ![n] = Torn]}
        BY <1>1, <2>3
      <3> HIDE DEF n
      <3>3. \A k \in Id : k # n => manifests'[k] = manifests[k] /\ envs'[k] = envs[k]
        BY <3>2 DEF EngineInv, EngineTypeOK
      <3>4. LatestKept' /\ Recorded' = Recorded /\ NextNumber' = NextNumber
        BY <3>2 DEF EngineInv, LatestKept, Latest, Recorded, NextNumber
      <3>5. RecordsAreTrue'
        BY <3>1, <3>3, <3>4 DEF EngineInv, RecordsAreTrue
      <3>6. NothingLeaks'
        <4> SUFFICES ASSUME NEW k \in Id, manifests'[k] # None \/ envs'[k] # None, k # n
                     PROVE  \/ k >= NextNumber
                            \/ \E i \in 1..Len(Recorded) : Recorded[i].id = k
                            \/ k \in lost
          BY <3>1, <3>2, <3>4, Sizes DEF NothingLeaks
        <4>1. manifests[k] # None \/ envs[k] # None
          BY <3>3
        <4> QED BY <2>3, <4>1 DEF EngineInv, NothingLeaks, OneProcess
      <3> QED BY <3>4, <3>5, <3>6
    <2>4. ~UNCHANGED files => pc[p] \in {"save", "create", "saveEnv"}
      BY <1>1 DEF files
    <2>5. pc[p] = "save" /\ ~UNCHANGED files => history' = Torn
      BY <1>1 DEF files
    <2> QED BY <2>1, <2>2, <2>3, <2>4, <2>5
  <1> QED BY <1>3, <1>4, Alone DEF EngineInv

LEMMA DeleteFailsKeeps ==
  ASSUME OneProcess, EngineInv, NEW p \in Proc, DeleteFails(p)
  PROVE  EngineInv'
  <1> DEFINE n == Head(evicted[p]).id
  <1>1. /\ pc[p] \in {"delete", "removeEnv"} /\ evicted[p] # << >>
        /\ lost' = lost \cup {n}
        /\ UNCHANGED <<disk, history, manifests, envs, env, size, h, target>>
    BY DEF DeleteFails, files
  <1>2. \/ /\ pc[p] = "delete" /\ pc' = [pc EXCEPT ![p] = "removeEnv"]
           /\ evicted' = evicted
        \/ /\ pc[p] = "removeEnv" /\ pc' = [pc EXCEPT ![p] = "delete"]
           /\ evicted' = [evicted EXCEPT ![p] = Tail(@)]
    BY <1>1 DEF DeleteFails, Go
  <1>3. /\ n \in Id /\ n \in Left(p) /\ Tail(evicted[p]) \in Seq(Record)
        /\ IdsOf(Tail(evicted[p])) \subseteq Left(p)
        /\ Left(p) \subseteq IdsOf(Tail(evicted[p])) \cup {n}
    BY <1>1, EvictedFacts
  <1> HIDE DEF n
  <1>4. EngineTypeOK'
    BY <1>1, <1>2, <1>3 DEF EngineInv, EngineTypeOK
  <1>5. /\ LatestKept' /\ RecordsAreTrue'
        /\ Recorded' = Recorded /\ NextNumber' = NextNumber
    BY <1>1 DEF EngineInv, LatestKept, Latest, RecordsAreTrue, Recorded, NextNumber
  <1>6. \/ pc'[p] = "removeEnv" /\ evicted'[p] = evicted[p]
        \/ pc'[p] = "delete" /\ evicted'[p] = Tail(evicted[p])
    BY <1>2 DEF EngineInv, EngineTypeOK
  <1>7. Left(p)' \subseteq Left(p) /\ Left(p) \subseteq Left(p)' \cup {n}
    <2>1. CASE evicted'[p] = evicted[p]
      BY <2>1 DEF Left
    <2>2. CASE evicted'[p] = Tail(evicted[p])
      <3>1. Left(p)' = IdsOf(Tail(evicted[p]))
        BY <2>2 DEF Left, IdsOf
      <3> QED BY <1>3, <3>1
    <2> QED BY <1>6, <2>1, <2>2
  <1>8. NothingLeaks'
    <2> SUFFICES ASSUME NEW k \in Id, manifests[k] # None \/ envs[k] # None
                 PROVE  \/ k >= NextNumber
                        \/ \E i \in 1..Len(Recorded) : Recorded[i].id = k
                        \/ k \in Left(p)'
                        \/ k \in lost'
      BY <1>1, <1>5, <1>6 DEF NothingLeaks
    <2>1. \/ k >= NextNumber
          \/ \E i \in 1..Len(Recorded) : Recorded[i].id = k
          \/ k \in Left(p)
          \/ k \in lost
      BY DEF EngineInv, NothingLeaks, OneProcess
    <2> QED BY <1>1, <1>7, <2>1
  <1>9. PlaceInv(p)'
    <2>1. Left(p) \cap IdsOf(h[p].items) = {}
      BY <1>1 DEF EngineInv, PlaceInv, LeftIsOut
    <2>2. IdsOf(h[p].items)' = IdsOf(h[p].items)
      BY <1>1 DEF IdsOf
    <2>3. LeftIsOut(p)'
      BY <1>7, <2>1, <2>2 DEF LeftIsOut
    <2>4. HalfDeleted(p)'
      BY <1>1, <1>6 DEF HalfDeleted, n
    <2>5. HasHistory(p)' /\ AfterSave(p)'
      BY <1>1, <1>6 DEF EngineInv, PlaceInv, HasHistory, AfterSave
    <2> QED BY <1>6, <2>3, <2>4, <2>5
        DEF PlaceInv, InCommand, HasSnapshot, HasEnv, BeforeSave, Restores
  <1> QED BY <1>4, <1>5, <1>8, <1>9, Alone DEF EngineInv
-----------------------------------------------------------------------------
LEMMA InitEngine == ASSUME Init PROVE EngineInv
  <1>1. EngineTypeOK
    BY EngineAssumption DEF Init, EngineTypeOK
  <1>2. LatestKept /\ RecordsAreTrue /\ NothingLeaks
    BY DEF Init, LatestKept, Latest, RecordsAreTrue, NothingLeaks, Recorded
  <1>3. \A p \in Proc : PlaceInv(p)
    BY DEF Init, PlaceInv, HasHistory, InCommand, HasSnapshot, HasEnv, BeforeSave, AfterSave,
           LeftIsOut, HalfDeleted, Restores
  <1> QED BY <1>1, <1>2, <1>3 DEF EngineInv

LEMMA StepEngine ==
  ASSUME OneProcess, EngineInv, [Next]_vars
  PROVE  EngineInv'
  <1>1. CASE UNCHANGED vars
    <2>1. UNCHANGED <<disk, history, manifests, envs, env, size, pc, h, evicted, target, lost>>
      BY <1>1 DEF vars, files, local
    <2>2. EngineTypeOK' /\ LatestKept' /\ RecordsAreTrue' /\ NothingLeaks'
      BY <2>1 DEF EngineInv, EngineTypeOK, LatestKept, RecordsAreTrue, NothingLeaks,
                  Recorded, NextNumber, Left
    <2>3. \A p \in Proc : PlaceInv(p)'
      <3> SUFFICES ASSUME NEW p \in Proc PROVE PlaceInv(p)'
        OBVIOUS
      <3>1. PlaceInv(p)
        BY DEF EngineInv
      <3>2. /\ Left(p)' = Left(p) /\ IdsOf(h[p].items)' = IdsOf(h[p].items)
            /\ Recorded' = Recorded /\ NextNumber' = NextNumber
            /\ IdsOf(Recorded)' = IdsOf(Recorded)
        BY <2>1 DEF Left, IdsOf, Recorded, NextNumber
      <3>3. BeforeSave(p)'
        BY <2>1, <3>1, <3>2 DEF PlaceInv, BeforeSave, Latest, IsTrue
      <3>4. LeftIsOut(p)' /\ HalfDeleted(p)'
        BY <2>1, <3>1, <3>2 DEF PlaceInv, LeftIsOut, HalfDeleted
      <3>5. HasHistory(p)' /\ InCommand(p)' /\ HasSnapshot(p)' /\ HasEnv(p)'
        BY <2>1, <3>1 DEF PlaceInv, HasHistory, InCommand, HasSnapshot, HasEnv, Opened
      <3>6. AfterSave(p)' /\ Restores(p)'
        BY <2>1, <3>1, <3>2 DEF PlaceInv, AfterSave, Restores
      <3> QED BY <3>3, <3>4, <3>5, <3>6 DEF PlaceInv
    <2> QED BY <2>2, <2>3 DEF EngineInv
  <1>2. ASSUME NEW p \in Proc, ExecuteCommandIn(p)
        PROVE  EngineInv'
    BY <1>2, LoadHistoryKeeps, CreateSnapshotKeeps, SaveEnvKeeps, RunKeeps, SaveHistoryKeeps,
       DeleteSnapshotKeeps, RemoveEnvKeeps, EndCommandKeeps DEF ExecuteCommandIn
  <1>3. ASSUME NEW p \in Proc, Restore(p)
        PROVE  EngineInv'
    BY <1>3, BeginRestoreKeeps, RestoreDiskKeeps, RestoreEnvKeeps DEF Restore
  <1>4. ASSUME NEW p \in Proc, StorageError(p)
        PROVE  EngineInv'
    <2>1. CutShort(p) /\ env' \in [Proc -> Env] /\ size' \in [Proc -> Size]
      BY <1>4 DEF StorageError, EngineInv, EngineTypeOK
    <2> QED BY <2>1, CutShortKeeps
  <1>5. ASSUME NEW p \in Proc, Restart(p)
        PROVE  EngineInv'
    <2>1. CutShort(p) /\ env' \in [Proc -> Env] /\ size' \in [Proc -> Size]
      BY <1>5 DEF Restart, EngineInv, EngineTypeOK
    <2> QED BY <2>1, CutShortKeeps
  <1> QED BY <1>1, <1>2, <1>3, <1>4, <1>5, DeleteFailsKeeps DEF Next

LEMMA EngineInvariant == ASSUME OneProcess PROVE Spec => []EngineInv
  <1>1. Init => EngineInv
    BY InitEngine
  <1>2. EngineInv /\ [Next]_vars => EngineInv'
    BY StepEngine
  <1> QED BY <1>1, <1>2, PTL DEF Spec

(* Every variable keeps its type.                                          *)
THEOREM EngineIsTyped == ASSUME OneProcess PROVE Spec => []EngineTypeOK
  <1>1. EngineInv => EngineTypeOK
    BY DEF EngineInv
  <1> QED BY <1>1, EngineInvariant, PTL

(***************************************************************************)
(* Every record has the snapshot and the environment its command started   *)
(* from, whatever failed or crashed, as long as one process at a time has  *)
(* the state directory.  The run has one process; with two it is not true. *)
(***************************************************************************)
THEOREM RecordsHold == ASSUME OneProcess PROVE Spec => []RecordsAreTrue
  <1>1. EngineInv => RecordsAreTrue
    BY DEF EngineInv
  <1> QED BY <1>1, EngineInvariant, PTL

(***************************************************************************)
(* The history is the latest commands without a gap, as many as the option *)
(* --history-size allows, as long as the option is always the same.  The   *)
(* size in the file goes unnoticed only then.                              *)
(***************************************************************************)
THEOREM TheLatestAreKept == ASSUME OneProcess, OneSize PROVE Spec => []KeepsTheLatest
  <1>1. EngineInv => KeepsTheLatest
    <2> SUFFICES ASSUME EngineInv, history \notin {None, Torn}
                 PROVE  /\ \A p \in Proc : history.max = size[p]
                        /\ Latest(history)
      BY DEF KeepsTheLatest, Latest
    <2>1. history.max \in Size /\ \A p \in Proc : size[p] \in Size
      BY DEF EngineInv, EngineTypeOK, History
    <2> QED BY <2>1 DEF EngineInv, LatestKept, OneSize
  <1> QED BY <1>1, EngineInvariant, PTL

(***************************************************************************)
(* A snapshot or an environment file is recorded, about to be deleted,     *)
(* about to be overwritten, or left by a deletion that failed.             *)
(***************************************************************************)
THEOREM NoFileLeaks == ASSUME OneProcess PROVE Spec => []NothingLeaks
  <1>1. EngineInv => NothingLeaks
    BY DEF EngineInv
  <1> QED BY <1>1, EngineInvariant, PTL

(***************************************************************************)
(* A restore by number that succeeds brings back the disk and the          *)
(* environment of the moment before the command.                           *)
(***************************************************************************)
THEOREM RestoreIsTrue == ASSUME OneProcess PROVE Spec => RestoreBringsBack
  <1> DEFINE Back == \A p \in Proc : RestoreEnv(p) =>
                       disk = target[p].before /\ env'[p] = target[p].env
  <1>1. EngineInv /\ [Next]_vars => [Back]_vars
    <2> SUFFICES ASSUME EngineInv, NEW p \in Proc, RestoreEnv(p)
                 PROVE  disk = target[p].before /\ env'[p] = target[p].env
      OBVIOUS
    <2>1. pc[p] = "restoreEnv" /\ disk = target[p].before
      BY DEF RestoreEnv, EngineInv, PlaceInv, Restores
    <2>2. target[p] \in Record /\ envs[target[p].id] = target[p].env
      BY <2>1, TargetIsTrue
    <2>3. target[p].env \in Env
      BY <2>2 DEF Record
    <2>4. env' = [env EXCEPT ![p] = target[p].env]
      BY <2>2, <2>3 DEF RestoreEnv
    <2> QED BY <2>1, <2>4 DEF EngineInv, EngineTypeOK
  <1> QED BY <1>1, EngineInvariant, PTL DEF Spec, RestoreBringsBack
=============================================================================
