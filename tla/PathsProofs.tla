---------------------------- MODULE PathsProofs ----------------------------
(***************************************************************************)
(* Facts about Paths that hold for every set of names.  The proofs about   *)
(* the backend use them in place of the definition of Within.              *)
(***************************************************************************)
EXTENDS Paths, WellFoundedInduction, TLAPS

(* IsPrefix, element by element.                                           *)
LEMMA PrefixElements ==
  ASSUME NEW S, NEW a \in Seq(S), NEW p \in Seq(S)
  PROVE  IsPrefix(a, p) <=> Len(a) <= Len(p) /\ \A i \in 1..Len(a) : a[i] = p[i]
  BY DEF IsPrefix

LEMMA WithinElements ==
  ASSUME NEW S, NEW a \in Seq(S), NEW p \in Seq(S)
  PROVE  Within(a, p) <=>
           a = p \/ (a # << >> /\ Len(a) <= Len(p) /\ \A i \in 1..Len(a) : a[i] = p[i])
  BY PrefixElements DEF Within

(* within(p, p).                                                           *)
LEMMA WithinReflexive ==
  ASSUME NEW S, NEW p \in Seq(S)
  PROVE  Within(p, p)
  BY DEF Within

(* What is inside a directory inside a directory is inside the outer one.  *)
LEMMA WithinTransitive ==
  ASSUME NEW S, NEW a \in Seq(S), NEW b \in Seq(S), NEW c \in Seq(S),
         Within(a, b), Within(b, c)
  PROVE  Within(a, c)
  <1>1. CASE a = b \/ b = c
    BY <1>1
  <1>2. CASE a # b /\ b # c
    <2>1. a # << >> /\ Len(a) <= Len(b) /\ \A i \in 1..Len(a) : a[i] = b[i]
      BY <1>2, WithinElements
    <2>2. Len(b) <= Len(c) /\ \A i \in 1..Len(b) : b[i] = c[i]
      BY <1>2, WithinElements
    <2>3. Len(a) \in Nat /\ Len(b) \in Nat /\ Len(c) \in Nat
      OBVIOUS
    <2>4. Len(a) <= Len(c) /\ \A i \in 1..Len(a) : a[i] = c[i]
      BY <2>1, <2>2, <2>3
    <2> QED BY <2>1, <2>4, WithinElements
  <1> QED BY <1>1, <1>2

(* A path strictly inside another is longer.                               *)
LEMMA WithinLonger ==
  ASSUME NEW S, NEW a \in Seq(S), NEW p \in Seq(S), Within(a, p), a # p
  PROVE  a # << >> /\ Len(a) < Len(p)
  <1>1. a # << >> /\ Len(a) <= Len(p) /\ \A i \in 1..Len(a) : a[i] = p[i]
    BY WithinElements
  <1>2. Len(a) # Len(p)
    BY <1>1
  <1> QED BY <1>1, <1>2

LEMMA WithinAntisymmetric ==
  ASSUME NEW S, NEW a \in Seq(S), NEW b \in Seq(S), Within(a, b), Within(b, a)
  PROVE  a = b
  BY WithinLonger

(* filepath.Join(base, name) is inside base, and base is its directory.    *)
LEMMA JoinedPath ==
  ASSUME NEW S, NEW b \in Seq(S), b # << >>, NEW n \in S
  PROVE  /\ Append(b, n) \in Seq(S)
         /\ Parent(Append(b, n)) = b
         /\ Within(b, Append(b, n))
         /\ Append(b, n) # b
  <1>1. /\ Append(b, n) \in Seq(S) /\ Len(Append(b, n)) = Len(b) + 1
        /\ Len(b) \in Nat
        /\ \A i \in 1..Len(b) : Append(b, n)[i] = b[i]
    OBVIOUS
  <1> DEFINE j == Append(b, n)
  <1> HIDE DEF j
  <1>2. Within(b, j)
    <2>1. j \in Seq(S) /\ Len(b) <= Len(j) /\ \A i \in 1..Len(b) : b[i] = j[i]
      BY <1>1 DEF j
    <2> QED BY <2>1, WithinElements
  <1>3. Parent(Append(b, n)) = b
    BY <1>1 DEF Parent, Front
  <1>4. j # b
    BY <1>1 DEF j
  <1> QED BY <1>1, <1>2, <1>3, <1>4 DEF j

(* A path with a directory is that directory joined with its last name.    *)
LEMMA SplitPath ==
  ASSUME NEW S, NEW p \in Seq(S), Len(p) > 1
  PROVE  /\ Parent(p) \in Seq(S) /\ Parent(p) # << >>
         /\ p[Len(p)] \in S
         /\ Append(Parent(p), p[Len(p)]) = p
  <1> DEFINE d == Parent(p)
  <1>1. Len(p) \in Nat /\ p[Len(p)] \in S
    OBVIOUS
  <1>2. d \in Seq(S) /\ Len(d) = Len(p) - 1 /\ \A i \in 1..Len(d) : d[i] = p[i]
    BY <1>1 DEF Parent, Front
  <1> HIDE DEF d
  <1>3. /\ Append(d, p[Len(p)]) \in Seq(S)
        /\ Len(Append(d, p[Len(p)])) = Len(p)
        /\ \A i \in 1..Len(p) : Append(d, p[Len(p)])[i] = p[i]
    BY <1>1, <1>2
  <1>4. Append(d, p[Len(p)]) = p
    BY <1>1, <1>3
  <1>5. d # << >>
    BY <1>1, <1>2
  <1> QED BY <1>1, <1>2, <1>4, <1>5 DEF d

(* Whatever strictly contains p contains the directory of p.               *)
LEMMA WithinParent ==
  ASSUME NEW S, NEW a \in Seq(S), NEW p \in Seq(S), Within(a, p), a # p
  PROVE  Len(p) > 1 /\ Within(a, Parent(p))
  <1>1. a # << >> /\ Len(a) < Len(p) /\ \A i \in 1..Len(a) : a[i] = p[i]
    BY WithinLonger, WithinElements
  <1>2. Len(a) \in Nat \ {0} /\ Len(p) \in Nat
    BY <1>1
  <1>3. Parent(p) \in Seq(S) /\ Len(Parent(p)) = Len(p) - 1
        /\ \A i \in 1..(Len(p) - 1) : Parent(p)[i] = p[i]
    BY <1>1, <1>2 DEF Parent, Front
  <1> QED BY <1>1, <1>2, <1>3, WithinElements

(***************************************************************************)
(* The entry of directory p on the way to a path q inside it.              *)
(***************************************************************************)
StepTowards(p, q) == SubSeq(q, 1, Len(p) + 1)

LEMMA StepTowardsIsChild ==
  ASSUME NEW S, NEW p \in Seq(S), NEW q \in Seq(S), Within(p, q), p # q
  PROVE  LET c == StepTowards(p, q)
         IN  /\ c \in Seq(S) /\ Len(c) > 1 /\ Len(c) \in 1..Len(q)
             /\ c = SubSeq(q, 1, Len(c))
             /\ Parent(c) = p
             /\ Within(c, q)
  <1> DEFINE c == StepTowards(p, q)
  <1>1. p # << >> /\ Len(p) < Len(q) /\ \A i \in 1..Len(p) : p[i] = q[i]
    BY WithinLonger, WithinElements
  <1>2. Len(p) \in Nat \ {0} /\ Len(q) \in Nat
    BY <1>1
  <1>3. c \in Seq(S) /\ Len(c) = Len(p) + 1 /\ \A i \in 1..(Len(p) + 1) : c[i] = q[i]
    BY <1>1, <1>2 DEF StepTowards
  <1>4. Within(c, q)
    BY <1>1, <1>2, <1>3, WithinElements
  <1>5. Parent(c) = p
    BY <1>1, <1>2, <1>3 DEF Parent, Front
  <1> QED BY <1>2, <1>3, <1>4, <1>5, <1>1 DEF StepTowards

(* Of two directories that contain p one contains the other.               *)
LEMMA WithinComparable ==
  ASSUME NEW S, NEW a \in Seq(S), NEW b \in Seq(S), NEW p \in Seq(S),
         Within(a, p), Within(b, p)
  PROVE  Within(a, b) \/ Within(b, a)
  <1>1. CASE a = p \/ b = p
    BY <1>1
  <1>2. CASE a # p /\ b # p
    <2>1. /\ a # << >> /\ b # << >>
          /\ Len(a) \in Nat /\ Len(b) \in Nat
          /\ Len(a) <= Len(p) /\ \A i \in 1..Len(a) : a[i] = p[i]
          /\ Len(b) <= Len(p) /\ \A i \in 1..Len(b) : b[i] = p[i]
      BY <1>2, WithinElements
    <2>2. CASE Len(a) <= Len(b)
      <3>1. \A i \in 1..Len(a) : a[i] = b[i]
        BY <2>1, <2>2
      <3> QED BY <2>1, <2>2, <3>1, WithinElements
    <2>3. CASE Len(b) <= Len(a)
      <3>1. \A i \in 1..Len(b) : b[i] = a[i]
        BY <2>1, <2>3
      <3> QED BY <2>1, <2>3, <3>1, WithinElements
    <2> QED BY <2>1, <2>2, <2>3
  <1> QED BY <1>1, <1>2

(* A set of numbers has a least one: what stands in for induction here.    *)
LEMMA LeastNumber ==
  ASSUME NEW T, T \subseteq Nat, T # {}
  PROVE  \E m \in T : \A n \in T : m <= n
  <1> DEFINE R == {s \in Nat \X Nat : s[1] < s[2]}
  <1>1. IsWellFoundedOn(R, Nat)
    BY NatLessThanWellFounded DEF OpToRel
  <1>2. \A x, y \in Nat : x < y => <<x, y>> \in R
    OBVIOUS
  <1> HIDE DEF R
  <1>3. PICK m \in T : \A n \in T : <<n, m>> \notin R
    BY <1>1, WFMin
  <1>4. \A n \in T : ~(n < m) /\ n \in Nat /\ m \in Nat
    BY <1>2, <1>3
  <1> QED BY <1>3, <1>4

(* Of some paths one is shortest.                                          *)
LEMMA ShortestPath ==
  ASSUME NEW S, NEW T, T \subseteq Seq(S), T # {}
  PROVE  \E x \in T : \A y \in T : Len(x) <= Len(y)
  <1> DEFINE L == {Len(x) : x \in T}
  <1>1. L \subseteq Nat
    <2>1. \A x \in T : Len(x) \in Nat
      OBVIOUS
    <2> QED BY <2>1
  <1>2. L # {}
    OBVIOUS
  <1>3. PICK m \in L : \A n \in L : m <= n
    <2> HIDE DEF L
    <2> QED BY <1>1, <1>2, LeastNumber
  <1>4. PICK x \in T : Len(x) = m
    BY <1>3
  <1>5. \A y \in T : Len(y) \in L
    OBVIOUS
  <1> QED BY <1>3, <1>4, <1>5

(***************************************************************************)
(* Compaction loses nothing: a dirty path that is dropped is inside one    *)
(* that is reconciled.                                                     *)
(***************************************************************************)
THEOREM CompactCovers ==
  ASSUME NEW S, NEW C, C \subseteq Seq(S), NEW p \in C
  PROVE  \E k \in Compact(C) : Within(k, p)
  <1> DEFINE T == {q \in C : Within(q, p)}
  <1>1. T \subseteq Seq(S) /\ p \in T
    BY WithinReflexive
  <1>2. PICK k \in T : \A y \in T : Len(k) <= Len(y)
    <2> HIDE DEF T
    <2> QED BY <1>1, ShortestPath
  <1>3. ASSUME NEW q \in C, Within(q, k)
        PROVE  q = k
    <2>1. Within(q, p) /\ q \in Seq(S) /\ k \in Seq(S)
      BY <1>2, <1>3, WithinTransitive
    <2>2. Len(k) <= Len(q) /\ Len(k) \in Nat /\ Len(q) \in Nat
      BY <1>2, <2>1
    <2>3. q # k => Len(q) < Len(k)
      BY <1>3, <2>1, WithinLonger
    <2> QED BY <2>2, <2>3
  <1> QED BY <1>2, <1>3 DEF Compact

(***************************************************************************)
(* Of roots that do not contain one another matchRoot returns the only one *)
(* that contains the path, whatever order it looks at them in.             *)
(***************************************************************************)
THEOREM MatchRootIsOwner ==
  ASSUME NEW S, NEW R, R \subseteq Seq(S), \A a, b \in R : Within(a, b) => a = b,
         NEW p \in Seq(S), NEW r \in R, Within(r, p)
  PROVE  MatchRoot(R, p) = r
  <1> DEFINE covering == {q \in R : Within(q, p)}
  <1>1. \A q \in covering : q = r
    <2> SUFFICES ASSUME NEW q \in covering PROVE q = r
      OBVIOUS
    <2>1. q \in Seq(S) /\ r \in Seq(S) /\ Within(q, p)
      OBVIOUS
    <2>2. Within(q, r) \/ Within(r, q)
      BY <2>1, WithinComparable
    <2> QED BY <2>2
  <1>2. covering = {r}
    BY <1>1
  <1>3. \A s \in {r} : Len(s) <= Len(r)
    OBVIOUS
  <1> QED BY <1>2, <1>3 DEF MatchRoot

(***************************************************************************)
(* Compaction leaves no path inside another: a dirty subtree is reconciled *)
(* once, and an entry has one root.                                        *)
(***************************************************************************)
THEOREM CompactIsAntichain ==
  ASSUME NEW C, NEW a \in Compact(C), NEW b \in Compact(C), Within(a, b)
  PROVE  a = b
  BY DEF Compact

(* A loop over a list has a result: KeepOutermost is well defined.         *)
LEMMA LoopExists ==
  ASSUME NEW list, NEW last \in Nat
  PROVE  \E out : out = [n \in 0..last |-> IF n = 0 THEN << >> ELSE Keep(out[n - 1], list[n])]
  <1> DEFINE Runs(N) ==
        \E out : out = [n \in 0..N |-> IF n = 0 THEN << >> ELSE Keep(out[n - 1], list[n])]
  <1>1. Runs(0)
    <2>1. [n \in 0..0 |-> << >>] = [n \in 0..0 |->
            IF n = 0 THEN << >> ELSE Keep([k \in 0..0 |-> << >>][n - 1], list[n])]
      OBVIOUS
    <2> QED BY <2>1
  <1>2. ASSUME NEW N \in Nat, Runs(N)
        PROVE  Runs(N + 1)
    <2>1. PICK out :
            out = [n \in 0..N |-> IF n = 0 THEN << >> ELSE Keep(out[n - 1], list[n])]
      BY <1>2
    <2> DEFINE next == [n \in 0..(N + 1) |-> IF n <= N THEN out[n] ELSE Keep(out[N], list[N + 1])]
    <2>2. ASSUME NEW n \in 0..(N + 1)
          PROVE  next[n] = IF n = 0 THEN << >> ELSE Keep(next[n - 1], list[n])
      <3>1. CASE n = 0
        BY <2>1, <3>1
      <3>2. CASE n \in 1..N
        <4>1. n - 1 \in 0..N /\ n \in 0..N /\ n # 0
          BY <3>2
        <4>2. next[n] = out[n] /\ next[n - 1] = out[n - 1]
          BY <4>1
        <4> HIDE DEF next
        <4>3. out[n] = Keep(out[n - 1], list[n])
          BY <2>1, <4>1
        <4> QED BY <4>1, <4>2, <4>3
      <3>3. CASE n = N + 1
        BY <3>3
      <3> QED BY <3>1, <3>2, <3>3
    <2>3. next = [n \in 0..(N + 1) |-> IF n = 0 THEN << >> ELSE Keep(next[n - 1], list[n])]
      BY <2>2
    <2> QED BY <2>3
  <1> HIDE DEF Runs
  <1>3. ASSUME ~Runs(last)
        PROVE  FALSE
    <2> DEFINE T == {N \in Nat : ~Runs(N)}
    <2>1. PICK m \in T : \A n \in T : m <= n
      BY <1>3, LeastNumber
    <2>2. m # 0 /\ m - 1 \in Nat /\ m - 1 \notin T
      BY <1>1, <2>1
    <2> QED BY <1>2, <2>1, <2>2
  <1> QED BY <1>3 DEF Runs

(* One turn of the loop, on a list in which a container comes first.       *)
LEMMA KeepStep ==
  ASSUME NEW S, NEW C \in SUBSET Seq(S), NEW out \in Seq(Seq(S)), NEW p \in Seq(S),
         ToSet(out) = Compact(C), \A q \in C : Within(p, q) => q = p
  PROVE  Keep(out, p) \in Seq(Seq(S)) /\ ToSet(Keep(out, p)) = Compact(C \cup {p})
  <1>1. Compact(C) \subseteq C
    BY DEF Compact
  <1>2. CASE \E k \in ToSet(out) : Within(k, p)
    <2>1. PICK k \in Compact(C) : Within(k, p)
      BY <1>2
    <2>2. k \in C /\ \A q \in C : Within(q, k) => q = k
      BY <2>1 DEF Compact
    <2>3. ASSUME p \in Compact(C \cup {p})
          PROVE  p \in Compact(C)
      <3>1. k = p
        BY <2>1, <2>2, <2>3 DEF Compact
      <3> QED BY <2>1, <3>1
    <2>4. ASSUME NEW c \in Compact(C)
          PROVE  c \in Compact(C \cup {p})
      <3>1. c \in C /\ (\A q \in C : Within(q, c) => q = c)
        BY DEF Compact
      <3>2. Within(p, c) => p = c
        BY <3>1
      <3> QED BY <3>1, <3>2 DEF Compact
    <2>5. Compact(C \cup {p}) \subseteq Compact(C)
      BY <2>3 DEF Compact
    <2> QED BY <1>2, <2>4, <2>5 DEF Keep
  <1>3. CASE ~ \E k \in ToSet(out) : Within(k, p)
    <2>1. ASSUME NEW c \in C, Within(c, p)
          PROVE  FALSE
      <3>1. PICK k \in Compact(C) : Within(k, c)
        BY CompactCovers
      <3>2. k \in Seq(S) /\ c \in Seq(S)
        BY <1>1, <3>1
      <3>3. Within(k, p)
        BY <2>1, <3>1, <3>2, WithinTransitive
      <3> QED BY <1>3, <3>1, <3>3
    <2>2. Compact(C \cup {p}) = Compact(C) \cup {p}
      <3>1. p \in Compact(C \cup {p})
        BY <2>1 DEF Compact
      <3>2. ASSUME NEW c \in Compact(C)
            PROVE  c \in Compact(C \cup {p})
        BY DEF Compact
      <3>3. Compact(C \cup {p}) \subseteq Compact(C) \cup {p}
        BY DEF Compact
      <3> QED BY <3>1, <3>2, <3>3
    <2>3. Keep(out, p) = Append(out, p)
      BY <1>3 DEF Keep
    <2>4. ToSet(Append(out, p)) = ToSet(out) \cup {p}
      <3>1. /\ DOMAIN Append(out, p) = 1..(Len(out) + 1) /\ DOMAIN out = 1..Len(out)
            /\ \A i \in 1..Len(out) : Append(out, p)[i] = out[i]
            /\ Append(out, p)[Len(out) + 1] = p
            /\ Len(out) \in Nat
        OBVIOUS
      <3>2. \A i \in 1..(Len(out) + 1) : i \in 1..Len(out) \/ i = Len(out) + 1
        BY <3>1
      <3>3. 1..Len(out) \subseteq 1..(Len(out) + 1) /\ Len(out) + 1 \in 1..(Len(out) + 1)
        BY <3>1
      <3> QED BY <3>1, <3>2, <3>3, Zenon DEF ToSet
    <2>5. Append(out, p) \in Seq(Seq(S))
      OBVIOUS
    <2> QED BY <2>2, <2>3, <2>4, <2>5
  <1> QED BY <1>2, <1>3

(***************************************************************************)
(* compactRoots and compactDirtyPaths keep the outermost paths, once each, *)
(* of every list in which no path comes after one it contains.             *)
(***************************************************************************)
THEOREM KeepOutermostIsCompact ==
  ASSUME NEW S, NEW list \in Seq(Seq(S)),
         \A i, j \in 1..Len(list) : i < j /\ Within(list[j], list[i]) => list[i] = list[j]
  PROVE  ToSet(KeepOutermost(list)) = Compact(ToSet(list))
  <1> DEFINE First(n) == {list[i] : i \in 1..n}
  <1>1. PICK kept : /\ KeepOutermost(list) = kept[Len(list)]
                    /\ kept = [n \in 0..Len(list) |->
                                 IF n = 0 THEN << >> ELSE Keep(kept[n - 1], list[n])]
    <2>1. Len(list) \in Nat
      OBVIOUS
    <2>2. \E out : out = [n \in 0..Len(list) |->
                            IF n = 0 THEN << >> ELSE Keep(out[n - 1], list[n])]
      BY <2>1, LoopExists
    <2> QED BY <2>2, Zenon DEF KeepOutermost
  <1>2. Len(list) \in Nat /\ \A n \in 1..Len(list) :
           n \in Nat /\ n # 0 /\ n \in 0..Len(list) /\ n - 1 \in 0..Len(list)
    OBVIOUS
  <1>3. kept[0] = << >> /\ \A n \in 1..Len(list) : kept[n] = Keep(kept[n - 1], list[n])
    <2>1. 0 \in 0..Len(list)
      BY <1>2
    <2>2. \A n \in 0..Len(list) :
             kept[n] = IF n = 0 THEN << >> ELSE Keep(kept[n - 1], list[n])
      BY <1>1, Zenon
    <2> QED BY <1>2, <2>1, <2>2
  <1> DEFINE Right(n) == kept[n] \in Seq(Seq(S)) /\ ToSet(kept[n]) = Compact(First(n))
  <1>4. Right(0)
    <2>1. ToSet(<< >>) = {} /\ Compact(First(0)) = {} /\ << >> \in Seq(Seq(S))
      BY DEF ToSet, Compact
    <2> QED BY <1>3, <2>1
  <1>5. ASSUME NEW n \in 1..Len(list), Right(n - 1)
        PROVE  Right(n)
    <2>1. First(n - 1) \subseteq Seq(S) /\ list[n] \in Seq(S)
      BY <1>2
    <2>2. ASSUME NEW q \in First(n - 1), Within(list[n], q)
          PROVE  q = list[n]
      <3>1. PICK i \in 1..(n - 1) : q = list[i]
        OBVIOUS
      <3>2. i \in 1..Len(list) /\ i < n
        BY <1>2
      <3> QED BY <2>2, <3>1, <3>2
    <2>3. First(n) = First(n - 1) \cup {list[n]}
      <3>1. 1..n = 1..(n - 1) \cup {n}
        BY <1>2
      <3> QED BY <3>1, Zenon
    <2>4. kept[n - 1] \in Seq(Seq(S)) /\ ToSet(kept[n - 1]) = Compact(First(n - 1))
      BY <1>5
    <2> HIDE DEF First
    <2>5. /\ Keep(kept[n - 1], list[n]) \in Seq(Seq(S))
          /\ ToSet(Keep(kept[n - 1], list[n])) = Compact(First(n - 1) \cup {list[n]})
      <3> DEFINE C == First(n - 1)
                 out == kept[n - 1]
                 p == list[n]
      <3>1. /\ C \in SUBSET Seq(S) /\ out \in Seq(Seq(S)) /\ p \in Seq(S)
            /\ ToSet(out) = Compact(C) /\ \A q \in C : Within(p, q) => q = p
        BY <2>1, <2>2, <2>4
      <3> HIDE DEF C, out, p
      <3>2. ToSet(Keep(out, p)) = Compact(C \cup {p})
        BY <3>1, KeepStep
      <3>3. Keep(out, p) \in Seq(Seq(S))
        BY <3>1 DEF Keep
      <3> QED BY <3>2, <3>3 DEF C, out, p
    <2>6. kept[n] = Keep(kept[n - 1], list[n])
      BY <1>3
    <2> QED BY <2>3, <2>5, <2>6
  <1> HIDE DEF Right
  <1>6. ASSUME ~Right(Len(list))
        PROVE  FALSE
    <2> DEFINE T == {n \in 0..Len(list) : ~Right(n)}
    <2>1. T \subseteq Nat /\ T # {}
      BY <1>6
    <2>2. PICK m \in T : \A n \in T : m <= n
      <3> HIDE DEF T
      <3> QED BY <2>1, LeastNumber
    <2>3. m # 0 /\ m \in 1..Len(list) /\ m - 1 \in 0..Len(list) /\ m - 1 \notin T
      BY <1>4, <2>2
    <2> QED BY <1>5, <2>2, <2>3
  <1>7. First(Len(list)) = ToSet(list)
    BY DEF ToSet
  <1> QED BY <1>1, <1>6, <1>7 DEF Right
=============================================================================
