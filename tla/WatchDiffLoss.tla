--------------------------- MODULE WatchDiffLoss ---------------------------
(***************************************************************************)
(* What WatchDiff may lose where its watcher goes deaf, and how far that   *)
(* goes: two history variables note, from the outside, which changes       *)
(* nobody was there to see and which directories a restore had to make.    *)
(* Neither is read by a step of WatchDiff.                                 *)
(***************************************************************************)
EXTENDS WatchDiff

VARIABLES
  missed,  \* paths that have changed while the watcher had no reader
  made     \* directories that the last restore made for what is in them,
           \* because its manifest lacks them, and that are still the same

lossVars == <<vars, missed, made>>

Changed(p) == Kind(fs'[p]) # Kind(fs[p])

(***************************************************************************)
(* A scan of everything, or a restore that ends, starts afresh; a scan     *)
(* that fails has used up what was known.                                  *)
(***************************************************************************)
Missed ==
  missed' = CASE ScanFails                             -> Path
              [] AdoptTarget                           -> {}
              [] BeginSync /\ (forceFull \/ NoCurrent) -> {}
              [] OTHER -> IF reader = "running" THEN missed
                                                ELSE missed \cup {p \in Path : Changed(p)}

(* os.MkdirAll makes the directories above a path it is asked for.         *)
MadeFor(m) ==
  {p \in Path : IsDir(p) /\ \E r \in m.roots : /\ Within(r, p) /\ p # r
                                              /\ m.entries[r][p] = Absent
                                              /\ HoldsSomeOf(m, r, p)}

Made ==
  made' = IF AdoptTarget THEN MadeFor(target) ELSE {p \in made : ~Changed(p)}

LossInit == Init /\ missed = {} /\ made = {}
LossNext == FixedRoots /\ Missed /\ Made
LossSpec == LossInit /\ [][LossNext]_lossVars
-----------------------------------------------------------------------------
(* Every directory on the way to p is watched under its own name.          *)
InSight(r, p) ==
  \A a \in Path : Within(r, a) /\ Within(a, p) /\ a # p /\ IsDir(a) => WatchedAs(a)

(***************************************************************************)
(* Where the watcher goes deaf, the loss is confined.  With a reader, only *)
(* an entry below a directory that is not watched under its own name is    *)
(* ever wrong and not on its way to be corrected, however directories move,*)
(* watches run out and the queue overflows; of a root that is gone, or     *)
(* back without its watch, nothing is said.  Without a reader, only the    *)
(* entry of a path that has changed since: the full scan that a dying      *)
(* reader asks for, or the first one of a watcher that never started,      *)
(* makes up for everything before.  Besides, an entry may lack a directory *)
(* that a restore made for what its manifest has below it, since the       *)
(* restore's Drain drops the notice of that.                               *)
(***************************************************************************)
NoLostChangeWhereWatched ==
  \A r \in roots, p \in Path :
    InScope(r, p) =>
      \/ Entered(r, p) = Kind(fs[p])
      \/ Entered(r, p) = Absent /\ p \in made
      \/ Pending(p)
      \/ IF reader = "running" THEN ~IsDir(r) \/ ~InSight(r, p)
                               ELSE p \in missed
=============================================================================
