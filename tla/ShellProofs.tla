---------------------------- MODULE ShellProofs ----------------------------
(***************************************************************************)
(* The command loop over the backend: what it believes to be protected is, *)
(* for any roots, limits and hazards, failing extensions and logs included.*)
(***************************************************************************)
EXTENDS ShellLoop, WatchProofs

(* What a step of another party, or of Create and Restore, cannot disturb. *)
Aside == UNCHANGED roots /\ pc # "extend" /\ pc' # "extend"

LEMMA OthersStep ==
  ASSUME Program \/ Reader \/ ReaderDies
  PROVE  UNCHANGED <<roots, pc, work>>
  BY DEF Program, Write, Mkdir, Unlink, Rmdir, RenameDir, ProgramStep, Reader,
         HandleEvent, AddWatch, ListDir, ReaderDies, backendVars, worldVars

LEMMA CreateStep ==
  ASSUME BeginSync \/ (\E d \in work : ReconcilePath(d)) \/ (\E q \in todo : Visit(q))
         \/ EndScan \/ ScanFails \/ (\E s \in Snapshot : SaveManifest(s))
         \/ (\E s \in Snapshot : Delete(s))
  PROVE  Aside
  BY DEF BeginSync, ReconcilePath, Visit, EndScan, ScanFails, SaveManifest, Synced,
         Delete, Aside

LEMMA RestoreStep ==
  ASSUME Restore
  PROVE  Aside
  BY DEF Restore, BeginRestore, MakeRoot, BeginRestoreRoot, RemoveAll, RestoreDir,
         RestoreLeaf, NextPhase, RestoreFails, AdoptTarget, RestoreUnchanged,
         Restoring, Aside

(* Adding a directory to the roots leaves out none of them.                *)
LEMMA AddedRootsAreCovered ==
  ASSUME roots \subseteq Path, NEW r \in Path, NEW c \in roots \cup {r}
  PROVE  Covered(c, Compact(roots \cup {r}))
  <1>1. roots \cup {r} \subseteq Seq(Name)
    BY Paths1
  <1>2. \E k \in Compact(roots \cup {r}) : Within(k, c)
    BY <1>1, CompactCovers
  <1> QED BY <1>2 DEF Covered

LEMMA CoveredByMore ==
  ASSUME NEW R, R \subseteq Path, NEW T, T \subseteq Path, NEW d \in Path,
         Covered(d, R), \A r \in R : Covered(r, T)
  PROVE  Covered(d, T)
  <1>1. PICK r \in R : Within(r, d)
    BY DEF Covered
  <1>2. PICK t \in T : Within(t, r)
    BY <1>1 DEF Covered
  <1>3. Within(t, d)
    BY <1>1, <1>2, Paths1, WithinTransitive
  <1> QED BY <1>2, <1>3 DEF Covered

(***************************************************************************)
(* The loop only calls the backend, so all that is proved of every session *)
(* of the backend holds of the loop's.                                     *)
(***************************************************************************)
LEMMA ShellStepIsStep == [ShellNext]_shellVars => [Next]_vars
  <1> SUFFICES ASSUME ShellNext
               PROVE  [Next]_vars
    BY DEF shellVars
  <1> USE DEF Next, Backend
  <1>1. ASSUME NEW d \in Path, Cd(d)
        PROVE  [Next]_vars
    BY <1>1 DEF Cd, Extend
  <1>2. CASE Enter
    BY <1>2 DEF Enter, Extend
  <1>3. CASE ExtendReturns \/ LogFails \/ ExtendFails
    BY <1>3 DEF ExtendReturns, LogFails, ExtendFails, Extend
  <1>4. CASE RefreshScope
    BY <1>4 DEF RefreshScope
  <1>5. CASE Execute \/ CreateSnapshot \/ EndCommand
    BY <1>5 DEF Execute, CreateSnapshot, EndCommand, Create
  <1>6. CASE RewindRestore \/ Program \/ Reader \/ ReaderDies
    BY <1>6 DEF RewindRestore
  <1> QED BY <1>1, <1>2, <1>3, <1>4, <1>5, <1>6 DEF ShellNext

(* The command loop is one of the sessions WatchDiff describes.            *)
THEOREM LoopIsASession == ShellSpec => Spec
  <1>1. ShellInit => Init
    BY DEF ShellInit
  <1> QED BY <1>1, ShellStepIsStep, PTL DEF ShellSpec, Spec

(***************************************************************************)
(* What the loop knows holds because the roots only ever grow in coverage, *)
(* and what an extension is about to install covers the roots it replaces. *)
(***************************************************************************)
LoopTypes ==
  /\ currentDir \in Path
  /\ roots \subseteq AllRoots
  /\ scope \subseteq AllRoots /\ scope # {}
  /\ info \subseteq AllRoots /\ info # {}

ExtendsInLoop == pc = "extend" <=> loop \in {"cd", "enter"}

WorkCovers ==
  pc = "extend" =>
    /\ work \subseteq AllRoots
    /\ \A r \in roots : Covered(r, work)
    /\ loop = "cd" => dst \in Path /\ Covered(dst, work)
    /\ loop = "enter" => Covered(currentDir, work)

RunsCovered == loop \in {"ready", "create", "run"} => Covered(currentDir, roots)

LoopInv ==
  LoopTypes /\ RootsDisjoint /\ ExtendsInLoop /\ WorkCovers /\ ScopeIsBacked /\ RunsCovered

(* A step that leaves the roots and an extension under way as they are.    *)
LEMMA LoopAside ==
  ASSUME LoopInv, UNCHANGED <<roots, currentDir, scope, info>>,
         \/ UNCHANGED <<pc, work, loop, dst>>
         \/ pc # "extend" /\ pc' # "extend" /\ loop' \notin {"cd", "enter"}
            /\ (loop' \in {"ready", "create", "run"} =>
                  loop \in {"ready", "create", "run"} \/ Covered(currentDir, roots))
  PROVE  LoopInv'
  BY DEF LoopInv, LoopTypes, RootsDisjoint, ExtendsInLoop, WorkCovers, ScopeIsBacked,
         RunsCovered, Covered

(* A directory the loop finds inside its scope is inside the roots.        *)
LEMMA ScopeSuffices ==
  ASSUME LoopInv, NEW d \in Path, IsWithinAnyRoot(d, scope)
  PROVE  Covered(d, roots)
  BY CoveredByMore, Paths1 DEF LoopInv, LoopTypes, ScopeIsBacked, IsWithinAnyRoot

LEMMA BeginLoop ==
  ASSUME LoopInv, NEW d \in NewRoot, BeginExtendRoots(d),
         UNCHANGED <<currentDir, scope, info>>,
         \/ loop' = "cd" /\ dst' = d
         \/ loop' = "enter" /\ d = currentDir
  PROVE  LoopInv'
  <1>1. /\ pc' = "extend" /\ roots' = roots
        /\ work' = Compact(roots \cup {d})
    BY DEF BeginExtendRoots
  <1>2. d \in AllRoots /\ d \in Path /\ roots \subseteq Path
    BY Paths1 DEF AllRoots, LoopInv, LoopTypes
  <1>3. work' \subseteq AllRoots
    BY <1>1, <1>2, CompactIsSubset DEF LoopInv, LoopTypes
  <1>4. \A r \in roots \cup {d} : Covered(r, work')
    BY <1>1, <1>2, AddedRootsAreCovered
  <1>5. WorkCovers'
    BY <1>1, <1>2, <1>3, <1>4 DEF WorkCovers, Covered
  <1> QED BY <1>1, <1>5 DEF LoopInv, LoopTypes, RootsDisjoint, ExtendsInLoop,
             ScopeIsBacked, RunsCovered, Covered

LEMMA EndLoop ==
  ASSUME LoopInv, EndExtendRoots, RootsDisjoint',
         \/ /\ scope' = work /\ info' = work
            /\ \/ loop = "cd" /\ currentDir' = dst /\ loop' = "prompt"
               \/ loop = "enter" /\ currentDir' = currentDir /\ loop' = "ready"
         \/ loop' = "prompt" /\ UNCHANGED <<currentDir, scope, info>>
  PROVE  LoopInv'
  <1>1. pc = "extend" /\ pc' = "idle" /\ roots' = work
    BY DEF EndExtendRoots
  <1>2. /\ work \subseteq AllRoots /\ work \subseteq Path /\ AllRoots \subseteq Path
        /\ AllRoots \subseteq Seq(Name)
        /\ roots \subseteq Path
        /\ \A r \in roots : Covered(r, work)
    BY <1>1, Paths1 DEF LoopInv, LoopTypes, WorkCovers
  <1>3. \A r \in work : Covered(r, work)
    BY <1>2, WithinReflexive DEF Covered
  <1>4. \A r \in scope \cup info : r \in Path /\ Covered(r, roots)
    BY <1>2 DEF LoopInv, LoopTypes, ScopeIsBacked
  <1>5. \A r \in scope \cup info : Covered(r, work)
    BY <1>2, <1>4, CoveredByMore
  <1>6. \A r \in scope' \cup info' : Covered(r, work)
    BY <1>3, <1>5
  <1>7. ScopeIsBacked'
    BY <1>1, <1>6 DEF ScopeIsBacked, Covered
  <1>8. work # {}
    BY <1>5 DEF LoopInv, LoopTypes, Covered
  <1>9. LoopTypes'
    BY <1>1, <1>2, <1>8 DEF LoopInv, LoopTypes, WorkCovers
  <1>10. RunsCovered'
    BY <1>1 DEF LoopInv, WorkCovers, RunsCovered, Covered
  <1> QED BY <1>1, <1>7, <1>9, <1>10 DEF LoopInv, ExtendsInLoop, WorkCovers

LEMMA LoopStep1 ==
  ASSUME LoopInv, RootsDisjoint', [ShellNext]_shellVars
  PROVE  LoopInv'
  <1>1. ASSUME NEW d \in Path, Cd(d)
        PROVE  LoopInv'
    <2>1. CASE IsWithinAnyRoot(d, scope)
      <3>1. UNCHANGED <<roots, pc, work, scope, info, loop, dst>> /\ currentDir' = d
        BY <1>1, <2>1 DEF Cd, vars, backendVars
      <3>2. loop = "prompt" /\ pc = "idle"
        BY <1>1 DEF Cd, AtPrompt
      <3> QED BY <3>1, <3>2 DEF LoopInv, LoopTypes, RootsDisjoint, ExtendsInLoop,
                 WorkCovers, ScopeIsBacked, RunsCovered, Covered
    <2>2. CASE ~IsWithinAnyRoot(d, scope)
      BY <1>1, <2>2, BeginLoop DEF Cd
    <2> QED BY <2>1, <2>2
  <1>2. CASE Enter
    <2>1. CASE IsWithinAnyRoot(currentDir, scope)
      <3>1. UNCHANGED <<roots, pc, work, currentDir, scope, info, dst>>
            /\ loop' = "ready" /\ pc = "idle"
        BY <1>2, <2>1 DEF Enter, AtPrompt, vars, backendVars
      <3>2. Covered(currentDir, roots)
        BY <2>1, ScopeSuffices DEF LoopInv, LoopTypes
      <3> QED BY <3>1, <3>2, LoopAside
    <2>2. CASE ~IsWithinAnyRoot(currentDir, scope)
      BY <1>2, <2>2, BeginLoop DEF Enter
    <2> QED BY <2>1, <2>2
  <1>3. CASE ExtendReturns \/ LogFails
    <2>1. loop = "cd" \/ loop = "enter"
      BY <1>3 DEF ExtendReturns, LogFails, EndExtendRoots, LoopInv, ExtendsInLoop
    <2> QED BY <1>3, <2>1, EndLoop DEF ExtendReturns, LogFails
  <1>4. CASE ExtendFails
    BY <1>4 DEF ExtendFails, AddRootsFails, LoopInv, LoopTypes, RootsDisjoint,
                ExtendsInLoop, WorkCovers, ScopeIsBacked, RunsCovered, Covered
  <1>5. CASE RefreshScope
    BY <1>5 DEF RefreshScope, AtPrompt, vars, backendVars, LoopInv, LoopTypes,
                RootsDisjoint, ExtendsInLoop, WorkCovers, ScopeIsBacked, RunsCovered,
                Covered
  <1>6. CASE Execute
    <2>1. loop = "ready" /\ loop' \in {"create", "prompt"}
          /\ UNCHANGED <<currentDir, scope, info>>
      BY <1>6 DEF Execute
    <2>2. CASE BeginSync
      BY <2>1, <2>2, CreateStep, LoopAside DEF Aside
    <2>3. CASE UNCHANGED vars
      BY <2>1, <2>3, LoopAside DEF vars, backendVars, LoopInv, ExtendsInLoop
    <2> QED BY <1>6, <2>2, <2>3 DEF Execute
  <1>7. CASE CreateSnapshot
    <2>1. Aside
      BY <1>7, CreateStep DEF CreateSnapshot
    <2>2. loop = "create" /\ loop' \in {"create", "prompt", "run"}
          /\ UNCHANGED <<currentDir, scope, info>>
      BY <1>7 DEF CreateSnapshot
    <2> QED BY <2>1, <2>2, LoopAside DEF Aside
  <1>8. CASE EndCommand
    <2>1. loop = "run" /\ loop' \in {"prompt", "run"}
          /\ UNCHANGED <<currentDir, scope, info>>
      BY <1>8 DEF EndCommand
    <2>2. CASE UNCHANGED vars
      BY <2>1, <2>2, LoopAside DEF vars, backendVars, LoopInv, ExtendsInLoop
    <2>3. CASE \E s \in Snapshot : Delete(s)
      BY <2>1, <2>3, CreateStep, LoopAside DEF Aside
    <2> QED BY <1>8, <2>2, <2>3 DEF EndCommand
  <1>9. CASE RewindRestore
    <2>1. Aside /\ loop = "prompt" /\ UNCHANGED loopVars
      BY <1>9, RestoreStep DEF RewindRestore
    <2> QED BY <2>1, LoopAside DEF Aside, loopVars
  <1>10. CASE (Program \/ Reader \/ ReaderDies) /\ UNCHANGED loopVars
    BY <1>10, OthersStep, LoopAside DEF loopVars
  <1>11. CASE UNCHANGED shellVars
    BY <1>11, LoopAside DEF shellVars, loopVars, vars, backendVars
  <1> QED BY <1>1, <1>2, <1>3, <1>4, <1>5, <1>6, <1>7, <1>8, <1>9, <1>10, <1>11
          DEF ShellNext

LEMMA LoopStart == ShellInit => LoopInv
  <1> SUFFICES ASSUME ShellInit
               PROVE  LoopInv
    OBVIOUS
  <1>1. /\ currentDir \in Path /\ roots = InitRoots /\ scope = roots /\ info = roots
        /\ pc = "idle" /\ loop = "prompt"
    BY DEF ShellInit, CurrentStartupDir, Init, DirsWithin
  <1>2. RootsDisjoint
    BY <1>1, RootAssumption, CompactIsAntichain DEF RootsDisjoint
  <1>3. ScopeIsBacked
    BY <1>1, Paths1, WithinReflexive DEF ScopeIsBacked, Covered
  <1> QED BY <1>1, <1>2, <1>3, RootAssumption, Paths1
          DEF LoopInv, LoopTypes, ExtendsInLoop, WorkCovers, RunsCovered

LEMMA LoopInvariant == ShellSpec => []LoopInv
  <1>1. LoopInv /\ RootsDisjoint' /\ [ShellNext]_shellVars => LoopInv'
    BY LoopStep1
  <1> QED BY <1>1, LoopStart, LoopIsASession, RootsStayDisjoint, PTL DEF ShellSpec

(* What the loop and the user are told is protected, is, in any session.   *)
THEOREM ScopeStaysBacked == ShellSpec => []ScopeIsBacked
  <1>1. LoopInv => ScopeIsBacked
    BY DEF LoopInv
  <1> QED BY <1>1, LoopInvariant, PTL

(* No command runs, and no snapshot is taken for one, outside the roots.   *)
THEOREM CommandsStayCovered == ShellSpec => []CommandsAreCovered
  <1>1. LoopInv => CommandsAreCovered
    BY DEF LoopInv, RunsCovered, CommandsAreCovered
  <1> QED BY <1>1, LoopInvariant, PTL
=============================================================================
