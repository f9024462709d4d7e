----------------------------- MODULE ShellLoop -----------------------------
(***************************************************************************)
(* The command loop of shellCommand (cli/cli.go) driving the backend of    *)
(* WatchDiff.  The loop knows the monitored roots from a copy: ExtendRoots *)
(* first changes the backend's roots, then logs them, then the ScopeInfo,  *)
(* and the loop takes over what it returns.  Commands, and so background   *)
(* programs, remove and create directories all the time, the loop's        *)
(* current directory included.                                             *)
(***************************************************************************)
EXTENDS WatchDiff

CONSTANTS
  Home,      \* the user's home directory
  LogErrors  \* whether writeWatchLog may fail on a walk that succeeds

ASSUME LogAssumption == Home \in Path /\ LogErrors \in BOOLEAN

VARIABLES
  currentDir,  \* where the next command runs
  scope,       \* the loop's copy of ScopeInfo.Roots
  info,        \* WatchDiffBackend.info.Roots
  loop,        \* what the loop is doing
  dst          \* the target of the cd under way

loopVars  == <<currentDir, scope, info, loop, dst>>
shellVars == <<vars, loopVars>>

LoopStep == {"prompt", "cd", "enter", "ready", "create", "run"}

ShellTypeOK ==
  /\ currentDir \in Path /\ dst \in Path \cup {NoPath}
  /\ scope \subseteq AllRoots /\ info \subseteq AllRoots
  /\ loop \in LoopStep

Covered(d, R)        == \E r \in R : Within(r, d)
IsWithinAnyRoot(d, R) == R = {} \/ Covered(d, R)
AtPrompt             == loop = "prompt" /\ pc = "idle"

(***************************************************************************)
(* Where rewind-sh can be started, and where a cd can lead: cd alone and   *)
(* cd ~ go home, and nobody looks whether there is such a directory.       *)
(***************************************************************************)
CurrentStartupDir == DirsWithin(Path)
ResolveCDTarget(d) == d = Home \/ IsDir(d)

ShellInit ==
  /\ Init
  /\ currentDir \in CurrentStartupDir
  /\ scope = roots /\ info = roots
  /\ loop = "prompt" /\ dst = NoPath

(***************************************************************************)
(* cd: inside the scope it only changes currentDir; outside, it first      *)
(* extends the roots, and an error leaves everything as it was.            *)
(***************************************************************************)
Cd(d) ==
  /\ AtPrompt /\ ResolveCDTarget(d)
  /\ IF IsWithinAnyRoot(d, scope)
       THEN currentDir' = d /\ UNCHANGED <<loop, dst, vars>>
       ELSE /\ d \in NewRoot /\ BeginExtendRoots(d)
            /\ loop' = "cd" /\ dst' = d
            /\ UNCHANGED currentDir
  /\ UNCHANGED <<scope, info>>

(* Mutant: a command is run wherever the loop stands.                      *)
EnterUnchecked ==
  /\ AtPrompt
  /\ loop' = "ready"
  /\ UNCHANGED <<vars, currentDir, scope, info, dst>>

(* A command: outside the scope, the roots are extended before it runs.    *)
Enter ==
  /\ AtPrompt
  /\ IF IsWithinAnyRoot(currentDir, scope)
       THEN loop' = "ready" /\ UNCHANGED vars
       ELSE /\ currentDir \in NewRoot /\ BeginExtendRoots(currentDir)
            /\ loop' = "enter"
  /\ UNCHANGED <<currentDir, scope, info, dst>>

(***************************************************************************)
(* The walk of AddRoots in between is in Reader.  That of writeWatchLog,   *)
(* after the roots were replaced, stumbles over a root that is not there.  *)
(***************************************************************************)
ExtendReturns ==
  /\ EndExtendRoots /\ \A r \in work : At(r) # Absent
  /\ info' = work /\ scope' = work
  /\ IF loop = "cd" THEN currentDir' = dst /\ loop' = "prompt"
                    ELSE UNCHANGED currentDir /\ loop' = "ready"
  /\ dst' = NoPath

(* The roots are the new ones already, and nobody is told.                 *)
LogFails ==
  /\ LogErrors \/ \E r \in work : At(r) = Absent
  /\ EndExtendRoots
  /\ loop' = "prompt" /\ dst' = NoPath
  /\ UNCHANGED <<currentDir, scope, info>>

(* Mutant: the loop takes over the new roots although AddRoots failed.     *)
ExtendFailsUnnoticed ==
  /\ AddRootsFails
  /\ scope' = work
  /\ loop' = "prompt" /\ dst' = NoPath
  /\ UNCHANGED <<currentDir, info>>

ExtendFails ==
  /\ AddRootsFails
  /\ loop' = "prompt" /\ dst' = NoPath
  /\ UNCHANGED <<currentDir, scope, info>>

(* "rewind scope" prints the backend's scope and keeps it.                 *)
RefreshScope ==
  /\ AtPrompt
  /\ scope' = info
  /\ UNCHANGED <<vars, currentDir, info, loop, dst>>

(***************************************************************************)
(* ExecuteCommandIn: the directory must still be there, then the snapshot, *)
(* then the command, and at last the snapshots that history trimming drops.*)
(***************************************************************************)
Execute ==
  /\ loop = "ready"
  /\ IF IsDir(currentDir) THEN BeginSync /\ loop' = "create"
                          ELSE UNCHANGED vars /\ loop' = "prompt"
  /\ UNCHANGED <<currentDir, scope, info, dst>>

CreateSnapshot ==
  /\ loop = "create"
  /\ \/ /\ \/ \E d \in work : ReconcilePath(d)
           \/ \E q \in todo : Visit(q)
           \/ EndScan
        /\ UNCHANGED loop
     \/ ScanFails /\ loop' = "prompt"
     \/ (\E s \in Snapshot : SaveManifest(s)) /\ loop' = "run"
  /\ UNCHANGED <<currentDir, scope, info, dst>>

EndCommand ==
  /\ loop = "run"
  /\ \/ loop' = "prompt" /\ UNCHANGED vars
     \/ (\E s \in Snapshot : Delete(s)) /\ UNCHANGED loop
  /\ UNCHANGED <<currentDir, scope, info, dst>>

RewindRestore ==
  /\ loop = "prompt"
  /\ Restore
  /\ UNCHANGED loopVars

ShellNext ==
  \/ \E d \in Path : Cd(d)
  \/ Enter
  \/ ExtendReturns
  \/ LogFails
  \/ ExtendFails
  \/ RefreshScope
  \/ Execute
  \/ CreateSnapshot
  \/ EndCommand
  \/ RewindRestore
  \/ (Program \/ Reader \/ ReaderDies) /\ UNCHANGED loopVars

ShellSpec == ShellInit /\ [][ShellNext]_shellVars
-----------------------------------------------------------------------------
(***************************************************************************)
(* Whatever the loop or the user is told is protected, is: an error in the *)
(* middle of ExtendRoots leaves them a scope that is too small, never one  *)
(* that is too large.                                                      *)
(***************************************************************************)
ScopeIsBacked == \A r \in scope \cup info : Covered(r, roots)

(***************************************************************************)
(* "rewind-sh snapshots files under protected roots ... before each        *)
(* command" (README.md:37): no command runs, and no snapshot is taken for  *)
(* one, in a directory outside the roots.                                  *)
(***************************************************************************)
CommandsAreCovered == loop \in {"create", "run"} => Covered(currentDir, roots)
=============================================================================
