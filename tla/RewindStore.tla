---------------------------- MODULE RewindStore ----------------------------
(***************************************************************************)
(* What the engine asks of a snapshot backend (snapshot/backend.go), with  *)
(* the watcher, the incremental map and the phases of a restore left out:  *)
(* a snapshot is the disk at the moment it is saved, and a restore that    *)
(* returns no error has put back the very disk that was saved.             *)
(***************************************************************************)
CONSTANTS State, Snapshot, None

VARIABLES
  disk,     \* what the monitored roots hold
  saved,    \* the state each snapshot holds, or None
  goal,     \* the state a restore is at work on, or None
  returned  \* how the last restore ended: "ok", "error", or none has yet

storeVars == <<disk, saved, goal, returned>>

StoreInit ==
  /\ disk \in State
  /\ saved = [s \in Snapshot |-> None]
  /\ goal = None /\ returned = "none"

(* A program changes the disk, or a restore does on its way to the goal.   *)
Change == disk' \in State /\ UNCHANGED <<saved, goal, returned>>

Save(s) ==
  /\ goal = None
  /\ saved' = [saved EXCEPT ![s] = disk]
  /\ UNCHANGED <<disk, goal, returned>>

Forget(s) ==
  /\ goal = None
  /\ saved' = [saved EXCEPT ![s] = None]
  /\ UNCHANGED <<disk, goal, returned>>

Begin(s) ==
  /\ goal = None /\ saved[s] # None
  /\ goal' = saved[s]
  /\ returned' = "none"
  /\ UNCHANGED <<disk, saved>>

Succeed ==
  /\ goal # None /\ disk = goal
  /\ goal' = None /\ returned' = "ok"
  /\ UNCHANGED <<disk, saved>>

(* The disk is left where the error found it.                              *)
Fail ==
  /\ goal # None
  /\ goal' = None /\ returned' = "error"
  /\ UNCHANGED <<disk, saved>>

StoreNext ==
  \/ Change
  \/ \E s \in Snapshot : Save(s) \/ Forget(s) \/ Begin(s)
  \/ Succeed
  \/ Fail

(* Every restore returns.                                                  *)
StoreSpec == StoreInit /\ [][StoreNext]_storeVars /\ WF_storeVars(Succeed \/ Fail)
=============================================================================
