------------------------------ MODULE MCStore ------------------------------
(* The universes of MCWatchDiff for WatchDiffStore.                        *)
EXTENDS MCWatchDiff, WatchDiffStore
=============================================================================
