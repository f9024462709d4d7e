------------------------------- MODULE MCLoss ------------------------------
(* The universes of MCWatchDiff for WatchDiffLoss.                         *)
EXTENDS MCWatchDiff, WatchDiffLoss
=============================================================================
