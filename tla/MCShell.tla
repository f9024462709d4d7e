------------------------------ MODULE MCShell ------------------------------
(* The universes of MCWatchDiff for ShellLoop.                             *)
EXTENDS MCWatchDiff, ShellLoop

ProjectHome == <<"p", "b">>
=============================================================================
