------------------------------ MODULE MCEngine ------------------------------
(* One state directory, disks and environments that can be swapped.        *)
EXTENDS Engine, TLC

EngineSymmetry == Permutations(Disk) \cup Permutations(Env)
=============================================================================
