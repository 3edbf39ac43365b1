---------------------------- MODULE MCUsageMetering ----------------------------
(***************************************************************************)
(* Instances of UsageMetering for TLC.                                     *)
(***************************************************************************)
EXTENDS UsageMetering, TLC

WorkerSymmetry == Permutations(Processes) \cup Permutations(Threads)
=============================================================================
