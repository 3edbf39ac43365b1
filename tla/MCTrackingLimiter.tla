--------------------------- MODULE MCTrackingLimiter ---------------------------
(***************************************************************************)
(* Instances of TrackingLimiter for TLC.                                   *)
(***************************************************************************)
EXTENDS TrackingLimiter, TLC

WorkerSymmetry == Permutations(Processes) \cup Permutations(Threads)
=============================================================================
