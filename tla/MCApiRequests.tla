----------------------------- MODULE MCApiRequests -----------------------------
(***************************************************************************)
(* Instances of ApiRequests for TLC.                                       *)
(***************************************************************************)
EXTENDS ApiRequests, TLC

RequestSymmetry == Permutations(Workers) \cup Permutations(ApiKeys) \cup Permutations(Shops)
=============================================================================
