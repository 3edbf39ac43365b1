--------------------------- MODULE MCRatingRequest ---------------------------
(***************************************************************************)
(* Instances of RatingRequest for TLC.                                     *)
(***************************************************************************)
EXTENDS RatingRequest, TLC

WorkerSymmetry == Permutations(Workers)
=============================================================================
