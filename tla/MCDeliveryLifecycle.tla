------------------------ MODULE MCDeliveryLifecycle ------------------------
(***************************************************************************)
(* Instances of DeliveryLifecycle for TLC.                                 *)
(***************************************************************************)
EXTENDS DeliveryLifecycle, TLC

RequestSymmetry == Permutations(Requests)
=============================================================================
