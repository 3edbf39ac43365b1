---------------------------- MODULE MCCabinetFeed ----------------------------
(***************************************************************************)
(* Instances of CabinetFeed for TLC.                                       *)
(***************************************************************************)
EXTENDS CabinetFeed
=============================================================================
