--------------------------- MODULE MCMerchantEvents ---------------------------
(***************************************************************************)
(* Instances of MerchantEvents for TLC.                                    *)
(***************************************************************************)
EXTENDS MerchantEvents
=============================================================================
