------------------------- MODULE MCOnTheWayMessage -------------------------
(***************************************************************************)
(* Instances of OnTheWayMessage for TLC.                                   *)
(***************************************************************************)
EXTENDS OnTheWayMessage, TLC

CONSTANTS viber, whatsapp, sms

ViberThenSms == <<viber, sms>>

ViberWhatsAppSms == <<viber, whatsapp, sms>>

WorkerSymmetry == Permutations(Workers)
=============================================================================
