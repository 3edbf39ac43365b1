---------------------------- MODULE Announcement ----------------------------
(***************************************************************************)
(* What starting a delivery promises to those outside the program.  One    *)
(* arrival time is claimed.  The start hands one message with that time to *)
(* the messaging provider; only then may it plan the rating request, once, *)
(* and tell the merchant, once and last.  A resend may repeat the message  *)
(* of a claimed announcement, and nothing else.                            *)
(***************************************************************************)
EXTENDS Naturals

CONSTANTS Etas, NoEta

VARIABLES
  claimed,  \* the arrival time of the announcement, NoEta before there is one
  told,     \* the arrival time in the last message, NoEta before there is one
  handed,   \* messages a start handed to the provider
  planned,  \* rating requests planned
  reported  \* times the merchant was told of a start

vars == <<claimed, told, handed, planned, reported>>

Init ==
  /\ claimed = NoEta /\ told = NoEta
  /\ handed = 0 /\ planned = 0 /\ reported = 0

Claim ==
  /\ claimed = NoEta
  /\ claimed' \in Etas
  /\ UNCHANGED <<told, handed, planned, reported>>

HandOver ==
  /\ claimed # NoEta /\ handed = 0
  /\ handed' = 1
  /\ told' = claimed
  /\ UNCHANGED <<claimed, planned, reported>>

Repeat ==
  /\ claimed # NoEta
  /\ told' \in Etas
  /\ UNCHANGED <<claimed, handed, planned, reported>>

Plan ==
  /\ handed = 1 /\ planned = 0 /\ reported = 0
  /\ planned' = 1
  /\ UNCHANGED <<claimed, told, handed, reported>>

Report ==
  /\ handed = 1 /\ reported = 0
  /\ reported' = 1
  /\ UNCHANGED <<claimed, told, handed, planned>>

Next == Claim \/ HandOver \/ Repeat \/ Plan \/ Report

Spec == Init /\ [][Next]_vars
=============================================================================
