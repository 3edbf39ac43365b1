------------------------------ MODULE KeyPromise ------------------------------
(***************************************************************************)
(* What POST /deliveries promises to whoever sends an Idempotency-Key: a   *)
(* shop's key stands for one delivery from some moment on, for no other    *)
(* key's, and for good; and only that delivery is ever given as an answer. *)
(***************************************************************************)
EXTENDS Naturals

CONSTANTS Shops, Keys, Ids

VARIABLES
  stands, \* the delivery that a shop's key stands for, 0 for none as yet
  told    \* what clients were told for their keys

vars == <<stands, told>>

Init ==
  /\ stands = [s \in Shops |-> [k \in Keys |-> 0]]
  /\ told = {}

Settle(s, k) ==
  /\ stands[s][k] = 0
  /\ \E i \in Ids :
       /\ \A t \in Shops, l \in Keys : stands[t][l] # i
       /\ stands' = [stands EXCEPT ![s] = [@ EXCEPT ![k] = i]]
  /\ UNCHANGED told

Tell(s, k) ==
  /\ stands[s][k] # 0
  /\ told' = told \cup {[shop |-> s, key |-> k, id |-> stands[s][k]]}
  /\ UNCHANGED stands

Next == \E s \in Shops, k \in Keys : Settle(s, k) \/ Tell(s, k)

Spec == Init /\ [][Next]_vars
=============================================================================
