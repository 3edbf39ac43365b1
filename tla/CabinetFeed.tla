----------------------------- MODULE CabinetFeed -----------------------------
(***************************************************************************)
(* The shop's list of deliveries in the browser and the polling that keeps *)
(* it fresh (deliveries/views.py and the script of delivery_list.html and  *)
(* delivery_board.html).  The page is rendered from two queries, the list  *)
(* and later its signature; the script asks for the current signature now  *)
(* and then and reloads the page when it differs from the one it got.      *)
(***************************************************************************)
EXTENDS Naturals

CONSTANTS
  Deliveries, \* deliveries of the shop
  Statuses,   \* statuses of a delivery
  MaxChanges, \* bound: changes of the shop's deliveries in a behaviour
  Nothing     \* no answer, no such delivery

ASSUME NothingAssumption == Nothing \notin Statuses
ASSUME MaxChangesAssumption == MaxChanges \in Nat

VARIABLES
  status,  \* status of each delivery, Nothing before it is created
  deleted, \* softly deleted deliveries
  shown,   \* the list the page shows
  current, \* the signature in the page's script
  answer,  \* the answer of a poll on its way to the script
  page,    \* "list" and "sign" while the page is rendered, then "open"
  changes, \* history: changes of the deliveries so far
  reloads, \* history: reloads so far
  torn     \* history: something changed while this page was rendered

vars == <<status, deleted, shown, current, answer, page, changes, reloads, torn>>

(* What a query for the shop's active deliveries returns. *)
Active == {d \in Deliveries : status[d] # Nothing /\ d \notin deleted}

List == [d \in Active |-> status[d]]

(* A slip for Signature: the ids alone. *)
IdsOnly == [d \in Active |-> "any"]

(***************************************************************************)
(* _deliveries_signature hashes id and status of the active deliveries.    *)
(* Different lists are taken to have different signatures.                 *)
(***************************************************************************)
Signature == List

Lists == UNION {[S -> Statuses] : S \in SUBSET Deliveries}

TypeOK ==
  /\ status \in [Deliveries -> Statuses \cup {Nothing}]
  /\ deleted \in SUBSET Deliveries
  /\ shown \in Lists
  /\ current \in Lists
  /\ answer \in Lists \cup {Nothing}
  /\ page \in {"list", "sign", "open"}
  /\ changes \in 0..MaxChanges
  /\ reloads \in Nat
  /\ torn \in BOOLEAN

Init ==
  /\ status \in [Deliveries -> Statuses \cup {Nothing}]
  /\ deleted = {}
  /\ shown = <<>>
  /\ current = <<>>
  /\ answer = Nothing
  /\ page = "list"
  /\ changes = 0
  /\ reloads = 0
  /\ torn = FALSE

-----------------------------------------------------------------------------
(* Deliveries are created, move, are deleted and restored meanwhile. *)
Change ==
  /\ changes < MaxChanges
  /\ changes' = changes + 1
  /\ torn' = (torn \/ page = "sign")
  /\ UNCHANGED <<shown, current, answer, page, reloads>>

Move(d, s) ==
  /\ Change
  /\ s # status[d]
  /\ status' = [status EXCEPT ![d] = s]
  /\ UNCHANGED deleted

DeleteOrRestore(d) ==
  /\ Change
  /\ status[d] # Nothing
  /\ deleted' = IF d \in deleted THEN deleted \ {d} ELSE deleted \cup {d}
  /\ UNCHANGED status

(* DeliveryListView: first the list ... *)
LoadList ==
  /\ page = "list"
  /\ page' = "sign"
  /\ shown' = List
  /\ torn' = FALSE
  /\ UNCHANGED <<status, deleted, current, answer, changes, reloads>>

(* A slip for LoadSignature: feed_sig is missing from the context. *)
SignatureForgotten ==
  /\ page = "sign"
  /\ page' = "open"
  /\ current' = Nothing
  /\ UNCHANGED <<status, deleted, shown, answer, changes, reloads, torn>>

(* ... and, last of all, feed_sig. *)
LoadSignature ==
  /\ page = "sign"
  /\ page' = "open"
  /\ current' = Signature
  /\ UNCHANGED <<status, deleted, shown, answer, changes, reloads, torn>>

(* A slip for DeliveryFeedView: the deleted deliveries are not left out. *)
PollUnfiltered ==
  /\ page = "open"
  /\ answer = Nothing
  /\ answer' = [d \in {e \in Deliveries : status[e] # Nothing} |-> status[d]]
  /\ UNCHANGED <<status, deleted, shown, current, page, changes, reloads, torn>>

(* DeliveryFeedView answers the script's fetch. *)
Poll ==
  /\ page = "open"
  /\ answer = Nothing
  /\ answer' = Signature
  /\ UNCHANGED <<status, deleted, shown, current, page, changes, reloads, torn>>

(* The script reloads the page on another signature. *)
Reload ==
  /\ answer \notin {Nothing, current}
  /\ answer' = Nothing
  /\ page' = "list"
  /\ reloads' = reloads + 1
  /\ UNCHANGED <<status, deleted, shown, current, changes, torn>>

KeepPage ==
  /\ answer = current
  /\ page = "open"
  /\ answer' = Nothing
  /\ UNCHANGED <<status, deleted, shown, current, page, changes, reloads, torn>>

Browser == LoadList \/ LoadSignature \/ Poll \/ Reload \/ KeepPage

Next ==
  \/ \E d \in Deliveries, s \in Statuses : Move(d, s)
  \/ \E d \in Deliveries : DeleteOrRestore(d)
  \/ Browser

Spec == Init /\ [][Next]_vars

(* The page is visible and nobody types in it: the script goes on polling. *)
FairSpec == Spec /\ WF_vars(Browser)

-----------------------------------------------------------------------------
(***************************************************************************)
(* The page reloads at most once for a change, also when changes come      *)
(* while it is rendered or a poll is under way: list page and feed agree   *)
(* on what the signature is of (_deliveries_signature in both views).      *)
(***************************************************************************)
ReloadsOnlyForChanges == reloads <= changes

(***************************************************************************)
(* The page catches up with the deliveries in the end and stays so, if     *)
(* nothing changed between the two queries of its last rendering.          *)
(***************************************************************************)
PageCatchesUp == <>[](shown = List \/ torn)

=============================================================================
