---------------------------- MODULE MerchantEvents ----------------------------
(***************************************************************************)
(* What the merchant hears of a delivery: the life of the delivery         *)
(* (DeliveryLifecycle) composed with the outgoing webhooks                 *)
(* (notifications/outbound.py).  The last statement of a start and of a    *)
(* delivery mark builds an event from the request's own instance, stamps   *)
(* it with sent_at and puts it in the task queue, which posts it to the    *)
(* merchant, at least once and in any order.  If the queue does not take   *)
(* it the event is gone.                                                   *)
(*                                                                         *)
(* Events are followed while requests come one after the other and none is *)
(* cut short.  Once two have overlapped the order of their events need not *)
(* be that of their saves, and nothing is claimed of it.                   *)
(***************************************************************************)
EXTENDS DeliveryLifecycle, Sequences, FiniteSetsExt

VARIABLES
  followed, \* history: requests have not overlapped, none was cut short
  sent,     \* history: the status each event tells, in the order of sent_at
  outbox,   \* events in the task queue
  newest    \* the merchant: the latest event heard of, 0 without one

eventVars == <<followed, sent, outbox, newest>>
allVars   == <<vars, eventVars>>

EventsInit ==
  /\ Init
  /\ followed = TRUE
  /\ sent = <<>>
  /\ outbox = {}
  /\ newest = 0

-----------------------------------------------------------------------------
(* A slip for Payload: the event is built before the status is changed. *)
LoadedStatus(r) == mem[r].status

(* delivery_event_payload: the status of the instance the request saved. *)
Payload(r) == IF op[r] = "start" THEN "on_the_way" ELSE "delivered"

Unfollow == followed' = FALSE /\ sent' = <<>> /\ outbox' = {} /\ newest' = 0

(* notify_merchant.  A failure of the queue is logged and forgotten. *)
Emit(r) ==
  /\ sent' = Append(sent, Payload(r))
  /\ outbox' \in {outbox, outbox \cup {Len(sent) + 1}}
  /\ UNCHANGED <<followed, newest>>

Arrive(r) ==
  /\ \E o \in Offered : Begin(r, o)
  /\ IF followed /\ ~Quiet THEN Unfollow ELSE UNCHANGED eventVars

(* Every step of the request; its last one may tell the merchant. *)
Serve(r) ==
  /\ Step(r)
  /\ IF followed /\ pc[r] = "report" THEN Emit(r) ELSE UNCHANGED eventVars

Die(r) ==
  /\ Crash(r)
  /\ IF followed /\ cut' THEN Unfollow ELSE UNCHANGED eventVars

(* The queue posts the event; the merchant goes by sent_at. *)
Hear(i) == newest' = Max({newest, i}) /\ UNCHANGED <<vars, followed, sent>>

Post(i) == Hear(i) /\ outbox' = outbox \ {i}

(* The answer is lost: the queue will post the event again. *)
PostUnanswered(i) == Hear(i) /\ UNCHANGED outbox

EventsNext ==
  \/ \E r \in Requests : Arrive(r) \/ Serve(r) \/ Die(r)
  \/ \E i \in outbox : Post(i) \/ PostUnanswered(i)

EventsSpec == EventsInit /\ [][EventsNext]_allVars

(* The threads go on, and the queue posts until the merchant answers. *)
FairEventsSpec ==
  /\ EventsSpec
  /\ \A r \in Requests : WF_allVars(Serve(r))
  /\ WF_allVars(\E i \in outbox : Post(i))

-----------------------------------------------------------------------------
(***************************************************************************)
(* The merchant who goes by sent_at knows the status of a delivery in the  *)
(* end, however late, often and disordered its events are posted: once the *)
(* queue has taken the latest event, that event reaches the merchant and   *)
(* tells the delivery's status until the next request (emit_delivery_event *)
(* comes after the save it tells of, and mark_ready, which is silent,      *)
(* never changes what was told).                                           *)
(***************************************************************************)
AtRest == Quiet /\ followed
MerchantKnows == newest # 0 /\ sent[newest] = row.status
MerchantCatchesUp == AtRest /\ Len(sent) \in outbox ~> MerchantKnows \/ ~AtRest

(***************************************************************************)
(* While requests come one after the other the last event emitted tells    *)
(* the delivery's status, whatever the requests, those that fail or change *)
(* nothing and the silent ones included (start_delivery, mark_delivered,   *)
(* mark_ready; delivery_event_payload).                                    *)
(***************************************************************************)
LatestEventIsTrue == AtRest /\ sent # <<>> => sent[Len(sent)] = row.status

-----------------------------------------------------------------------------
(* A request whose save is done and whose event is still to come. *)
Telling(r) ==
  \/ op[r] = "start" /\ pc[r] \in {"token", "create", "send", "accepted", "refused", "schedule", "report"}
  \/ At(r, "deliver", "report")

(***************************************************************************)
(* The inductive invariant behind LatestEventIsTrue: one request at a      *)
(* time, with a true instance, and an event that is true or about to be    *)
(* (each statement of start_delivery and mark_delivered).                  *)
(***************************************************************************)
OneByOne ==
  /\ \A r, q \in Requests : pc[r] # "idle" /\ pc[q] # "idle" => r = q
  /\ \A r \in Requests :
       /\ pc[r] = "loaded" => mem[r].status = row.status
       /\ pc[r] \in {"save", "token", "create"} => notif = "absent"

EventsInv ==
  /\ sent \in Seq({"on_the_way", "delivered"})
  /\ followed =>
       /\ OneByOne
       /\ \A r \in Requests : Telling(r) => row.status = Payload(r)
       /\ sent # <<>> => sent[Len(sent)] = row.status \/ \E r \in Requests : Telling(r)

=============================================================================
