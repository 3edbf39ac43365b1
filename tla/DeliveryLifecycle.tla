-------------------------- MODULE DeliveryLifecycle --------------------------
(***************************************************************************)
(* The life of one delivery: the requests that move it through its         *)
(* statuses and tell its recipient that it is on the way (the functions of *)
(* deliveries/services.py, called by the cabinet's views, by the REST API  *)
(* and by the recipient's page).                                           *)
(*                                                                         *)
(* A request is served by one of several worker threads and runs in        *)
(* autocommit mode: it loads the delivery's row into a model instance once *)
(* and later writes back single columns of it, one database statement at a *)
(* time.  Every statement, and the call to the messaging provider, is an   *)
(* action, so requests interleave at each of them, and a request may die   *)
(* between any two.  The model follows one delivery: no statement here     *)
(* touches the row of another one.                                         *)
(***************************************************************************)
EXTENDS Naturals

CONSTANTS
  Requests,   \* worker threads, each serving one request at a time
  Offered,    \* operations that callers ask for
  Etas,       \* arrival times a start may settle on, computed or typed in
  NoEta       \* eta_at is null


VARIABLES
  row,         \* the delivery's row in the database
  token,       \* the delivery has its TrackingToken
  notif,       \* status of its on_the_way Notification, "absent" without one
  pc,          \* where each request stands
  op,          \* what each request does
  mem,         \* the model instance each request works on
  announced,   \* history: times a start handed a message to the provider
  startEta,    \* history: the ETA of the start that owns the notification
  toldEta,     \* history: the ETA in the last message handed over
  ratingTasks, \* history: rating callbacks put in the task queue
  webhooks,    \* history: the merchant events the code tried to enqueue
  cut          \* history: a request ended before its last step

dbVars      == <<row, token, notif>>
requestVars == <<pc, op, mem>>
historyVars == <<announced, startEta, toldEta, ratingTasks, webhooks, cut>>
vars        == <<dbVars, requestVars, historyVars>>

Statuses      == {"new", "created", "on_the_way", "delivered"}
NotifStatuses == {"absent", "queued", "sent", "failed"}
Operations    == {"start", "ready", "deliver", "delete", "restore", "resend"}
(* Any part of the operations may be on offer. *)
ASSUME OfferedAssumption == Offered \subseteq Operations

(* A null ETA is none of the ETAs. *)
ASSUME EtaAssumption == NoEta \notin Etas

Places        == {"idle", "loaded", "save", "token", "create", "send", "accepted",
                  "refused", "schedule", "report"}

(* How often delivery.started was emitted, and whether delivery.delivered was. *)
Emitted == [started : Nat, delivered : BOOLEAN]

Row    == [status : Statuses, eta : Etas \cup {NoEta}, deleted : BOOLEAN]
NewRow == [status |-> "new", eta |-> NoEta, deleted |-> FALSE]

TypeOK ==
  /\ row \in Row
  /\ token \in BOOLEAN
  /\ notif \in NotifStatuses
  /\ pc \in [Requests -> Places]
  /\ op \in [Requests -> Operations \cup {"none"}]
  /\ mem \in [Requests -> Row]
  /\ announced \in Nat
  /\ startEta \in Etas \cup {NoEta}
  /\ toldEta \in Etas \cup {NoEta}
  /\ ratingTasks \in Nat
  /\ webhooks \in Emitted
  /\ cut \in BOOLEAN

(***************************************************************************)
(* A delivery is created with status NEW, without ETA or notification.     *)
(***************************************************************************)
Init ==
  /\ row = NewRow
  /\ token = FALSE
  /\ notif = "absent"
  /\ pc = [r \in Requests |-> "idle"]
  /\ op = [r \in Requests |-> "none"]
  /\ mem = [r \in Requests |-> NewRow]
  /\ announced = 0
  /\ startEta = NoEta
  /\ toldEta = NoEta
  /\ ratingTasks = 0
  /\ webhooks = [started |-> 0, delivered |-> FALSE]
  /\ cut = FALSE

-----------------------------------------------------------------------------
At(r, o, place) == op[r] = o /\ pc[r] = place

Goto(r, place) == pc' = [pc EXCEPT ![r] = place]

Proceed(r, place) == Goto(r, place) /\ UNCHANGED <<op, mem>>

(* The request ends and drops its instance. *)
End(r) ==
  /\ Goto(r, "idle")
  /\ op' = [op EXCEPT ![r] = "none"]
  /\ mem' = [mem EXCEPT ![r] = NewRow]

(* The save with update_fields: only the named columns reach the row. *)
SetStatus(s) == row' = [row EXCEPT !.status = s]

(***************************************************************************)
(* The view loads the row.  Whether it is deleted is not asked: the API's  *)
(* lookup does not filter on deleted_at.  The recipient's confirmation     *)
(* (mark_received) comes through the tracking token.                       *)
(***************************************************************************)
Begin(r, o) ==
  /\ pc[r] = "idle"
  /\ Goto(r, "loaded")
  /\ op' = [op EXCEPT ![r] = o]
  /\ mem' = [mem EXCEPT ![r] = row]
  /\ UNCHANGED <<dbVars, historyVars>>

(* A slip for AlreadyStarted: only the status is asked. *)
StatusSaysStarted(r) == mem[r].status = "on_the_way"

(***************************************************************************)
(* start_delivery: a delivery whose instance says on_the_way, or which has *)
(* an on_the_way notification, is left alone.                              *)
(***************************************************************************)
AlreadyStarted(r) == mem[r].status = "on_the_way" \/ notif # "absent"

StartDeclined(r) ==
  /\ At(r, "start", "loaded")
  /\ AlreadyStarted(r)
  /\ End(r)
  /\ UNCHANGED <<dbVars, historyVars>>

(* A slip for StartNeedsEta: the status is saved before the ETA is known. *)
StatusBeforeEta(r) ==
  /\ At(r, "start", "loaded")
  /\ ~AlreadyStarted(r)
  /\ SetStatus("on_the_way")
  /\ End(r)
  /\ UNCHANGED <<token, notif, historyVars>>

(* No route and no manual ETA: the caller is asked for one, nothing changes. *)
StartNeedsEta(r) ==
  /\ At(r, "start", "loaded")
  /\ ~AlreadyStarted(r)
  /\ End(r)
  /\ UNCHANGED <<dbVars, historyVars>>

(* The ETA is the typed one or now + route + buffer. *)
StartPlanned(r) ==
  /\ At(r, "start", "loaded")
  /\ ~AlreadyStarted(r)
  /\ \E e \in Etas :
       mem' = [mem EXCEPT ![r] = [@ EXCEPT !.eta = e, !.status = "on_the_way"]]
  /\ Goto(r, "save")
  /\ UNCHANGED <<dbVars, op, historyVars>>

(* A slip for StartSave: eta_at is missing from update_fields. *)
SaveStatusOnly(r) ==
  /\ At(r, "start", "save")
  /\ SetStatus("on_the_way")
  /\ Proceed(r, "token")
  /\ UNCHANGED <<token, notif, historyVars>>

StartSave(r) ==
  /\ At(r, "start", "save")
  /\ row' = [row EXCEPT !.status = "on_the_way", !.eta = mem[r].eta]
  /\ Proceed(r, "token")
  /\ UNCHANGED <<token, notif, historyVars>>

(* get_or_create *)
StartToken(r) ==
  /\ At(r, "start", "token")
  /\ token' = TRUE
  /\ Proceed(r, "create")
  /\ UNCHANGED <<row, notif, historyVars>>

(* A slip for StartCreate: there is no unique constraint. *)
CreateUnconstrained(r) ==
  /\ At(r, "start", "create")
  /\ notif' = "queued"
  /\ startEta' = mem[r].eta
  /\ Proceed(r, "send")
  /\ UNCHANGED <<row, token, announced, toldEta, ratingTasks, webhooks, cut>>

StartCreate(r) ==
  /\ At(r, "start", "create")
  /\ notif = "absent"
  /\ notif' = "queued"
  /\ startEta' = mem[r].eta
  /\ Proceed(r, "send")
  /\ UNCHANGED <<row, token, announced, toldEta, ratingTasks, webhooks, cut>>

(* A slip for StartClash: the IntegrityError is swallowed. *)
ClashSwallowed(r) ==
  /\ At(r, "start", "create")
  /\ notif # "absent"
  /\ End(r)
  /\ UNCHANGED <<dbVars, historyVars>>

(* A slip for StartClash: the IntegrityError is caught, and the event is still emitted. *)
ClashReported(r) ==
  /\ At(r, "start", "create")
  /\ notif # "absent"
  /\ Proceed(r, "report")
  /\ UNCHANGED <<dbVars, historyVars>>

(* uniq_on_the_way_per_delivery: the insert fails and so does the request. *)
StartClash(r) ==
  /\ At(r, "start", "create")
  /\ notif # "absent"
  /\ cut' = TRUE
  /\ End(r)
  /\ UNCHANGED <<dbVars, announced, startEta, toldEta, ratingTasks, webhooks>>

(***************************************************************************)
(* _send_and_record, shared by start and resend: the provider takes the    *)
(* message or not, and the outcome is saved in a later statement.          *)
(***************************************************************************)
Send(r) ==
  /\ pc[r] = "send"
  /\ toldEta' = mem[r].eta
  /\ announced' = IF op[r] = "start" THEN announced + 1 ELSE announced
  /\ \E answer \in {"accepted", "refused"} : Proceed(r, answer)
  /\ UNCHANGED <<dbVars, startEta, ratingTasks, webhooks, cut>>

(* A slip for Record: the outcome is saved only when the provider accepted. *)
RecordSuccessOnly(r) ==
  /\ pc[r] \in {"accepted", "refused"}
  /\ notif' = IF pc[r] = "accepted" THEN "sent" ELSE notif
  /\ IF op[r] = "start" THEN Proceed(r, "schedule") ELSE End(r)
  /\ UNCHANGED <<row, token, historyVars>>

Record(r) ==
  /\ pc[r] \in {"accepted", "refused"}
  /\ notif' = IF pc[r] = "accepted" THEN "sent" ELSE "failed"
  /\ IF op[r] = "start" THEN Proceed(r, "schedule") ELSE End(r)
  /\ UNCHANGED <<row, token, historyVars>>

(* The failure of the task queue is caught: the start goes on without it. *)
StartSchedule(r) ==
  /\ At(r, "start", "schedule")
  /\ ratingTasks' \in {ratingTasks, ratingTasks + 1}
  /\ Proceed(r, "report")
  /\ UNCHANGED <<dbVars, announced, startEta, toldEta, webhooks, cut>>

(* emit_delivery_event, the last step of a start and of a delivery mark. *)
Report(r) ==
  /\ pc[r] = "report"
  /\ webhooks' = IF op[r] = "start" THEN [webhooks EXCEPT !.started = @ + 1]
                                    ELSE [webhooks EXCEPT !.delivered = TRUE]
  /\ End(r)
  /\ UNCHANGED <<dbVars, announced, startEta, toldEta, ratingTasks, cut>>

-----------------------------------------------------------------------------
(* A slip for Ready: a save without update_fields writes the whole instance. *)
ReadySavesAll(r) ==
  /\ At(r, "ready", "loaded")
  /\ row' = IF mem[r].status = "new" THEN [mem[r] EXCEPT !.status = "created"] ELSE row
  /\ End(r)
  /\ UNCHANGED <<token, notif, historyVars>>

(* A slip for Ready: every status but the target is taken for an earlier one. *)
ReadyUnlessCreated(r) ==
  /\ At(r, "ready", "loaded")
  /\ IF mem[r].status # "created" THEN SetStatus("created") ELSE UNCHANGED row
  /\ End(r)
  /\ UNCHANGED <<token, notif, historyVars>>

(* mark_ready: new -> created, decided on the instance. *)
Ready(r) ==
  /\ At(r, "ready", "loaded")
  /\ IF mem[r].status = "new" THEN SetStatus("created") ELSE UNCHANGED row
  /\ End(r)
  /\ UNCHANGED <<token, notif, historyVars>>

(* A slip for Deliver: the merchant is not told of it. *)
DeliverSilently(r) ==
  /\ At(r, "deliver", "loaded")
  /\ IF mem[r].status # "delivered" THEN SetStatus("delivered") ELSE UNCHANGED row
  /\ End(r)
  /\ UNCHANGED <<token, notif, historyVars>>

(* mark_delivered, and mark_received on the recipient's page. *)
Deliver(r) ==
  /\ At(r, "deliver", "loaded")
  /\ IF mem[r].status # "delivered"
       THEN SetStatus("delivered") /\ Proceed(r, "report")
       ELSE UNCHANGED row /\ End(r)
  /\ UNCHANGED <<token, notif, historyVars>>

(* soft_delete *)
Delete(r) ==
  /\ At(r, "delete", "loaded")
  /\ row' = IF mem[r].deleted THEN row ELSE [row EXCEPT !.deleted = TRUE]
  /\ End(r)
  /\ UNCHANGED <<token, notif, historyVars>>

(* restore *)
Restore(r) ==
  /\ At(r, "restore", "loaded")
  /\ row' = IF mem[r].deleted THEN [row EXCEPT !.deleted = FALSE] ELSE row
  /\ End(r)
  /\ UNCHANGED <<token, notif, historyVars>>

(***************************************************************************)
(* resend_on_the_way.  The number it may correct first is followed in      *)
(* RatingRequest.  Nothing was announced yet: there is nothing to resend.  *)
(***************************************************************************)
ResendNothing(r) ==
  /\ At(r, "resend", "loaded")
  /\ notif = "absent" \/ ~token
  /\ End(r)
  /\ UNCHANGED <<dbVars, historyVars>>

(***************************************************************************)
(* The notification goes back to queued.  The text is then built from the  *)
(* instance: an instance loaded before the start stored the ETA has none,  *)
(* format_eta raises and the request dies.                                 *)
(***************************************************************************)
ResendQueue(r) ==
  /\ At(r, "resend", "loaded")
  /\ notif # "absent" /\ token
  /\ notif' = "queued"
  /\ IF mem[r].eta = NoEta
       THEN End(r) /\ cut' = TRUE
       ELSE Proceed(r, "send") /\ UNCHANGED cut
  /\ UNCHANGED <<row, token, announced, startEta, toldEta, ratingTasks, webhooks>>

(* The worker is killed (timeout, redeploy) or an exception ends the request. *)
Crash(r) ==
  /\ pc[r] # "idle"
  /\ End(r)
  /\ cut' = (cut \/ pc[r] \notin {"loaded", "save"})
  /\ UNCHANGED <<dbVars, announced, startEta, toldEta, ratingTasks, webhooks>>

-----------------------------------------------------------------------------
StartStep(r) ==
  \/ StartDeclined(r) \/ StartNeedsEta(r) \/ StartPlanned(r)
  \/ StartSave(r) \/ StartToken(r) \/ StartCreate(r) \/ StartClash(r)
  \/ StartSchedule(r)

Step(r) ==
  \/ StartStep(r) \/ Send(r) \/ Record(r) \/ Report(r)
  \/ Ready(r) \/ Deliver(r) \/ Delete(r) \/ Restore(r)
  \/ ResendNothing(r) \/ ResendQueue(r)

Next == \E r \in Requests :
  (\E o \in Offered : Begin(r, o)) \/ Step(r) \/ Crash(r)

Spec == Init /\ [][Next]_vars

(* A thread that has begun a request runs it to its end or dies. *)
FairSpec == Spec /\ \A r \in Requests : WF_vars(Step(r))

-----------------------------------------------------------------------------
(* No request is being served. *)
Quiet == \A r \in Requests : pc[r] = "idle"

(* Starts that have written the row and do not know yet whether it is theirs. *)
Claimants == {r \in Requests : op[r] = "start" /\ pc[r] \in {"token", "create"}}

(* Starts that have created the notification and are not done with it. *)
Owners == {r \in Requests : op[r] = "start" /\
             pc[r] \in {"send", "accepted", "refused", "schedule", "report"}}

(* Requests that will save the notification's outcome. *)
Senders == {r \in Requests : pc[r] \in {"send", "accepted", "refused"}}

(* Resends that have loaded their instance. *)
Resenders == {r \in Requests : op[r] = "resend"}

(***************************************************************************)
(* However many starts overlap, and whatever dies or is sent again, a      *)
(* start hands at most one message to the provider and plans at most one   *)
(* rating request (start_delivery is idempotent).                          *)
(***************************************************************************)
StartActsOnce == announced <= 1 /\ ratingTasks <= 1

(***************************************************************************)
(* Only a request cut short leaves a mess: otherwise a queued notification *)
(* has a request about to save its outcome, and a delivery on its way has  *)
(* its notification or a start about to create it (start_delivery and      *)
(* resend_on_the_way leave no loose end by themselves).                    *)
(***************************************************************************)
NoLooseEnds ==
  ~cut => /\ notif = "queued" => Senders # {}
          /\ row.status = "on_the_way" /\ notif = "absent" => Claimants # {}

(***************************************************************************)
(* The arrival time the recipient was last told, by a start or a resend,   *)
(* is the one the delivery shows, unless a request was cut short or a      *)
(* start has yet to find out that it lost (eta_at of start_delivery).      *)
(***************************************************************************)
EtaToldIsStored ==
  ~cut /\ Claimants = {} /\ toldEta # NoEta => toldEta = row.eta

(***************************************************************************)
(* The merchant hears of everything: once no request is left, an enqueue   *)
(* of delivery.delivered was tried if the delivery is delivered, and one   *)
(* of delivery.started if a start announced it (emit_delivery_event).      *)
(***************************************************************************)
MerchantTold ==
  ~cut /\ Quiet =>
    /\ row.status = "delivered" => webhooks.delivered
    /\ notif # "absent" => webhooks.started > 0

(***************************************************************************)
(* Requests save single columns, so none undoes another's work with its    *)
(* stale instance: the deletion mark moves only in delete and restore, the *)
(* ETA only in a start (update_fields).                                    *)
(***************************************************************************)
ColumnOwners ==
  [][ /\ row'.deleted # row.deleted =>
           \E r \in Requests : op[r] \in {"delete", "restore"} /\ pc'[r] # pc[r]
      /\ row'.eta # row.eta =>
           \E r \in Requests : op[r] = "start" /\ pc'[r] # pc[r] ]_vars

(***************************************************************************)
(* Statuses are final once the dust has settled: after a moment when no    *)
(* request is left, an announced delivery that is delivered stays so, and  *)
(* one that is on its way is never again less than that, whatever requests *)
(* come (the guards of start_delivery, mark_ready and mark_delivered).     *)
(***************************************************************************)
UnderWay == row.status \in {"on_the_way", "delivered"}
SettledUnderWay  == Quiet /\ notif # "absent" /\ UnderWay
SettledDelivered == Quiet /\ notif # "absent" /\ row.status = "delivered"

UnderWayIsKept  == [](SettledUnderWay => []UnderWay)
DeliveredIsKept == [](SettledDelivered => [](row.status = "delivered"))

(***************************************************************************)
(* A delivery put on its way is announced to its recipient in the end, by  *)
(* the start that put it there or by the one that beat it, unless a        *)
(* request is cut short (start_delivery notifies).                         *)
(***************************************************************************)
OnTheWayIsAnnounced == row.status = "on_the_way" ~> announced = 1 \/ cut

-----------------------------------------------------------------------------
(***************************************************************************)
(* The inductive invariant behind the safety properties, part by part.     *)
(***************************************************************************)

(* A request stands only at the places of its operation. *)
PlacesOK ==
  \A r \in Requests :
    /\ pc[r] = "idle" <=> op[r] = "none"
    /\ pc[r] \in {"save", "token", "create", "schedule"} => op[r] = "start"
    /\ pc[r] \in {"send", "accepted", "refused"} => op[r] \in {"start", "resend"}
    /\ pc[r] = "report" => op[r] \in {"start", "deliver"}
    /\ pc[r] \in {"save", "token", "create", "send"} => mem[r].eta \in Etas

(* Without a notification nobody has announced anything. *)
NothingBeforeNotif ==
  notif = "absent" => /\ Senders = {} /\ Owners = {}
                      /\ announced = 0 /\ ratingTasks = 0 /\ webhooks.started = 0
                      /\ startEta = NoEta /\ toldEta = NoEta

(* The notification has an ETA and one owner, which sends, plans and reports once, in that order. *)
OneOwner ==
  /\ notif # "absent" => startEta \in Etas
  /\ \A r, q \in Owners : r = q
  /\ \A r \in Owners :
       /\ mem[r].eta = startEta
       /\ announced = IF pc[r] = "send" THEN 0 ELSE 1
       /\ pc[r] # "report" => ratingTasks = 0
       /\ webhooks.started = 0

(* Before the notification: a lone claimant's ETA is the one stored. *)
EtaBeforeNotif ==
  ~cut /\ notif = "absent" =>
    /\ Claimants = {} =>
         row.eta = NoEta /\ \A q \in Resenders : mem[q].eta = NoEta
    /\ \A r \in Claimants : Claimants = {r} =>
         /\ row.eta = mem[r].eta
         /\ \A q \in Resenders : mem[q].eta \in {NoEta, mem[r].eta}

(* After it, with no loser about to fail: one ETA is stored, loaded and told. *)
EtaAfterNotif ==
  ~cut /\ notif # "absent" /\ Claimants = {} =>
    /\ row.eta = startEta
    /\ toldEta \in {NoEta, startEta}
    /\ \A q \in Resenders : mem[q].eta \in {NoEta, startEta}

(* What the merchant has not been told is about to be reported. *)
ReportsPending ==
  ~cut =>
    /\ row.status = "delivered" => \/ webhooks.delivered
                                   \/ \E r \in Requests : At(r, "deliver", "report")
    /\ notif # "absent" => webhooks.started > 0 \/ Owners # {}

(***************************************************************************)
(* The inductive invariant: typing, the parts above, and the two safety    *)
(* properties that are parts of it (what start_delivery, resend_on_the_way *)
(* and mark_delivered maintain together at every statement).               *)
(***************************************************************************)
IInv ==
  /\ TypeOK
  /\ PlacesOK
  /\ NothingBeforeNotif
  /\ OneOwner
  /\ StartActsOnce
  /\ NoLooseEnds
  /\ EtaBeforeNotif
  /\ EtaAfterNotif
  /\ ReportsPending

-----------------------------------------------------------------------------
(***************************************************************************)
(* What a start promises to those outside, as an abstract specification:   *)
(* the announcement of one claimed arrival time, the rating request and    *)
(* the merchant's event, each once and in that order.  Creating the        *)
(* notification claims; the rest is what left the program.                 *)
(***************************************************************************)
Promise == INSTANCE Announcement WITH
  claimed  <- startEta,
  told     <- toldEta,
  handed   <- announced,
  planned  <- ratingTasks,
  reported <- webhooks.started

(***************************************************************************)
(* Every step of the code keeps that promise or does not touch it: no      *)
(* second start, no resend and no death makes the program plan a rating or *)
(* report a start that was not handed over, plan after the report, do any  *)
(* of it twice, or announce another time than the claimed one              *)
(* (start_delivery, lines 364 to 383).                                     *)
(***************************************************************************)
KeepsPromise == Promise!Spec

=============================================================================
