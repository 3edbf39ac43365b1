--------------------------- MODULE OnTheWayMessage ---------------------------
(***************************************************************************)
(* The on_the_way message of one delivery from the first attempt to the    *)
(* last receipt: the synchronous chain of channels tried by a start or a   *)
(* resend, the delayed escalation to channels not tried yet, and the       *)
(* provider's delivery and seen reports (deliveries/services.py,           *)
(* integrations/chained.py, notifications/webhooks.py, tasks/views.py).    *)
(*                                                                         *)
(* All of them write the same Notification row and its attempts, each from *)
(* an instance loaded earlier, one statement at a time.  The task queue    *)
(* delivers a callback at least once; the provider's reports come late,    *)
(* repeated, out of order or never.                                        *)
(***************************************************************************)
EXTENDS Naturals, Sequences, FiniteSets

CONSTANTS
  Workers,     \* worker threads
  Chain,       \* channels of the configured chain, in the order they are tried
  Deployments, \* sets of channels whose provider class has the attribute "channel"
  MaxMessages, \* bound: messages the provider accepts in a behaviour
  MaxResends,  \* bound: resends in a behaviour
  NoMid        \* no provider message id

Channels == {Chain[i] : i \in DOMAIN Chain}
Mids     == 1..MaxMessages

(* A chain is a list of distinct channels. *)
ASSUME ChainAssumption ==
  /\ Chain \in Seq(Channels)
  /\ \A i, j \in DOMAIN Chain : Chain[i] = Chain[j] => i = j
ASSUME BoundsAssumption == MaxMessages \in Nat /\ MaxResends \in Nat
ASSUME NoMidAssumption == NoMid \notin Mids
ASSUME DeploymentsAssumption == Deployments \subseteq SUBSET Channels

VARIABLES
  declared, \* the channels whose provider class declares its channel, never changes
  notif,    \* the Notification row: status, provider_message_id
  tried,    \* channels with a NotificationAttempt row
  messages, \* what became of each message the provider accepted
  reports,  \* reports the provider has issued, each may arrive any number of times
  tasks,    \* escalation callbacks in the task queue
  pc, op,   \* where each worker stands and what it does
  mem,      \* what each worker has in hand
  uses,     \* history: attempts per channel for the current logical message, two is many
  resends,  \* history: resends so far
  reported, \* history: the start reached its event for the merchant
  told,     \* history: arrivals the merchant was told of for the logical message
  refused,  \* history: the task queue refused a callback
  cut,      \* history: a worker died in a handler
  overlapped \* history: a handler began while another was running

dbVars  == <<notif, tried>>
envVars == <<messages, reports, tasks>>
hisVars == <<declared, uses, resends, reported, told, refused, cut>>
vars    == <<dbVars, envVars, pc, op, mem, hisVars, overlapped>>

NotifStatuses  == {"absent", "queued", "sent", "delivered", "read", "failed"}
Arrived        == {"delivered", "read"}
ReportStatuses == Arrived \cup {"failed"}
Report         == [mid : Mids, status : ReportStatuses]

Fates    == {"pending", "delivered", "read", "failed"}
Handlers == {"start", "resend", "escalate", "receipt"}
Places   == {"idle", "send", "save", "wipe", "write", "paths", "append",
             "promote", "plan", "report", "apply", "tell"}

(* An instance: its status, the answer of a send, the status a report asks for. *)
Memory == [status : NotifStatuses, ok : BOOLEAN, mid : Mids \cup {NoMid},
           used : SUBSET Channels, asks : ReportStatuses \cup {"none"}]
Blank == [status |-> "absent", ok |-> FALSE, mid |-> NoMid, used |-> {}, asks |-> "none"]

TypeOK ==
  /\ declared \in Deployments
  /\ notif \in [status : NotifStatuses, mid : Mids \cup {NoMid}]
  /\ tried \in SUBSET Channels
  /\ messages \in Seq(Fates) /\ Len(messages) <= MaxMessages
  /\ reports \in SUBSET Report
  /\ tasks \in Nat
  /\ pc \in [Workers -> Places]
  /\ op \in [Workers -> Handlers \cup {"none"}]
  /\ mem \in [Workers -> Memory]
  /\ uses \in [Channels -> 0..2]
  /\ resends \in 0..MaxResends
  /\ reported \in BOOLEAN
  /\ told \in SUBSET Arrived
  /\ refused \in BOOLEAN
  /\ cut \in BOOLEAN
  /\ overlapped \in BOOLEAN

Init ==
  /\ declared \in Deployments
  /\ notif = [status |-> "absent", mid |-> NoMid]
  /\ tried = {}
  /\ messages = <<>>
  /\ reports = {}
  /\ tasks = 0
  /\ pc = [w \in Workers |-> "idle"]
  /\ op = [w \in Workers |-> "none"]
  /\ mem = [w \in Workers |-> Blank]
  /\ uses = [c \in Channels |-> 0]
  /\ resends = 0
  /\ reported = FALSE
  /\ told = {}
  /\ refused = FALSE
  /\ cut = FALSE
  /\ overlapped = FALSE

-----------------------------------------------------------------------------
Enter(w, o, place) ==
  /\ pc[w] = "idle"
  /\ pc' = [pc EXCEPT ![w] = place]
  /\ op' = [op EXCEPT ![w] = o]
  /\ overlapped' = (overlapped \/ \E v \in Workers : pc[v] # "idle")

Proceed(w, place) == pc' = [pc EXCEPT ![w] = place] /\ UNCHANGED <<op, mem, overlapped>>

End(w) ==
  /\ pc' = [pc EXCEPT ![w] = "idle"]
  /\ op' = [op EXCEPT ![w] = "none"]
  /\ mem' = [mem EXCEPT ![w] = Blank]
  /\ UNCHANGED overlapped

(* The channels of the chain not tried yet for this message. *)
UntriedPaths(attempted) == Channels \ attempted

(* chain_channel_paths reads a class attribute of every provider in the chain. *)
ChainReadable == Channels \subseteq declared

(* What a provider answers: no, or yes with or without a message id. *)
Answers(new) ==
  {[ok |-> FALSE, mid |-> NoMid]} \cup (IF new \in Mids THEN [ok : {TRUE}, mid : {new, NoMid}] ELSE {})

(***************************************************************************)
(* ChainedMessagingProvider.send_text over some channels: the providers    *)
(* are asked in the chain's order until one accepts, here the n-th; every  *)
(* one asked leaves an attempt.                                            *)
(***************************************************************************)
SendOver(w, paths) ==
  \E n \in {i \in DOMAIN Chain : Chain[i] \in paths}, answer \in Answers(Len(messages) + 1) :
    LET used == {Chain[i] : i \in 1..n} \cap paths
    IN /\ answer.ok \/ used = paths
       /\ uses' = [c \in Channels |-> IF c \in used /\ uses[c] < 2 THEN uses[c] + 1 ELSE uses[c]]
       /\ messages' = IF answer.ok THEN Append(messages, "pending") ELSE messages
       /\ mem' = [mem EXCEPT ![w] = [@ EXCEPT !.ok = answer.ok, !.mid = answer.mid, !.used = used]]

-----------------------------------------------------------------------------
(* start_delivery from the creation of the notification on. *)
StartCreate(w) ==
  /\ notif.status = "absent"
  /\ Enter(w, "start", "send")
  /\ notif' = [notif EXCEPT !.status = "queued"]
  /\ UNCHANGED <<tried, envVars, mem, hisVars>>

(* resend_on_the_way: a new logical message in the same row. *)
ResendQueue(w) ==
  /\ notif.status # "absent"
  /\ resends < MaxResends
  /\ Enter(w, "resend", "send")
  /\ notif' = [notif EXCEPT !.status = "queued"]
  /\ uses' = [c \in Channels |-> 0]
  /\ resends' = resends + 1
  /\ told' = {}
  /\ UNCHANGED <<declared, tried, envVars, mem, reported, refused, cut>>

(* _send_and_record: send over the whole chain ... *)
Send(w) ==
  /\ pc[w] = "send"
  /\ SendOver(w, Channels)
  /\ pc' = [pc EXCEPT ![w] = "save"]
  /\ UNCHANGED <<declared, dbVars, reports, tasks, op, resends, reported, told, refused, cut, overlapped>>

(* ... save the outcome and the winner on the notification ... *)
SaveOutcome(w) ==
  /\ pc[w] = "save"
  /\ notif' = [status |-> IF mem[w].ok THEN "sent" ELSE "failed", mid |-> mem[w].mid]
  /\ Proceed(w, "wipe")
  /\ UNCHANGED <<tried, envVars, hisVars>>

(* ... and replace the attempts, in two statements. *)
WipeAttempts(w) ==
  /\ pc[w] = "wipe"
  /\ tried' = {}
  /\ Proceed(w, "write")
  /\ UNCHANGED <<notif, envVars, hisVars>>

WriteAttempts(w) ==
  /\ pc[w] = "write"
  /\ tried' = tried \cup mem[w].used
  /\ IF op[w] = "start" THEN Proceed(w, "plan") ELSE End(w)
  /\ UNCHANGED <<notif, envVars, hisVars>>

(***************************************************************************)
(* _schedule_escalation_if_pending: a callback for the channels left.  The *)
(* queue may refuse it, which is caught; a provider class without channel  *)
(* raises, which is not.                                                   *)
(***************************************************************************)
PlanRaises(w) ==
  /\ pc[w] = "plan"
  /\ ~ChainReadable
  /\ End(w)
  /\ UNCHANGED <<dbVars, envVars, hisVars>>

(* A slip for Plan: the queue's refusal is not caught. *)
RefusalEscapes(w) ==
  /\ pc[w] = "plan"
  /\ ChainReadable
  /\ UntriedPaths(tried) # {}
  /\ refused' = TRUE
  /\ End(w)
  /\ UNCHANGED <<declared, dbVars, envVars, uses, resends, reported, told, cut>>

Plan(w) ==
  /\ pc[w] = "plan"
  /\ ChainReadable
  /\ \/ UntriedPaths(tried) = {} /\ UNCHANGED <<tasks, refused>>
     \/ UntriedPaths(tried) # {} /\ tasks' = tasks + 1 /\ UNCHANGED refused
     \/ UntriedPaths(tried) # {} /\ refused' = TRUE /\ UNCHANGED tasks
  /\ IF op[w] = "start" THEN Proceed(w, "report") ELSE End(w)
  /\ UNCHANGED <<declared, dbVars, messages, reports, uses, resends, reported, told, cut>>

(* emit_delivery_event(delivery, "delivery.started") *)
ReportStart(w) ==
  /\ pc[w] = "report"
  /\ reported' = TRUE
  /\ End(w)
  /\ UNCHANGED <<declared, dbVars, envVars, uses, resends, told, refused, cut>>

-----------------------------------------------------------------------------
(* A slip for EscalateLoad: arrival is not asked about. *)
EscalateAnyway(w) ==
  /\ tasks > 0
  /\ notif.status # "absent"
  /\ Enter(w, "escalate", "paths")
  /\ mem' = [mem EXCEPT ![w].status = notif.status]
  /\ tasks' \in {tasks, tasks - 1}
  /\ UNCHANGED <<dbVars, messages, reports, hisVars>>

(***************************************************************************)
(* escalate_delivery, called back by the task queue.  The queue may call   *)
(* again for the same task.                                                *)
(***************************************************************************)
EscalateLoad(w) ==
  /\ tasks > 0
  /\ notif.status \notin {"absent", "delivered", "read"}
  /\ Enter(w, "escalate", "paths")
  /\ mem' = [mem EXCEPT ![w].status = notif.status]
  /\ tasks' \in {tasks, tasks - 1}
  /\ UNCHANGED <<dbVars, messages, reports, hisVars>>

(* The message has arrived: the callback is a no-op. *)
EscalateNotNeeded ==
  /\ tasks > 0
  /\ notif.status \in {"delivered", "read"}
  /\ tasks' = tasks - 1
  /\ UNCHANGED <<dbVars, messages, reports, pc, op, mem, hisVars, overlapped>>

(* A callback was planned, so the chain can be read. *)
EscalateExhausted(w) ==
  /\ pc[w] = "paths"
  /\ UntriedPaths(tried) = {}
  /\ End(w)
  /\ UNCHANGED <<dbVars, envVars, hisVars>>

EscalateSend(w) ==
  /\ pc[w] = "paths"
  /\ UntriedPaths(tried) # {}
  /\ SendOver(w, UntriedPaths(tried))
  /\ pc' = [pc EXCEPT ![w] = "append"]
  /\ UNCHANGED <<declared, dbVars, reports, tasks, op, resends, reported, told, refused, cut, overlapped>>

(* A slip for EscalateAppend: the earlier attempts are replaced. *)
AttemptsReplaced(w) ==
  /\ pc[w] = "append"
  /\ tried' = mem[w].used
  /\ IF mem[w].ok THEN Proceed(w, "promote") ELSE End(w)
  /\ UNCHANGED <<notif, envVars, hisVars>>

(* _append_attempts *)
EscalateAppend(w) ==
  /\ pc[w] = "append"
  /\ tried' = tried \cup mem[w].used
  /\ IF mem[w].ok THEN Proceed(w, "promote") ELSE End(w)
  /\ UNCHANGED <<notif, envVars, hisVars>>

(* A slip for EscalatePromote: acceptance is taken for arrival. *)
AcceptedIsDelivered(w) ==
  /\ pc[w] = "promote"
  /\ notif' = [status |-> "delivered", mid |-> mem[w].mid]
  /\ Proceed(w, "plan")
  /\ UNCHANGED <<tried, envVars, hisVars>>

(* A slip for EscalatePromote: the provider's word is stored for a status. *)
PromoteAnswer(w) ==
  /\ pc[w] = "promote"
  /\ notif' = [status |-> "accepted", mid |-> mem[w].mid]
  /\ Proceed(w, "plan")
  /\ UNCHANGED <<tried, envVars, hisVars>>

(* A slip for EscalatePromote: the next check is not planned. *)
PromoteWithoutPlan(w) ==
  /\ pc[w] = "promote"
  /\ notif' = [status |-> "sent", mid |-> mem[w].mid]
  /\ End(w)
  /\ UNCHANGED <<tried, envVars, hisVars>>

(* The escalation's message becomes the current one. *)
EscalatePromote(w) ==
  /\ pc[w] = "promote"
  /\ notif' = [status |-> "sent", mid |-> mem[w].mid]
  /\ Proceed(w, "plan")
  /\ UNCHANGED <<tried, envVars, hisVars>>

-----------------------------------------------------------------------------
(* A slip for ReceiptLoad: the row is looked up by delivery, not by message id. *)
ReceiptForDelivery(w) ==
  \E rep \in reports :
    /\ notif.status # "absent"
    /\ Enter(w, "receipt", "apply")
    /\ mem' = [mem EXCEPT ![w] = [@ EXCEPT !.status = notif.status, !.asks = rep.status]]
    /\ UNCHANGED <<dbVars, envVars, hisVars>>

(* infobip_reports: the row is looked up by the report's message id. *)
ReceiptLoad(w) ==
  \E rep \in reports :
    /\ notif.mid = rep.mid
    /\ Enter(w, "receipt", "apply")
    /\ mem' = [mem EXCEPT ![w] = [@ EXCEPT !.status = notif.status, !.asks = rep.status]]
    /\ UNCHANGED <<dbVars, envVars, hisVars>>

Rank(s) == CASE s = "sent" -> 1 [] s = "delivered" -> 2 [] s = "read" -> 3 [] OTHER -> 0

(* _apply, decided on the instance: failed only before arrival, else upwards. *)
Applies(status, asks) ==
  IF asks = "failed" THEN status \in {"queued", "sent"} ELSE Rank(asks) > Rank(status)

ReceiptApply(w) ==
  /\ pc[w] = "apply"
  /\ IF Applies(mem[w].status, mem[w].asks)
       THEN notif' = [notif EXCEPT !.status = mem[w].asks] /\ Proceed(w, "tell")
       ELSE UNCHANGED notif /\ End(w)
  /\ UNCHANGED <<tried, envVars, hisVars>>

(* A slip for ReceiptTell: there is no event for a message that was seen. *)
TellUnlessRead(w) ==
  /\ pc[w] = "tell"
  /\ told' = told \cup ({mem[w].asks} \cap {"delivered"})
  /\ End(w)
  /\ UNCHANGED <<declared, dbVars, envVars, uses, resends, reported, refused, cut>>

(* _emit_notification_event: a change is told to the merchant; arrivals are followed. *)
ReceiptTell(w) ==
  /\ pc[w] = "tell"
  /\ told' = told \cup ({mem[w].asks} \cap Arrived)
  /\ End(w)
  /\ UNCHANGED <<declared, dbVars, envVars, uses, resends, reported, refused, cut>>

(* The worker dies. *)
Crash(w) ==
  /\ pc[w] # "idle"
  /\ cut' = TRUE
  /\ End(w)
  /\ UNCHANGED <<declared, dbVars, envVars, uses, resends, reported, told, refused>>

-----------------------------------------------------------------------------
(* The network: an accepted message arrives and is seen, or fails. *)
Fate(m) ==
  /\ \/ messages[m] = "pending" /\ messages' = [messages EXCEPT ![m] = "delivered"]
     \/ messages[m] = "pending" /\ messages' = [messages EXCEPT ![m] = "failed"]
     \/ messages[m] = "delivered" /\ messages' = [messages EXCEPT ![m] = "read"]
  /\ reports' = reports \cup {[mid |-> m, status |-> messages'[m]]}
  /\ UNCHANGED <<dbVars, tasks, pc, op, mem, hisVars, overlapped>>

Work(w) ==
  \/ Send(w) \/ SaveOutcome(w) \/ WipeAttempts(w) \/ WriteAttempts(w)
  \/ Plan(w) \/ PlanRaises(w) \/ ReportStart(w)
  \/ EscalateExhausted(w) \/ EscalateSend(w)
  \/ EscalateAppend(w) \/ EscalatePromote(w)
  \/ ReceiptApply(w) \/ ReceiptTell(w)

Arrive(w) == StartCreate(w) \/ ResendQueue(w) \/ EscalateLoad(w) \/ ReceiptLoad(w)

Next ==
  \/ \E w \in Workers : Arrive(w) \/ Work(w) \/ Crash(w)
  \/ EscalateNotNeeded
  \/ \E m \in DOMAIN messages : Fate(m)

Spec == Init /\ [][Next]_vars

(***************************************************************************)
(* A worker goes on with its handler.  The queue repeats a call until one  *)
(* succeeds, also when the workers are busy with other requests: some      *)
(* worker serves it in the end.                                            *)
(***************************************************************************)
FairSpec ==
  /\ Spec
  /\ \A w \in Workers : WF_vars(Work(w))
  /\ SF_vars(\E w \in Workers : EscalateLoad(w))
  /\ WF_vars(EscalateNotNeeded)

-----------------------------------------------------------------------------
Starting == \E w \in Workers : op[w] = "start"

(***************************************************************************)
(* The recipient's page and the merchant are told delivered or read only   *)
(* of a message that arrived: a receipt never credits one message with the *)
(* fate of another, when the handlers run one after another, whatever the  *)
(* order of receipts, resends and escalations (infobip_reports looks the   *)
(* row up by message id; resend and escalation replace the id).            *)
(***************************************************************************)
StatusIsOfCurrentMessage ==
  ~overlapped =>
    /\ notif.status = "read" =>
         notif.mid \in DOMAIN messages /\ messages[notif.mid] = "read"
    /\ notif.status = "delivered" =>
         notif.mid \in DOMAIN messages /\ messages[notif.mid] \in Arrived

(***************************************************************************)
(* Even when handlers overlap, arrival is not invented: some message of    *)
(* the delivery got that far (_apply, escalate_delivery, _send_and_record).*)
(***************************************************************************)
ArrivalIsReal ==
  /\ notif.status = "read" => \E m \in DOMAIN messages : messages[m] = "read"
  /\ notif.status = "delivered" => \E m \in DOMAIN messages : messages[m] \in Arrived

(***************************************************************************)
(* "Never lowered": what has arrived stays arrived until somebody resends; *)
(* no late, repeated or failed receipt and no escalation takes it back,    *)
(* when handlers run one after another (_apply, escalate_delivery).        *)
(***************************************************************************)
NeverLowered ==
  [][~overlapped' /\ notif.status \in Arrived /\ Rank(notif'.status) < Rank(notif.status)
       => \E w \in Workers : op'[w] = "resend"]_vars

(***************************************************************************)
(* The recipient gets a logical message at most once per channel, also     *)
(* when the task queue repeats a callback and reports arrive in between,   *)
(* unless a worker died between sending and recording (escalate_delivery   *)
(* only uses channels without an attempt).                                 *)
(***************************************************************************)
OncePerChannel == ~cut /\ ~overlapped => \A c \in Channels : uses[c] <= 1

(***************************************************************************)
(* "A failure of the scheduler does not break the start": a start that is  *)
(* over has reported to the merchant, whatever became of its escalation    *)
(* (start_delivery, _schedule_escalation_if_pending).                      *)
(***************************************************************************)
StartIsReported ==
  notif.status # "absent" /\ ~Starting /\ ~cut => reported

(***************************************************************************)
(* The merchant is told of every arrival that the delivery shows, also     *)
(* when handlers overlap and a resend or an escalation reuses the row: the *)
(* one receipt that moves the status tells of it, a repeated one does not  *)
(* need to, so only a worker that dies in between keeps it from the        *)
(* merchant (infobip_reports, _apply, _emit_notification_event).           *)
(***************************************************************************)
ArrivalIsReported ==
  ~cut /\ notif.status \in Arrived =>
    notif.status \in told \cup {mem[w].asks : w \in {v \in Workers : pc[v] = "tell"}}

(***************************************************************************)
(* A message that does not arrive is tried on every channel in the end:    *)
(* the chain of planned callbacks does not break by itself, only when the  *)
(* queue refuses a task or a worker dies (escalate_delivery plans the next *)
(* check after each promotion), where every class of the chain declares    *)
(* its channel.  A resend plans none and is left out.                      *)
(***************************************************************************)
EscalatesToTheEnd ==
  ChainReadable /\ notif.status # "absent" ~>
    \/ tried = Channels
    \/ \E m \in DOMAIN messages : messages[m] \in Arrived
    \/ refused \/ cut

-----------------------------------------------------------------------------
(***************************************************************************)
(* The inductive invariants behind the safety properties, part by part.    *)
(***************************************************************************)

(* A worker stands only at the places of its handler. *)
PlacesOK ==
  /\ \A w \in Workers :
       /\ pc[w] = "idle" <=> op[w] = "none"
       /\ pc[w] \in {"send", "save", "wipe", "write"} => op[w] \in {"start", "resend"}
       /\ pc[w] \in {"paths", "append", "promote"} => op[w] = "escalate"
       /\ pc[w] = "plan" => op[w] \in {"start", "escalate"}
       /\ pc[w] = "report" => op[w] = "start"
       /\ pc[w] \in {"apply", "tell"} => op[w] = "receipt" /\ mem[w].asks \in ReportStatuses
  /\ notif.status = "absent" =>
       /\ notif.mid = NoMid
       /\ \A w \in Workers : pc[w] = "idle"
       /\ \A c \in Channels : uses[c] = 0

(* A message came as far as a status says. *)
Came(m, status) ==
  m \in DOMAIN messages /\ messages[m] \in (IF status = "read" THEN {"read"} ELSE Arrived)

(* What reports, receipts under way and the row say has happened. *)
ReceiptsTrue ==
  /\ \A rep \in reports : rep.status \in Arrived => Came(rep.mid, rep.status)
  /\ \A w \in Workers : mem[w].asks \in Arrived => \E m \in Mids : Came(m, mem[w].asks)
  /\ notif.status \in Arrived => \E m \in Mids : Came(m, notif.status)

(* Handlers that do not overlap know the row as it is. *)
OneAtATime ==
  ~overlapped =>
    /\ \A v, w \in Workers : pc[v] # "idle" /\ pc[w] # "idle" => v = w
    /\ \A w \in Workers :
         /\ pc[w] \in {"send", "save"} => notif.status = "queued"
         /\ pc[w] \in {"paths", "append", "promote"} => notif.status \notin Arrived
         /\ pc[w] = "apply" =>
              /\ mem[w].status = notif.status
              /\ mem[w].asks \in Arrived => Came(notif.mid, mem[w].asks)
    /\ notif.status \in Arrived => Came(notif.mid, notif.status)

(* ... and every use of a channel is among the attempts, or about to be. *)
UsesRecorded ==
  ~cut /\ ~overlapped =>
    \A c \in Channels :
      /\ uses[c] <= 1
      /\ \A w \in Workers :
           /\ pc[w] = "send" => uses[c] = 0
           /\ uses[c] = 1 /\ pc[w] \in {"save", "wipe", "write"} => c \in mem[w].used
           /\ uses[c] = 1 /\ pc[w] = "append" => c \in tried \cup mem[w].used
      /\ uses[c] = 1 => \/ c \in tried
                        \/ \E w \in Workers : pc[w] \in {"save", "wipe", "write", "append"}

(***************************************************************************)
(* The inductive invariant: typing and the parts above (what the handlers  *)
(* of the message keep true together at every statement, _send_and_record, *)
(* escalate_delivery, infobip_reports).                                    *)
(***************************************************************************)
IInv == TypeOK /\ PlacesOK /\ ReceiptsTrue /\ OneAtATime /\ UsesRecorded

=============================================================================
