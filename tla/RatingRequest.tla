---------------------------- MODULE RatingRequest ----------------------------
(***************************************************************************)
(* What follows a start: the task queue calls back to ask the recipient    *)
(* for a rating, while the recipient opts out or rates on the public page  *)
(* and the shop corrects the number and sends again (tasks/views.py,       *)
(* send_rating_request and resend_on_the_way of deliveries/services.py,    *)
(* tracking/views.py, notifications/webhooks.py).                          *)
(*                                                                         *)
(* The model follows one started delivery: it has its tracking token and   *)
(* one planned callback.  The queue keeps a task until a callback returns, *)
(* and may call again after that.                                          *)
(***************************************************************************)
EXTENDS Naturals, Sequences

CONSTANTS
  Workers,    \* worker threads
  Phones,     \* numbers the delivery may be given
  Values,     \* ratings, 1 to 5 in the code
  NoRating,   \* the delivery has no Rating row
  MaxCrashes  \* bound: workers that die in a behaviour

ASSUME PhonesAssumption == Phones # {}
ASSUME RatingAssumption == NoRating \notin Values
ASSUME MaxCrashesAssumption == MaxCrashes \in Nat

VARIABLES
  phone,    \* recipient_phone of the delivery
  optedOut, \* numbers with an OptOut row
  requests, \* status of each rating_request Notification
  rating,   \* the Rating row
  expired,  \* the tracking token has expired
  task,     \* the queue holds the rating task
  pc, op,   \* where each worker stands and what it does
  mem,      \* what each worker has in hand
  asked,    \* history: how often a rating request was handed over
  events,   \* history: rating.created events for the merchant
  crashes,  \* history: workers that died
  overlapped \* history: a callback began while another was running

dbVars  == <<phone, optedOut, requests, rating, expired>>
hisVars == <<asked, events, crashes>>
vars    == <<dbVars, task, pc, op, mem, hisVars, overlapped>>

(* An instance's number, the notification created, the rating posted. *)
Instance == [phone : Phones, id : Nat, value : Values \cup {NoRating}]

TypeOK ==
  /\ phone \in Phones
  /\ optedOut \in SUBSET Phones
  /\ requests \in Seq({"queued", "sent", "failed"})
  /\ rating \in Values \cup {NoRating}
  /\ expired \in BOOLEAN
  /\ task \in BOOLEAN
  /\ pc \in [Workers -> {"idle", "exists", "blocklist", "create", "send", "sent", "failed",
                         "optout", "correct", "find", "insert", "update", "emit"}]
  /\ op \in [Workers -> {"none", "callback", "unsubscribe", "resend", "rate"}]
  /\ mem \in [Workers -> Instance]
  /\ asked \in Nat
  /\ events \in Nat
  /\ crashes \in 0..MaxCrashes
  /\ overlapped \in BOOLEAN

Blank == [phone |-> CHOOSE p \in Phones : TRUE, id |-> 0, value |-> NoRating]

Init ==
  /\ phone \in Phones
  /\ optedOut = {}
  /\ requests = <<>>
  /\ rating = NoRating
  /\ expired = FALSE
  /\ task = TRUE
  /\ pc = [w \in Workers |-> "idle"]
  /\ op = [w \in Workers |-> "none"]
  /\ mem = [w \in Workers |-> Blank]
  /\ asked = 0
  /\ events = 0
  /\ crashes = 0
  /\ overlapped = FALSE

-----------------------------------------------------------------------------
(* A handler begins: it loads the delivery. *)
Enter(w, o, place, value) ==
  /\ pc[w] = "idle"
  /\ pc' = [pc EXCEPT ![w] = place]
  /\ op' = [op EXCEPT ![w] = o]
  /\ overlapped' = (overlapped \/ (o = "callback" /\ \E v \in Workers : op[v] = "callback"))
  /\ mem' = [mem EXCEPT ![w] = [@ EXCEPT !.phone = phone, !.value = value]]

Proceed(w, place) == pc' = [pc EXCEPT ![w] = place] /\ UNCHANGED <<op, mem, overlapped>>

End(w) ==
  /\ pc' = [pc EXCEPT ![w] = "idle"]
  /\ op' = [op EXCEPT ![w] = "none"]
  /\ mem' = [mem EXCEPT ![w] = Blank]
  /\ UNCHANGED overlapped

(* The callback answers 200: the queue drops the task, if it takes notice. *)
Acknowledge(w) == End(w) /\ task' \in {FALSE, task}

-----------------------------------------------------------------------------
(* A slip for CallbackLoad: the queue gets its answer before the work is done. *)
AcknowledgedFirst(w) ==
  /\ task
  /\ task' = FALSE
  /\ Enter(w, "callback", "exists", NoRating)
  /\ UNCHANGED <<dbVars, hisVars>>

(* send_rating, called by the task queue. *)
CallbackLoad(w) ==
  /\ task
  /\ Enter(w, "callback", "exists", NoRating)
  /\ UNCHANGED <<dbVars, task, hisVars>>

(* send_rating_request: one rating_request per delivery. *)
CallbackDuplicate(w) ==
  /\ pc[w] = "exists"
  /\ requests # <<>>
  /\ Acknowledge(w)
  /\ UNCHANGED <<dbVars, hisVars>>

(* A slip for CallbackFirst: the blocklist is not asked. *)
BlocklistSkipped(w) ==
  /\ pc[w] = "exists"
  /\ requests = <<>>
  /\ Proceed(w, "create")
  /\ UNCHANGED <<dbVars, task, hisVars>>

CallbackFirst(w) ==
  /\ pc[w] = "exists"
  /\ requests = <<>>
  /\ Proceed(w, "blocklist")
  /\ UNCHANGED <<dbVars, task, hisVars>>

(* is_opted_out, asked of the instance's number. *)
CallbackOptedOut(w) ==
  /\ pc[w] = "blocklist"
  /\ mem[w].phone \in optedOut
  /\ Acknowledge(w)
  /\ UNCHANGED <<dbVars, hisVars>>

CallbackAllowed(w) ==
  /\ pc[w] = "blocklist"
  /\ mem[w].phone \notin optedOut
  /\ Proceed(w, "create")
  /\ UNCHANGED <<dbVars, task, hisVars>>

(* A slip for CallbackCreate: the row waits for the answer of the provider. *)
CreateAfterSend(w) ==
  /\ pc[w] = "create"
  /\ Proceed(w, "send")
  /\ UNCHANGED <<dbVars, task, hisVars>>

(* No constraint keeps a second rating_request out. *)
CallbackCreate(w) ==
  /\ pc[w] = "create"
  /\ requests' = Append(requests, "queued")
  /\ mem' = [mem EXCEPT ![w] = [@ EXCEPT !.id = Len(requests) + 1]]
  /\ pc' = [pc EXCEPT ![w] = "send"]
  /\ UNCHANGED <<phone, optedOut, rating, expired, task, op, hisVars, overlapped>>

(* _send_and_record *)
CallbackSend(w) ==
  /\ pc[w] = "send"
  /\ asked' = asked + 1
  /\ \E outcome \in {"sent", "failed"} : Proceed(w, outcome)
  /\ UNCHANGED <<dbVars, task, events, crashes>>

CallbackRecord(w) ==
  /\ pc[w] \in {"sent", "failed"}
  /\ requests' = [requests EXCEPT ![mem[w].id] = pc[w]]
  /\ Acknowledge(w)
  /\ UNCHANGED <<phone, optedOut, rating, expired, hisVars>>

-----------------------------------------------------------------------------
(* unsubscribe, the link on the public page, while the token is good ... *)
UnsubscribeLoad(w) ==
  /\ ~expired
  /\ Enter(w, "unsubscribe", "optout", NoRating)
  /\ UNCHANGED <<dbVars, task, hisVars>>

(* ... and opt_out, which is idempotent. *)
Unsubscribe(w) ==
  /\ pc[w] = "optout"
  /\ optedOut' = optedOut \cup {mem[w].phone}
  /\ End(w)
  /\ UNCHANGED <<phone, requests, rating, expired, task, hisVars>>

(* infobip_optout: the recipient answered STOP, possibly from a former number. *)
StopReply(p) ==
  /\ p \notin optedOut
  /\ optedOut' = optedOut \cup {p}
  /\ UNCHANGED <<phone, requests, rating, expired, task, pc, op, mem, hisVars, overlapped>>

(* resend_on_the_way as far as the number is concerned. *)
ResendLoad(w) ==
  /\ Enter(w, "resend", "correct", NoRating)
  /\ UNCHANGED <<dbVars, task, hisVars>>

ResendCorrect(w) ==
  /\ pc[w] = "correct"
  /\ phone' \in Phones
  /\ End(w)
  /\ UNCHANGED <<optedOut, requests, rating, expired, task, hisVars>>

-----------------------------------------------------------------------------
(* rate: update_or_create looks for the row, inserts or updates it. *)
RateLoad(w) ==
  /\ ~expired
  /\ \E v \in Values : Enter(w, "rate", "find", v)
  /\ UNCHANGED <<dbVars, task, hisVars>>

RateFind(w) ==
  /\ pc[w] = "find"
  /\ Proceed(w, IF rating = NoRating THEN "insert" ELSE "update")
  /\ UNCHANGED <<dbVars, task, hisVars>>

(* The one-to-one constraint lets one insert pass; the others update. *)
RateInsert(w) ==
  /\ pc[w] = "insert"
  /\ IF rating = NoRating
       THEN rating' = mem[w].value /\ Proceed(w, "emit")
       ELSE UNCHANGED rating /\ Proceed(w, "update")
  /\ UNCHANGED <<phone, optedOut, requests, expired, task, hisVars>>

(* A slip for RateUpdate: an update is reported like a new rating. *)
UpdateReported(w) ==
  /\ pc[w] = "update"
  /\ rating' = mem[w].value
  /\ Proceed(w, "emit")
  /\ UNCHANGED <<phone, optedOut, requests, expired, task, hisVars>>

RateUpdate(w) ==
  /\ pc[w] = "update"
  /\ rating' = mem[w].value
  /\ End(w)
  /\ UNCHANGED <<phone, optedOut, requests, expired, task, hisVars>>

(* emit_delivery_event(delivery, "rating.created") *)
RateEmit(w) ==
  /\ pc[w] = "emit"
  /\ events' = events + 1
  /\ End(w)
  /\ UNCHANGED <<dbVars, task, asked, crashes>>

-----------------------------------------------------------------------------
(* The token's seven days are over. *)
Expire ==
  /\ ~expired
  /\ expired' = TRUE
  /\ UNCHANGED <<phone, optedOut, requests, rating, task, pc, op, mem, hisVars, overlapped>>

(* The worker dies: the queue sees no answer and keeps the task. *)
Crash(w) ==
  /\ pc[w] # "idle"
  /\ crashes < MaxCrashes
  /\ crashes' = crashes + 1
  /\ End(w)
  /\ UNCHANGED <<dbVars, task, asked, events>>

Work(w) ==
  \/ CallbackDuplicate(w) \/ CallbackFirst(w) \/ CallbackOptedOut(w) \/ CallbackAllowed(w)
  \/ CallbackCreate(w) \/ CallbackSend(w) \/ CallbackRecord(w)
  \/ Unsubscribe(w) \/ ResendCorrect(w)
  \/ RateFind(w) \/ RateInsert(w) \/ RateUpdate(w) \/ RateEmit(w)

Arrive(w) == CallbackLoad(w) \/ UnsubscribeLoad(w) \/ ResendLoad(w) \/ RateLoad(w)

Next ==
  \/ \E w \in Workers : Arrive(w) \/ Work(w) \/ Crash(w)
  \/ \E p \in Phones : StopReply(p)
  \/ Expire

Spec == Init /\ [][Next]_vars

(***************************************************************************)
(* A worker goes on with its handler, and the queue goes on calling, also  *)
(* when the workers keep being busy with other requests.                   *)
(***************************************************************************)
FairSpec ==
  /\ Spec
  /\ \A w \in Workers : WF_vars(Work(w))
  /\ SF_vars(\E w \in Workers : CallbackLoad(w))

-----------------------------------------------------------------------------
Quiet == \A w \in Workers : pc[w] = "idle"

(***************************************************************************)
(* "Idempotent (one rating_request)": the recipient is asked at most once  *)
(* and there is one row, though callbacks repeat and workers die, as long  *)
(* as callbacks do not overlap (send_rating_request).                      *)
(***************************************************************************)
AskedAtMostOnce == ~overlapped => asked <= 1 /\ Len(requests) <= 1

(* Callbacks that have passed the blocklist for number p and not yet sent. *)
AboutToAsk(p) == {w \in Workers : pc[w] \in {"create", "send"} /\ mem[w].phone = p}

(***************************************************************************)
(* An opt-out is for good: once a number is on the blocklist and no        *)
(* callback had passed the check before, no rating request is ever on its  *)
(* way to it, whatever corrections, crashes and repeated callbacks follow  *)
(* (is_opted_out before the create).                                       *)
(***************************************************************************)
OptOutIsFinal ==
  \A p \in Phones :
    [](p \in optedOut /\ AboutToAsk(p) = {} => [](AboutToAsk(p) = {}))

(***************************************************************************)
(* The merchant hears of a rating exactly once, however many posts race    *)
(* and overwrite each other (the created flag of update_or_create); only a *)
(* worker that dies may keep the event from being sent.                    *)
(***************************************************************************)
RatingToldOnce ==
  /\ events <= 1
  /\ Quiet /\ rating # NoRating /\ crashes = 0 => events = 1

(* A request row whose callback died: nobody will send it. *)
Abandoned ==
  \E i \in DOMAIN requests :
    requests[i] = "queued" /\ \A w \in Workers : op[w] = "callback" => mem[w].id # i

(***************************************************************************)
(* A planned request is not lost: the recipient is asked in the end or is  *)
(* on the blocklist, or the callback died after it had created the row,    *)
(* which every repetition takes for a request already made (send_rating).  *)
(***************************************************************************)
AskedInTheEnd == task ~> asked > 0 \/ optedOut # {} \/ Abandoned

=============================================================================
