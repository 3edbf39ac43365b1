----------------------------- MODULE RatingTime -----------------------------
(***************************************************************************)
(* When the recipient of one delivery is asked for a rating.  The shop     *)
(* previews the computed arrival time and confirms or corrects it as a     *)
(* time of day (DeliveryStartView, _parse_eta of the API), or starts       *)
(* through the API without one; the start plans the callback and the task  *)
(* queue makes it at that time or, if the time has passed, at once         *)
(* (deliveries/views.py, deliveries/api.py, start_delivery).               *)
(***************************************************************************)
EXTENDS SendingWindow

CONSTANTS
  Clock,   \* bound: the instants at which something may happen
  Travels, \* minutes of route and buffer together
  Edits,   \* arrival times of day typed in instead of the computed one
  Entry,   \* the ways in use: "auto" and "confirm"
  None     \* no time

ASSUME ClockAssumption == Clock \subseteq Nat /\ None \notin Int
ASSUME TravelsAssumption == Travels \subseteq Nat
ASSUME EditsAssumption == Edits \subseteq 0..(Day - 1)
ASSUME EntryAssumption == Entry \subseteq {"auto", "confirm"}

VARIABLES
  now,     \* the wall clock
  preview, \* the arrival time computed for the confirmation page
  eta,     \* eta_at of the started delivery
  source,  \* eta_source: "auto" or "manual", None before the start
  runAt,   \* schedule time of the callback in the queue
  askedAt  \* history: when the recipient was asked

vars == <<now, preview, eta, source, runAt, askedAt>>

Time == Nat \cup {None}

TypeOK ==
  /\ now \in Nat
  /\ preview \in Time
  /\ eta \in Time
  /\ source \in {"auto", "manual", None}
  /\ runAt \in Int \cup {None}
  /\ askedAt \in Time

Init ==
  /\ now \in Clock
  /\ preview = None
  /\ eta = None
  /\ source = None
  /\ runAt = None
  /\ askedAt = None

(***************************************************************************)
(* start_delivery, as far as times are concerned.  A failure of the task   *)
(* queue is caught and logged: the start goes on with nothing planned, and *)
(* then the recipient is never asked.                                      *)
(***************************************************************************)
Start(at) ==
  /\ eta = None
  /\ eta' = at
  /\ runAt' \in {RatingSendTime(at), None}
  /\ UNCHANGED <<now, askedAt>>

(* The API without eta: arrival is now + route + buffer. *)
AutoStart ==
  /\ "auto" \in Entry
  /\ \E d \in Travels : Start(now + d)
  /\ source' = "auto"
  /\ UNCHANGED preview

(* The first step in the cabinet: the page shows the computed time as HH:MM. *)
Preview ==
  /\ eta = None
  /\ "confirm" \in Entry
  /\ \E d \in Travels : preview' = now + d
  /\ UNCHANGED <<now, eta, source, runAt, askedAt>>

(* The time of day that comes back means that time today. *)
Today(hhmm) == now - (now % Day) + hhmm

(* The second step: the time shown, or one typed in (always so in the API). *)
Confirm ==
  /\ "confirm" \in Entry
  /\ \E hhmm \in Edits \cup {FormatEta(t) : t \in {preview} \ {None}} : Start(Today(hhmm))
  /\ source' = "manual"
  /\ UNCHANGED preview

(* The task queue makes the callback when its time has come, send_rating sends. *)
Callback ==
  /\ runAt # None
  /\ now >= runAt
  /\ askedAt' = now
  /\ runAt' = None
  /\ UNCHANGED <<now, preview, eta, source>>

(* Time passes to the next instant, but not past a callback that is due. *)
Tick ==
  /\ runAt # None => now < runAt
  /\ \E t \in Clock \cup ({runAt} \ {None}) :
       /\ now < t
       /\ runAt # None => t <= runAt
       /\ now' = t
  /\ UNCHANGED <<preview, eta, source, runAt, askedAt>>

Next == AutoStart \/ Preview \/ Confirm \/ Callback \/ Tick

Spec == Init /\ [][Next]_vars

-----------------------------------------------------------------------------
(***************************************************************************)
(* A planned callback lies in the window, not before half an hour after    *)
(* the arrival time and not more than a night after that, whatever the     *)
(* arrival time (rating_send_time, called by start_delivery).              *)
(***************************************************************************)
PlannedInWindow ==
  runAt # None =>
    /\ InWindow(runAt)
    /\ eta + RatingDelay <= runAt
    /\ runAt <= eta + RatingDelay + Night

(* The recipient was asked inside the window, not before arrival and delay. *)
AskedInWindow ==
  askedAt # None => InWindow(askedAt) /\ eta + RatingDelay <= askedAt

(***************************************************************************)
(* With a computed arrival time the recipient is asked inside the window   *)
(* and not before half an hour after the arrival, at whatever hour the     *)
(* delivery is started (compute_eta, rating_send_time, send_rating).       *)
(***************************************************************************)
ComputedAskedInWindow == source = "auto" => AskedInWindow

(***************************************************************************)
(* "Messages are sent only in this window" (PRD, FR-16), also with a time  *)
(* of day that the shop confirmed.  Around midnight that breaks it: as     *)
(* "today" the time lies in the past and the callback is made at once.     *)
(***************************************************************************)
ConfirmedAskedInWindow == source = "manual" => AskedInWindow
=============================================================================
