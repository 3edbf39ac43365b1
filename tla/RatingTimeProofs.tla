-------------------------- MODULE RatingTimeProofs --------------------------
(***************************************************************************)
(* What the window arithmetic of common/timewindow.py guarantees for every *)
(* time, and what follows for every behaviour of RatingTime.               *)
(***************************************************************************)
EXTENDS RatingTime, TLAPS

(***************************************************************************)
(* A clamped time lies in the window, not before the time asked for and    *)
(* at most a night after it (clamp_to_window).                             *)
(***************************************************************************)
THEOREM ClampBounds ==
  ASSUME NEW t \in Int
  PROVE  /\ ClampToWindow(t) \in Int
         /\ InWindow(ClampToWindow(t))
         /\ t <= ClampToWindow(t)
         /\ ClampToWindow(t) <= t + Night
  BY DEF ClampToWindow, InWindow, Night, Day, WindowStart, WindowEnd

(***************************************************************************)
(* A time in the window is left as it is (clamp_to_window).                *)
(***************************************************************************)
THEOREM ClampKeepsWindow ==
  ASSUME NEW t \in Int, InWindow(t)
  PROVE  ClampToWindow(t) = t
  BY DEF ClampToWindow, InWindow, Day, WindowStart, WindowEnd

(***************************************************************************)
(* Clamping keeps the order of times: a later arrival is never asked about *)
(* before an earlier one (rating_send_time).                               *)
(***************************************************************************)
THEOREM ClampIsMonotone ==
  ASSUME NEW s \in Int, NEW t \in Int, s <= t
  PROVE  ClampToWindow(s) <= ClampToWindow(t)
  BY DEF ClampToWindow, Day, WindowStart, WindowEnd

-----------------------------------------------------------------------------
(* A start at a moment ahead or a time of day of today plans inside the window. *)
LEMMA StartPlans ==
  ASSUME TypeOK, NEW at \in Nat, Start(at), UNCHANGED preview,
         source' \in {"auto", "manual"}
  PROVE  (TypeOK /\ PlannedInWindow)'
  <1>1. /\ InWindow(RatingSendTime(at))
        /\ RatingSendTime(at) \in Int
        /\ at + RatingDelay <= RatingSendTime(at)
        /\ RatingSendTime(at) <= at + RatingDelay + Night
    <2>1. at + RatingDelay \in Int
      BY DEF RatingDelay
    <2> QED
      BY <2>1, ClampBounds DEF RatingSendTime
  <1>2. runAt' \in {RatingSendTime(at), None} /\ eta' = at /\ UNCHANGED <<now, askedAt>>
    BY DEF Start
  <1> QED
    BY <1>1, <1>2 DEF TypeOK, Time, PlannedInWindow

(* The clock never leaves the naturals: a callback is planned at a natural time. *)
LEMMA PlannedNatural ==
  ASSUME TypeOK, PlannedInWindow, runAt # None, eta # None
  PROVE  runAt \in Nat
  BY DEF TypeOK, Time, PlannedInWindow, RatingDelay

(***************************************************************************)
(* Types, with the fact that only a started delivery has a callback.       *)
(***************************************************************************)
Planned == runAt # None => eta # None

IInv == TypeOK /\ Planned /\ PlannedInWindow

LEMMA InvInit == Init => IInv
  BY ClockAssumption DEF Init, IInv, TypeOK, Time, Planned, PlannedInWindow

LEMMA InvStep == IInv /\ [Next]_vars => IInv'
  <1> SUFFICES ASSUME IInv, [Next]_vars PROVE IInv'
    OBVIOUS
  <1> USE DEF IInv
  <1>1. CASE AutoStart
    <2>1. PICK d \in Travels : Start(now + d)
      BY <1>1 DEF AutoStart
    <2>2. now + d \in Nat
      BY TravelsAssumption DEF TypeOK
    <2>3. UNCHANGED preview /\ source' \in {"auto", "manual"}
      BY <1>1 DEF AutoStart
    <2>4. (TypeOK /\ PlannedInWindow)'
      BY <2>1, <2>2, <2>3, StartPlans
    <2>5. Planned'
      BY <2>1, <2>2, ClockAssumption DEF Start, Planned
    <2> QED
      BY <2>4, <2>5
  <1>2. CASE Preview
    <2>1. PICK d \in Travels : preview' = now + d
      BY <1>2 DEF Preview
    <2>2. now + d \in Nat
      BY TravelsAssumption DEF TypeOK
    <2> QED
      BY <1>2, <2>1, <2>2 DEF Preview, TypeOK, Time, Planned, PlannedInWindow
  <1>3. CASE Confirm
    <2>1. PICK hhmm \in Edits \cup {FormatEta(t) : t \in {preview} \ {None}} :
             Start(Today(hhmm))
      BY <1>3 DEF Confirm
    <2>2. hhmm \in Nat
      BY <2>1, EditsAssumption DEF FormatEta, TypeOK, Time, Day
    <2>3. Today(hhmm) \in Nat
      BY <2>2 DEF Today, TypeOK, Day
    <2>4. UNCHANGED preview /\ source' \in {"auto", "manual"}
      BY <1>3 DEF Confirm
    <2>5. (TypeOK /\ PlannedInWindow)'
      BY <2>1, <2>3, <2>4, StartPlans
    <2>6. Planned'
      BY <2>1, <2>3, ClockAssumption DEF Start, Planned
    <2> QED
      BY <2>5, <2>6
  <1>4. CASE Callback
    BY <1>4 DEF Callback, TypeOK, Time, Planned, PlannedInWindow
  <1>5. CASE Tick
    <2>1. PICK t \in Clock \cup ({runAt} \ {None}) : now' = t
      BY <1>5 DEF Tick
    <2>2. t \in Nat
      BY <2>1, ClockAssumption, PlannedNatural DEF Planned
    <2> QED
      BY <1>5, <2>1, <2>2 DEF Tick, TypeOK, Time, Planned, PlannedInWindow
  <1>6. CASE UNCHANGED vars
    BY <1>6 DEF vars, TypeOK, Time, Planned, PlannedInWindow
  <1> QED
    BY <1>1, <1>2, <1>3, <1>4, <1>5, <1>6 DEF Next

(***************************************************************************)
(* Whatever the arrival time, computed or typed in, the callback is        *)
(* planned inside the window, never before half an hour after arrival and  *)
(* at most a night after that (rating_send_time in start_delivery).        *)
(***************************************************************************)
THEOREM PlansInWindow == Spec => []PlannedInWindow
  <1>1. IInv => PlannedInWindow
    BY DEF IInv
  <1> QED
    BY <1>1, InvInit, InvStep, PTL DEF Spec

-----------------------------------------------------------------------------
(* Nobody is asked, and nothing has a source, before the start. *)
AskedAfterStart == eta = None => source = None /\ askedAt = None

(* With a computed arrival time the planned callback always lies ahead. *)
ComputedAhead == source = "auto" /\ runAt # None => now <= runAt

AskInv == AskedAfterStart /\ ComputedAhead /\ ComputedAskedInWindow

LEMMA AskInvStep == IInv /\ AskInv /\ [Next]_vars => AskInv'
  <1> SUFFICES ASSUME IInv, AskInv, [Next]_vars PROVE AskInv'
    OBVIOUS
  <1> USE DEF IInv, AskInv
  <1>1. CASE AutoStart
    <2>1. PICK d \in Travels : Start(now + d)
      BY <1>1 DEF AutoStart
    <2>2. now \in Nat /\ d \in Nat /\ now + d \in Nat
      BY TravelsAssumption DEF TypeOK
    <2>3. /\ eta = None /\ eta' = now + d
          /\ runAt' \in {RatingSendTime(now + d), None}
          /\ UNCHANGED <<now, askedAt>>
      BY <2>1 DEF Start
    <2>4. RatingSendTime(now + d) \in Int /\ now <= RatingSendTime(now + d)
      <3>1. now + d + RatingDelay \in Int
        BY <2>2 DEF RatingDelay
      <3>2. now + d + RatingDelay <= RatingSendTime(now + d) /\ RatingSendTime(now + d) \in Int
        BY <3>1, ClampBounds DEF RatingSendTime
      <3> QED
        BY <2>2, <3>2 DEF RatingDelay
    <2>5. askedAt' = None /\ eta' # None
      BY <2>2, <2>3, ClockAssumption DEF AskedAfterStart
    <2> QED
      BY <2>3, <2>4, <2>5 DEF AskedAfterStart, ComputedAhead, ComputedAskedInWindow, AskedInWindow
  <1>2. CASE Preview
    BY <1>2 DEF Preview, AskedAfterStart, ComputedAhead, ComputedAskedInWindow, AskedInWindow
  <1>3. CASE Confirm
    <2>1. PICK hhmm \in Edits \cup {FormatEta(t) : t \in {preview} \ {None}} : Start(Today(hhmm))
      BY <1>3 DEF Confirm
    <2>2. Today(hhmm) \in Nat
      <3>1. hhmm \in Nat
        BY <2>1, EditsAssumption DEF FormatEta, TypeOK, Time, Day
      <3> QED
        BY <3>1 DEF Today, TypeOK, Day
    <2>3. eta' # None /\ source' = "manual"
      BY <1>3, <2>1, <2>2, ClockAssumption DEF Confirm, Start
    <2> QED
      BY <2>3 DEF AskedAfterStart, ComputedAhead, ComputedAskedInWindow
  <1>4. CASE Callback
    <2>1. runAt # None /\ runAt <= now /\ askedAt' = now /\ runAt' = None /\ UNCHANGED <<now, eta, source>>
      BY <1>4 DEF Callback, TypeOK
    <2>2. eta # None
      BY <2>1 DEF Planned
    <2>3. ASSUME source = "auto" PROVE now = runAt
      BY <2>1, <2>3 DEF ComputedAhead, TypeOK
    <2>4. ASSUME source = "auto" PROVE InWindow(now) /\ eta + RatingDelay <= now
      BY <2>1, <2>3, <2>4 DEF PlannedInWindow
    <2> QED
      BY <2>1, <2>2, <2>4 DEF AskedAfterStart, ComputedAhead, ComputedAskedInWindow, AskedInWindow
  <1>5. CASE Tick
    BY <1>5 DEF Tick, AskedAfterStart, ComputedAhead, ComputedAskedInWindow, AskedInWindow
  <1>6. CASE UNCHANGED vars
    BY <1>6 DEF vars, AskedAfterStart, ComputedAhead, ComputedAskedInWindow, AskedInWindow
  <1> QED
    BY <1>1, <1>2, <1>3, <1>4, <1>5, <1>6 DEF Next

(***************************************************************************)
(* With a computed arrival time the recipient is asked inside the window   *)
(* and not before half an hour after arrival, at whatever hour of whatever *)
(* day the delivery is started: such a callback never lies in the past     *)
(* when it is planned (compute_eta, rating_send_time in start_delivery).   *)
(***************************************************************************)
THEOREM ComputedAsksInWindow == Spec => []ComputedAskedInWindow
  <1>1. Init => AskInv
    BY DEF Init, AskInv, AskedAfterStart, ComputedAhead, ComputedAskedInWindow, AskedInWindow
  <1>2. AskInv => ComputedAskedInWindow
    BY DEF AskInv
  <1> QED
    BY <1>1, <1>2, InvInit, InvStep, AskInvStep, PTL DEF Spec
=============================================================================
