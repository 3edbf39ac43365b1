---------------------------- MODULE SendingWindow ----------------------------
(***************************************************************************)
(* The window in which recipients may be written to, and the time of a     *)
(* rating request (common/timewindow.py).  Times are minutes of local wall *)
(* clock since some midnight in Belgrade, as the code's arithmetic on      *)
(* local datetimes is; the code's constants are the code's.                *)
(***************************************************************************)
EXTENDS Integers

Day         == 24 * 60
WindowStart == 8 * 60
WindowEnd   == 22 * 60
RatingDelay == 30

(* What strftime("%H:%M") keeps of a time. *)
FormatEta(t) == t % Day

(* A slip for ClampToWindow: the late evening moves to the next midnight. *)
ClampToMidnight(t) ==
  LET local == t % Day
  IN IF local < WindowStart THEN t - local + WindowStart
     ELSE IF local >= WindowEnd THEN t + Day - local
     ELSE t

(* Before the window: its start that day; after it: its start the next day. *)
ClampToWindow(t) ==
  LET local == t % Day
  IN IF local < WindowStart THEN t - local + WindowStart
     ELSE IF local >= WindowEnd THEN t + Day - local + WindowStart
     ELSE t

(* A slip for RatingSendTime: the half hour is added after the clamp. *)
DelayAfterClamp(eta) == ClampToWindow(eta) + RatingDelay

RatingSendTime(eta) == ClampToWindow(eta + RatingDelay)

(* How long the window is closed. *)
Night == Day - WindowEnd + WindowStart

InWindow(t) == WindowStart <= t % Day /\ t % Day < WindowEnd
=============================================================================
