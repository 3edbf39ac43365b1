---------------------------- MODULE MCRatingTime ----------------------------
(***************************************************************************)
(* Instances of RatingTime for TLC: two days, the clock read around every  *)
(* edge of the window and of the day.                                      *)
(***************************************************************************)
EXTENDS RatingTime

Edges == {0, 1, WindowStart - 1, WindowStart, WindowStart + 1, 12 * 60,
          WindowEnd - RatingDelay - 1, WindowEnd - RatingDelay,
          WindowEnd - 1, WindowEnd, Day - 31, Day - 1}

TwoDays == Edges \cup {Day + t : t \in Edges}

Routes == {0, 1, 29, 30, 60, 119, 120, 600}

TypedIn == Edges
=============================================================================
