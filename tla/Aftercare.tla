----------------------------- MODULE Aftercare -----------------------------
(***************************************************************************)
(* What is left of a journey once it is over: what its parties thought of  *)
(* each other, and what they wrote to the office.  Ratings and tickets     *)
(* share no row; what each promises is here in one place.                  *)
(***************************************************************************)
EXTENDS SupportDesk, Ratings

AftercareSpec == DeskSpec /\ RatingsSpec

\* Whatever requests cross or fail: ticket references are gap-free and an
\* answered ticket is not shown as unread (support, numbers), and the totals
\* of whoever was rated are the ratings on file (rate_trip).
AftercareHolds == DeskHolds /\ TotalsAreTheRatings
=============================================================================
