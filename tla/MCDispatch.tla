----------------------------- MODULE MCDispatch -----------------------------
(* Dispatch on the smallest instance that has its two races: one trip, one  *)
(* driver who can take it, two presses of Offer and one run of the script.  *)
EXTENDS Dispatch

MCBigEnough == [t \in Runs |-> Crew]
=============================================================================
