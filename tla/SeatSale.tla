------------------------------ MODULE SeatSale ------------------------------
(***************************************************************************)
(* What the booking of seats promises, with nothing about how: a booking   *)
(* takes all the seats it asked for in one step, from those nobody has,    *)
(* at most once; it gives all of them back in one step, when it is         *)
(* withdrawn, and never has any again.  TripBooking implements this.       *)
(***************************************************************************)
EXTENDS Naturals, FiniteSets

CONSTANTS Seats, Bookings, SeatCount

VARIABLES
  phase,   \* of each booking: "new", "sold" or "withdrawn"
  taken    \* the seats each booking has

Free == {s \in Seats : \A b \in Bookings : s \notin taken[b]}

Init == /\ phase = [b \in Bookings |-> "new"]
        /\ taken = [b \in Bookings |-> {}]

Sell(b) ==
  /\ phase[b] = "new"
  /\ \E S \in SUBSET Free :
       /\ Cardinality(S) = SeatCount[b]
       /\ taken' = [taken EXCEPT ![b] = S]
  /\ phase' = [phase EXCEPT ![b] = "sold"]

Withdraw(b) ==
  /\ phase[b] = "sold"
  /\ taken' = [taken EXCEPT ![b] = {}]
  /\ phase' = [phase EXCEPT ![b] = "withdrawn"]

Next == \E b \in Bookings : Sell(b) \/ Withdraw(b)

Spec == Init /\ [][Next]_<<phase, taken>>
=============================================================================
