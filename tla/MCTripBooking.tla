--------------------------- MODULE MCTripBooking ---------------------------
(* TripBooking on a small instance: two bookings of one passenger, of one   *)
(* seat each, and drivers who may take the trip or move it on meanwhile.    *)
EXTENDS TripBooking, TLC

CONSTANTS passenger

MCPassengerOf == [b \in Bookings |-> passenger]
MCSeatCount   == [b \in Bookings |-> 1]

MCSymmetry == Permutations(Seats) \cup Permutations(Drivers)
                \cup Permutations(Cancels) \cup Permutations(Movers)
=============================================================================
