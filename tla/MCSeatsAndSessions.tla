------------------------ MODULE MCSeatsAndSessions ------------------------
(***************************************************************************)
(* Booking on one trip and signing in and out, which share no row, in one   *)
(* run: a behaviour is a behaviour of one of them, chosen at the start,     *)
(* while the other keeps its initial state.                                *)
(*                                                                         *)
(* For the trip, bookings that together want more seats than it has and two *)
(* drivers who may take it; for the sessions, one number with two codes and *)
(* two sign-ins.  The two name their requests alike, so that one exchange   *)
(* of names is a symmetry of both.                                         *)
(***************************************************************************)
EXTENDS TripBooking, SignIn, TLC

CONSTANTS b1, b2, b3, p1, p2, number

(* Three requests: two of one passenger and one of another.                *)
MCPassengerOf == [b \in Bookings |-> IF b = b3 THEN p2 ELSE p1]
(* Theirs ask for one seat each and fit together; the other's asks for two. *)
MCSeatCount == [b \in Bookings |-> IF b = b3 THEN 2 ELSE 1]
MCCodePhone     == [c \in Codes |-> number]
MCVerifierPhone == [v \in Verifiers |-> number]
MCEnderKinds    == {"suspend", "reinstate", "delete"}

\* Of the requests over accounts at most so many are made.
MaxAccountRequests == 6
FewAccountRequests == Cardinality({r \in Requests : pc'[r] # "start"}) <= MaxAccountRequests

VARIABLE part

MCInit == Init /\ SignInInit /\ part \in {"seats", "sessions"}
MCNext == /\ UNCHANGED part
          /\ \/ part = "seats"    /\ Next       /\ UNCHANGED signInVars
             \/ part = "sessions" /\ SignInNext /\ FewAccountRequests /\ UNCHANGED vars
MCSpec == MCInit /\ [][MCNext]_<<vars, signInVars, part>>

MCSymmetry == Permutations(Seats) \cup Permutations(Drivers)
                \cup Permutations(Cancels) \cup Permutations(Movers)
=============================================================================
