----------------------------- MODULE MCPayouts -----------------------------
(***************************************************************************)
(* Everything that must come to an end, in one run: a driver's wallet       *)
(* (Payouts), and the requests over one trip (TripBooking), which share no  *)
(* row with it.  A behaviour is a behaviour of one of them, chosen at the   *)
(* start.                                                                  *)
(*                                                                         *)
(* The wallet has a cash fare, which leaves a debt, and one the platform    *)
(* collected, which leaves a credit, at the seeded rate; the trip has two   *)
(* bookings of one passenger, and one request of every other kind.         *)
(***************************************************************************)
EXTENDS Payouts, FareArithmetic, TLC

CONSTANTS cash, online, s1, s2, s3, o1, o2, b1, b2, c1, m1, v1

MCGross      == cash :> 10 @@ online :> 3
MCFareEffect == [f \in Fares |-> WalletEntry(MCGross[f], 1000, f = cash)]
MCAmounts    == -2..3

CONSTANTS Seats, Bookings, Passengers, PassengerOf, SeatCount, MaxActive,
          Drivers, Movers, Cancels, Boarders, NoDriver, NoBooking, passenger
VARIABLES trip, clock, booking, seat, cancellations, settled, book, cancel, mover, boarder

tripVars == <<trip, clock, booking, seat, cancellations, settled, book, cancel, mover, boarder>>

Trip == INSTANCE TripBooking

MCPassengerOf == [b \in Bookings |-> passenger]
MCSeatCount   == [b \in Bookings |-> 1]

VARIABLE part

MCInit == Init /\ Trip!Init /\ part \in {"wallet", "trip"}
MCNext == /\ UNCHANGED part
          /\ \/ part = "wallet" /\ Next      /\ UNCHANGED tripVars
             \/ part = "trip"   /\ Trip!Next /\ UNCHANGED vars

(* The fairness of both, Fairness and Trip!Fairness.  Neither part's        *)
(* requests begin while the other runs, so a strong fairness of each can be *)
(* stated as one of their disjunction; TLC's work doubles with every one.   *)
OfWallet(A) == A /\ UNCHANGED <<tripVars, part>>
OfTrip(A)   == A /\ UNCHANGED <<vars, part>>
AskGoesOn(s)  == OfWallet(AskRefuse(s) \/ \E pays \in Amounts : AskCommit(s, pays))
BookGoesOn(b) == OfTrip(Trip!BookCommit(b) \/ Trip!BookSoldOut(b))
allVars == <<vars, tripVars, part>>
MCFairness ==
  /\ SF_allVars(AskGoesOn(s1) \/ OfTrip(Trip!BookRead(b1) \/ Trip!BookRefuse(b1)))
  /\ SF_allVars(AskGoesOn(s2) \/ OfTrip(Trip!BookRead(b2) \/ Trip!BookRefuse(b2)))
  /\ SF_allVars(AskGoesOn(s3) \/ BookGoesOn(b1))
  /\ SF_allVars(OfWallet(DecideCommit(o1)) \/ BookGoesOn(b2))
  /\ SF_allVars(OfWallet(DecideCommit(o2)) \/ OfTrip(Trip!CancelCommit(c1)))
  /\ SF_allVars(OfTrip(Trip!MoverCommit(m1)))
  /\ SF_allVars(OfTrip(Trip!VerifyCommit(v1) \/ Trip!VerifyRefuse(v1)))
  /\ WF_allVars(OfTrip(Trip!MoverRead(m1)))
  /\ \A f \in Fares : WF_allVars(OfWallet(FareCommit(f)))
  /\ WF_allVars(OfWallet(DeadlockAbort)) /\ WF_allVars(OfTrip(Trip!DeadlockAbort))

MCSpec == MCInit /\ [][MCNext]_allVars /\ MCFairness

(* Every request over the trip that began comes to an end.                 *)
EveryTripRequestEnds == Trip!EveryRequestEnds
=============================================================================
