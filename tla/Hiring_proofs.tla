---------------------------- MODULE Hiring_proofs ----------------------------
(***************************************************************************)
(* Theorems about Hiring, for any number of passengers, requests, offers,  *)
(* drivers and transactions of each kind.                                  *)
(***************************************************************************)
EXTENDS Hiring, FiniteSetTheorems, TLAPS

(* Where a move of AdvanceTrip starts and ends: never from a trip that was *)
(* not created, into flight only from flight.                              *)
LEMMA TripHops ==
  ASSUME NEW s, NEW t \in AdvanceTargets, Can(TRIP_LIFECYCLE, s, t)
  PROVE  /\ s # NoneYet /\ t \in TripStatus
         /\ t \notin {NoneYet, "SCHEDULED"}
         /\ t \in IN_FLIGHT => s \in IN_FLIGHT
<1>1. t \in TripStatus \ {"DRIVER_ASSIGNED", "SCHEDULED", "REQUESTED"}
  BY HiringAssumption
<1>2. s # NoneYet /\ (t \in IN_FLIGHT => s \in IN_FLIGHT)
  BY <1>1 DEF Can, TRIP_LIFECYCLE, From, IN_FLIGHT, NoneYet
<1>3. QED BY <1>1, <1>2 DEF TripStatus, NoneYet

(***************************************************************************)
(* Type correctness.                                                       *)
(***************************************************************************)

(* What a writer makes of a driver's row is a driver's row.                *)
LEMMA SavedTyped ==
  ASSUME NEW row \in DriverRow, NEW saw, NEW new \in DriverRow
  PROVE  Saved(row, saw, new) \in DriverRow
BY DEF Saved, DriverRow

(* So is what a request of the desk asks for.                              *)
LEMMA ChangedTyped ==
  ASSUME NEW what \in Changes, NEW row \in DriverRow
  PROVE  Changed(what, row) \in DriverRow
BY DEF Changed, Changes, DriverRow, DriverApprovalStatus, DriverAvailability

(* The initial state is well typed.                                        *)
LEMMA InitTypeOK == Init => TypeOK
BY DEF Init, TypeOK, RideRequestStatus, FareOfferStatus, TripRow, TripStatus,
       DriverRow, Working, DriverApprovalStatus, DriverAvailability, AskTx, BidTx,
       AcceptTx, MoverTx, DeskTx, Trips, NoneYet

(* The steps of a request write values of the right shape.                 *)
LEMMA RideTypeOK ==
  ASSUME TypeOK, NEW r \in Requests, Ride(r)
  PROVE  TypeOK'
<1> USE DEF TypeOK
<1>1. CASE AskLook(r)
  BY <1>1 DEF AskLook, data, AskTx
<1>2. CASE AskInsert(r)
  <2>1. request' \in [Requests -> RideRequestStatus \cup {NoneYet}]
    BY <1>2 DEF AskInsert, RideRequestStatus
  <2>2. QED BY <1>2, <2>1 DEF AskInsert, AskTx
<1>3. CASE AskTwinWon(r)
  BY <1>3 DEF AskTwinWon, data, AskTx
<1>4. CASE Deadline(r)
  BY <1>4 DEF Deadline
<1>5. CASE ListExpires(r)
  BY <1>5 DEF ListExpires, RideRequestStatus
<1>6. CASE CancelRideRequest(r)
  BY <1>6 DEF CancelRideRequest, Declined, RideRequestStatus, FareOfferStatus
<1>7. QED BY <1>1, <1>2, <1>3, <1>4, <1>5, <1>6 DEF Ride

(* So do the steps of an offer,                                            *)
LEMMA BidTypeOK ==
  ASSUME TypeOK, NEW o \in Offers, Bid(o)
  PROVE  TypeOK'
<1> USE DEF TypeOK
<1>1. ASSUME NEW r \in Requests, NEW d \in Drivers, BidFind(o, r, d) PROVE TypeOK'
  BY <1>1 DEF BidFind, data, BidTx
<1>2. CASE BidCommit(o)
  BY <1>2 DEF BidCommit, BidTx, IdleBid, FareOfferStatus
<1>3. CASE BidRollback(o)
  BY <1>3 DEF BidRollback, BidTx, IdleBid, data
<1>4. CASE WithdrawOffer(o)
  BY <1>4 DEF WithdrawOffer, FareOfferStatus
<1>5. QED BY <1>1, <1>2, <1>3, <1>4 DEF Bid

(* of an acceptance,                                                       *)
LEMMA AcceptTypeOK ==
  ASSUME TypeOK, NEW a \in Accepts, Accept(a)
  PROVE  TypeOK'
<1> USE DEF TypeOK
<1>1. ASSUME NEW o \in Offers, AcceptLock(a, o) PROVE TypeOK'
  BY <1>1 DEF AcceptLock, data, AcceptTx
<1>2. CASE AcceptHold(a)
  BY <1>2 DEF AcceptHold, data, AcceptTx, IdleAccept
<1>3. CASE AcceptCommit(a)
  <2>1. accept[a].offer \in Offers /\ bid[accept[a].offer].by \in Drivers \cup {NoDriver}
    BY <1>3 DEF AcceptCommit, AcceptTx, IdleAccept, BidTx, IdleBid
  <2>2. trip' \in [Trips -> TripRow]
    BY <1>3, <2>1 DEF AcceptCommit, TripRow, TripStatus
  <2>3. request' \in [Requests -> RideRequestStatus \cup {NoneYet}]
    BY <1>3 DEF AcceptCommit, RideRequestStatus
  <2>4. offer' \in [Offers -> FareOfferStatus \cup {NoneYet}]
    BY <1>3 DEF AcceptCommit, Declined, FareOfferStatus
  <2>5. QED BY <1>3, <2>2, <2>3, <2>4 DEF AcceptCommit, AcceptTx
<1>4. CASE AcceptRollback(a)
  BY <1>4 DEF AcceptRollback, data, AcceptTx
<1>5. QED BY <1>1, <1>2, <1>3, <1>4 DEF Accept

(* of a trip,                                                              *)
LEMMA MoveTypeOK ==
  ASSUME TypeOK, NEW m \in Movers, Move(m)
  PROVE  TypeOK'
<1> USE DEF TypeOK
<1>1. ASSUME NEW t \in Scheduled, NEW d \in Drivers, TakeFind(m, t, d) PROVE TypeOK'
  BY <1>1 DEF TakeFind, data, MoverTx
<1>2. ASSUME NEW t \in Trips, NEW target \in AdvanceTargets, AdvanceLock(m, t, target)
      PROVE  TypeOK'
  <2>1. trip[t].driver \in Drivers /\ driver[trip[t].driver] \in DriverRow
    BY <1>2 DEF AdvanceLock, TripRow
  <2>2. QED BY <1>2, <2>1 DEF AdvanceLock, data, MoverTx
<1>3. CASE TakeCommit(m)
  <2>1. mover[m] \in [pc : {"found"}, trip : Scheduled, driver : Drivers,
                      target : {"DRIVER_ASSIGNED"}, saw : DriverRow]
    BY <1>3 DEF TakeCommit, MoverTx, IdleMover
  <2>2. [mover[m].saw EXCEPT !.availability = "ON_TRIP"] \in DriverRow
    BY <2>1 DEF DriverRow, DriverAvailability
  <2>3. driver' \in [Drivers -> DriverRow]
    BY <1>3, <2>1, <2>2, SavedTyped DEF TakeCommit
  <2>4. trip' \in [Trips -> TripRow]
    BY <1>3, <2>1 DEF TakeCommit, TripRow, TripStatus
  <2>5. QED BY <1>3, <2>3, <2>4 DEF TakeCommit, MoverTx
<1>4. CASE AdvanceCommit(m)
  <2>1. mover[m] \in [pc : {"locked"}, trip : Trips, driver : Drivers,
                      target : AdvanceTargets, saw : DriverRow]
    BY <1>4 DEF AdvanceCommit, MoverTx, IdleMover
  <2>2. [mover[m].saw EXCEPT !.availability = AvailabilityAfter(mover[m].target, @)]
          \in DriverRow
    BY <2>1 DEF DriverRow, DriverAvailability, AvailabilityAfter
  <2>3. driver' \in [Drivers -> DriverRow]
    BY <1>4, <2>1, <2>2, SavedTyped DEF AdvanceCommit
  <2>4. trip' \in [Trips -> TripRow]
    BY <1>4, <2>1, HiringAssumption DEF AdvanceCommit, TripRow
  <2>5. QED BY <1>4, <2>3, <2>4 DEF AdvanceCommit, MoverTx
<1>5. CASE MoverRollback(m)
  BY <1>5 DEF MoverRollback, data, MoverTx
<1>6. QED BY <1>1, <1>2, <1>3, <1>4, <1>5 DEF Move

(* and of the desk.                                                        *)
LEMMA DeskTypeOK ==
  ASSUME TypeOK, NEW k \in Desks, Desk(k)
  PROVE  TypeOK'
<1> USE DEF TypeOK
<1>1. ASSUME NEW what \in Changes, NEW d \in Drivers, DeskRead(k, what, d) PROVE TypeOK'
  BY <1>1 DEF DeskRead, data, DeskTx
<1>2. CASE DeskCommit(k)
  <2>1. desk[k] \in [pc : {"read"}, what : Changes, driver : Drivers, saw : DriverRow]
    BY <1>2 DEF DeskCommit, DeskTx, IdleDesk
  <2>2. Changed(desk[k].what, desk[k].saw) \in DriverRow
    BY <2>1, ChangedTyped
  <2>3. driver' \in [Drivers -> DriverRow]
    BY <1>2, <2>1, <2>2, SavedTyped DEF DeskCommit
  <2>4. QED BY <1>2, <2>3 DEF DeskCommit, DeskTx
<1>3. CASE DeskRollback(k)
  BY <1>3 DEF DeskRollback, data, DeskTx
<1>4. QED BY <1>1, <1>2, <1>3 DEF Desk

(* Every step of the specification keeps the types.                        *)
LEMMA NextTypeOK == TypeOK /\ [Next]_vars => TypeOK'
<1>1. CASE UNCHANGED vars
  BY <1>1 DEF vars, data, TypeOK
<1>2. QED
  BY <1>1, RideTypeOK, BidTypeOK, AcceptTypeOK, MoveTypeOK, DeskTypeOK DEF Next

(* Requests, offers, trips and drivers always hold values of the shape     *)
(* their columns have.                                                     *)
THEOREM TypeCorrect == Spec => []TypeOK
BY InitTypeOK, NextTypeOK, PTL DEF Spec

(***************************************************************************)
(* The invariant, with what it says of cardinalities said of members.      *)
(***************************************************************************)

TwinsAreOne ==
  \A q, r \in Requests : request[q] = "OPEN" /\ request[r] = "OPEN"
                          /\ PassengerOf[q] = PassengerOf[r] => q = r
MatchedOnce ==
  /\ \A r \in Requests : request[r] = "MATCHED" =>
       \E o \in Offers : bid[o].on = r /\ offer[o] = "ACCEPTED"
  /\ \A o, n \in Offers : offer[o] = "ACCEPTED" /\ offer[n] = "ACCEPTED"
                           /\ bid[o].on = bid[n].on => o = n
AcceptedHasTrip ==
  \A o \in Offers : IF offer[o] = "ACCEPTED" THEN trip[o].driver = bid[o].by
                                             ELSE trip[o].status = NoneYet
DrivenOnce ==
  \A d \in Drivers : \A t, u \in InFlight(d) : t = u

Inv == /\ AcceptIsCurrent /\ RowsAgree /\ MoveIsCurrent
       /\ TwinsAreOne /\ MatchedOnce /\ AcceptedHasTrip /\ DrivenOnce

(* A finite set without two different members has at most one.             *)
LEMMA AtMostOne ==
  ASSUME NEW S, IsFiniteSet(S), \A x, y \in S : x = y
  PROVE  Cardinality(S) <= 1 /\ (S # {} => Cardinality(S) = 1)
<1>1. CASE S = {}
  BY <1>1, FS_EmptySet
<1>2. ASSUME NEW x \in S PROVE Cardinality(S) = 1
  <2>1. S = {x} OBVIOUS
  <2>2. QED BY <2>1, FS_Singleton
<1>3. QED BY <1>1, <1>2

(* The invariant is the one the runs check.                                *)
LEMMA InvIsIndInv == TypeOK /\ Inv => IndInv
<1> SUFFICES ASSUME TypeOK, Inv PROVE IndInv OBVIOUS
<1> USE DEF Inv
<1>1. OneOpenRequest
  <2> SUFFICES ASSUME NEW p \in Passengers PROVE Cardinality(OpenOf(p)) <= 1
    BY DEF OneOpenRequest
  <2>1. IsFiniteSet(OpenOf(p))
    BY HiringAssumption, FS_Subset DEF OpenOf
  <2>2. \A q, r \in OpenOf(p) : q = r
    BY DEF OpenOf, TwinsAreOne
  <2>3. QED BY <2>1, <2>2, AtMostOne
<1>2. OneRidePerRequest
  <2>1. ASSUME NEW r \in Requests
        PROVE  Cardinality(Accepted(r)) = (IF request[r] = "MATCHED" THEN 1 ELSE 0)
    <3>1. IsFiniteSet(Accepted(r))
      BY HiringAssumption, FS_Subset DEF Accepted, BidsOn
    <3>2. \A o, n \in Accepted(r) : o = n
      BY DEF Accepted, BidsOn, MatchedOnce
    <3>3. request[r] = "MATCHED" <=> Accepted(r) # {}
      BY DEF Accepted, BidsOn, MatchedOnce, RowsAgree
    <3>4. QED BY <3>1, <3>2, <3>3, AtMostOne, FS_EmptySet
  <2>2. QED BY <2>1 DEF OneRidePerRequest, AcceptedHasTrip
<1>3. DriverHasOneTrip
  <2> SUFFICES ASSUME NEW d \in Drivers PROVE Cardinality(InFlight(d)) <= 1
    BY DEF DriverHasOneTrip
  <2>1. IsFiniteSet(Trips)
    BY HiringAssumption, FS_Union DEF Trips
  <2>2. IsFiniteSet(InFlight(d))
    BY <2>1, FS_Subset DEF InFlight
  <2>3. QED BY <2>2, AtMostOne DEF DrivenOnce
<1>4. QED BY <1>1, <1>2, <1>3 DEF IndInv, HiringInv

(* At first nobody has asked, offered or taken anything.                   *)
LEMMA InitInv == Init => Inv
<1> SUFFICES ASSUME Init PROVE Inv OBVIOUS
<1>1. AcceptIsCurrent /\ MoveIsCurrent
  BY DEF Init, AcceptIsCurrent, MoveIsCurrent, IdleAccept, IdleMover
<1>2. RowsAgree
  BY HiringAssumption DEF Init, RowsAgree, IdleBid, NoneYet, Trips
<1>3. TwinsAreOne /\ MatchedOnce
  BY DEF Init, TwinsAreOne, MatchedOnce, NoneYet
<1>4. AcceptedHasTrip
  BY HiringAssumption DEF Init, AcceptedHasTrip, NoneYet, Trips
<1>5. DrivenOnce
  BY HiringNulls DEF Init, DrivenOnce, InFlight
<1>6. QED BY <1>1, <1>2, <1>3, <1>4, <1>5 DEF Inv

(* What each part of the invariant rests on, and does not change while it  *)
(* does not: the acceptances.                                              *)
LEMMA AcceptStands ==
  ASSUME AcceptIsCurrent, UNCHANGED <<request, offer, trip, driver, bid, accept>>
  PROVE  AcceptIsCurrent'
BY DEF AcceptIsCurrent, RequestHolders, DriverHolders, InFlight, CanAccept

(* The rows and how far their requests are.                                *)
LEMMA RowsStand ==
  ASSUME RowsAgree, UNCHANGED <<request, offer, trip, bid, ask>>
  PROVE  RowsAgree'
BY DEF RowsAgree

(* The moves of trips.                                                     *)
LEMMA MoveStands ==
  ASSUME MoveIsCurrent, UNCHANGED <<trip, mover>>
  PROVE  MoveIsCurrent'
BY DEF MoveIsCurrent, TripHolders

(* The requests and the offers accepted on them.                           *)
LEMMA RidesStand ==
  ASSUME TwinsAreOne, MatchedOnce, UNCHANGED <<request, offer, bid>>
  PROVE  TwinsAreOne' /\ MatchedOnce'
BY DEF TwinsAreOne, MatchedOnce

(* The trips of offers and of drivers.                                     *)
LEMMA TripsStand ==
  ASSUME AcceptedHasTrip, DrivenOnce, UNCHANGED <<offer, trip, bid>>
  PROVE  AcceptedHasTrip' /\ DrivenOnce'
BY DEF AcceptedHasTrip, DrivenOnce, InFlight

(* An offer under acceptance is on a request and by a driver.              *)
LEMMA AcceptRows ==
  ASSUME TypeOK, AcceptIsCurrent, NEW a \in Accepts, accept[a].pc # "idle"
  PROVE  /\ accept[a].offer \in Offers
         /\ bid[accept[a].offer].on \in Requests
         /\ bid[accept[a].offer].by \in Drivers
         /\ accept[a].pc \in {"locked", "held"}
<1>1. /\ accept[a].offer \in Offers /\ accept[a].pc \in {"locked", "held"}
      /\ bid[accept[a].offer].pc = "done"
  BY DEF TypeOK, AcceptTx, IdleAccept, AcceptIsCurrent
<1>2. QED BY <1>1 DEF TypeOK, BidTx, IdleBid

(* A request nobody is accepting an offer on may end, with its offers.     *)
LEMMA RideInv ==
  ASSUME TypeOK, Inv, NEW r \in Requests, Ride(r)
  PROVE  Inv'
<1> USE DEF Inv
<1>1. CASE AskLook(r) \/ AskTwinWon(r)
  <2>1. UNCHANGED <<data, bid, accept, mover>> /\ ask[r].pc # "done" /\ ask'[r].pc # "done"
        /\ \A q \in Requests \ {r} : ask'[q] = ask[q]
    BY <1>1 DEF AskLook, AskTwinWon, TypeOK
  <2>2. RowsAgree'
    BY <2>1 DEF data, RowsAgree
  <2>3. QED BY <2>1, <2>2, AcceptStands, MoveStands, RidesStand, TripsStand DEF data
<1>2. CASE AskInsert(r)
  <2>1. /\ UNCHANGED <<offer, trip, driver, bid, accept, mover>>
        /\ ask[r].pc = "looked" /\ ask'[r].pc = "done" /\ request[r] = NoneYet
        /\ \A q \in Requests \ {r} : ask'[q] = ask[q]
    BY <1>2 DEF AskInsert, TypeOK, RowsAgree
  <2>2. /\ request'[r] = "OPEN" /\ Twins(r) = {}
        /\ \A q \in Outdated(r) \ {r} : request'[q] = "EXPIRED" /\ request[q] = "OPEN"
                                         /\ RequestHolders(q) = {}
        /\ \A q \in Requests : q # r /\ q \notin Outdated(r) => request'[q] = request[q]
    <3>1. \A q \in Outdated(r) : q \in Requests /\ request[q] = "OPEN"
      BY DEF Outdated, OpenOf
    <3>2. QED BY <1>2, <3>1 DEF AskInsert
  <2>3. AcceptIsCurrent'
    <3>1. ASSUME NEW a \in Accepts, accept[a].pc # "idle"
          PROVE  request'[bid[accept[a].offer].on] = "OPEN"
      <4>1. bid[accept[a].offer].on \in Requests /\ a \in RequestHolders(bid[accept[a].offer].on)
        BY <3>1, AcceptRows DEF RequestHolders
      <4>2. QED BY <2>1, <2>2, <3>1, <4>1 DEF AcceptIsCurrent, NoneYet
    <3>2. QED BY <2>1, <3>1 DEF AcceptIsCurrent, RequestHolders, DriverHolders,
                               InFlight, CanAccept
  <2>4. RowsAgree'
    <3>1. \A q \in Requests : request'[q] = NoneYet <=> (request[q] = NoneYet /\ q # r)
      BY <2>1, <2>2 DEF NoneYet
    <3>2. \A q \in Requests : request[q] = "MATCHED" => request'[q] = "MATCHED"
      BY <2>1, <2>2 DEF NoneYet
    <3>3. \A o \in Offers : bid[o].pc # "idle" => bid[o].on \in Requests
      BY DEF TypeOK, BidTx, IdleBid
    <3>4. \A o \in Offers : offer[o] = "ACCEPTED" => bid[o].on \in Requests
      BY <3>3 DEF RowsAgree, NoneYet
    <3>5. QED BY <2>1, <3>1, <3>2, <3>3, <3>4 DEF RowsAgree
  <2>5. TwinsAreOne'
    <3>1. \A q \in Requests : request[q] = "OPEN" /\ PassengerOf[q] = PassengerOf[r]
             => q \in Outdated(r)
      BY <2>2 DEF Twins, OpenOf
    <3>2. QED BY <2>2, <3>1 DEF TwinsAreOne
  <2>6. MatchedOnce'
    BY <2>1, <2>2 DEF MatchedOnce
  <2>7. QED BY <2>1, <2>3, <2>4, <2>5, <2>6, MoveStands, TripsStand
<1>3. CASE Deadline(r)
  BY <1>3, AcceptStands, RowsStand, MoveStands, RidesStand, TripsStand DEF Deadline
<1>4. CASE ListExpires(r) \/ CancelRideRequest(r)
  <2>1. /\ UNCHANGED <<trip, driver, ask, bid, accept, mover>>
        /\ request[r] = "OPEN" /\ request'[r] \in {"EXPIRED", "CANCELLED"}
        /\ \A q \in Requests \ {r} : request'[q] = request[q]
        /\ RequestHolders(r) = {}
    BY <1>4 DEF ListExpires, CancelRideRequest, MayCancel, TypeOK
  <2>2. \A o \in Offers : \/ offer'[o] = offer[o]
                          \/ bid[o].on = r /\ offer[o] = "OFFERED" /\ offer'[o] = "DECLINED"
    BY <1>4 DEF ListExpires, CancelRideRequest, Declined, OpenOn, BidsOn
  <2>3. AcceptIsCurrent'
    <3>1. ASSUME NEW a \in Accepts, accept[a].pc # "idle"
          PROVE  /\ accept[a].offer \in Offers
                 /\ bid[accept[a].offer].on \in Requests \ {r}
      BY <2>1, <3>1, AcceptRows DEF RequestHolders
    <3>2. QED BY <2>1, <2>2, <3>1 DEF AcceptIsCurrent, RequestHolders, DriverHolders,
                                    InFlight, CanAccept
  <2>4. RowsAgree'
    <3>1. \A o \in Offers : bid[o].pc # "idle" => bid[o].on \in Requests
      BY DEF TypeOK, BidTx, IdleBid
    <3>2. \A o \in Offers : /\ offer'[o] = "ACCEPTED" <=> offer[o] = "ACCEPTED"
                            /\ offer'[o] = NoneYet <=> offer[o] = NoneYet
      BY <2>2 DEF NoneYet
    <3>3. \A q \in Requests : /\ request'[q] = NoneYet <=> request[q] = NoneYet
                              /\ request'[q] = "MATCHED" <=> request[q] = "MATCHED"
      BY <2>1 DEF NoneYet
    <3>4. \A o \in Offers : offer[o] = "ACCEPTED" => bid[o].on \in Requests
      BY <3>1 DEF RowsAgree, NoneYet
    <3>5. QED BY <2>1, <3>1, <3>2, <3>3, <3>4 DEF RowsAgree
  <2>5. TwinsAreOne' /\ MatchedOnce'
    BY <2>1, <2>2 DEF TwinsAreOne, MatchedOnce
  <2>6. AcceptedHasTrip' /\ DrivenOnce'
    BY <2>1, <2>2 DEF AcceptedHasTrip, DrivenOnce, InFlight
  <2>7. QED BY <2>1, <2>3, <2>4, <2>5, <2>6, MoveStands
<1>5. QED BY <1>1, <1>2, <1>3, <1>4 DEF Ride

(* An offer appears on its request once, and is withdrawn only while no    *)
(* acceptance has answered it.                                             *)
LEMMA BidInv ==
  ASSUME TypeOK, Inv, NEW o \in Offers, Bid(o)
  PROVE  Inv'
<1> USE DEF Inv
<1>1. \A a \in Accepts : accept[a].pc # "idle" =>
        accept[a].offer \in Offers /\ bid[accept[a].offer].pc = "done"
  BY AcceptRows DEF AcceptIsCurrent
<1>2. ASSUME NEW r \in Requests, NEW d \in Drivers, BidFind(o, r, d) PROVE Inv'
  <2>1. /\ UNCHANGED <<request, offer, trip, driver, ask, accept, mover>>
        /\ bid[o].pc = "idle" /\ offer[o] = NoneYet
        /\ bid'[o] = [pc |-> "found", on |-> r, by |-> d] /\ request[r] # NoneYet
        /\ \A n \in Offers \ {o} : bid'[n] = bid[n]
    BY <1>2 DEF BidFind, TypeOK, data, RowsAgree, NoneYet
  <2>2. AcceptIsCurrent'
    BY <1>1, <2>1 DEF AcceptIsCurrent, RequestHolders, DriverHolders, InFlight, CanAccept
  <2>3. RowsAgree'
    BY <2>1 DEF RowsAgree, NoneYet
  <2>4. TwinsAreOne' /\ MatchedOnce'
    BY <2>1 DEF TwinsAreOne, MatchedOnce, NoneYet
  <2>5. AcceptedHasTrip' /\ DrivenOnce'
    BY <2>1 DEF AcceptedHasTrip, DrivenOnce, InFlight, NoneYet
  <2>6. QED BY <2>1, <2>2, <2>3, <2>4, <2>5, MoveStands
<1>3. CASE BidCommit(o) \/ BidRollback(o) \/ WithdrawOffer(o)
  <2>1. /\ UNCHANGED <<request, trip, driver, ask, accept, mover>>
        /\ \A n \in Offers \ {o} : bid'[n] = bid[n] /\ offer'[n] = offer[n]
        /\ bid'[o].on = bid[o].on /\ bid'[o].by = bid[o].by
        /\ bid[o].pc # "idle" /\ bid'[o].pc = "done"
    <3>1. CASE BidCommit(o)
      BY <3>1 DEF BidCommit, TypeOK, BidTx, IdleBid
    <3>2. CASE BidRollback(o)
      BY <3>2 DEF BidRollback, TypeOK, BidTx, IdleBid, data
    <3>3. CASE WithdrawOffer(o)
      BY <3>3 DEF WithdrawOffer, TypeOK, RowsAgree, NoneYet
    <3>4. QED BY <1>3, <3>1, <3>2, <3>3
  <2>2. /\ offer[o] # "ACCEPTED" /\ offer'[o] # "ACCEPTED"
        /\ \A a \in Accepts : accept[a].pc = "held" => accept[a].offer # o
    <3>1. CASE BidCommit(o) \/ BidRollback(o)
      <4>1. bid[o].pc = "found" /\ offer[o] = NoneYet
        BY <3>1 DEF BidCommit, BidRollback, RowsAgree
      <4>2. offer'[o] \in {NoneYet, "OFFERED"}
        BY <3>1, <4>1 DEF BidCommit, BidRollback, TypeOK, data
      <4>3. QED BY <1>1, <4>1, <4>2 DEF NoneYet
    <3>2. CASE WithdrawOffer(o)
      BY <3>2 DEF WithdrawOffer, OfferHolders, TypeOK
    <3>3. QED BY <1>3, <3>1, <3>2
  <2>3. AcceptIsCurrent'
    BY <1>1, <2>1, <2>2 DEF AcceptIsCurrent, RequestHolders, DriverHolders, InFlight,
                          CanAccept
  <2>4. RowsAgree'
    BY <2>1, <2>2 DEF RowsAgree
  <2>5. TwinsAreOne' /\ MatchedOnce'
    BY <2>1, <2>2 DEF TwinsAreOne, MatchedOnce
  <2>6. AcceptedHasTrip' /\ DrivenOnce'
    BY <2>1, <2>2 DEF AcceptedHasTrip, DrivenOnce, InFlight
  <2>7. QED BY <2>1, <2>3, <2>4, <2>5, <2>6, MoveStands
<1>4. QED BY <1>2, <1>3 DEF Bid

(* An acceptance has its request and, from when it answers, its driver to  *)
(* itself; what it commits is the one ride of the request and the one trip *)
(* of the driver.                                                          *)
LEMMA AcceptInv ==
  ASSUME TypeOK, Inv, NEW a \in Accepts, Accept(a)
  PROVE  Inv'
<1> USE DEF Inv
<1>1. ASSUME NEW o \in Offers, AcceptLock(a, o) PROVE Inv'
  <2>1. /\ UNCHANGED <<data, ask, bid, mover>>
        /\ accept'[a] = [pc |-> "locked", offer |-> o]
        /\ \A b \in Accepts \ {a} : accept'[b] = accept[b]
        /\ bid[o].pc = "done" /\ request[bid[o].on] = "OPEN"
        /\ RequestHolders(bid[o].on) = {}
    BY <1>1 DEF AcceptLock, TypeOK, RowsAgree, NoneYet
  <2>2. AcceptIsCurrent'
    BY <1>1, <2>1 DEF AcceptIsCurrent, RequestHolders, DriverHolders, InFlight, CanAccept,
                    AcceptLock, data
  <2>3. QED BY <2>1, <2>2, RowsStand, MoveStands, RidesStand, TripsStand DEF data
<1>2. CASE AcceptHold(a)
  <2>1. /\ UNCHANGED <<data, ask, bid, mover>>
        /\ accept[a].pc = "locked"
        /\ accept'[a].pc = "held" /\ accept'[a].offer = accept[a].offer
        /\ \A b \in Accepts \ {a} : accept'[b] = accept[b]
    BY <1>2 DEF AcceptHold, TypeOK, AcceptTx, IdleAccept
  <2>2. AcceptIsCurrent'
    BY <1>2, <2>1 DEF AcceptIsCurrent, RequestHolders, DriverHolders, InFlight, CanAccept,
                    AcceptHold, data
  <2>3. QED BY <2>1, <2>2, RowsStand, MoveStands, RidesStand, TripsStand DEF data
<1>3. CASE AcceptCommit(a)
  <2> PICK o \in Offers, r \in Requests, d \in Drivers :
        o = accept[a].offer /\ r = bid[o].on /\ d = bid[o].by
    BY <1>3, AcceptRows DEF AcceptCommit
  <2>1. /\ UNCHANGED <<driver, ask, bid, mover>>
        /\ accept[a].pc = "held" /\ accept'[a].pc = "idle"
        /\ \A b \in Accepts \ {a} : accept'[b] = accept[b]
        /\ trip'[o] = [status |-> "DRIVER_ASSIGNED", driver |-> d]
        /\ \A t \in Trips \ {o} : trip'[t] = trip[t]
        /\ request'[r] = "MATCHED"
        /\ \A q \in Requests \ {r} : request'[q] = request[q]
    BY <1>3 DEF AcceptCommit, TypeOK, IdleAccept, Trips
  <2>2. /\ offer'[o] = "ACCEPTED"
        /\ \A n \in Offers \ {o} : IF bid[n].on = r /\ offer[n] = "OFFERED"
                                   THEN offer'[n] = "DECLINED" ELSE offer'[n] = offer[n]
    BY <1>3 DEF AcceptCommit, Declined, OpenOn, BidsOn, TypeOK
  <2>3. /\ request[r] = "OPEN" /\ offer[o] = "OFFERED" /\ bid[o].pc = "done"
        /\ trip[o].status = NoneYet /\ InFlight(d) = {}
        /\ \A b \in Accepts \ {a} : accept[b].pc # "idle" => bid[accept[b].offer].on # r
        /\ \A b \in Accepts \ {a} : accept[b].pc = "held" => bid[accept[b].offer].by # d
    BY <2>1 DEF AcceptIsCurrent, AcceptedHasTrip, RequestHolders, DriverHolders
  <2>4. \A n \in Offers : offer[n] = "ACCEPTED" => bid[n].on # r
    BY <2>3 DEF RowsAgree
  <2>5. AcceptIsCurrent'
    <3> SUFFICES ASSUME NEW b \in Accepts \ {a}, accept[b].pc # "idle"
                 PROVE  LET n == accept[b].offer IN
                        /\ bid'[n].pc = "done"
                        /\ request'[bid'[n].on] = "OPEN"
                        /\ \A c \in RequestHolders(bid[n].on)' : c = b
                        /\ accept[b].pc = "held" =>
                             /\ offer'[n] = "OFFERED"
                             /\ CanAccept(driver[bid[n].by])
                             /\ InFlight(bid[n].by)' = {}
                             /\ \A c \in DriverHolders(bid[n].by)' : c = b
      BY <2>1 DEF AcceptIsCurrent
    <3>1. /\ accept[b].offer \in Offers \ {o} /\ bid[accept[b].offer].on \in Requests \ {r}
      BY <2>3, AcceptRows
    <3>2. \A e : RequestHolders(e)' \subseteq RequestHolders(e)
                 /\ DriverHolders(e)' \subseteq DriverHolders(e)
      BY <2>1 DEF RequestHolders, DriverHolders
    <3>3. \A e : e # d => InFlight(e)' = InFlight(e)
      BY <2>1, <2>3 DEF InFlight, IN_FLIGHT, NoneYet
    <3>4. QED BY <2>1, <2>2, <2>3, <3>1, <3>2, <3>3 DEF AcceptIsCurrent
  <2>6. RowsAgree'
    <3>1. \A n \in Offers : n # o => /\ offer'[n] = "ACCEPTED" <=> offer[n] = "ACCEPTED"
                                    /\ offer'[n] = NoneYet <=> offer[n] = NoneYet
      BY <2>2 DEF NoneYet
    <3>2. \A n \in Offers : bid[n].pc # "idle" => bid[n].on \in Requests
      BY DEF TypeOK, BidTx, IdleBid
    <3>3. \A n \in Offers : offer[n] = "ACCEPTED" => bid[n].on \in Requests
      BY <3>2 DEF RowsAgree, NoneYet
    <3>4. d # NoDriver
      BY HiringNulls
    <3>5. QED BY <2>1, <2>2, <2>3, <2>4, <3>1, <3>2, <3>3, <3>4
              DEF RowsAgree, NoneYet, Trips
  <2>7. MoveIsCurrent'
    <3>1. \A m \in Movers : mover[m].pc = "locked" =>
             mover[m].trip \in Trips /\ mover[m].target \in AdvanceTargets
      BY DEF TypeOK, MoverTx, IdleMover
    <3>2. \A m \in Movers : mover[m].pc = "locked" => mover[m].trip # o
      BY <2>3, <3>1, TripHops DEF MoveIsCurrent
    <3>3. QED BY <2>1, <3>1, <3>2 DEF MoveIsCurrent, TripHolders
  <2>8. TwinsAreOne' /\ MatchedOnce'
    BY <2>1, <2>2, <2>3, <2>4 DEF TwinsAreOne, MatchedOnce
  <2>9. AcceptedHasTrip' /\ DrivenOnce'
    <3>1. AcceptedHasTrip'
      BY <2>1, <2>2, <2>3 DEF AcceptedHasTrip, Trips
    <3>2. DrivenOnce'
      BY <2>1, <2>3 DEF DrivenOnce, InFlight
    <3>3. QED BY <3>1, <3>2
  <2>10. QED BY <2>5, <2>6, <2>7, <2>8, <2>9
<1>4. CASE AcceptRollback(a)
  <2>1. /\ UNCHANGED <<data, ask, bid, mover>>
        /\ accept'[a].pc = "idle" /\ \A b \in Accepts \ {a} : accept'[b] = accept[b]
    BY <1>4 DEF AcceptRollback, TypeOK, IdleAccept
  <2>2. AcceptIsCurrent'
    BY <2>1 DEF AcceptIsCurrent, RequestHolders, DriverHolders, InFlight, CanAccept, data
  <2>3. QED BY <2>1, <2>2, RowsStand, MoveStands, RidesStand, TripsStand DEF data
<1>5. QED BY <1>1, <1>2, <1>3, <1>4 DEF Accept

(* A driver's row changes only while no acceptance has them.               *)
LEMMA DriverWritten ==
  ASSUME TypeOK, AcceptIsCurrent, NEW d \in Drivers, DriverHolders(d) = {},
         \A e \in Drivers \ {d} : driver'[e] = driver[e] /\ InFlight(e)' = InFlight(e),
         UNCHANGED <<request, offer, bid, accept>>
  PROVE  AcceptIsCurrent'
<1>1. \A a \in Accepts : accept[a].pc = "held" => bid[accept[a].offer].by \in Drivers \ {d}
  BY AcceptRows DEF DriverHolders
<1>2. QED BY <1>1 DEF AcceptIsCurrent, RequestHolders, DriverHolders, CanAccept

(* A trip is taken from the timetable by a driver who has no other, or     *)
(* moved along its lifecycle by the driver it has.                         *)
LEMMA MoveInv ==
  ASSUME TypeOK, Inv, NEW m \in Movers, Move(m)
  PROVE  Inv'
<1> USE DEF Inv
<1>1. ASSUME NEW t \in Scheduled, NEW d \in Drivers, TakeFind(m, t, d) PROVE Inv'
  <2>1. /\ UNCHANGED <<data, ask, bid, accept>>
        /\ mover[m].pc = "idle" /\ mover'[m].pc = "found"
        /\ \A n \in Movers \ {m} : mover'[n] = mover[n]
    BY <1>1 DEF TakeFind, TypeOK
  <2>2. MoveIsCurrent'
    BY <2>1 DEF MoveIsCurrent, TripHolders, data
  <2>3. QED BY <2>1, <2>2, AcceptStands, RowsStand, RidesStand, TripsStand DEF data
<1>2. ASSUME NEW t \in Trips, NEW target \in AdvanceTargets, AdvanceLock(m, t, target)
      PROVE  Inv'
  <2>1. /\ UNCHANGED <<data, ask, bid, accept>>
        /\ mover'[m].pc = "locked" /\ mover'[m].trip = t
        /\ mover'[m].driver = trip[t].driver /\ mover'[m].target = target
        /\ Can(TRIP_LIFECYCLE, trip[t].status, target) /\ TripHolders(t) = {}
        /\ \A n \in Movers \ {m} : mover'[n] = mover[n]
    BY <1>2 DEF AdvanceLock, TypeOK
  <2>2. MoveIsCurrent'
    BY <2>1 DEF MoveIsCurrent, TripHolders, data
  <2>3. QED BY <2>1, <2>2, AcceptStands, RowsStand, RidesStand, TripsStand DEF data
<1>3. CASE TakeCommit(m)
  <2> PICK t \in Scheduled, d \in Drivers : t = mover[m].trip /\ d = mover[m].driver
    BY <1>3 DEF TakeCommit, TypeOK, MoverTx, IdleMover
  <2>1. /\ UNCHANGED <<request, offer, ask, bid, accept>>
        /\ mover[m].pc = "found" /\ mover'[m].pc = "idle"
        /\ \A n \in Movers \ {m} : mover'[n] = mover[n]
        /\ t \in Trips \ Offers /\ trip[t].status = "SCHEDULED"
        /\ trip'[t] = [status |-> "DRIVER_ASSIGNED", driver |-> d]
        /\ \A u \in Trips \ {t} : trip'[u] = trip[u]
        /\ \A e \in Drivers \ {d} : driver'[e] = driver[e]
        /\ TripHolders(t) = {} /\ DriverHolders(d) = {} /\ InFlight(d) \subseteq {t}
    BY <1>3, HiringAssumption DEF TakeCommit, TypeOK, IdleMover, Trips
  <2>2. \A e \in Drivers \ {d} : InFlight(e)' = InFlight(e)
    BY <2>1 DEF InFlight, IN_FLIGHT
  <2>3. AcceptIsCurrent'
    BY <2>1, <2>2, DriverWritten
  <2>4. RowsAgree'
    <3>1. d # NoDriver
      BY HiringNulls
    <3>2. QED BY <2>1, <3>1 DEF RowsAgree, Trips
  <2>5. MoveIsCurrent'
    <3>1. \A n \in Movers : mover[n].pc = "locked" =>
             mover[n].trip \in Trips /\ mover[n].trip # t
      BY <2>1 DEF TripHolders, TypeOK, MoverTx, IdleMover
    <3>2. QED BY <2>1, <3>1 DEF MoveIsCurrent, TripHolders
  <2>6. AcceptedHasTrip'
    BY <2>1 DEF AcceptedHasTrip, Trips
  <2>7. DrivenOnce'
    <3>1. InFlight(d)' \subseteq {t}
      BY <2>1 DEF InFlight
    <3>2. QED BY <2>2, <3>1 DEF DrivenOnce
  <2>8. QED BY <2>1, <2>3, <2>4, <2>5, <2>6, <2>7, RidesStand
<1>4. CASE AdvanceCommit(m)
  <2> PICK t \in Trips, d \in Drivers, target \in AdvanceTargets :
        t = mover[m].trip /\ d = mover[m].driver /\ target = mover[m].target
    BY <1>4 DEF AdvanceCommit, TypeOK, MoverTx, IdleMover
  <2>1. /\ UNCHANGED <<request, offer, ask, bid, accept>>
        /\ mover[m].pc = "locked" /\ mover'[m].pc = "idle"
        /\ \A n \in Movers \ {m} : mover'[n] = mover[n]
        /\ trip'[t].status = target /\ trip'[t].driver = trip[t].driver
        /\ \A u \in Trips \ {t} : trip'[u] = trip[u]
        /\ \A e \in Drivers \ {d} : driver'[e] = driver[e]
        /\ DriverHolders(d) = {}
    BY <1>4 DEF AdvanceCommit, TypeOK, IdleMover, TripRow
  <2>2. trip[t].driver = d /\ Can(TRIP_LIFECYCLE, trip[t].status, target)
    BY <2>1 DEF MoveIsCurrent
  <2>3. /\ trip[t].status # NoneYet /\ target # NoneYet
        /\ target \in IN_FLIGHT => trip[t].status \in IN_FLIGHT
    BY <2>2, TripHops
  <2>4. /\ \A e \in Drivers \ {d} : InFlight(e)' = InFlight(e)
        /\ InFlight(d)' \subseteq InFlight(d)
    BY <2>1, <2>2, <2>3 DEF InFlight
  <2>5. AcceptIsCurrent'
    BY <2>1, <2>4, DriverWritten
  <2>6. RowsAgree'
    <3>1. d # NoDriver
      BY HiringNulls
    <3>2. QED BY <2>1, <2>2, <2>3, <3>1 DEF RowsAgree, Trips
  <2>7. MoveIsCurrent'
    <3>1. \A n \in Movers \ {m} : mover[n].pc = "locked" =>
             mover[n].trip \in Trips /\ mover[n].trip # t
      BY <2>1 DEF MoveIsCurrent, TripHolders, TypeOK, MoverTx, IdleMover
    <3>2. QED BY <2>1, <3>1 DEF MoveIsCurrent, TripHolders
  <2>8. AcceptedHasTrip'
    BY <2>1, <2>3 DEF AcceptedHasTrip, RowsAgree, Trips
  <2>9. DrivenOnce'
    BY <2>4 DEF DrivenOnce
  <2>10. QED BY <2>1, <2>5, <2>6, <2>7, <2>8, <2>9, RidesStand
<1>5. CASE MoverRollback(m)
  <2>1. /\ UNCHANGED <<data, ask, bid, accept>>
        /\ mover'[m].pc = "idle" /\ \A n \in Movers \ {m} : mover'[n] = mover[n]
    BY <1>5 DEF MoverRollback, TypeOK, IdleMover
  <2>2. MoveIsCurrent'
    BY <2>1 DEF MoveIsCurrent, TripHolders, data
  <2>3. QED BY <2>1, <2>2, AcceptStands, RowsStand, RidesStand, TripsStand DEF data
<1>6. QED BY <1>1, <1>2, <1>3, <1>4, <1>5 DEF Move

(* The desk writes rows that no acceptance has.                            *)
LEMMA DeskInv ==
  ASSUME TypeOK, Inv, NEW k \in Desks, Desk(k)
  PROVE  Inv'
<1> USE DEF Inv
<1>1. CASE DeskRollback(k) \/ \E what \in Changes, d \in Drivers : DeskRead(k, what, d)
  <2>1. UNCHANGED <<data, ask, bid, accept, mover>>
    BY <1>1 DEF DeskRollback, DeskRead
  <2>2. QED BY <2>1, AcceptStands, RowsStand, MoveStands, RidesStand, TripsStand DEF data
<1>2. CASE DeskCommit(k)
  <2> PICK d \in Drivers : d = desk[k].driver
    BY <1>2 DEF DeskCommit, TypeOK, DeskTx, IdleDesk
  <2>1. /\ UNCHANGED <<request, offer, trip, ask, bid, accept, mover>>
        /\ \A e \in Drivers \ {d} : driver'[e] = driver[e]
        /\ DriverHolders(d) = {}
    BY <1>2 DEF DeskCommit, TypeOK
  <2>2. \A e \in Drivers : InFlight(e)' = InFlight(e)
    BY <2>1 DEF InFlight
  <2>3. AcceptIsCurrent'
    BY <2>1, <2>2, DriverWritten
  <2>4. QED BY <2>1, <2>3, RowsStand, MoveStands, RidesStand, TripsStand
<1>3. QED BY <1>1, <1>2 DEF Desk

(* Every step keeps the rows and the locks in order.                       *)
LEMMA NextInv == TypeOK /\ Inv /\ [Next]_vars => Inv'
<1>1. CASE UNCHANGED vars
  BY <1>1, AcceptStands, RowsStand, MoveStands, RidesStand, TripsStand DEF Inv, vars, data
<1>2. QED BY <1>1, RideInv, BidInv, AcceptInv, MoveInv, DeskInv DEF Next

(* The locks and the conditional updates do what they are for: all that    *)
(* the runs check of the rows and of the transactions among them holds.    *)
THEOREM InvHolds == Spec => [](TypeOK /\ Inv)
BY InitTypeOK, InitInv, NextTypeOK, NextInv, PTL DEF Spec

(* In the form the runs check it.                                          *)
THEOREM HiringHolds == Spec => []IndInv
BY InvHolds, InvIsIndInv, PTL

(* However many taps there are, a passenger has one open request.          *)
THEOREM OneOpen == Spec => []OneOpenRequest
<1>1. IndInv => OneOpenRequest BY DEF IndInv, HiringInv
<1>2. QED BY <1>1, HiringHolds, PTL

(* A request is matched with the driver of one offer, and with no other.   *)
THEOREM OneRide == Spec => []OneRidePerRequest
<1>1. IndInv => OneRidePerRequest BY DEF IndInv, HiringInv
<1>2. QED BY <1>1, HiringHolds, PTL

(* No driver has two journeys at once, however he got them.                *)
THEOREM OneTrip == Spec => []DriverHasOneTrip
<1>1. IndInv => DriverHasOneTrip BY DEF IndInv, HiringInv
<1>2. QED BY <1>1, HiringHolds, PTL

(***************************************************************************)
(* What a step does to requests and offers.                                *)
(***************************************************************************)

(* The steps that change neither a request, an answered offer nor a trip.  *)
LEMMA QuietSteps ==
  ASSUME TypeOK, Inv, [Next]_vars
  PROVE  \/ \E r \in Requests : AskInsert(r) \/ ListExpires(r) \/ CancelRideRequest(r)
         \/ \E a \in Accepts : AcceptCommit(a)
         \/ \E m \in Movers : TakeCommit(m) \/ AdvanceCommit(m)
         \/ /\ UNCHANGED <<request, trip>>
            /\ \A o \in Offers :
                 \/ bid'[o] = bid[o] /\ offer'[o] = offer[o]
                 \/ offer[o] # "ACCEPTED" /\ offer'[o] # "ACCEPTED"
                      /\ offer[o] \in {NoneYet, "OFFERED"}
<1>1. CASE UNCHANGED vars
  BY <1>1 DEF vars, data
<1>2. ASSUME NEW r \in Requests, AskLook(r) \/ AskTwinWon(r) \/ Deadline(r)
      PROVE  UNCHANGED <<request, trip, bid, offer>>
  BY <1>2 DEF AskLook, AskTwinWon, Deadline, data
<1>3. ASSUME NEW o \in Offers, Bid(o)
      PROVE  /\ UNCHANGED <<request, trip>>
             /\ \A n \in Offers \ {o} : bid'[n] = bid[n] /\ offer'[n] = offer[n]
             /\ offer[o] # "ACCEPTED" /\ offer'[o] # "ACCEPTED"
             /\ offer[o] \in {NoneYet, "OFFERED"}
  <2>1. ASSUME NEW r \in Requests, NEW d \in Drivers, BidFind(o, r, d)
        PROVE  bid[o].pc = "idle" /\ offer' = offer /\ UNCHANGED <<request, trip>>
               /\ \A n \in Offers \ {o} : bid'[n] = bid[n]
    BY <2>1 DEF BidFind, TypeOK, data
  <2>2. CASE BidCommit(o) \/ BidRollback(o)
    <3>1. bid[o].pc = "found" /\ UNCHANGED <<request, trip>>
          /\ \A n \in Offers \ {o} : bid'[n] = bid[n] /\ offer'[n] = offer[n]
      BY <2>2 DEF BidCommit, BidRollback, TypeOK, data
    <3>2. offer'[o] \in {offer[o], "OFFERED"}
      BY <2>2 DEF BidCommit, BidRollback, TypeOK, data
    <3>3. QED BY <3>1, <3>2 DEF Inv, RowsAgree, NoneYet
  <2>3. CASE WithdrawOffer(o)
    BY <2>3 DEF WithdrawOffer, TypeOK
  <2>4. QED BY <1>3, <2>1, <2>2, <2>3 DEF Bid, Inv, RowsAgree, NoneYet
<1>4. ASSUME NEW a \in Accepts, Accept(a), ~AcceptCommit(a)
      PROVE  UNCHANGED <<request, trip, bid, offer>>
  BY <1>4 DEF Accept, AcceptLock, AcceptHold, AcceptRollback, data
<1>5. ASSUME NEW m \in Movers, Move(m), ~TakeCommit(m), ~AdvanceCommit(m)
      PROVE  UNCHANGED <<request, trip, bid, offer>>
  BY <1>5 DEF Move, TakeFind, AdvanceLock, MoverRollback, data
<1>6. ASSUME NEW k \in Desks, Desk(k)
      PROVE  UNCHANGED <<request, trip, bid, offer>>
  BY <1>6 DEF Desk, DeskRead, DeskCommit, DeskRollback, data
<1>7. QED BY <1>1, <1>2, <1>3, <1>4, <1>5, <1>6 DEF Next, Ride

(* What AcceptCommit commits, and on what it may rely.                     *)
LEMMA AcceptCommits ==
  ASSUME TypeOK, Inv, NEW a \in Accepts, AcceptCommit(a)
  PROVE  \E o \in Offers, r \in Requests, d \in Drivers :
           /\ bid[o].on = r /\ bid[o].by = d /\ bid' = bid
           /\ request[r] = "OPEN" /\ request' = [request EXCEPT ![r] = "MATCHED"]
           /\ offer[o] = "OFFERED" /\ offer'[o] = "ACCEPTED"
           /\ \A n \in Offers \ {o} :
                offer'[n] = offer[n] \/ (offer[n] = "OFFERED" /\ offer'[n] = "DECLINED")
           /\ CanAccept(driver[d]) /\ InFlight(d) = {}
           /\ trip' = [trip EXCEPT ![o] = [status |-> "DRIVER_ASSIGNED", driver |-> d]]
<1> PICK o \in Offers, r \in Requests, d \in Drivers :
      o = accept[a].offer /\ r = bid[o].on /\ d = bid[o].by
  BY AcceptRows DEF AcceptCommit, Inv
<1>1. /\ request[r] = "OPEN" /\ offer[o] = "OFFERED" /\ InFlight(d) = {}
      /\ CanAccept(driver[d])
  BY DEF AcceptCommit, Inv, AcceptIsCurrent
<1>2. /\ request' = [request EXCEPT ![r] = "MATCHED"] /\ bid' = bid
      /\ trip' = [trip EXCEPT ![o] = [status |-> "DRIVER_ASSIGNED", driver |-> d]]
  BY DEF AcceptCommit
<1>3. /\ offer'[o] = "ACCEPTED"
      /\ \A n \in Offers \ {o} :
           offer'[n] = offer[n] \/ (offer[n] = "OFFERED" /\ offer'[n] = "DECLINED")
  BY DEF AcceptCommit, Declined, OpenOn, TypeOK
<1>4. QED BY <1>1, <1>2, <1>3

(* What the end of a request, or a new one in its place, does.             *)
LEMMA RideCommits ==
  ASSUME TypeOK, Inv, NEW r \in Requests,
         AskInsert(r) \/ ListExpires(r) \/ CancelRideRequest(r)
  PROVE  /\ UNCHANGED <<trip, bid>>
         /\ \A o \in Offers : offer'[o] = offer[o]
                             \/ (offer[o] = "OFFERED" /\ offer'[o] = "DECLINED")
         /\ \A q \in Requests : request[q] \notin {NoneYet, "OPEN"} => request'[q] = request[q]
<1>1. UNCHANGED <<trip, bid>>
  BY DEF AskInsert, ListExpires, CancelRideRequest
<1>2. \A o \in Offers : offer'[o] = offer[o] \/ (offer[o] = "OFFERED" /\ offer'[o] = "DECLINED")
  BY DEF AskInsert, ListExpires, CancelRideRequest, Declined, OpenOn
<1>3. \A q \in Requests : request[q] \notin {NoneYet, "OPEN"} => request'[q] = request[q]
  <2>1. CASE AskInsert(r)
    <3>1. request[r] = NoneYet
      BY <2>1 DEF AskInsert, Inv, RowsAgree
    <3>2. \A q \in Outdated(r) : request[q] = "OPEN"
      BY DEF Outdated, OpenOf
    <3>3. QED BY <2>1, <3>1, <3>2 DEF AskInsert
  <2>2. CASE ListExpires(r) \/ CancelRideRequest(r)
    BY <2>2 DEF ListExpires, CancelRideRequest, MayCancel, TypeOK
  <2>3. QED BY <2>1, <2>2
<1>4. QED BY <1>1, <1>2, <1>3

(* The steps of a trip touch neither.                                      *)
LEMMA MoveCommits ==
  ASSUME NEW m \in Movers, TakeCommit(m) \/ AdvanceCommit(m)
  PROVE  UNCHANGED <<request, offer, bid>>
BY DEF TakeCommit, AdvanceCommit

(* An answer to an offer is never replaced by another.                     *)
THEOREM OffersAnsweredOnce == Spec => OfferAnsweredOnce
<1> DEFINE Once == \A o \in Offers :
                     offer[o] \notin {NoneYet, "OFFERED"} => offer'[o] = offer[o]
<1>1. TypeOK /\ Inv /\ [Next]_vars => Once
  <2> SUFFICES ASSUME TypeOK, Inv, [Next]_vars PROVE Once OBVIOUS
  <2>1. ASSUME NEW a \in Accepts, AcceptCommit(a) PROVE Once
    BY <2>1, AcceptCommits
  <2>2. ASSUME NEW r \in Requests, AskInsert(r) \/ ListExpires(r) \/ CancelRideRequest(r)
        PROVE  Once
    BY <2>2, RideCommits
  <2>3. QED BY <2>1, <2>2, QuietSteps, MoveCommits
<1>2. TypeOK /\ Inv /\ [Next]_vars => [Once]_vars
  BY <1>1
<1>3. QED BY <1>2, InvHolds, PTL DEF Spec, OfferAnsweredOnce

(* A request that was matched, cancelled or expired stays so.              *)
THEOREM RequestsEndOnce == Spec => RequestEndsOnce
<1> DEFINE Ended == \A r \in Requests :
                      request[r] \notin {NoneYet, "OPEN"} => request'[r] = request[r]
<1>1. TypeOK /\ Inv /\ [Next]_vars => Ended
  <2> SUFFICES ASSUME TypeOK, Inv, [Next]_vars PROVE Ended OBVIOUS
  <2>1. ASSUME NEW a \in Accepts, AcceptCommit(a) PROVE Ended
    BY <2>1, AcceptCommits DEF TypeOK
  <2>2. ASSUME NEW r \in Requests, AskInsert(r) \/ ListExpires(r) \/ CancelRideRequest(r)
        PROVE  Ended
    BY <2>2, RideCommits
  <2>3. QED BY <2>1, <2>2, QuietSteps, MoveCommits
<1>2. TypeOK /\ Inv /\ [Next]_vars => [Ended]_vars
  BY <1>1
<1>3. QED BY <1>2, InvHolds, PTL DEF Spec, RequestEndsOnce

(* Offers and requests together.                                           *)
THEOREM AnswersFinal == Spec => AnswersAreFinal
BY OffersAnsweredOnce, RequestsEndOnce, PTL DEF AnswersAreFinal

(* A driver is approved, online and free when an offer of theirs becomes a *)
(* trip.                                                                   *)
THEOREM DriversHiredWhileFit == Spec => HiredWhileFit
<1> DEFINE Fit == \A o \in Offers : offer[o] # "ACCEPTED" /\ offer'[o] = "ACCEPTED" =>
                    CanAccept(driver[bid[o].by]) /\ InFlight(bid[o].by) = {}
<1>1. TypeOK /\ Inv /\ [Next]_vars => Fit
  <2> SUFFICES ASSUME TypeOK, Inv, [Next]_vars PROVE Fit OBVIOUS
  <2>1. ASSUME NEW a \in Accepts, AcceptCommit(a) PROVE Fit
    BY <2>1, AcceptCommits
  <2>2. ASSUME NEW r \in Requests, AskInsert(r) \/ ListExpires(r) \/ CancelRideRequest(r)
        PROVE  Fit
    BY <2>2, RideCommits
  <2>3. QED BY <2>1, <2>2, QuietSteps, MoveCommits
<1>2. TypeOK /\ Inv /\ [Next]_vars => [Fit]_vars
  BY <1>1
<1>3. QED BY <1>2, InvHolds, PTL DEF Spec, HiredWhileFit

(* A passenger is refused a ride only for one of theirs that still had     *)
(* time left by the clock of the request refused (RequestRide).            *)
THEOREM RefusedForALiveOne == Spec => RefusedOnlyForALiveRequest
<1> DEFINE Live == \A r \in Requests : ask[r].pc # "refused" /\ ask'[r].pc = "refused" =>
                     OpenOf(PassengerOf[r]) \ (IF ask[r].pc = "looked" THEN ask[r].late ELSE late) # {}
<1>1. TypeOK /\ [Next]_vars => Live
  <2> SUFFICES ASSUME TypeOK, [Next]_vars PROVE Live OBVIOUS
  <2>1. CASE \E r \in Requests : Ride(r)
    <3>1. PICK r \in Requests : Ride(r)
      BY <2>1
    <3>2. \A q \in Requests \ {r} : ask'[q] = ask[q]
      BY <3>1 DEF Ride, AskLook, AskInsert, AskTwinWon, Deadline, ListExpires, CancelRideRequest, TypeOK
    <3>3. CASE AskLook(r)
      BY <3>2, <3>3 DEF AskLook, TypeOK
    <3>4. CASE AskInsert(r)
      BY <3>2, <3>4 DEF AskInsert, TypeOK
    <3>5. CASE AskTwinWon(r)
      BY <3>2, <3>5 DEF AskTwinWon, Twins, Outdated
    <3>6. CASE Deadline(r) \/ ListExpires(r) \/ CancelRideRequest(r)
      BY <3>6 DEF Deadline, ListExpires, CancelRideRequest
    <3>7. QED BY <3>1, <3>3, <3>4, <3>5, <3>6 DEF Ride
  <2>2. CASE ~\E r \in Requests : Ride(r)
    <3>1. UNCHANGED ask
      BY <2>2 DEF Next, vars, Bid, BidFind, BidCommit, BidRollback, WithdrawOffer,
                  Accept, AcceptLock, AcceptHold, AcceptCommit, AcceptRollback,
                  Move, TakeFind, AdvanceLock, TakeCommit, AdvanceCommit, MoverRollback,
                  Desk, DeskRead, DeskCommit, DeskRollback
    <3>2. QED BY <3>1
  <2>3. QED BY <2>1, <2>2
<1>2. TypeOK /\ [Next]_vars => [Live]_vars
  BY <1>1
<1>3. QED BY <1>2, TypeCorrect, PTL DEF Spec, RefusedOnlyForALiveRequest

(***************************************************************************)
(* Hiring implements Matching.                                             *)
(***************************************************************************)

(* A matched request's partner is the driver of the offer accepted on it.  *)
PartnersRight ==
  /\ \A o \in Offers : offer[o] = "ACCEPTED" => Partner[bid[o].on] = bid[o].by
  /\ \A r \in Requests : request[r] # "MATCHED" => Partner[r] = NoDriver

(* It is the only offer accepted on the request.                           *)
LEMMA PartnersAreRight == TypeOK /\ Inv => PartnersRight
<1> SUFFICES ASSUME TypeOK, Inv PROVE PartnersRight OBVIOUS
<1> USE DEF Inv
<1>1. ASSUME NEW o \in Offers, offer[o] = "ACCEPTED"
      PROVE  Partner[bid[o].on] = bid[o].by
  <2>1. bid[o].on \in Requests /\ bid[o].by \in Drivers /\ request[bid[o].on] = "MATCHED"
    BY <1>1 DEF TypeOK, BidTx, IdleBid, RowsAgree, NoneYet
  <2>2. Accepted(bid[o].on) = {o}
    BY <1>1 DEF Accepted, BidsOn, MatchedOnce
  <2>3. Partner[bid[o].on] = CHOOSE d \in Drivers : \E n \in {o} : bid[n].by = d
    BY <2>1, <2>2 DEF Partner, PartnerOf
  <2>4. QED BY <2>1, <2>3
<1>2. \A r \in Requests : request[r] # "MATCHED" => Partner[r] = NoDriver
  BY DEF Partner, PartnerOf
<1>3. QED BY <1>1, <1>2 DEF PartnersRight

(* So a request that stays matched, with its offer, keeps its partner.     *)
LEMMA PartnersStay ==
  ASSUME TypeOK, Inv, TypeOK', Inv',
         \A o \in Offers : offer[o] = "ACCEPTED" => offer'[o] = "ACCEPTED" /\ bid'[o] = bid[o]
  PROVE  \A r \in Requests : (request[r] = "MATCHED" <=> request'[r] = "MATCHED")
                               => Partner'[r] = Partner[r]
<1>1. PartnersRight /\ PartnersRight'
  BY PartnersAreRight, PTL
<1> SUFFICES ASSUME NEW r \in Requests, request[r] = "MATCHED" <=> request'[r] = "MATCHED"
             PROVE  Partner'[r] = Partner[r]
  OBVIOUS
<1>2. CASE request[r] = "MATCHED"
  <2>1. PICK o \in Offers : bid[o].on = r /\ offer[o] = "ACCEPTED"
    BY <1>2 DEF Inv, MatchedOnce
  <2>2. QED BY <1>1, <2>1 DEF PartnersRight
<1>3. CASE request[r] # "MATCHED"
  BY <1>1, <1>3 DEF PartnersRight
<1>4. QED BY <1>2, <1>3

(* The statuses of a request and what they are to Matching.                *)
LEMMA PhaseIs ==
  ASSUME NEW r \in Requests
  PROVE  /\ request[r] = NoneYet => Phase[r] = "new"
         /\ request[r] = "OPEN" => Phase[r] = "waiting"
         /\ request[r] = "MATCHED" => Phase[r] = "matched"
         /\ request[r] \notin {NoneYet, "OPEN", "MATCHED"} => Phase[r] = "closed"
BY DEF Phase, PhaseOf, NoneYet

(* Before anything is asked.                                               *)
LEMMA InitImplements == Init => Agreement!Init
<1> SUFFICES ASSUME Init PROVE Agreement!Init OBVIOUS
<1>1. Phase = [r \in Requests |-> "new"]
  BY PhaseIs DEF Init, Phase
<1>2. Partner = [r \in Requests |-> NoDriver]
  <2>1. \A r \in Requests : PartnerOf(r) = NoDriver
    BY DEF Init, PartnerOf, NoneYet
  <2>2. QED BY <2>1 DEF Partner
<1>3. Engaged = {}
  BY HiringNulls DEF Init, Engaged, InFlight
<1>4. QED BY <1>1, <1>2, <1>3 DEF Agreement!Init

(* Ends and beginnings of requests are Ask and Close.                      *)
LEMMA RideImplements ==
  ASSUME TypeOK, Inv, TypeOK', Inv', NEW r \in Requests,
         AskInsert(r) \/ ListExpires(r) \/ CancelRideRequest(r)
  PROVE  Agreement!Next
<1>1. Engaged' = Engaged
  BY RideCommits DEF Engaged, InFlight
<1>2. \A o \in Offers : offer[o] = "ACCEPTED" => offer'[o] = "ACCEPTED" /\ bid'[o] = bid[o]
  BY RideCommits
<1>3. \A q \in Requests : request[q] = "MATCHED" <=> request'[q] = "MATCHED"
  <2>1. CASE AskInsert(r)
    <3>1. request[r] = NoneYet /\ \A q \in Outdated(r) : request[q] = "OPEN"
      BY <2>1 DEF AskInsert, Inv, RowsAgree, Outdated, OpenOf
    <3>2. QED BY <2>1, <3>1 DEF AskInsert, NoneYet
  <2>2. CASE ListExpires(r) \/ CancelRideRequest(r)
    BY <2>2 DEF ListExpires, CancelRideRequest, MayCancel, TypeOK
  <2>3. QED BY <2>1, <2>2
<1>4. Partner' = Partner
  BY <1>2, <1>3, PartnersStay DEF Partner
<1>5. CASE AskInsert(r)
  <2>1. request[r] = NoneYet /\ Outdated(r) \subseteq {q \in Requests : request[q] = "OPEN"}
    BY <1>5 DEF AskInsert, Inv, RowsAgree, Outdated, OpenOf
  <2>2. Phase[r] = "new" /\ Outdated(r) \subseteq {q \in Requests : Phase[q] = "waiting"}
    BY <2>1, PhaseIs
  <2>3. /\ request'[r] = "OPEN"
        /\ \A q \in Outdated(r) : q # r /\ request'[q] = "EXPIRED"
        /\ \A q \in Requests : q # r /\ q \notin Outdated(r) => request'[q] = request[q]
    BY <1>5, <2>1 DEF AskInsert, NoneYet
  <2>4. /\ Phase'[r] = "waiting"
        /\ \A q \in Outdated(r) : Phase'[q] = "closed"
        /\ \A q \in Requests : q # r /\ q \notin Outdated(r) => Phase'[q] = Phase[q]
    BY <2>1, <2>3 DEF Phase, PhaseOf, NoneYet
  <2>5. Phase' = [[q \in Requests |-> IF q \in Outdated(r) THEN "closed" ELSE Phase[q]]
                   EXCEPT ![r] = "waiting"]
    BY <2>2, <2>4 DEF Phase
  <2>6. Agreement!Ask(r)
    BY <1>1, <1>4, <2>2, <2>5 DEF Agreement!Ask
  <2>7. QED BY <2>6 DEF Agreement!Next
<1>6. CASE ListExpires(r) \/ CancelRideRequest(r)
  <2>1. request[r] = "OPEN" /\ \E end \in {"EXPIRED", "CANCELLED"} :
                                  request' = [request EXCEPT ![r] = end]
    BY <1>6 DEF ListExpires, CancelRideRequest, MayCancel
  <2>2. Phase[r] = "waiting"
    BY <2>1, PhaseIs
  <2>3. /\ request'[r] \in {"EXPIRED", "CANCELLED"}
        /\ \A q \in Requests \ {r} : request'[q] = request[q]
    BY <2>1 DEF TypeOK
  <2>4. Phase'[r] = "closed" /\ \A q \in Requests \ {r} : Phase'[q] = Phase[q]
    BY <2>3 DEF Phase, PhaseOf, NoneYet
  <2>5. Phase' = [Phase EXCEPT ![r] = "closed"]
    BY <2>4 DEF Phase
  <2>6. Agreement!Close(r)
    BY <1>1, <1>4, <2>2, <2>5 DEF Agreement!Close
  <2>7. QED BY <2>6 DEF Agreement!Next
<1>7. QED BY <1>5, <1>6

(* An acceptance's commit is the match.                                    *)
LEMMA AcceptImplements ==
  ASSUME TypeOK, Inv, TypeOK', Inv', NEW a \in Accepts, AcceptCommit(a)
  PROVE  Agreement!Next
<1>1. PICK o \in Offers, r \in Requests, d \in Drivers :
           /\ bid[o].on = r /\ bid[o].by = d /\ bid' = bid
           /\ request[r] = "OPEN" /\ request' = [request EXCEPT ![r] = "MATCHED"]
           /\ offer[o] = "OFFERED" /\ offer'[o] = "ACCEPTED"
           /\ \A n \in Offers \ {o} :
                offer'[n] = offer[n] \/ (offer[n] = "OFFERED" /\ offer'[n] = "DECLINED")
           /\ InFlight(d) = {}
           /\ trip' = [trip EXCEPT ![o] = [status |-> "DRIVER_ASSIGNED", driver |-> d]]
  BY AcceptCommits
<1>2. /\ request'[r] = "MATCHED" /\ \A q \in Requests \ {r} : request'[q] = request[q]
  BY <1>1 DEF TypeOK
<1>3. Phase[r] = "waiting" /\ Phase' = [Phase EXCEPT ![r] = "matched"]
  <2>1. Phase[r] = "waiting"
    BY <1>1, PhaseIs
  <2>2. Phase'[r] = "matched" /\ \A q \in Requests \ {r} : Phase'[q] = Phase[q]
    BY <1>2 DEF Phase, PhaseOf, NoneYet
  <2>3. QED BY <2>1, <2>2 DEF Phase
<1>4. Partner' = [Partner EXCEPT ![r] = d]
  <2>1. \A n \in Offers : offer[n] = "ACCEPTED" => offer'[n] = "ACCEPTED" /\ bid'[n] = bid[n]
    BY <1>1
  <2>2. \A q \in Requests \ {r} : Partner'[q] = Partner[q]
    BY <1>2, <2>1, PartnersStay
  <2>3. Partner'[r] = d
    <3>1. PartnersRight'
      BY PartnersAreRight, PTL
    <3>2. QED BY <1>1, <3>1 DEF PartnersRight
  <2>4. QED BY <2>2, <2>3 DEF Partner
<1>5. d \notin Engaged /\ Engaged' = Engaged \cup {d}
  <2>1. /\ o \in Trips /\ trip'[o] = [status |-> "DRIVER_ASSIGNED", driver |-> d]
        /\ \A t \in Trips \ {o} : trip'[t] = trip[t]
    BY <1>1 DEF TypeOK, Trips
  <2>2. trip[o].status = NoneYet
    BY <1>1 DEF Inv, AcceptedHasTrip
  <2>3. \A e \in Drivers \ {d} : InFlight(e)' = InFlight(e)
    BY <2>1, <2>2 DEF InFlight, IN_FLIGHT, NoneYet
  <2>4. o \in InFlight(d)'
    BY <2>1 DEF InFlight, IN_FLIGHT
  <2>5. QED BY <1>1, <2>3, <2>4 DEF Engaged
<1>6. Agreement!Match(r, d)
  BY <1>3, <1>4, <1>5 DEF Agreement!Match
<1>7. QED BY <1>6 DEF Agreement!Next

(* A trip taken engages its driver; a trip that moves may finish him.      *)
LEMMA MoveImplements ==
  ASSUME TypeOK, Inv, TypeOK', Inv', NEW m \in Movers, TakeCommit(m) \/ AdvanceCommit(m)
  PROVE  Agreement!Next \/ UNCHANGED <<Phase, Partner, Engaged>>
<1>1. UNCHANGED <<request, offer, bid>>
  BY MoveCommits
<1>2. Phase' = Phase /\ Partner' = Partner
  BY <1>1 DEF Phase, PhaseOf, Partner, PartnerOf, Accepted, BidsOn
<1>3. CASE TakeCommit(m)
  <2> PICK t \in Scheduled, d \in Drivers : t = mover[m].trip /\ d = mover[m].driver
    BY <1>3 DEF TakeCommit, TypeOK, MoverTx, IdleMover
  <2>1. /\ t \in Trips /\ trip[t].status = "SCHEDULED" /\ InFlight(d) \subseteq {t}
        /\ trip'[t] = [status |-> "DRIVER_ASSIGNED", driver |-> d]
        /\ \A u \in Trips \ {t} : trip'[u] = trip[u]
    BY <1>3 DEF TakeCommit, TypeOK, Trips
  <2>2. InFlight(d) = {} /\ t \in InFlight(d)'
    BY <2>1 DEF InFlight, IN_FLIGHT
  <2>3. \A e \in Drivers \ {d} : InFlight(e)' = InFlight(e)
    BY <2>1 DEF InFlight, IN_FLIGHT
  <2>4. d \notin Engaged /\ Engaged' = Engaged \cup {d}
    BY <2>2, <2>3 DEF Engaged
  <2>5. Agreement!Engage(d)
    BY <1>2, <2>4 DEF Agreement!Engage
  <2>6. QED BY <2>5 DEF Agreement!Next
<1>4. CASE AdvanceCommit(m)
  <2> PICK t \in Trips, d \in Drivers, target \in AdvanceTargets :
        t = mover[m].trip /\ d = mover[m].driver /\ target = mover[m].target
    BY <1>4 DEF AdvanceCommit, TypeOK, MoverTx, IdleMover
  <2>1. /\ trip'[t].status = target /\ trip'[t].driver = trip[t].driver
        /\ \A u \in Trips \ {t} : trip'[u] = trip[u]
    BY <1>4 DEF AdvanceCommit, TypeOK, TripRow
  <2>2. trip[t].driver = d /\ Can(TRIP_LIFECYCLE, trip[t].status, target)
    BY <1>4 DEF AdvanceCommit, Inv, MoveIsCurrent
  <2>3. target \in IN_FLIGHT => trip[t].status \in IN_FLIGHT
    BY <2>2, TripHops
  <2>4. /\ \A e \in Drivers \ {d} : InFlight(e)' = InFlight(e)
        /\ InFlight(d)' \subseteq InFlight(d)
    BY <2>1, <2>2, <2>3 DEF InFlight
  <2>5. Engaged' = Engaged \/ Engaged' = Engaged \ {d}
    BY <2>4 DEF Engaged
  <2>6. Engaged' = Engaged \ {d} => Agreement!Finish(d)
    BY <1>2 DEF Agreement!Finish
  <2>7. QED BY <1>2, <2>5, <2>6 DEF Agreement!Next
<1>5. QED BY <1>3, <1>4

(* Every step maps to a step of Matching or to a stutter.                  *)
LEMMA NextImplements ==
  ASSUME TypeOK, Inv, TypeOK', Inv', [Next]_vars
  PROVE  Agreement!Next \/ UNCHANGED <<Phase, Partner, Engaged>>
<1>1. CASE /\ UNCHANGED <<request, trip>>
           /\ \A o \in Offers :
                \/ bid'[o] = bid[o] /\ offer'[o] = offer[o]
                \/ offer[o] # "ACCEPTED" /\ offer'[o] # "ACCEPTED"
                     /\ offer[o] \in {NoneYet, "OFFERED"}
  <2>1. Phase' = Phase /\ Engaged' = Engaged
    BY <1>1 DEF Phase, PhaseOf, Engaged, InFlight
  <2>2. \A r \in Requests : Partner'[r] = Partner[r]
    BY <1>1, PartnersStay
  <2>3. Partner' = Partner
    BY <2>2 DEF Partner
  <2>4. QED BY <2>1, <2>3
<1>2. QED BY <1>1, QuietSteps, RideImplements, AcceptImplements, MoveImplements

(* Whatever is interleaved, rides are agreed as Matching says: a request   *)
(* is answered once, by a driver who was free, and a driver has one        *)
(* journey at a time.                                                      *)
THEOREM HiringImplementsMatching == Spec => ImplementsMatching
<1>1. TypeOK /\ Inv /\ TypeOK' /\ Inv' /\ [Next]_vars =>
        [Agreement!Next]_<<Phase, Partner, Engaged>>
  BY NextImplements
<1>2. QED BY <1>1, InitImplements, InvHolds, PTL
          DEF Spec, ImplementsMatching, Agreement!Spec
=============================================================================
