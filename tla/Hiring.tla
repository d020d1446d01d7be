------------------------------- MODULE Hiring -------------------------------
(***************************************************************************)
(* Passengers' ride requests, drivers' offers on them, and the journeys a  *)
(* driver gets: by an accepted offer, or by taking a scheduled trip.       *)
(* Every request is one database transaction (READ COMMITTED):             *)
(*                                                                         *)
(*   RequestRide    look for an open request, then insert under the index  *)
(*   OfferFare      load the request and the driver, then request FOR      *)
(*                  UPDATE and insert the offer                            *)
(*   AcceptOffer    passenger, request FOR UPDATE; answer the offer,       *)
(*                  driver FOR UPDATE; create the trip and match           *)
(*   AcceptTrip     load the driver, then trip and driver FOR UPDATE       *)
(*   AdvanceTrip    trip FOR UPDATE, load the driver, write both           *)
(*   desk           load the driver, write the driver: online, offline,    *)
(*                  suspend, approve, a new document                       *)
(*                                                                         *)
(* A request that is refused leaves nothing behind; where it held nothing  *)
(* either, it is not here.  Prices, vehicles, documents and geography only *)
(* refuse; the bookings and seats of a trip are TripBooking's.             *)
(***************************************************************************)
EXTENDS Lifecycles

CONSTANTS
  Requests,     \* one identifier for each RequestRide request
  Passengers,
  PassengerOf,  \* who sends it
  MaxActive,    \* booking.max_active_per_passenger
  Offers,       \* one for each OfferFare request, and for the trip it may become
  Scheduled,    \* the trips on the timetable
  Drivers,
  Accepts,      \* AcceptOffer requests
  Movers,       \* AcceptTrip and AdvanceTrip requests
  AdvanceTargets,      \* what AdvanceTrip requests ask for
  Desks,        \* requests that write a driver's row
  NoRequest, NoDriver, NoOffer, NoTrip

Trips == Offers \cup Scheduled

ASSUME HiringAssumption ==
  /\ PassengerOf \in [Requests -> Passengers]
  /\ MaxActive \in Nat
  /\ AdvanceTargets \subseteq TripStatus \ {"DRIVER_ASSIGNED", "SCHEDULED", "REQUESTED"}
  /\ Offers \cap Scheduled = {}
  /\ IsFiniteSet(Requests) /\ IsFiniteSet(Offers) /\ IsFiniteSet(Scheduled)
ASSUME HiringNulls == /\ NoRequest \notin Requests /\ NoDriver \notin Drivers
                      /\ NoOffer \notin Offers /\ NoTrip \notin Trips

VARIABLES
  request,  \* the committed status of each ride request
  late,     \* the requests whose expires_at has passed
  offer,    \* the committed status of each offer
  trip,     \* [status, driver] of each trip
  driver,   \* [approval, availability] of each driver
  ask,      \* RequestRide transactions: pc and the requests late by its clock
  bid,      \* OfferFare transactions: pc, the request and the driver; the
            \* offer's own request and driver once it exists
  accept,   \* AcceptOffer transactions: pc and the offer
  mover,    \* AcceptTrip and AdvanceTrip transactions
  desk      \* writers of a driver's row: what, whose, and the row they read

data == <<request, late, offer, trip, driver>>
vars == <<data, ask, bid, accept, mover, desk>>

RideRequestStatus    == {"OPEN", "MATCHED", "CANCELLED", "EXPIRED"}
FareOfferStatus      == {"OFFERED", "ACCEPTED", "DECLINED", "WITHDRAWN"}
DriverApprovalStatus == {"PENDING", "APPROVED", "SUSPENDED"}
DriverAvailability   == {"OFFLINE", "ONLINE", "ON_TRIP"}
DriverRow == [approval : DriverApprovalStatus, availability : DriverAvailability]
Working   == [approval |-> "APPROVED", availability |-> "ONLINE"]
NoneYet   == "none"   \* the status of a row that was not inserted

IdleBid    == [pc |-> "idle", on |-> NoRequest, by |-> NoDriver]
IdleAccept == [pc |-> "idle", offer |-> NoOffer]
IdleMover  == [pc |-> "idle", trip |-> NoTrip, target |-> NoTarget,
               driver |-> NoDriver, saw |-> Working]
IdleDesk   == [pc |-> "idle", what |-> "none", driver |-> NoDriver, saw |-> Working]

(***************************************************************************)
(* What the requests look for.  A definition marked "a fault" is what its  *)
(* neighbour below would be with a plausible bug; nothing uses it.         *)
(***************************************************************************)

OpenOf(p)  == {r \in Requests : PassengerOf[r] = p /\ request[r] = "OPEN"}
BidsOn(r)  == {o \in Offers : bid[o].on = r}
OpenOn(r)  == {o \in BidsOn(r) : offer[o] = "OFFERED"}

(* TripRepository.active_for_driver.                                       *)
IN_FLIGHT == {"DRIVER_ASSIGNED", "DRIVER_ARRIVING", "ARRIVED_AT_PICKUP",
              "BOARDING", "IN_TRANSIT", "ARRIVED"}
UnderWay(d) ==                                                  \* a fault
  {t \in Trips : trip[t].driver = d /\ trip[t].status \in IN_FLIGHT \ {"DRIVER_ASSIGNED"}}
InFlight(d) == {t \in Trips : trip[t].driver = d /\ trip[t].status \in IN_FLIGHT}

(* The trips an accepted offer gave the passenger and that are not over:   *)
(* one active booking each.                                                *)
ActiveRides(p) == {o \in Offers : /\ trip[o].status \in IN_FLIGHT
                                  /\ PassengerOf[bid[o].on] = p}

(* Driver.assert_can_accept.                                               *)
CanAccept(row) == row.approval = "APPROVED" /\ row.availability = "ONLINE"

(* Who holds a passenger, a request, an answered offer, a trip, a driver.  *)
PassengerHolders(p) ==
  {a \in Accepts : accept[a].pc # "idle" /\ PassengerOf[bid[accept[a].offer].on] = p}
RequestsNotLocked(r) == {}                                      \* a fault
RequestHolders(r) ==
  {a \in Accepts : accept[a].pc # "idle" /\ bid[accept[a].offer].on = r}
AnswersNotLocked(o) == {}                                       \* a fault
OfferHolders(o)  == {a \in Accepts : accept[a].pc = "held" /\ accept[a].offer = o}
TripHolders(t)   == {m \in Movers : mover[m].pc = "locked" /\ mover[m].trip = t}
DriversNotLocked(d) == {}                                       \* a fault
DriverHolders(d) == {a \in Accepts : accept[a].pc = "held" /\ bid[accept[a].offer].by = d}

(* An UPDATE of a loaded row writes the columns the request changed, and   *)
(* leaves the others as they are by then.                                  *)
Saved(row, saw, new) ==
  [approval     |-> IF new.approval # saw.approval THEN new.approval ELSE row.approval,
   availability |-> IF new.availability # saw.availability
                    THEN new.availability ELSE row.availability]

(***************************************************************************)
(* RequestRide, cancelling a request, and what time does to one.           *)
(***************************************************************************)

AskLook(r) ==
  /\ ask[r].pc = "idle"
  /\ ask' = [ask EXCEPT ![r] =
       IF OpenOf(PassengerOf[r]) \subseteq late
       THEN [pc |-> "looked", late |-> late] ELSE [pc |-> "refused", late |-> {}]]
  /\ UNCHANGED <<data, bid, accept, mover, desk>>

(* expire_stale_for_passenger, by the clock the request read when it began; *)
(* and the rows the unique index then finds in the new one's way.          *)
NothingExpires(r) == {}                                         \* a fault
Outdated(r) == OpenOf(PassengerOf[r]) \cap ask[r].late
NoIndex(r)  == {}                                               \* a fault
Twins(r)    == OpenOf(PassengerOf[r]) \ Outdated(r)

AskInsert(r) ==
  /\ ask[r].pc = "looked"
  /\ \A q \in Outdated(r) : RequestHolders(q) = {}
  /\ Twins(r) = {}
  /\ request' = [[q \in Requests |-> IF q \in Outdated(r) THEN "EXPIRED" ELSE request[q]]
                   EXCEPT ![r] = "OPEN"]
  /\ ask' = [ask EXCEPT ![r] = [pc |-> "done", late |-> {}]]
  /\ UNCHANGED <<late, offer, trip, driver, bid, accept, mover, desk>>

AskTwinWon(r) ==
  /\ ask[r].pc = "looked"
  /\ \A q \in Outdated(r) : RequestHolders(q) = {}
  /\ Twins(r) # {}
  /\ ask' = [ask EXCEPT ![r] = [pc |-> "refused", late |-> {}]]
  /\ UNCHANGED <<data, bid, accept, mover, desk>>

Deadline(r) ==
  /\ request[r] = "OPEN"
  /\ r \notin late
  /\ late' = late \cup {r}
  /\ UNCHANGED <<request, offer, trip, driver, ask, bid, accept, mover, desk>>

(* A passenger opens their list, which closes what ran out of time.        *)
ListExpires(r) ==
  /\ request[r] = "OPEN"
  /\ r \in late
  /\ RequestHolders(r) = {}
  /\ request' = [request EXCEPT ![r] = "EXPIRED"]
  /\ UNCHANGED <<late, offer, trip, driver, ask, bid, accept, mover, desk>>

(* decline_others.                                                         *)
Declined(r, kept) == [o \in Offers |-> IF o \in OpenOn(r) \ kept
                                       THEN "DECLINED" ELSE offer[o]]

CancelAnything(r) == request[r] # NoneYet                       \* a fault
MayCancel(r)      == request[r] = "OPEN"

CancelRideRequest(r) ==
  /\ RequestHolders(r) = {}
  /\ MayCancel(r)
  /\ request' = [request EXCEPT ![r] = "CANCELLED"]
  /\ offer' = Declined(r, {})
  /\ UNCHANGED <<late, trip, driver, ask, bid, accept, mover, desk>>

(***************************************************************************)
(* OfferFare and WithdrawOffer.                                            *)
(***************************************************************************)

(* The route loads the request before the use case locks it, and the lock  *)
(* does not refresh a loaded row: the status is checked as it was here.    *)
BidFind(o, r, d) ==
  /\ bid[o].pc = "idle"
  /\ request[r] = "OPEN"
  /\ CanAccept(driver[d])
  /\ bid' = [bid EXCEPT ![o] = [pc |-> "found", on |-> r, by |-> d]]
  /\ UNCHANGED <<data, ask, accept, mover, desk>>

BidCommit(o) ==
  LET r == bid[o].on
      d == bid[o].by
  IN
  /\ bid[o].pc = "found"
  /\ RequestHolders(r) = {}
  /\ DriverHolders(d) = {}     \* the new row's foreign key
  /\ r \notin late
  /\ \A q \in OpenOn(r) : bid[q].by # d
  /\ InFlight(d) = {}
  /\ offer' = [offer EXCEPT ![o] = "OFFERED"]
  /\ bid' = [bid EXCEPT ![o].pc = "done"]
  /\ UNCHANGED <<request, late, trip, driver, ask, accept, mover, desk>>

BidRollback(o) ==
  /\ bid[o].pc = "found"
  /\ bid' = [bid EXCEPT ![o].pc = "done"]
  /\ UNCHANGED <<data, ask, accept, mover, desk>>

(* respond_if_open: one conditional UPDATE, after the row's holder.        *)
WithdrawOffer(o) ==
  /\ OfferHolders(o) = {}
  /\ offer[o] = "OFFERED"
  /\ offer' = [offer EXCEPT ![o] = "WITHDRAWN"]
  /\ UNCHANGED <<request, late, trip, driver, ask, bid, accept, mover, desk>>

(***************************************************************************)
(* AcceptOffer.                                                            *)
(***************************************************************************)

(* The offer is read, the passenger and the request are held, and only an  *)
(* open request goes on; nothing looks at its deadline.                    *)
AcceptLock(a, o) ==
  LET r == bid[o].on IN
  /\ accept[a].pc = "idle"
  /\ offer[o] = "OFFERED"
  /\ PassengerHolders(PassengerOf[r]) = {}
  /\ RequestHolders(r) = {}
  /\ request[r] = "OPEN"
  /\ Cardinality(ActiveRides(PassengerOf[r])) < MaxActive
  /\ accept' = [accept EXCEPT ![a] = [pc |-> "locked", offer |-> o]]
  /\ UNCHANGED <<data, ask, bid, mover, desk>>

(* The offer is answered if it still can be, then the driver is held, and  *)
(* everything about them is read again.                                    *)
AcceptHold(a) ==
  LET o == accept[a].offer
      d == bid[o].by
  IN
  /\ accept[a].pc = "locked"
  /\ offer[o] = "OFFERED"
  /\ DriverHolders(d) = {}
  /\ CanAccept(driver[d])
  /\ InFlight(d) = {}
  /\ accept' = [accept EXCEPT ![a].pc = "held"]
  /\ UNCHANGED <<data, ask, bid, mover, desk>>

(* The trip, the request and every offer on it, in one commit.             *)
AcceptCommit(a) ==
  LET o == accept[a].offer
      r == bid[o].on
  IN
  /\ accept[a].pc = "held"
  /\ trip' = [trip EXCEPT ![o] = [status |-> "DRIVER_ASSIGNED", driver |-> bid[o].by]]
  /\ request' = [request EXCEPT ![r] = "MATCHED"]
  /\ offer' = [Declined(r, {o}) EXCEPT ![o] = "ACCEPTED"]
  /\ accept' = [accept EXCEPT ![a] = IdleAccept]
  /\ UNCHANGED <<late, driver, ask, bid, mover, desk>>

AcceptRollback(a) ==
  /\ accept[a].pc # "idle"
  /\ accept' = [accept EXCEPT ![a] = IdleAccept]
  /\ UNCHANGED <<data, ask, bid, mover, desk>>

(***************************************************************************)
(* AcceptTrip and AdvanceTrip.                                             *)
(***************************************************************************)

(* find_by_user loads the driver's row; the lock taken later does not      *)
(* refresh it, so approval and availability are checked as they were here. *)
TakeFind(m, t, d) ==
  /\ mover[m].pc = "idle"
  /\ CanAccept(driver[d])
  /\ mover' = [mover EXCEPT ![m] = [pc |-> "found", trip |-> t, driver |-> d,
                                    target |-> "DRIVER_ASSIGNED", saw |-> driver[d]]]
  /\ UNCHANGED <<data, ask, bid, accept, desk>>

(* Both rows held, and the trip taken.                                     *)
TakeCommit(m) ==
  LET t == mover[m].trip
      d == mover[m].driver
  IN
  /\ mover[m].pc = "found"
  /\ TripHolders(t) = {}
  /\ DriverHolders(d) = {}
  /\ InFlight(d) \ {t} = {}
  /\ trip[t].status = "SCHEDULED"
  /\ trip' = [trip EXCEPT ![t] = [status |-> "DRIVER_ASSIGNED", driver |-> d]]
  /\ driver' = [driver EXCEPT ![d] =
       Saved(driver[d], mover[m].saw, [mover[m].saw EXCEPT !.availability = "ON_TRIP"])]
  /\ mover' = [mover EXCEPT ![m] = IdleMover]
  /\ UNCHANGED <<request, late, offer, ask, bid, accept, desk>>

AdvanceLock(m, t, target) ==
  /\ mover[m].pc = "idle"
  /\ TripHolders(t) = {}
  /\ trip[t].driver # NoDriver
  /\ Can(TRIP_LIFECYCLE, trip[t].status, target)
  /\ mover' = [mover EXCEPT ![m] =
       [pc |-> "locked", trip |-> t, driver |-> trip[t].driver,
        target |-> target, saw |-> driver[trip[t].driver]]]
  /\ UNCHANGED <<data, ask, bid, accept, desk>>

(* _update_driver_availability, on a row that was not held when it was read. *)
AvailabilityAfter(target, now) ==
  CASE target \in {"COMPLETED", "CANCELLED"}                -> "ONLINE"
    [] target \in IN_FLIGHT \ {"ARRIVED"}                   -> "ON_TRIP"
    [] OTHER                                                -> now

AdvanceCommit(m) ==
  LET t   == mover[m].trip
      d   == mover[m].driver
      saw == mover[m].saw
  IN
  /\ mover[m].pc = "locked"
  /\ DriverHolders(d) = {}
  /\ trip' = [trip EXCEPT ![t].status = mover[m].target]
  /\ driver' = [driver EXCEPT ![d] = Saved(driver[d], saw,
       [saw EXCEPT !.availability = AvailabilityAfter(mover[m].target, @)])]
  /\ mover' = [mover EXCEPT ![m] = IdleMover]
  /\ UNCHANGED <<request, late, offer, ask, bid, accept, desk>>

MoverRollback(m) ==
  /\ mover[m].pc # "idle"
  /\ mover' = [mover EXCEPT ![m] = IdleMover]
  /\ UNCHANGED <<data, ask, bid, accept, desk>>

(***************************************************************************)
(* The desk: what a driver, and an administrator, does to a driver's row.  *)
(***************************************************************************)

Changes == {"online", "offline", "suspend", "approve", "upload"}

(* The checks, on a row and on trips nobody holds.                         *)
MayChange(what, d) ==
  CASE what = "online"  -> driver[d].approval = "APPROVED"
    [] what = "offline" -> driver[d].availability # "ON_TRIP"
    [] what = "suspend" -> InFlight(d) = {}
    [] what = "approve" -> TRUE
    [] what = "upload"  -> driver[d].approval = "APPROVED"

Changed(what, row) ==
  CASE what = "online"  -> [row EXCEPT !.availability =
                              IF @ = "OFFLINE" THEN "ONLINE" ELSE @]
    [] what = "offline" -> [row EXCEPT !.availability = "OFFLINE"]
    [] what = "suspend" -> [approval |-> "SUSPENDED", availability |-> "OFFLINE"]
    [] what = "approve" -> [row EXCEPT !.approval = "APPROVED"]
    [] what = "upload"  -> [approval |-> "PENDING", availability |-> "OFFLINE"]

DeskRead(k, what, d) ==
  /\ desk[k].pc = "idle"
  /\ MayChange(what, d)
  /\ desk' = [desk EXCEPT ![k] = [pc |-> "read", what |-> what, driver |-> d,
                                  saw |-> driver[d]]]
  /\ UNCHANGED <<data, ask, bid, accept, mover>>

DeskCommit(k) ==
  LET d == desk[k].driver IN
  /\ desk[k].pc = "read"
  /\ DriverHolders(d) = {}
  /\ driver' = [driver EXCEPT ![d] =
       Saved(driver[d], desk[k].saw, Changed(desk[k].what, desk[k].saw))]
  /\ desk' = [desk EXCEPT ![k] = IdleDesk]
  /\ UNCHANGED <<request, late, offer, trip, ask, bid, accept, mover>>

DeskRollback(k) ==
  /\ desk[k].pc = "read"
  /\ desk' = [desk EXCEPT ![k] = IdleDesk]
  /\ UNCHANGED <<data, ask, bid, accept, mover>>

(***************************************************************************)
(* The specification.  It starts with approved drivers online.             *)
(***************************************************************************)

Init ==
  /\ request = [r \in Requests |-> NoneYet]
  /\ late = {}
  /\ offer = [o \in Offers |-> NoneYet]
  /\ trip = [t \in Trips |->
       [status |-> IF t \in Scheduled THEN "SCHEDULED" ELSE NoneYet,
        driver |-> NoDriver]]
  /\ driver = [d \in Drivers |-> Working]
  /\ ask = [r \in Requests |-> [pc |-> "idle", late |-> {}]]
  /\ bid = [o \in Offers |-> IdleBid]
  /\ accept = [a \in Accepts |-> IdleAccept]
  /\ mover = [m \in Movers |-> IdleMover]
  /\ desk = [k \in Desks |-> IdleDesk]

Ride(r) == AskLook(r) \/ AskInsert(r) \/ AskTwinWon(r) \/ Deadline(r)
             \/ ListExpires(r) \/ CancelRideRequest(r)
Bid(o)  == \/ \E r \in Requests, d \in Drivers : BidFind(o, r, d)
           \/ BidCommit(o) \/ BidRollback(o) \/ WithdrawOffer(o)
Accept(a) == \/ \E o \in Offers : AcceptLock(a, o)
             \/ AcceptHold(a) \/ AcceptCommit(a) \/ AcceptRollback(a)
Move(m) == \/ \E t \in Scheduled, d \in Drivers : TakeFind(m, t, d)
           \/ \E t \in Trips, target \in AdvanceTargets : AdvanceLock(m, t, target)
           \/ TakeCommit(m) \/ AdvanceCommit(m) \/ MoverRollback(m)
Desk(k) == \/ \E what \in Changes, d \in Drivers : DeskRead(k, what, d)
           \/ DeskCommit(k) \/ DeskRollback(k)

Next == \/ \E r \in Requests : Ride(r)
        \/ \E o \in Offers : Bid(o)
        \/ \E a \in Accepts : Accept(a)
        \/ \E m \in Movers : Move(m)
        \/ \E k \in Desks : Desk(k)

Spec == Init /\ [][Next]_vars

(***************************************************************************)
(* Properties.                                                             *)
(***************************************************************************)

TripRow == [status : TripStatus \cup {NoneYet}, driver : Drivers \cup {NoDriver}]
AskTx    == [pc : {"idle", "looked", "done", "refused"}, late : SUBSET Requests]
BidTx    == {IdleBid} \cup [pc : {"found", "done"}, on : Requests, by : Drivers]
AcceptTx == {IdleAccept} \cup [pc : {"locked", "held"}, offer : Offers]
MoverTx  == {IdleMover}
              \cup [pc : {"found"}, trip : Scheduled, driver : Drivers,
                    target : {"DRIVER_ASSIGNED"}, saw : DriverRow]
              \cup [pc : {"locked"}, trip : Trips, driver : Drivers,
                    target : AdvanceTargets, saw : DriverRow]
DeskTx   == {IdleDesk} \cup [pc : {"read"}, what : Changes, driver : Drivers,
                             saw : DriverRow]

(* Every variable holds a value of the shape its column or transaction has. *)
TypeOK ==
  /\ request \in [Requests -> RideRequestStatus \cup {NoneYet}]
  /\ late \in SUBSET Requests
  /\ offer \in [Offers -> FareOfferStatus \cup {NoneYet}]
  /\ trip \in [Trips -> TripRow]
  /\ driver \in [Drivers -> DriverRow]
  /\ ask \in [Requests -> AskTx]
  /\ bid \in [Offers -> BidTx]
  /\ accept \in [Accepts -> AcceptTx]
  /\ mover \in [Movers -> MoverTx]
  /\ desk \in [Desks -> DeskTx]

(* "One open request at a time": two asks at once leave one on the board   *)
(* (RequestRide.create_open).                                              *)
OneOpenRequest == \A p \in Passengers : Cardinality(OpenOf(p)) <= 1

(* "One passenger, two drivers dispatched, one of them to nobody" never    *)
(* happens: a request is matched exactly when one of its offers is         *)
(* accepted, never two, and an accepted offer has its driver's trip.       *)
Accepted(r) == {o \in BidsOn(r) : offer[o] = "ACCEPTED"}
OneRidePerRequest ==
  /\ \A r \in Requests :
       Cardinality(Accepted(r)) = (IF request[r] = "MATCHED" THEN 1 ELSE 0)
  /\ \A o \in Offers : IF offer[o] = "ACCEPTED" THEN trip[o].driver = bid[o].by
                                                ELSE trip[o].status = NoneYet

(* "He has two passengers expecting the same car" never happens, by offers *)
(* or by the timetable (AcceptOffer and AcceptTrip hold the driver).       *)
DriverHasOneTrip == \A d \in Drivers : Cardinality(InFlight(d)) <= 1

(* "Of an accept and a withdraw arriving together exactly one wins": an    *)
(* answer to an offer is never replaced by another answer.                 *)
OfferAnsweredOnce ==
  [][\A o \in Offers : offer[o] \notin {NoneYet, "OFFERED"} => offer'[o] = offer[o]]_vars

(* A request's end is final: a matched one is not cancelled or expired     *)
(* with a driver on the way, a dead one is not matched.                    *)
RequestEndsOnce ==
  [][\A r \in Requests : request[r] \notin {NoneYet, "OPEN"} => request'[r] = request[r]]_vars

(* Nothing that has been answered is answered again.                       *)
AnswersAreFinal == OfferAnsweredOnce /\ RequestEndsOnce

(* At the moment an offer becomes a trip its driver is approved, online    *)
(* and free, whatever the desk and his other journeys did meanwhile.       *)
HiredWhileFit ==
  [][\A o \in Offers : offer[o] # "ACCEPTED" /\ offer'[o] = "ACCEPTED" =>
       CanAccept(driver[bid[o].by]) /\ InFlight(bid[o].by) = {}]_vars

(* A request nobody answered does not block the passenger "from ever       *)
(* asking again": an ask is refused only for one that had time left by its *)
(* clock (RequestRide, expire_stale_for_passenger).                        *)
RefusedOnlyForALiveRequest ==
  [][\A r \in Requests : ask[r].pc # "refused" /\ ask'[r].pc = "refused" =>
       OpenOf(PassengerOf[r]) \ (IF ask[r].pc = "looked" THEN ask[r].late ELSE late) # {}]_vars

(* Rides are agreed as Matching says.                                      *)
PhaseOf(r) == CASE request[r] = NoneYet   -> "new"
                [] request[r] = "OPEN"    -> "waiting"
                [] request[r] = "MATCHED" -> "matched"
                [] OTHER                  -> "closed"
PartnerOf(r) ==
  IF request[r] = "MATCHED"
  THEN CHOOSE d \in Drivers : \E o \in Accepted(r) : bid[o].by = d ELSE NoDriver
Phase   == [r \in Requests |-> PhaseOf(r)]
Partner == [r \in Requests |-> PartnerOf(r)]
Engaged == {d \in Drivers : InFlight(d) # {}}
Agreement == INSTANCE Matching WITH phase <- Phase, partner <- Partner, engaged <- Engaged
ImplementsMatching == Agreement!Spec

(* "Refuse mid-trip: suspending a driver with passengers aboard would      *)
(* strand them": a suspended driver has no trip in flight.                 *)
SuspendedHasNoTrip ==
  \A d \in Drivers : driver[d].approval = "SUSPENDED" => InFlight(d) = {}

(***************************************************************************)
(* The inductive invariant.                                                *)
(***************************************************************************)

(* A held request stays open, an answered offer stays as answered, a held  *)
(* driver stays fit and free; each has one holder.                         *)
AcceptIsCurrent ==
  \A a \in Accepts : accept[a].pc # "idle" =>
    LET o == accept[a].offer IN
    /\ bid[o].pc = "done"
    /\ request[bid[o].on] = "OPEN"
    /\ \A b \in RequestHolders(bid[o].on) : b = a
    /\ accept[a].pc = "held" =>
         /\ offer[o] = "OFFERED"
         /\ CanAccept(driver[bid[o].by])
         /\ InFlight(bid[o].by) = {}
         /\ \A b \in DriverHolders(bid[o].by) : b = a

(* What rows there are, and which of them go together.                     *)
RowsAgree ==
  /\ \A r \in Requests : ask[r].pc # "done" <=> request[r] = NoneYet
  /\ \A o \in Offers : offer[o] # NoneYet => bid[o].pc = "done"
  /\ \A o \in Offers : bid[o].pc # "idle" => request[bid[o].on] # NoneYet
  /\ \A o \in Offers : offer[o] = "ACCEPTED" => request[bid[o].on] = "MATCHED"
  /\ \A o \in Offers : trip[o].status # NoneYet => offer[o] = "ACCEPTED"
  /\ \A t \in Trips : trip[t].driver = NoDriver => trip[t].status \in {NoneYet, "SCHEDULED"}

(* A trip being moved is held by its mover and stays where it was found.   *)
MoveIsCurrent ==
  \A m \in Movers : mover[m].pc = "locked" =>
    /\ mover[m].driver = trip[mover[m].trip].driver
    /\ Can(TRIP_LIFECYCLE, trip[mover[m].trip].status, mover[m].target)
    /\ \A n \in TripHolders(mover[m].trip) : n = m

HiringInv == /\ AcceptIsCurrent /\ RowsAgree /\ MoveIsCurrent
             /\ OneOpenRequest /\ OneRidePerRequest /\ DriverHasOneTrip
IndInv == TypeOK /\ HiringInv
=============================================================================
