---------------------------- MODULE TripBooking ----------------------------
(***************************************************************************)
(* One scheduled trip, the bookings on it and its seats, under concurrent  *)
(* requests.  Every request is one database transaction (READ COMMITTED);  *)
(* its steps are the points at which another request can come in between:  *)
(* an unlocked read, the wait for a row lock, the commit.                  *)
(*                                                                         *)
(*   BookSeats        passenger lock, read, trip FOR UPDATE, sell          *)
(*   CancelBooking    booking FOR UPDATE, cancel, insert its record        *)
(*   AdvanceTrip,     trip FOR UPDATE, read the bookings, write them       *)
(*   AcceptTrip                                                            *)
(*   VerifyPassenger  trip FOR NO KEY UPDATE, booking FOR UPDATE, board    *)
(*                                                                         *)
(* A transaction holds its locks from the step that takes them until it    *)
(* commits or rolls back, so the locks are read off the transactions' pcs. *)
(* The drivers' own rows (availability, approval), the boarding-code       *)
(* attempts, the amount of a fee, notifications and audit are not here.    *)
(***************************************************************************)
EXTENDS Lifecycles, Sequences

CONSTANTS
  Seats,        \* the trip's seats
  Bookings,     \* one identifier for each BookSeats request
  Passengers,
  PassengerOf,  \* who sends each BookSeats request
  SeatCount,    \* how many seats it asks for
  MaxActive,    \* booking.max_active_per_passenger
  Drivers,
  Movers,       \* AdvanceTrip and AcceptTrip requests
  Cancels,      \* CancelBooking requests
  Boarders,     \* VerifyPassenger requests
  NoDriver, NoBooking  \* the nulls of driver_id and booking_id

ASSUME SeatsAssumption == IsFiniteSet(Seats)
ASSUME RequestAssumption ==
  /\ IsFiniteSet(Bookings)
  /\ PassengerOf \in [Bookings -> Passengers]
  /\ SeatCount \in [Bookings -> Nat \ {0}]
ASSUME MaxActiveAssumption == MaxActive \in Nat
ASSUME NullAssumption == NoDriver \notin Drivers /\ NoBooking \notin Bookings
ASSUME KindsAssumption ==
  /\ Bookings \cap Cancels = {} /\ Bookings \cap Movers = {} /\ Bookings \cap Boarders = {}
  /\ Cancels \cap Movers = {} /\ Cancels \cap Boarders = {} /\ Movers \cap Boarders = {}

Absent == "absent"    \* the status of a booking that was never inserted

VARIABLES
  trip,           \* [status, driver]: the committed trip row
  clock,          \* "open" until the booking cut-off passes, then "closed"
  booking,        \* the committed status of each booking
  seat,           \* [status, booking] of each seat
  cancellations,  \* who wrote each booking's cancellation records, in order
  settled,        \* how often each booking's fare was split and credited
  book,           \* BookSeats transactions: pc and what they read
  cancel,         \* CancelBooking transactions: pc and the row they hold
  mover,          \* AdvanceTrip/AcceptTrip transactions
  boarder         \* VerifyPassenger transactions

data == <<trip, clock, booking, seat, cancellations, settled>>
vars == <<data, book, cancel, mover, boarder>>

SeatRow  == [status : {"AVAILABLE", "RESERVED", "OCCUPIED"},
             booking : Bookings \cup {NoBooking}]
FreeSeat == [status |-> "AVAILABLE", booking |-> NoBooking]

NewTrip     == [status |-> "SCHEDULED", driver |-> NoDriver]
NothingSeen == [b \in Bookings |-> Absent]
IdleMover   == [pc |-> "idle", target |-> NoTarget, driver |-> NoDriver,
                saw |-> NothingSeen]
IdleBoarder == [pc |-> "idle", booking |-> NoBooking]

(***************************************************************************)
(* Locks.                                                                  *)
(***************************************************************************)

TripExclusive == {m \in Movers : mover[m].pc # "idle"}      \* FOR UPDATE
TripNoKey     == {v \in Boarders : boarder[v].pc = "held"}  \* FOR NO KEY UPDATE

(* Who keeps a request from taking the trip row, by the lock it wants.  A  *)
(* foreign-key check wants FOR KEY SHARE, which only FOR UPDATE keeps out. *)
MoversNotSerialised     == TripNoKey                            \* a fault
TripForUpdateBlockers   == TripExclusive \cup TripNoKey
BoardingTakesNoLock     == {}                                   \* a fault
TripForNoKeyBlockers    == TripExclusive \cup TripNoKey
BoardingHoldsForUpdate  == TripExclusive \cup TripNoKey         \* a fault
TripForKeyShareBlockers == TripExclusive

(* A booking's row is held by the cancellation that is deciding about it.  *)
RowsNotLocked(b) == {}                                          \* a fault
RowHolders(b) == {c \in Cancels : cancel[c].pc = "held" /\ cancel[c].booking = b}

(* The advisory lock on a passenger, held by their booking in progress.    *)
PassengersNotLocked(p) == {}                                    \* a fault
PassengersLockedForGood(p) ==                                   \* a fault
  {b \in Bookings : book[b].pc \in {"read", "done"} /\ PassengerOf[b] = p}
PassengerHolders(p) == {b \in Bookings : book[b].pc = "read" /\ PassengerOf[b] = p}

(***************************************************************************)
(* The seats: SeatRepository.  A definition marked "a fault" is what its   *)
(* neighbour below would be with a plausible bug in it; nothing uses it.   *)
(***************************************************************************)

SeatsNobodyIsIn == {s \in Seats : seat[s].status # "OCCUPIED"}  \* a fault
AvailableSeats == {s \in Seats : seat[s] = FreeSeat}
SeatsOf(b)     == {s \in Seats : seat[s].booking = b}

(* The seats after reserve, release_for_booking and occupy_for_booking.    *)
Reserved(S, b) ==
  [s \in Seats |-> IF s \in S THEN [status |-> "RESERVED", booking |-> b]
                  ELSE seat[s]]
ReleasedButOne(b) ==                                           \* a fault
  LET kept == CHOOSE s \in Seats : seat[s].booking = b
  IN  [s \in Seats |-> IF seat[s].booking = b /\ s # kept THEN FreeSeat ELSE seat[s]]
Released(b) ==
  [s \in Seats |-> IF seat[s].booking = b THEN FreeSeat ELSE seat[s]]
Occupied(b) ==
  [s \in Seats |-> IF seat[s] = [status |-> "RESERVED", booking |-> b]
                  THEN [seat[s] EXCEPT !.status = "OCCUPIED"] ELSE seat[s]]

(***************************************************************************)
(* BookSeats.                                                              *)
(***************************************************************************)

ActiveOf(p)    == {b \in Bookings : /\ PassengerOf[b] = p
                                    /\ booking[b] \in ACTIVE_BOOKING_STATUSES}

Ended(how) == [pc |-> how, at |-> "open", seen |-> NewTrip]

(* The request arrives and reads the clock, once for all its checks.       *)
BookStart(b) ==
  /\ book[b].pc = "idle"
  /\ book' = [book EXCEPT ![b].pc = "started", ![b].at = clock]
  /\ UNCHANGED <<data, cancel, mover, boarder>>

(* The active-booking limit, counted under the passenger's lock, and       *)
(* Trip.assert_bookable on the row as an unlocked read finds it.           *)
MayBook(b) ==
  /\ Cardinality(ActiveOf(PassengerOf[b])) < MaxActive
  /\ trip.status \in BOOKABLE_TRIP_STATUSES
  /\ book[b].at = "open"
  /\ SeatCount[b] <= Cardinality(AvailableSeats)

BookRead(b) ==
  /\ book[b].pc = "started"
  /\ PassengerHolders(PassengerOf[b]) = {}
  /\ MayBook(b)
  /\ book' = [book EXCEPT ![b].pc = "read", ![b].seen = trip]
  /\ UNCHANGED <<data, cancel, mover, boarder>>

BookRefuse(b) ==
  /\ book[b].pc = "started"
  /\ PassengerHolders(PassengerOf[b]) = {}
  /\ ~MayBook(b)
  /\ book' = [book EXCEPT ![b] = Ended("refused")]
  /\ UNCHANGED <<data, cancel, mover, boarder>>

(* The second check, made after the trip row is locked.  The session has   *)
(* already loaded that row, and a later SELECT ... FOR UPDATE of it does   *)
(* not refresh the loaded object: status and clock are those read above.   *)
StillBookable(b) ==
  /\ book[b].seen.status \in BOOKABLE_TRIP_STATUSES
  /\ book[b].at = "open"

FirstStatus(seen) ==
  IF seen.status # "SCHEDULED" /\ seen.driver # NoDriver
  THEN "DRIVER_ASSIGNED" ELSE "CONFIRMED"

(* The rest of the transaction: trip FOR UPDATE, the seats (SKIP LOCKED),  *)
(* the booking and its seats in one commit.  Nothing in it waits once the  *)
(* trip is held, so it is one step.  Which free seats are taken is left    *)
(* open; the code takes the lowest-numbered ones.                          *)
BookCommit(b) ==
  /\ book[b].pc = "read"
  /\ TripForUpdateBlockers = {}
  /\ StillBookable(b)
  /\ \E S \in SUBSET AvailableSeats :
       /\ Cardinality(S) = SeatCount[b]
       /\ seat' = Reserved(S, b)
  /\ booking' = [booking EXCEPT ![b] = FirstStatus(book[b].seen)]
  /\ book' = [book EXCEPT ![b] = Ended("done")]
  /\ UNCHANGED <<trip, clock, cancellations, settled, cancel, mover, boarder>>

(* Others took the seats between the read and the lock.                    *)
BookSoldOut(b) ==
  /\ book[b].pc = "read"
  /\ TripForUpdateBlockers = {}
  /\ Cardinality(AvailableSeats) < SeatCount[b]
  /\ book' = [book EXCEPT ![b] = Ended("refused")]
  /\ UNCHANGED <<data, cancel, mover, boarder>>

(* The request failed before its commit.                                   *)
BookRollback(b) ==
  /\ book[b].pc \in {"started", "read"}
  /\ book' = [book EXCEPT ![b] = Ended("refused")]
  /\ UNCHANGED <<data, cancel, mover, boarder>>

(***************************************************************************)
(* CancelBooking.                                                          *)
(***************************************************************************)

(* The booking row, held and decided upon.  A finished booking and one     *)
(* that is already aboard are refused, and leave nothing behind.           *)
CancelLock(c, b) ==
  /\ cancel[c].pc = "idle"
  /\ RowHolders(b) = {}
  /\ booking[b] \in CANCELLABLE_STATUSES
  /\ cancel' = [cancel EXCEPT ![c] = [pc |-> "held", booking |-> b]]
  /\ UNCHANGED <<data, book, mover, boarder>>

(* Status, seats and record in one commit.  Inserting the record checks    *)
(* its foreign key to the trip, which takes the trip row FOR KEY SHARE.    *)
CancelCommit(c) ==
  LET b == cancel[c].booking IN
  /\ cancel[c].pc = "held"
  /\ TripForKeyShareBlockers = {}
  /\ booking' = [booking EXCEPT ![b] = "CANCELLED"]
  /\ seat' = Released(b)
  /\ cancellations' = [cancellations EXCEPT ![b] = Append(@, "request")]
  /\ cancel' = [cancel EXCEPT ![c] = [pc |-> "done", booking |-> NoBooking]]
  /\ UNCHANGED <<trip, clock, settled, book, mover, boarder>>

CancelRollback(c) ==
  /\ cancel[c].pc = "held"
  /\ cancel' = [cancel EXCEPT ![c] = [pc |-> "done", booking |-> NoBooking]]
  /\ UNCHANGED <<data, book, mover, boarder>>

(***************************************************************************)
(* AdvanceTrip and AcceptTrip.                                             *)
(***************************************************************************)

(* The targets POST /driver/trips/{id}/advance accepts.                    *)
ApiTargets == {"DRIVER_ARRIVING", "ARRIVED_AT_PICKUP", "BOARDING",
               "IN_TRANSIT", "ARRIVED", "COMPLETED", "CANCELLED"}

(* Only the trip's own driver moves it, and only along the lifecycle.      *)
MayAdvance(d, target) ==
  /\ target \in ApiTargets
  /\ trip.driver = d
  /\ Can(TRIP_LIFECYCLE, trip.status, target)

AdvanceLock(m, d, target) ==
  /\ mover[m].pc = "idle"
  /\ TripForUpdateBlockers = {}
  /\ MayAdvance(d, target)
  /\ mover' = [mover EXCEPT ![m] =
                 [pc |-> "locked", target |-> target, driver |-> d,
                  saw |-> NothingSeen]]
  /\ UNCHANGED <<data, book, cancel, boarder>>

(* Trip.assign_driver: the loser of a race finds a driver in place.        *)
MayAssign ==
  /\ trip.driver # NoDriver => trip.status \in {"SCHEDULED", "REQUESTED"}
  /\ Can(TRIP_LIFECYCLE, trip.status, "DRIVER_ASSIGNED")

AcceptLock(m, d) ==
  /\ mover[m].pc = "idle"
  /\ TripForUpdateBlockers = {}
  /\ MayAssign
  /\ mover' = [mover EXCEPT ![m] =
                 [pc |-> "locked", target |-> "DRIVER_ASSIGNED", driver |-> d,
                  saw |-> NothingSeen]]
  /\ UNCHANGED <<data, book, cancel, boarder>>

(* The cascade and the cancellation records read the bookings unlocked.    *)
MoverRead(m) ==
  /\ mover[m].pc = "locked"
  /\ mover' = [mover EXCEPT ![m].pc = "read", ![m].saw = booking]
  /\ UNCHANGED <<data, book, cancel, boarder>>

(* What the cascade makes of the bookings it read, and which it writes.    *)
Cascaded(saw, target, b) ==
  IF saw[b] \in ACTIVE_BOOKING_STATUSES /\ TRIP_TO_BOOKING_STATUS(target) # NoTarget
  THEN FollowTrip(saw[b], TRIP_TO_BOOKING_STATUS(target))
  ELSE saw[b]
Written(saw, target) == {b \in Bookings : Cascaded(saw, target, b) # saw[b]}

(* One record for each booking the called-off trip leaves behind.          *)
RecordedForAll(saw, target) ==                                  \* a fault
  IF target \in CALLED_OFF THEN {b \in Bookings : saw[b] # Absent} ELSE {}
Recorded(saw, target) ==
  IF target \in CALLED_OFF
  THEN {b \in Bookings : saw[b] \in ACTIVE_BOOKING_STATUSES} ELSE {}

(* The rows the flush writes or references: it waits for their holders.    *)
Touched(m) == Written(mover[m].saw, mover[m].target)
                \cup Recorded(mover[m].saw, mover[m].target)

(* Completed bookings not yet settled: fare split, wallet credited.        *)
ToSettleBeforeCascade(after, target) ==                         \* a fault
  IF target = "COMPLETED"
  THEN {b \in Bookings : booking[b] = "COMPLETED" /\ settled[b] = 0} ELSE {}
ToSettle(after, target) ==
  IF target = "COMPLETED"
  THEN {b \in Bookings : after[b] = "COMPLETED" /\ settled[b] = 0} ELSE {}

MoverCommit(m) ==
  LET saw    == mover[m].saw
      target == mover[m].target
      after  == [b \in Bookings |-> IF b \in Written(saw, target)
                                    THEN Cascaded(saw, target, b) ELSE booking[b]]
  IN
  /\ mover[m].pc = "read"
  /\ \A b \in Touched(m) : RowHolders(b) = {}
  /\ trip' = [status |-> target, driver |-> mover[m].driver]
  /\ booking' = after
  /\ cancellations' = [b \in Bookings |->
                         IF b \in Recorded(saw, target)
                         THEN Append(cancellations[b], "trip") ELSE cancellations[b]]
  /\ settled' = [b \in Bookings |->
                   IF b \in ToSettle(after, target) THEN settled[b] + 1 ELSE settled[b]]
  /\ mover' = [mover EXCEPT ![m] = IdleMover]
  /\ UNCHANGED <<clock, seat, book, cancel, boarder>>

MoverRollback(m) ==
  /\ mover[m].pc # "idle"
  /\ mover' = [mover EXCEPT ![m] = IdleMover]
  /\ UNCHANGED <<data, book, cancel, boarder>>

(***************************************************************************)
(* VerifyPassenger.  b is the booking the presented code belongs to.       *)
(***************************************************************************)

VerifyHold(v, b) ==
  /\ boarder[v].pc = "idle"
  /\ TripForNoKeyBlockers = {}
  /\ trip.driver # NoDriver
  /\ boarder' = [boarder EXCEPT ![v] = [pc |-> "held", booking |-> b]]
  /\ UNCHANGED <<data, book, cancel, mover>>

(* lock_by_verification_code finds active bookings only and waits for the  *)
(* row; Booking.verify then needs it to be one hop from ONBOARD.           *)
MayBoard(b) ==
  /\ booking[b] \in ACTIVE_BOOKING_STATUSES
  /\ Can(BOOKING_LIFECYCLE, booking[b], "ONBOARD")

VerifyCommit(v) ==
  LET b == boarder[v].booking IN
  /\ boarder[v].pc = "held"
  /\ RowHolders(b) = {}
  /\ MayBoard(b)
  /\ booking' = [booking EXCEPT ![b] = "ONBOARD"]
  /\ seat' = Occupied(b)
  /\ boarder' = [boarder EXCEPT ![v] = IdleBoarder]
  /\ UNCHANGED <<trip, clock, cancellations, settled, book, cancel, mover>>

(* No active booking has the code, or it is not one that may board now.    *)
VerifyRefuse(v) ==
  /\ boarder[v].pc = "held"
  /\ ~MayBoard(boarder[v].booking)
  /\ RowHolders(boarder[v].booking) = {}
  /\ boarder' = [boarder EXCEPT ![v] = IdleBoarder]
  /\ UNCHANGED <<data, book, cancel, mover>>

VerifyRollback(v) ==
  /\ boarder[v].pc = "held"
  /\ boarder' = [boarder EXCEPT ![v] = IdleBoarder]
  /\ UNCHANGED <<data, book, cancel, mover>>

(***************************************************************************)
(* The specification.                                                      *)
(***************************************************************************)

Tick ==
  /\ clock = "open"
  /\ clock' = "closed"
  /\ UNCHANGED <<trip, booking, seat, cancellations, settled,
                 book, cancel, mover, boarder>>

Init ==
  /\ trip = NewTrip
  /\ clock = "open"
  /\ booking = [b \in Bookings |-> Absent]
  /\ seat = [s \in Seats |-> FreeSeat]
  /\ cancellations = [b \in Bookings |-> << >>]
  /\ settled = [b \in Bookings |-> 0]
  /\ book = [b \in Bookings |-> Ended("idle")]
  /\ cancel = [c \in Cancels |-> [pc |-> "idle", booking |-> NoBooking]]
  /\ mover = [m \in Movers |-> IdleMover]
  /\ boarder = [v \in Boarders |-> IdleBoarder]

BookSeats(b) == \/ BookStart(b) \/ BookRead(b) \/ BookRefuse(b)
                \/ BookCommit(b) \/ BookSoldOut(b) \/ BookRollback(b)
CancelBooking(c) == \/ \E b \in Bookings : CancelLock(c, b)
                    \/ CancelCommit(c) \/ CancelRollback(c)
MoveTrip(m) == \/ \E d \in Drivers : \/ AcceptLock(m, d)
                                     \/ \E t \in ApiTargets : AdvanceLock(m, d, t)
               \/ MoverRead(m) \/ MoverCommit(m) \/ MoverRollback(m)
VerifyPassenger(v) == \/ \E b \in Bookings : VerifyHold(v, b)
                      \/ VerifyCommit(v) \/ VerifyRefuse(v) \/ VerifyRollback(v)

Next == \/ \E b \in Bookings : BookSeats(b)
        \/ \E c \in Cancels : CancelBooking(c)
        \/ \E m \in Movers : MoveTrip(m)
        \/ \E v \in Boarders : VerifyPassenger(v)
        \/ Tick

Spec == Init /\ [][Next]_vars

(***************************************************************************)
(* Waiting.  <<p, q>> is in WaitsFor when p's next statement needs a lock  *)
(* that q holds.  PostgreSQL ends a cycle by aborting one of its members.  *)
(***************************************************************************)

BookWaits   == (UNION {{b} \X (PassengerHolders(PassengerOf[b]) \ {b}) :
                         b \in {x \in Bookings : book[x].pc = "started"}})
               \cup ({b \in Bookings : book[b].pc = "read"} \X TripForUpdateBlockers)
CancelWaits == {c \in Cancels : cancel[c].pc = "held"} \X TripForKeyShareBlockers
MoverWaits  == UNION {UNION {{m} \X RowHolders(b) : b \in Touched(m)} :
                        m \in {x \in Movers : mover[x].pc = "read"}}
BoardWaits  == UNION {{v} \X RowHolders(boarder[v].booking) :
                        v \in {x \in Boarders : boarder[x].pc = "held"}}
WaitsFor    == BookWaits \cup CancelWaits \cup MoverWaits \cup BoardWaits

(* Those that p waits for, directly or through others.                     *)
Ahead(p) == UNION {ReachableFrom(WaitsFor, q) : q \in Successors(WaitsFor, {p})}

(* The deadlock detector: a transaction in a cycle is rolled back.         *)
DeadlockAbort ==
  \/ \E c \in Cancels : c \in Ahead(c) /\ CancelRollback(c)
  \/ \E m \in Movers : m \in Ahead(m) /\ MoverRollback(m)

(***************************************************************************)
(* Fairness.  A running request goes on by itself (weak fairness).  One    *)
(* that waits for a lock gets it, even though others may take it first     *)
(* each time it is free: PostgreSQL queues the waiters (strong fairness).  *)
(* A deadlock is found and one of its members aborted; nothing else makes  *)
(* a request fail, and nothing makes a new one arrive.                     *)
(***************************************************************************)

Fairness ==
  /\ \A b \in Bookings : /\ SF_vars(BookRead(b) \/ BookRefuse(b))
                         /\ SF_vars(BookCommit(b) \/ BookSoldOut(b))
  /\ \A c \in Cancels : SF_vars(CancelCommit(c))
  /\ \A m \in Movers : WF_vars(MoverRead(m)) /\ SF_vars(MoverCommit(m))
  /\ \A v \in Boarders : SF_vars(VerifyCommit(v) \/ VerifyRefuse(v))
  /\ WF_vars(DeadlockAbort)

FairSpec == Spec /\ Fairness

(***************************************************************************)
(* Properties.                                                             *)
(***************************************************************************)

TripRow     == [status : TripStatus, driver : Drivers \cup {NoDriver}]
RowStatus   == BookingStatus \cup {Absent}
BookTx      == [pc : {"idle", "started", "read", "done", "refused"},
                at : {"open", "closed"}, seen : TripRow]
CancelTx    == [pc : {"idle", "done"}, booking : {NoBooking}]
                 \cup [pc : {"held"}, booking : Bookings]
MoverTx     == {IdleMover} \cup [pc : {"locked", "read"}, target : TripStatus,
                                driver : Drivers, saw : [Bookings -> RowStatus]]
BoarderTx   == {IdleBoarder} \cup [pc : {"held"}, booking : Bookings]

(* Every variable holds a value of the shape its column or transaction has. *)
TypeOK ==
  /\ trip \in TripRow
  /\ clock \in {"open", "closed"}
  /\ booking \in [Bookings -> RowStatus]
  /\ seat \in [Seats -> SeatRow]
  /\ cancellations \in [Bookings -> Seq({"request", "trip"})]
  /\ settled \in [Bookings -> Nat]
  /\ book \in [Bookings -> BookTx]
  /\ cancel \in [Cancels -> CancelTx]
  /\ mover \in [Movers -> MoverTx]
  /\ boarder \in [Boarders -> BoarderTx]

(* What the booking's own row and its records say it should be sitting on. *)
Withdrawn(b) == \E i \in DOMAIN cancellations[b] : cancellations[b][i] = "request"
SeatsDue(b)  == IF booking[b] = Absent \/ Withdrawn(b) THEN 0 ELSE SeatCount[b]

(* A booking sits on all the seats it asked for or on none: none before it *)
(* is sold and none once its passenger withdrew, whatever raced with it.   *)
(* (BookSeats, CancelBooking and VerifyPassenger against each other.)      *)
SeatsMatchBookings ==
  \A b \in Bookings : Cardinality(SeatsOf(b)) = SeatsDue(b)

(* A seat is occupied only by somebody who is, or was, in the vehicle:     *)
(* boarding never marks the seats of a booking that was cancelled first.   *)
OccupiedMeansAboard ==
  \A s \in Seats : seat[s].status = "OCCUPIED" =>
     booking[seat[s].booking] \in {"ONBOARD", "COMPLETED"}

(* Two taps on Cancel, or a Cancel against a driver calling the trip off,  *)
(* leave one cancellation record, and a cancelled booking always has one.  *)
OneCancellationRecord ==
  \A b \in Bookings : /\ Len(cancellations[b]) <= 1
                      /\ booking[b] = "CANCELLED" => Len(cancellations[b]) = 1

(* Completed bookings, and no others, have been paid for, each once, even  *)
(* those the cascade had to walk through statuses they had missed.         *)
SettledOnceIffCompleted ==
  \A b \in Bookings : settled[b] = (IF booking[b] = "COMPLETED" THEN 1 ELSE 0)

(* No passenger ever holds more active bookings than the limit, however    *)
(* many of their requests run at once.                                     *)
ActiveLimitHolds == \A p \in Passengers : Cardinality(ActiveOf(p)) <= MaxActive

(* A booking's committed status only ever moves along its lifecycle, by    *)
(* one hop or the several a late cascade walks: no transaction overwrites  *)
(* what another one committed after it was read (a cancelled booking is    *)
(* not resurrected, a boarded one is not cancelled).                       *)
BookingKeepsLifecycle ==
  [][\A b \in Bookings :
       booking[b] # Absent => booking'[b] \in BookingReach[booking[b]]]_vars

(* The trip moves by declared hops, and a driver who has the trip keeps    *)
(* it: the loser of two accepts never takes it over.                       *)
TripKeepsLifecycle ==
  [][/\ trip'.status # trip.status => Can(TRIP_LIFECYCLE, trip.status, trip'.status)
     /\ trip.driver # NoDriver => trip'.driver = trip.driver]_vars

(* Both, whatever races: nothing a transaction read and decided on is      *)
(* written over what another one committed in between.                     *)
LifecyclesAreKept == BookingKeepsLifecycle /\ TripKeepsLifecycle

(* A boarding is never part of a deadlock: that is what its weaker lock on *)
(* the trip buys (TripRepository.hold_for_boarding).  Nor is a booking.    *)
BoardingNeverDeadlocks == \A p \in Boarders \cup Bookings : p \notin Ahead(p)

(* A seat is sold only while the trip is open for booking, "true at        *)
(* commit, not merely at read" (BookSeats, the check under the trip lock). *)
SoldOnlyWhileBookable ==
  [][\A b \in Bookings : booking[b] = Absent /\ booking'[b] # Absent
        => trip.status \in BOOKABLE_TRIP_STATUSES]_vars

(* Every request that began comes to an end: no booking waits for ever on  *)
(* its passenger's lock, no cancellation or boarding on the trip, and no   *)
(* driver's move on a booking's row, deadlocks included.                   *)
EveryRequestEnds ==
  /\ \A b \in Bookings :
       book[b].pc \in {"started", "read"} ~> book[b].pc \in {"done", "refused"}
  /\ \A c \in Cancels : cancel[c].pc = "held" ~> cancel[c].pc = "done"
  /\ \A m \in Movers : mover[m].pc # "idle" ~> mover[m].pc = "idle"
  /\ \A v \in Boarders : boarder[v].pc # "idle" ~> boarder[v].pc = "idle"

(* The trip sells its seats as SeatSale says: all of a booking's seats or  *)
(* none, never one somebody has, never again once withdrawn.               *)
Phase == [b \in Bookings |-> IF booking[b] = Absent THEN "new"
                            ELSE IF Withdrawn(b) THEN "withdrawn" ELSE "sold"]
Taken == [b \in Bookings |-> SeatsOf(b)]
Inventory == INSTANCE SeatSale WITH phase <- Phase, taken <- Taken
ImplementsSeatSale == Inventory!Spec

(***************************************************************************)
(* The inductive invariant: why the locks are enough.                      *)
(***************************************************************************)

(* The trip row has one exclusive holder, and then no boarding holds it.   *)
TripHeldByOne == /\ \A m, n \in TripExclusive : m = n
                 /\ TripExclusive # {} => TripNoKey = {}

(* A held booking row has one holder, and stays as the holder found it.    *)
RowsHeldByOne ==
  \A c \in Cancels : cancel[c].pc = "held" =>
    /\ booking[cancel[c].booking] \in CANCELLABLE_STATUSES
    /\ \A d \in RowHolders(cancel[c].booking) : d = c

(* What a mover has read and decided is still true when it writes.         *)
MoverIsCurrent ==
  \A m \in TripExclusive :
    /\ mover[m].target \in ApiTargets \cup {"DRIVER_ASSIGNED"}
    /\ Can(TRIP_LIFECYCLE, trip.status, mover[m].target)
    /\ trip.driver # NoDriver => mover[m].driver = trip.driver
    /\ mover[m].pc = "read" => mover[m].saw = booking

DriverlessUntilAssigned ==
  trip.status \in {"SCHEDULED", "REQUESTED"} => trip.driver = NoDriver

(* A booking row appears only when its own request commits.                *)
AbsentUntilDone == \A b \in Bookings : book[b].pc # "done" => booking[b] = Absent

LockInv == /\ TripHeldByOne /\ RowsHeldByOne /\ MoverIsCurrent
           /\ DriverlessUntilAssigned /\ AbsentUntilDone

(* The seat's two columns agree.                                           *)
SeatLinks == \A s \in Seats :
  seat[s].status = "AVAILABLE" <=> seat[s].booking = NoBooking

(* Where a cancellation record can come from.                              *)
RecordsExplained ==
  \A b \in Bookings :
    \/ cancellations[b] = << >> /\ booking[b] # "CANCELLED"
    \/ Len(cancellations[b]) = 1 /\ booking[b] = "CANCELLED"
    \/ /\ cancellations[b] = <<"trip">> /\ booking[b] = "ONBOARD"
       /\ trip.status \in CALLED_OFF

(* The count a booking request made under its passenger's lock still holds. *)
LimitStillMet ==
  \A b \in Bookings : book[b].pc = "read" =>
    /\ Cardinality(ActiveOf(PassengerOf[b])) < MaxActive
    /\ \A a \in PassengerHolders(PassengerOf[b]) : a = b

DataInv == /\ SeatLinks /\ SeatsMatchBookings /\ OccupiedMeansAboard
           /\ RecordsExplained /\ SettledOnceIffCompleted
LimitInv == LimitStillMet /\ ActiveLimitHolds

(* Everything the proofs carry from step to step.                          *)
IndInv == TypeOK /\ LockInv /\ DataInv /\ LimitInv
=============================================================================
