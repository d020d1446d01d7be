------------------------- MODULE TripBooking_proofs -------------------------
(***************************************************************************)
(* Theorems about TripBooking, for any number of seats, bookings,          *)
(* passengers, drivers and concurrent requests.                            *)
(***************************************************************************)
EXTENDS TripBooking, FiniteSetTheorems, TLAPS

(***************************************************************************)
(* The lifecycles.                                                         *)
(***************************************************************************)

(* A finished trip has nowhere to go, and every hop leads to a trip status.*)
LEMMA TripHops ==
  ASSUME NEW s, NEW t, Can(TRIP_LIFECYCLE, s, t)
  PROVE  /\ s \in TripStatus /\ t \in TripStatus
         /\ s \notin CALLED_OFF /\ s # "COMPLETED"
BY DEF Can, TRIP_LIFECYCLE, From, TripStatus, CALLED_OFF

(* No declared hop leads back to a status in which a trip looks for its    *)
(* driver, from the targets that drivers may ask for or from accepting.    *)
LEMMA TargetStatuses ==
  /\ ApiTargets \subseteq TripStatus
  /\ "DRIVER_ASSIGNED" \in TripStatus
  /\ ApiTargets \cap {"SCHEDULED", "REQUESTED"} = {}
BY DEF ApiTargets, TripStatus

(* Every declared hop is a walk of the lifecycle.                          *)
LEMMA HopIsReachable ==
  ASSUME NEW L, NEW s, NEW t, Can(L, s, t)
  PROVE  t \in ReachableFrom(L, s)
BY DEF Can, ReachableFrom, Closed, Targets

(* The empty walk: a status is reachable from itself.                      *)
LEMMA SelfIsReachable ==
  ASSUME NEW L, NEW s PROVE s \in ReachableFrom(L, s)
BY DEF ReachableFrom

(* Once aboard a booking can only stay aboard or complete.                 *)
LEMMA OnboardReach ==
  ReachableFrom(BOOKING_LIFECYCLE, "ONBOARD") \subseteq {"ONBOARD", "COMPLETED"}
<1> DEFINE S == {"ONBOARD", "COMPLETED"}
<1>1. <<"ONBOARD", "COMPLETED">> \in BOOKING_LIFECYCLE
  BY DEF BOOKING_LIFECYCLE, From
<1>2. S \subseteq {"ONBOARD"} \cup Targets(BOOKING_LIFECYCLE)
  BY <1>1 DEF Targets
<1>3. \A hop \in BOOKING_LIFECYCLE : hop[1] = "ONBOARD" => hop[2] = "COMPLETED"
  BY DEF BOOKING_LIFECYCLE, From
<1>4. \A hop \in BOOKING_LIFECYCLE : hop[1] # "COMPLETED"
  BY DEF BOOKING_LIFECYCLE, From
<1>5. Closed(BOOKING_LIFECYCLE, S)
  BY <1>3, <1>4 DEF Closed
<1>6. QED BY <1>2, <1>5 DEF ReachableFrom

(* FollowTrip stays within the statuses, and never leaves the lifecycle.   *)
LEMMA ReachInStatuses ==
  ASSUME NEW s \in BookingStatus
  PROVE  BookingReach[s] \subseteq BookingStatus
<1>1. Targets(BOOKING_LIFECYCLE) \subseteq BookingStatus
  BY DEF Targets, BOOKING_LIFECYCLE, From, BookingStatus
<1>2. QED BY <1>1 DEF BookingReach, ReachableFrom

(* The cascade only ever walks a booking along its lifecycle.              *)
LEMMA CascadedReach ==
  ASSUME NEW saw \in [Bookings -> RowStatus], NEW target, NEW b \in Bookings
  PROVE  /\ Cascaded(saw, target, b) \in RowStatus
         /\ saw[b] \in BookingStatus =>
              Cascaded(saw, target, b) \in BookingReach[saw[b]]
         /\ saw[b] = Absent => Cascaded(saw, target, b) = Absent
         /\ saw[b] \notin ACTIVE_BOOKING_STATUSES =>
              Cascaded(saw, target, b) = saw[b]
<1>1. saw[b] \in RowStatus OBVIOUS
<1>2. Absent \notin ACTIVE_BOOKING_STATUSES
  BY DEF Absent, ACTIVE_BOOKING_STATUSES, CANCELLABLE_STATUSES
<1>3. saw[b] \in BookingStatus => saw[b] \in BookingReach[saw[b]]
  BY SelfIsReachable DEF BookingReach
<1>4. saw[b] \in BookingStatus => BookingReach[saw[b]] \subseteq BookingStatus
  BY ReachInStatuses
<1>5. ACTIVE_BOOKING_STATUSES \subseteq BookingStatus
  BY DEF ACTIVE_BOOKING_STATUSES, CANCELLABLE_STATUSES, BookingStatus
<1>6. QED
  BY <1>1, <1>2, <1>3, <1>4, <1>5 DEF Cascaded, FollowTrip, RowStatus

(***************************************************************************)
(* Type correctness.                                                       *)
(***************************************************************************)

(* The initial rows and transactions have the right shapes.                *)
LEMMA InitialValues ==
  /\ NewTrip \in TripRow
  /\ NothingSeen \in [Bookings -> RowStatus]
  /\ FreeSeat \in SeatRow
BY DEF NewTrip, TripRow, TripStatus, NothingSeen, RowStatus, FreeSeat, SeatRow

(* The initial state is well typed.                                        *)
LEMMA InitTypeOK == Init => TypeOK
<1> SUFFICES ASSUME Init PROVE TypeOK OBVIOUS
<1> USE InitialValues DEF Init
<1>1. trip \in TripRow /\ clock \in {"open", "closed"}
  OBVIOUS
<1>2. booking \in [Bookings -> RowStatus] /\ seat \in [Seats -> SeatRow]
  BY DEF RowStatus
<1>3. /\ cancellations \in [Bookings -> Seq({"request", "trip"})]
      /\ settled \in [Bookings -> Nat]
  OBVIOUS
<1>4. book \in [Bookings -> BookTx] /\ cancel \in [Cancels -> CancelTx]
  BY DEF Ended, BookTx, CancelTx
<1>5. mover \in [Movers -> MoverTx] /\ boarder \in [Boarders -> BoarderTx]
  BY DEF MoverTx, BoarderTx
<1>6. QED BY <1>1, <1>2, <1>3, <1>4, <1>5 DEF TypeOK

(* Every step writes values of the right shape.                            *)
LEMMA NextTypeOK == TypeOK /\ [Next]_vars => TypeOK'
<1> SUFFICES ASSUME TypeOK, [Next]_vars PROVE TypeOK' OBVIOUS
<1> USE InitialValues DEF TypeOK
<1>1. ASSUME NEW b \in Bookings, BookSeats(b) PROVE TypeOK'
  <2>1. CASE BookStart(b)
    BY <2>1 DEF BookStart, data, BookTx
  <2>2. CASE BookRead(b)
    BY <2>2 DEF BookRead, data, BookTx
  <2>3. CASE BookRefuse(b)
    BY <2>3 DEF BookRefuse, data, BookTx, Ended
  <2>4. CASE BookCommit(b)
    <3>1. PICK S \in SUBSET AvailableSeats :
            seat' = [s \in Seats |->
                      IF s \in S THEN [status |-> "RESERVED", booking |-> b]
                      ELSE seat[s]]
      BY <2>4 DEF BookCommit, Reserved
    <3>2. seat' \in [Seats -> SeatRow] BY <3>1 DEF SeatRow
    <3>3. FirstStatus(book[b].seen) \in RowStatus
      BY DEF FirstStatus, RowStatus, BookingStatus
    <3>4. /\ booking' \in [Bookings -> RowStatus]
          /\ book' \in [Bookings -> BookTx]
      BY <2>4, <3>3 DEF BookCommit, BookTx, Ended
    <3>5. QED BY <2>4, <3>2, <3>4 DEF BookCommit, Reserved
  <2>5. CASE BookSoldOut(b)
    BY <2>5 DEF BookSoldOut, data, BookTx, Ended
  <2>6. CASE BookRollback(b)
    BY <2>6 DEF BookRollback, data, BookTx, Ended
  <2>7. QED BY <1>1, <2>1, <2>2, <2>3, <2>4, <2>5, <2>6 DEF BookSeats
<1>2. ASSUME NEW c \in Cancels, CancelBooking(c) PROVE TypeOK'
  <2>1. CASE \E b \in Bookings : CancelLock(c, b)
    BY <2>1 DEF CancelLock, CancelTx, data
  <2>2. CASE CancelCommit(c)
    <3> DEFINE b == cancel[c].booking
    <3>1. booking' \in [Bookings -> RowStatus]
      BY <2>2 DEF CancelCommit, RowStatus, BookingStatus
    <3>2. seat' \in [Seats -> SeatRow]
      BY <2>2 DEF CancelCommit, Released
    <3>3. cancellations' \in [Bookings -> Seq({"request", "trip"})]
      <4>1. b \in Bookings
        BY <2>2 DEF CancelCommit, CancelTx
      <4>2. Append(cancellations[b], "request") \in Seq({"request", "trip"})
        BY <4>1
      <4>3. QED BY <2>2, <4>2 DEF CancelCommit, Released
    <3>4. cancel' \in [Cancels -> CancelTx]
      BY <2>2 DEF CancelCommit, CancelTx
    <3>5. QED BY <2>2, <3>1, <3>2, <3>3, <3>4 DEF CancelCommit, Released
  <2>3. CASE CancelRollback(c)
    BY <2>3 DEF CancelRollback, CancelTx, data
  <2>4. QED BY <1>2, <2>1, <2>2, <2>3 DEF CancelBooking
<1>3. ASSUME NEW m \in Movers, MoveTrip(m) PROVE TypeOK'
  <2>1. ASSUME NEW d \in Drivers, AcceptLock(m, d) PROVE TypeOK'
    BY <2>1, TargetStatuses DEF AcceptLock, MoverTx, data
  <2>2. ASSUME NEW d \in Drivers, NEW t \in ApiTargets, AdvanceLock(m, d, t)
        PROVE TypeOK'
    BY <2>2, TargetStatuses DEF AdvanceLock, MoverTx, data
  <2>3. CASE MoverRead(m)
    <3>1. mover[m] \in [pc : {"locked", "read"}, target : TripStatus,
                        driver : Drivers, saw : [Bookings -> RowStatus]]
      BY <2>3 DEF MoverRead, MoverTx, IdleMover
    <3>2. mover' \in [Movers -> MoverTx]
      BY <2>3, <3>1 DEF MoverRead, MoverTx
    <3>3. QED BY <2>3, <3>2 DEF MoverRead, data
  <2>4. CASE MoverCommit(m)
    <3>1. mover[m].saw \in [Bookings -> RowStatus]
      BY DEF MoverTx, IdleMover
    <3>2. booking' \in [Bookings -> RowStatus]
      BY <2>4, <3>1, CascadedReach DEF MoverCommit
    <3>3. cancellations' \in [Bookings -> Seq({"request", "trip"})]
      BY <2>4 DEF MoverCommit
    <3>4. settled' \in [Bookings -> Nat]
      BY <2>4 DEF MoverCommit
    <3>5. trip' \in TripRow
      BY <2>4 DEF MoverCommit, TripRow, MoverTx, IdleMover
    <3>6. mover' \in [Movers -> MoverTx]
      BY <2>4 DEF MoverCommit, MoverTx
    <3>7. QED BY <2>4, <3>2, <3>3, <3>4, <3>5, <3>6 DEF MoverCommit
  <2>5. CASE MoverRollback(m)
    BY <2>5 DEF MoverRollback, MoverTx, data
  <2>6. QED BY <1>3, <2>1, <2>2, <2>3, <2>4, <2>5 DEF MoveTrip
<1>4. ASSUME NEW v \in Boarders, VerifyPassenger(v) PROVE TypeOK'
  <2>1. CASE \E b \in Bookings : VerifyHold(v, b)
    BY <2>1 DEF VerifyHold, BoarderTx, data
  <2>2. CASE VerifyCommit(v)
    <3>1. booking' \in [Bookings -> RowStatus]
      BY <2>2 DEF VerifyCommit, RowStatus, BookingStatus
    <3>2. seat' \in [Seats -> SeatRow]
      BY <2>2 DEF VerifyCommit, Occupied, SeatRow
    <3>3. QED BY <2>2, <3>1, <3>2 DEF VerifyCommit, BoarderTx
  <2>3. CASE VerifyRefuse(v)
    BY <2>3 DEF VerifyRefuse, BoarderTx, data
  <2>4. CASE VerifyRollback(v)
    BY <2>4 DEF VerifyRollback, BoarderTx, data
  <2>5. QED BY <1>4, <2>1, <2>2, <2>3, <2>4 DEF VerifyPassenger
<1>5. CASE Tick
  BY <1>5 DEF Tick
<1>6. CASE UNCHANGED vars
  BY <1>6 DEF vars, data
<1>7. QED BY <1>1, <1>2, <1>3, <1>4, <1>5, <1>6 DEF Next

(* Every reachable state is well typed: no request ever leaves a row with  *)
(* a status its column does not allow.                                     *)
THEOREM TypeCorrect == Spec => []TypeOK
<1>1. QED BY InitTypeOK, NextTypeOK, PTL DEF Spec

(***************************************************************************)
(* The locks.  Each of the five conjuncts is about the rows some lock      *)
(* guards: it is disturbed only by the actions that hold that lock.        *)
(***************************************************************************)

(* At first nothing is locked and nothing is booked.                       *)
LEMMA InitLockInv == Init => LockInv
<1> SUFFICES ASSUME Init PROVE LockInv OBVIOUS
<1>1. TripExclusive = {} /\ TripNoKey = {}
  BY DEF Init, TripExclusive, TripNoKey, IdleMover, IdleBoarder
<1>2. TripHeldByOne /\ MoverIsCurrent
  BY <1>1 DEF TripHeldByOne, MoverIsCurrent
<1>3. RowsHeldByOne
  BY DEF Init, RowsHeldByOne
<1>4. DriverlessUntilAssigned /\ AbsentUntilDone
  BY DEF Init, NewTrip, DriverlessUntilAssigned, AbsentUntilDone
<1>5. QED BY <1>2, <1>3, <1>4 DEF LockInv

(* A cancellation holds only a row that is there and may be cancelled.     *)
LEMMA HeldRow ==
  ASSUME TypeOK, RowsHeldByOne, NEW c \in Cancels, cancel[c].pc = "held"
  PROVE  /\ cancel[c].booking \in Bookings
         /\ booking[cancel[c].booking] \in CANCELLABLE_STATUSES
BY DEF TypeOK, CancelTx, RowsHeldByOne

(* BookSeats writes one thing the locks guard: a row that was absent, so   *)
(* that nobody held it, while nobody had the trip.                         *)
LEMMA BookStepLockInv ==
  ASSUME TypeOK, LockInv, NEW b \in Bookings, BookSeats(b)
  PROVE  LockInv'
<1> USE DEF LockInv
<1>1. TripHeldByOne'
  BY DEF BookSeats, BookStart, BookRead, BookRefuse, BookCommit, BookSoldOut,
         BookRollback, TripHeldByOne, TripExclusive, TripNoKey
<1>2. DriverlessUntilAssigned'
  BY DEF BookSeats, BookStart, BookRead, BookRefuse, BookCommit, BookSoldOut,
         BookRollback, DriverlessUntilAssigned, data
<1>3. CASE BookCommit(b)
  <2>1. TripExclusive = {} /\ TripExclusive' = {}
    BY <1>3 DEF BookCommit, TripForUpdateBlockers, TripExclusive
  <2>2. MoverIsCurrent'
    BY <2>1 DEF MoverIsCurrent
  <2>3. booking[b] = Absent
    BY <1>3 DEF BookCommit, AbsentUntilDone
  <2>4. AbsentUntilDone'
    BY <1>3 DEF BookCommit, AbsentUntilDone, Ended, TypeOK
  <2>5. RowsHeldByOne'
    <3> SUFFICES ASSUME NEW c \in Cancels, (cancel[c].pc = "held")'
                 PROVE  (/\ booking[cancel[c].booking] \in CANCELLABLE_STATUSES
                         /\ \A d \in RowHolders(cancel[c].booking) : d = c)'
      BY DEF RowsHeldByOne
    <3>1. cancel' = cancel /\ booking' = [booking EXCEPT ![b] = FirstStatus(book[b].seen)]
      BY <1>3 DEF BookCommit, Reserved
    <3>2. /\ cancel[c].booking \in Bookings
          /\ booking[cancel[c].booking] \in CANCELLABLE_STATUSES
      BY <3>1, HeldRow
    <3>3. cancel[c].booking # b
      BY <2>3, <3>2 DEF CANCELLABLE_STATUSES, Absent
    <3>4. booking'[cancel[c].booking] = booking[cancel[c].booking]
      BY <3>1, <3>2, <3>3 DEF TypeOK
    <3>5. \A d \in RowHolders(cancel[c].booking) : d = c
      BY <3>1 DEF RowsHeldByOne
    <3>6. RowHolders(cancel[c].booking)' = RowHolders(cancel[c].booking)
      BY <3>1 DEF RowHolders
    <3>7. QED BY <3>1, <3>2, <3>4, <3>5, <3>6
  <2>6. QED BY <1>1, <1>2, <2>2, <2>4, <2>5
<1>4. CASE \/ BookStart(b) \/ BookRead(b) \/ BookRefuse(b)
           \/ BookSoldOut(b) \/ BookRollback(b)
  <2>1. UNCHANGED <<data, cancel, mover, boarder>>
    BY <1>4 DEF BookStart, BookRead, BookRefuse, BookSoldOut, BookRollback
  <2>2. /\ book[b].pc # "done"
        /\ \A a \in Bookings \ {b} : book'[a] = book[a]
    BY <1>4 DEF BookStart, BookRead, BookRefuse, BookSoldOut, BookRollback, TypeOK
  <2>3. AbsentUntilDone'
    BY <2>1, <2>2 DEF AbsentUntilDone, data
  <2>4. RowsHeldByOne' /\ MoverIsCurrent'
    BY <2>1 DEF RowsHeldByOne, RowHolders, MoverIsCurrent, TripExclusive, data
  <2>5. QED BY <1>1, <1>2, <2>3, <2>4
<1>5. QED BY <1>3, <1>4 DEF BookSeats

(* CancelBooking holds the row it writes, and commits only while no mover  *)
(* has the trip: what a mover has read stays as it was read.               *)
LEMMA CancelStepLockInv ==
  ASSUME TypeOK, LockInv, NEW c \in Cancels, CancelBooking(c)
  PROVE  LockInv'
<1> USE DEF LockInv
<1>1. TripHeldByOne' /\ DriverlessUntilAssigned'
  BY DEF CancelBooking, CancelLock, CancelCommit, CancelRollback, TripHeldByOne,
         TripExclusive, TripNoKey, DriverlessUntilAssigned, data
<1>2. CASE \E b \in Bookings : CancelLock(c, b)
  <2>1. PICK b \in Bookings : CancelLock(c, b) BY <1>2
  <2>2. MoverIsCurrent' /\ AbsentUntilDone'
    BY <2>1 DEF CancelLock, MoverIsCurrent, TripExclusive, AbsentUntilDone, data
  <2>3. /\ booking' = booking /\ booking[b] \in CANCELLABLE_STATUSES
        /\ RowHolders(b) = {}
        /\ cancel' = [cancel EXCEPT ![c] = [pc |-> "held", booking |-> b]]
    BY <2>1 DEF CancelLock, data
  <2>4. RowsHeldByOne'
    BY <2>3 DEF RowsHeldByOne, RowHolders, TypeOK
  <2>5. QED BY <1>1, <2>2, <2>4
<1>3. CASE CancelCommit(c)
  <2> DEFINE b == cancel[c].booking
  <2>1. TripExclusive = {} /\ TripExclusive' = {}
    BY <1>3 DEF CancelCommit, TripForKeyShareBlockers, TripExclusive
  <2>2. MoverIsCurrent'
    BY <2>1 DEF MoverIsCurrent
  <2>3. b \in Bookings /\ booking[b] \in CANCELLABLE_STATUSES
    BY <1>3, HeldRow DEF CancelCommit, Released
  <2>4. AbsentUntilDone'
    BY <1>3, <2>3 DEF CancelCommit, AbsentUntilDone, TypeOK, CANCELLABLE_STATUSES, Absent
  <2>5. \A d \in Cancels \ {c} : cancel[d].pc = "held" => cancel[d].booking # b
    BY <1>3 DEF CancelCommit, RowsHeldByOne, RowHolders
  <2>6. RowsHeldByOne'
    BY <1>3, <2>5 DEF CancelCommit, RowsHeldByOne, RowHolders, TypeOK
  <2>7. QED BY <1>1, <2>2, <2>4, <2>6
<1>4. CASE CancelRollback(c)
  <2>1. MoverIsCurrent' /\ AbsentUntilDone'
    BY <1>4 DEF CancelRollback, MoverIsCurrent, TripExclusive, AbsentUntilDone, data
  <2>2. RowsHeldByOne'
    BY <1>4 DEF CancelRollback, RowsHeldByOne, RowHolders, TypeOK, data
  <2>3. QED BY <1>1, <2>1, <2>2
<1>5. QED BY <1>2, <1>3, <1>4 DEF CancelBooking

(* A mover takes the trip when nobody has it, finds the trip as its        *)
(* predecessor left it, and writes no row that somebody holds.             *)
LEMMA MoverLockLockInv ==
  ASSUME TypeOK, LockInv, NEW m \in Movers, NEW d \in Drivers,
         AcceptLock(m, d) \/ \E t \in ApiTargets : AdvanceLock(m, d, t)
  PROVE  LockInv'
<1> USE DEF LockInv
<1>1. /\ TripExclusive = {} /\ TripNoKey = {}
      /\ UNCHANGED <<data, book, cancel, boarder>>
      /\ \A n \in Movers \ {m} : mover'[n] = mover[n]
  BY DEF AcceptLock, AdvanceLock, TripForUpdateBlockers, TypeOK
<1>2. /\ TripExclusive' \subseteq {m} /\ TripNoKey' = {}
  BY <1>1 DEF TripExclusive, TripNoKey
<1>3. TripHeldByOne'
  BY <1>2 DEF TripHeldByOne
<1>4. /\ mover'[m].pc = "locked" /\ mover'[m].driver = d
      /\ mover'[m].target \in ApiTargets \cup {"DRIVER_ASSIGNED"}
      /\ Can(TRIP_LIFECYCLE, trip.status, mover'[m].target)
  BY DEF AcceptLock, AdvanceLock, MayAdvance, MayAssign, TypeOK
<1>5. trip.driver # NoDriver => d = trip.driver
  BY DEF AcceptLock, AdvanceLock, MayAdvance, MayAssign, DriverlessUntilAssigned
<1>6. MoverIsCurrent'
  BY <1>1, <1>2, <1>4, <1>5 DEF MoverIsCurrent, data
<1>7. RowsHeldByOne' /\ DriverlessUntilAssigned' /\ AbsentUntilDone'
  BY <1>1 DEF RowsHeldByOne, RowHolders, DriverlessUntilAssigned, AbsentUntilDone, data
<1>8. QED BY <1>3, <1>6, <1>7

(* A mover that reads, commits or fails keeps the locking invariant.       *)
LEMMA MoverStepLockInv ==
  ASSUME TypeOK, LockInv, NEW m \in Movers, MoveTrip(m)
  PROVE  LockInv'
<1> USE DEF LockInv
<1>1. CASE \E d \in Drivers : \/ AcceptLock(m, d)
                             \/ \E t \in ApiTargets : AdvanceLock(m, d, t)
  BY <1>1, MoverLockLockInv
<1>2. ASSUME mover[m].pc # "idle", book' = book, cancel' = cancel, boarder' = boarder,
             mover' \in [Movers -> MoverTx],
             \A n \in Movers \ {m} : mover'[n] = mover[n]
      PROVE  TripHeldByOne' /\ TripExclusive' \subseteq {m}
  <2>1. m \in TripExclusive /\ TripNoKey = {}
    BY <1>2 DEF TripExclusive, TripHeldByOne
  <2>2. TripExclusive' \subseteq {m} /\ TripNoKey' = {}
    BY <1>2, <2>1 DEF TripExclusive, TripHeldByOne, TripNoKey
  <2>3. QED BY <2>2 DEF TripHeldByOne
<1>3. CASE MoverRead(m)
  <2>1. UNCHANGED <<data, book, cancel, boarder>>
    BY <1>3 DEF MoverRead
  <2>2. TripHeldByOne' /\ TripExclusive' \subseteq {m}
    BY <1>2, <1>3, <2>1, NextTypeOK DEF MoverRead, TypeOK, Next, MoveTrip
  <2>3. /\ m \in TripExclusive
        /\ mover'[m].target = mover[m].target /\ mover'[m].driver = mover[m].driver
        /\ mover'[m].saw = booking
    BY <1>3 DEF MoverRead, TripExclusive, TypeOK, MoverTx, IdleMover
  <2>4. MoverIsCurrent'
    BY <2>1, <2>2, <2>3 DEF MoverIsCurrent, data
  <2>5. RowsHeldByOne' /\ DriverlessUntilAssigned' /\ AbsentUntilDone'
    BY <2>1 DEF RowsHeldByOne, RowHolders, DriverlessUntilAssigned, AbsentUntilDone, data
  <2>6. QED BY <2>2, <2>4, <2>5
<1>4. CASE MoverCommit(m)
  <2>1. /\ TripHeldByOne' /\ TripExclusive' \subseteq {m}
    BY <1>2, <1>4, NextTypeOK DEF MoverCommit, TypeOK, Next, MoveTrip
  <2>2. mover'[m].pc = "idle"
    BY <1>4 DEF MoverCommit, TypeOK, IdleMover
  <2>3. MoverIsCurrent'
    BY <2>1, <2>2 DEF MoverIsCurrent, TripExclusive
  <2>4. DriverlessUntilAssigned'
    <3>1. m \in TripExclusive BY <1>4 DEF MoverCommit, TripExclusive
    <3>2. mover[m].target \notin {"SCHEDULED", "REQUESTED"}
      BY <3>1, TargetStatuses DEF MoverIsCurrent
    <3>3. QED BY <1>4, <3>2 DEF MoverCommit, DriverlessUntilAssigned
  <2>5. mover[m].saw = booking
    BY <1>4 DEF MoverCommit, MoverIsCurrent, TripExclusive
  <2>6. \A b \in Bookings : booking'[b] # booking[b] => b \in Written(mover[m].saw, mover[m].target)
    BY <1>4 DEF MoverCommit
  <2>7. AbsentUntilDone'
    <3> SUFFICES ASSUME NEW b \in Bookings, book[b].pc # "done" PROVE booking'[b] = Absent
      BY <1>4 DEF MoverCommit, AbsentUntilDone
    <3>1. booking[b] = Absent BY DEF AbsentUntilDone
    <3>2. Cascaded(booking, mover[m].target, b) = booking[b]
      BY <3>1, CascadedReach DEF TypeOK
    <3>3. QED BY <2>5, <2>6, <3>1, <3>2 DEF Written
  <2>8. RowsHeldByOne'
    <3> SUFFICES ASSUME NEW c \in Cancels, cancel[c].pc = "held"
                 PROVE  booking'[cancel[c].booking] = booking[cancel[c].booking]
      BY <1>4 DEF MoverCommit, RowsHeldByOne, RowHolders
    <3>1. cancel[c].booking \in Bookings
      BY HeldRow
    <3>2. cancel[c].booking \notin Touched(m)
      BY <1>4, <3>1 DEF MoverCommit, RowHolders
    <3>3. QED BY <2>6, <3>1, <3>2 DEF Touched
  <2>9. QED BY <2>1, <2>3, <2>4, <2>7, <2>8
<1>5. CASE MoverRollback(m)
  <2>1. UNCHANGED <<data, book, cancel, boarder>>
    BY <1>5 DEF MoverRollback
  <2>2. TripHeldByOne' /\ TripExclusive' \subseteq {m}
    BY <1>2, <1>5, <2>1, NextTypeOK DEF MoverRollback, TypeOK, Next, MoveTrip
  <2>3. mover'[m].pc = "idle"
    BY <1>5 DEF MoverRollback, TypeOK, IdleMover
  <2>4. MoverIsCurrent'
    BY <2>2, <2>3 DEF MoverIsCurrent, TripExclusive
  <2>5. RowsHeldByOne' /\ DriverlessUntilAssigned' /\ AbsentUntilDone'
    BY <2>1 DEF RowsHeldByOne, RowHolders, DriverlessUntilAssigned, AbsentUntilDone, data
  <2>6. QED BY <2>2, <2>4, <2>5
<1>6. QED BY <1>1, <1>3, <1>4, <1>5 DEF MoveTrip

(* A boarding holds the trip against movers and writes a row nobody holds. *)
LEMMA VerifyStepLockInv ==
  ASSUME TypeOK, LockInv, NEW v \in Boarders, VerifyPassenger(v)
  PROVE  LockInv'
<1> USE DEF LockInv
<1>1. UNCHANGED <<trip, book, cancel, mover>>
  BY DEF VerifyPassenger, VerifyHold, VerifyCommit, VerifyRefuse, VerifyRollback, data
<1>2. TripExclusive = {} /\ TripExclusive' = {}
  <2>1. CASE \E b \in Bookings : VerifyHold(v, b)
    BY <1>1, <2>1 DEF VerifyHold, TripForNoKeyBlockers, TripExclusive
  <2>2. CASE boarder[v].pc = "held"
    BY <1>1, <2>2 DEF TripHeldByOne, TripNoKey, TripExclusive
  <2>3. QED BY <2>1, <2>2 DEF VerifyPassenger, VerifyCommit, VerifyRefuse, VerifyRollback
<1>3. TripHeldByOne' /\ MoverIsCurrent' /\ DriverlessUntilAssigned'
  BY <1>1, <1>2 DEF TripHeldByOne, MoverIsCurrent, DriverlessUntilAssigned
<1>4. CASE VerifyCommit(v)
  <2> DEFINE b == boarder[v].booking
  <2>1. b \in Bookings /\ RowHolders(b) = {} /\ booking[b] # Absent
    BY <1>4 DEF VerifyCommit, MayBoard, TypeOK, BoarderTx, IdleBoarder,
                Absent, ACTIVE_BOOKING_STATUSES, CANCELLABLE_STATUSES
  <2>2. AbsentUntilDone'
    BY <1>4, <2>1 DEF VerifyCommit, AbsentUntilDone, TypeOK
  <2>3. RowsHeldByOne'
    BY <1>4, <2>1, HeldRow DEF VerifyCommit, RowsHeldByOne, RowHolders, TypeOK
  <2>4. QED BY <1>3, <2>2, <2>3
<1>5. CASE booking' = booking
  BY <1>1, <1>3, <1>5 DEF RowsHeldByOne, RowHolders, AbsentUntilDone
<1>6. QED
  BY <1>4, <1>5 DEF VerifyPassenger, VerifyHold, VerifyRefuse, VerifyRollback, data

(* Every step keeps the locking invariant.                                 *)
LEMMA NextLockInv == TypeOK /\ LockInv /\ [Next]_vars => LockInv'
<1> SUFFICES ASSUME TypeOK, LockInv, [Next]_vars PROVE LockInv' OBVIOUS
<1>1. CASE UNCHANGED <<trip, booking, book, cancel, mover, boarder>>
  BY <1>1 DEF LockInv, TripHeldByOne, TripExclusive, TripNoKey, RowsHeldByOne,
              RowHolders, MoverIsCurrent, DriverlessUntilAssigned, AbsentUntilDone
<1>2. QED
  BY <1>1, BookStepLockInv, CancelStepLockInv, MoverStepLockInv, VerifyStepLockInv
     DEF Next, Tick, vars, data

(* At every moment the trip row and each booking row have at most one      *)
(* writer, and what AdvanceTrip and AcceptTrip read unlocked after taking  *)
(* the trip is still true when they write.                                 *)
THEOREM LocksHold == Spec => []LockInv
<1>1. QED BY TypeCorrect, InitLockInv, NextLockInv, PTL DEF Spec

(***************************************************************************)
(* What the locks buy: nothing that was committed is overwritten.          *)
(***************************************************************************)

(* A booking that may be cancelled is one declared hop from it.            *)
LEMMA CancellableReach ==
  ASSUME NEW s \in CANCELLABLE_STATUSES
  PROVE  "CANCELLED" \in BookingReach[s]
<1>1. Can(BOOKING_LIFECYCLE, s, "CANCELLED")
  BY DEF Can, BOOKING_LIFECYCLE, From, CANCELLABLE_STATUSES
<1>2. s \in BookingStatus BY DEF CANCELLABLE_STATUSES, BookingStatus
<1>3. QED BY <1>1, <1>2, HopIsReachable DEF BookingReach

(* Every step moves a booking that exists along its lifecycle, or not.     *)
LEMMA NextKeepsLifecycle ==
  ASSUME TypeOK, LockInv, [Next]_vars, NEW b \in Bookings, booking[b] # Absent
  PROVE  booking'[b] \in BookingReach[booking[b]]
<1>1. booking[b] \in BookingStatus
  BY DEF TypeOK, RowStatus
<1>2. CASE booking'[b] = booking[b]
  BY <1>1, <1>2, SelfIsReachable DEF BookingReach
<1>3. ASSUME NEW a \in Bookings, BookCommit(a) PROVE booking'[b] = booking[b]
  <2>1. booking[a] = Absent
    BY <1>3 DEF BookCommit, LockInv, AbsentUntilDone
  <2>2. QED BY <1>3, <2>1 DEF BookCommit, TypeOK
<1>4. ASSUME NEW c \in Cancels, CancelCommit(c), booking'[b] # booking[b]
      PROVE  booking'[b] \in BookingReach[booking[b]]
  <2>1. b = cancel[c].booking /\ booking'[b] = "CANCELLED"
    BY <1>4 DEF CancelCommit, TypeOK
  <2>2. booking[b] \in CANCELLABLE_STATUSES
    BY <1>4, <2>1, HeldRow DEF CancelCommit, LockInv
  <2>3. QED BY <2>1, <2>2, CancellableReach
<1>5. ASSUME NEW m \in Movers, MoverCommit(m), booking'[b] # booking[b]
      PROVE  booking'[b] \in BookingReach[booking[b]]
  <2>1. mover[m].saw = booking
    BY <1>5 DEF MoverCommit, LockInv, MoverIsCurrent, TripExclusive
  <2>2. booking'[b] = Cascaded(booking, mover[m].target, b)
    BY <1>5, <2>1 DEF MoverCommit
  <2>3. QED BY <1>1, <2>2, CascadedReach DEF TypeOK
<1>6. ASSUME NEW v \in Boarders, VerifyCommit(v), booking'[b] # booking[b]
      PROVE  booking'[b] \in BookingReach[booking[b]]
  <2>1. /\ booking'[b] = "ONBOARD"
        /\ Can(BOOKING_LIFECYCLE, booking[b], "ONBOARD")
    BY <1>6 DEF VerifyCommit, MayBoard, TypeOK
  <2>2. QED BY <1>1, <2>1, HopIsReachable DEF BookingReach
<1>7. CASE booking' = booking
  BY <1>2, <1>7
<1>8. QED
  BY <1>2, <1>3, <1>4, <1>5, <1>6, <1>7
     DEF Next, BookSeats, BookStart, BookRead, BookRefuse, BookSoldOut, BookRollback,
         CancelBooking, CancelLock, CancelRollback, MoveTrip, AcceptLock, AdvanceLock,
         MoverRead, MoverRollback, VerifyPassenger, VerifyHold, VerifyRefuse,
         VerifyRollback, Tick, vars, data

(* A booking's committed status only ever moves along its lifecycle: a     *)
(* cancelled booking is not resurrected by a cascade that read it before,  *)
(* a boarded one is not cancelled, a completed one stays completed.        *)
THEOREM BookingsKeepLifecycle == Spec => BookingKeepsLifecycle
<1>1. TypeOK /\ LockInv /\ [Next]_vars =>
        [\A b \in Bookings :
           booking[b] # Absent => booking'[b] \in BookingReach[booking[b]]]_vars
  BY NextKeepsLifecycle
<1>2. QED BY <1>1, TypeCorrect, LocksHold, PTL DEF Spec, BookingKeepsLifecycle

(* The trip moves by declared hops only, and the first driver to get it    *)
(* keeps it: two accepts at once never put two cars on one trip.           *)
THEOREM TripKeepsLifecycleAndDriver == Spec => TripKeepsLifecycle
<1>1. TypeOK /\ LockInv /\ [Next]_vars =>
        [/\ trip'.status # trip.status => Can(TRIP_LIFECYCLE, trip.status, trip'.status)
         /\ trip.driver # NoDriver => trip'.driver = trip.driver]_vars
  <2> SUFFICES ASSUME TypeOK, LockInv, [Next]_vars
               PROVE  /\ trip'.status # trip.status =>
                           Can(TRIP_LIFECYCLE, trip.status, trip'.status)
                      /\ trip.driver # NoDriver => trip'.driver = trip.driver
    OBVIOUS
  <2>1. CASE trip' = trip
    BY <2>1
  <2>2. ASSUME NEW m \in Movers, MoverCommit(m)
        PROVE  /\ Can(TRIP_LIFECYCLE, trip.status, trip'.status)
               /\ trip.driver # NoDriver => trip'.driver = trip.driver
    BY <2>2 DEF MoverCommit, LockInv, MoverIsCurrent, TripExclusive
  <2>3. QED
    BY <2>1, <2>2
       DEF Next, BookSeats, BookStart, BookRead, BookRefuse, BookCommit, BookSoldOut,
           BookRollback, CancelBooking, CancelLock, CancelCommit, CancelRollback,
           MoveTrip, AcceptLock, AdvanceLock, MoverRead, MoverRollback, VerifyPassenger,
           VerifyHold, VerifyCommit, VerifyRefuse, VerifyRollback, Tick, vars, data
<1>2. QED BY <1>1, TypeCorrect, LocksHold, PTL DEF Spec, TripKeepsLifecycle

(* Both together: however requests race, no write undoes another's.        *)
THEOREM LifecyclesKept == Spec => LifecyclesAreKept
BY BookingsKeepLifecycle, TripKeepsLifecycleAndDriver, PTL DEF LifecyclesAreKept

(***************************************************************************)
(* Seats, records and money.                                               *)
(***************************************************************************)

(* The cascade cancels exactly when the trip is called off, and completes  *)
(* exactly when the trip completes; those aboard are not cancelled by it.  *)
LEMMA CascadedValue ==
  ASSUME NEW saw \in [Bookings -> RowStatus], NEW target, NEW b \in Bookings,
         Cascaded(saw, target, b) # saw[b]
  PROVE  /\ saw[b] \in ACTIVE_BOOKING_STATUSES
         /\ Cascaded(saw, target, b) = "CANCELLED" <=> target \in CALLED_OFF
         /\ Cascaded(saw, target, b) = "COMPLETED" <=> target = "COMPLETED"
         /\ saw[b] = "ONBOARD" => Cascaded(saw, target, b) = "COMPLETED"
<1>1. /\ saw[b] \in ACTIVE_BOOKING_STATUSES
      /\ Cascaded(saw, target, b) = TRIP_TO_BOOKING_STATUS(target)
  BY DEF Cascaded, FollowTrip
<1>2. /\ TRIP_TO_BOOKING_STATUS(target) = "CANCELLED" <=> target \in CALLED_OFF
      /\ TRIP_TO_BOOKING_STATUS(target) = "COMPLETED" <=> target = "COMPLETED"
  BY DEF TRIP_TO_BOOKING_STATUS, CALLED_OFF, NoTarget
<1>3. saw[b] = "ONBOARD" => Cascaded(saw, target, b) \in {"ONBOARD", "COMPLETED"}
  BY CascadedReach, OnboardReach DEF BookingReach, BookingStatus
<1>4. QED BY <1>1, <1>2, <1>3

(* A called-off trip cancels every active booking that nobody boarded.     *)
LEMMA CalledOffCancels ==
  ASSUME NEW saw \in [Bookings -> RowStatus], NEW target \in CALLED_OFF,
         NEW b \in Bookings, saw[b] \in CANCELLABLE_STATUSES
  PROVE  Cascaded(saw, target, b) = "CANCELLED"
<1>1. TRIP_TO_BOOKING_STATUS(target) = "CANCELLED"
  BY DEF TRIP_TO_BOOKING_STATUS, CALLED_OFF
<1>2. ~IsTerminal(BOOKING_LIFECYCLE, saw[b])
  <2>1. Can(BOOKING_LIFECYCLE, saw[b], "CANCELLED")
    BY DEF Can, BOOKING_LIFECYCLE, From, CANCELLABLE_STATUSES
  <2>2. QED BY <2>1 DEF Can, IsTerminal
<1>3. "CANCELLED" \in BookingReach[saw[b]]
  BY CancellableReach
<1>4. QED
  BY <1>1, <1>2, <1>3 DEF Cascaded, FollowTrip, NoTarget, ACTIVE_BOOKING_STATUSES

(* At first there are no bookings, and so nothing to disagree about.       *)
LEMMA InitDataInv == Init => DataInv
<1> SUFFICES ASSUME Init PROVE DataInv OBVIOUS
<1>1. \A b \in Bookings : SeatsOf(b) = {} /\ SeatsDue(b) = 0
  BY NullAssumption DEF Init, SeatsOf, SeatsDue, FreeSeat
<1>2. SeatsMatchBookings
  BY <1>1, FS_EmptySet DEF SeatsMatchBookings
<1>3. QED
  BY <1>2 DEF DataInv, Init, SeatLinks, FreeSeat, OccupiedMeansAboard,
              RecordsExplained, SettledOnceIffCompleted, Absent

(* The seats are finitely many, so having none is having zero of them.     *)
LEMMA NoSeats ==
  ASSUME NEW b PROVE Cardinality(SeatsOf(b)) = 0 <=> SeatsOf(b) = {}
<1>1. IsFiniteSet(SeatsOf(b))
  BY SeatsAssumption, FS_Subset DEF SeatsOf
<1>2. QED BY <1>1, FS_EmptySet

(* A sale gives a new booking exactly its seats, and touches no other.     *)
LEMMA BookCommitDataInv ==
  ASSUME TypeOK, LockInv, DataInv, NEW b \in Bookings, BookCommit(b)
  PROVE  DataInv'
<1> USE DEF DataInv
<1>1. /\ booking[b] = Absent /\ booking' = [booking EXCEPT ![b] = FirstStatus(book[b].seen)]
      /\ UNCHANGED <<trip, cancellations, settled>>
  BY DEF BookCommit, LockInv, AbsentUntilDone
<1>2. PICK S \in SUBSET AvailableSeats :
        /\ Cardinality(S) = SeatCount[b]
        /\ seat' = [s \in Seats |->
                      IF s \in S THEN [status |-> "RESERVED", booking |-> b] ELSE seat[s]]
  BY DEF BookCommit, Reserved
<1>3. /\ \A s \in S : s \in Seats /\ seat[s].booking = NoBooking
      /\ b # NoBooking
  BY NullAssumption DEF AvailableSeats, FreeSeat
<1>4. SeatLinks'
  BY <1>2, <1>3 DEF SeatLinks
<1>5. booking'[b] \in {"CONFIRMED", "DRIVER_ASSIGNED"}
  BY <1>1 DEF FirstStatus, TypeOK
<1>6. cancellations[b] = << >>
  BY <1>1 DEF RecordsExplained, Absent
<1>7. SeatsMatchBookings'
  <2> SUFFICES ASSUME NEW a \in Bookings
               PROVE  Cardinality(SeatsOf(a)') = SeatsDue(a)'
    BY DEF SeatsMatchBookings
  <2>1. CASE a = b
    <3>1. SeatsOf(b) = {}
      BY <1>1, NoSeats DEF SeatsMatchBookings, SeatsDue
    <3>2. SeatsOf(b)' = S
      BY <1>2, <1>3, <3>1 DEF SeatsOf
    <3>3. SeatsDue(b)' = SeatCount[b]
      BY <1>1, <1>5, <1>6 DEF SeatsDue, Withdrawn, Absent
    <3>4. QED BY <1>2, <2>1, <3>2, <3>3
  <2>2. CASE a # b
    <3>1. SeatsOf(a)' = SeatsOf(a)
      BY <1>2, <1>3, <2>2, NullAssumption DEF SeatsOf
    <3>2. SeatsDue(a)' = SeatsDue(a)
      BY <1>1, <2>2 DEF SeatsDue, Withdrawn, TypeOK
    <3>3. QED BY <3>1, <3>2 DEF SeatsMatchBookings
  <2>3. QED BY <2>1, <2>2
<1>8. OccupiedMeansAboard'
  <2> SUFFICES ASSUME NEW s \in Seats, seat'[s].status = "OCCUPIED"
               PROVE  booking'[seat'[s].booking] \in {"ONBOARD", "COMPLETED"}
    BY DEF OccupiedMeansAboard
  <2>1. s \notin S /\ seat'[s] = seat[s]
    BY <1>2
  <2>2. booking[seat[s].booking] \in {"ONBOARD", "COMPLETED"}
    BY <2>1 DEF OccupiedMeansAboard
  <2>3. seat[s].booking # b
    BY <1>1, <2>2 DEF Absent
  <2>4. QED BY <1>1, <2>1, <2>2, <2>3 DEF TypeOK
<1>9. RecordsExplained'
  BY <1>1, <1>5, <1>6 DEF RecordsExplained, TypeOK
<1>10. SettledOnceIffCompleted'
  BY <1>1, <1>5 DEF SettledOnceIffCompleted, TypeOK, Absent
<1>11. QED BY <1>4, <1>7, <1>8, <1>9, <1>10

(* A cancellation gives back the seats and writes the only record.         *)
LEMMA CancelCommitDataInv ==
  ASSUME TypeOK, LockInv, DataInv, NEW c \in Cancels, CancelCommit(c)
  PROVE  DataInv'
<1> USE DEF DataInv
<1> DEFINE b == cancel[c].booking
<1>1. b \in Bookings /\ booking[b] \in CANCELLABLE_STATUSES
  BY HeldRow DEF CancelCommit, LockInv
<1>2. /\ booking' = [booking EXCEPT ![b] = "CANCELLED"]
      /\ seat' = [s \in Seats |-> IF seat[s].booking = b THEN FreeSeat ELSE seat[s]]
      /\ cancellations' = [cancellations EXCEPT ![b] = Append(@, "request")]
      /\ UNCHANGED <<trip, settled>>
  BY DEF CancelCommit, Released
<1>3. SeatLinks'
  BY <1>2 DEF SeatLinks, FreeSeat
<1>4. cancellations[b] = << >>
  BY <1>1 DEF RecordsExplained, CANCELLABLE_STATUSES
<1>5. cancellations'[b] = <<"request">> /\ booking'[b] = "CANCELLED"
  BY <1>1, <1>2, <1>4 DEF TypeOK
<1>6. SeatsMatchBookings'
  <2> SUFFICES ASSUME NEW a \in Bookings
               PROVE  Cardinality(SeatsOf(a)') = SeatsDue(a)'
    BY DEF SeatsMatchBookings
  <2>1. CASE a = b
    <3>1. SeatsOf(a)' = {}
      BY <1>1, <1>2, <2>1, NullAssumption DEF SeatsOf, FreeSeat
    <3>2. SeatsDue(a)' = 0
      BY <1>5, <2>1 DEF SeatsDue, Withdrawn
    <3>3. QED BY <3>1, <3>2, FS_EmptySet
  <2>2. CASE a # b
    <3>1. SeatsOf(a)' = SeatsOf(a)
      BY <1>2, <2>2, NullAssumption DEF SeatsOf, FreeSeat
    <3>2. SeatsDue(a)' = SeatsDue(a)
      BY <1>2, <2>2 DEF SeatsDue, Withdrawn, TypeOK
    <3>3. QED BY <3>1, <3>2 DEF SeatsMatchBookings
  <2>3. QED BY <2>1, <2>2
<1>7. OccupiedMeansAboard'
  BY <1>2 DEF OccupiedMeansAboard, TypeOK, FreeSeat
<1>8. RecordsExplained'
  BY <1>2, <1>5 DEF RecordsExplained, TypeOK
<1>9. SettledOnceIffCompleted'
  BY <1>1, <1>2, <1>5 DEF SettledOnceIffCompleted, TypeOK, CANCELLABLE_STATUSES
<1>10. QED BY <1>3, <1>6, <1>7, <1>8, <1>9

(* A boarding occupies the seats of a booking it puts aboard.              *)
LEMMA VerifyCommitDataInv ==
  ASSUME TypeOK, LockInv, DataInv, NEW v \in Boarders, VerifyCommit(v)
  PROVE  DataInv'
<1> USE DEF DataInv
<1> DEFINE b == boarder[v].booking
<1>1. b \in Bookings
  BY DEF VerifyCommit, TypeOK, BoarderTx, IdleBoarder
<1>2. booking[b] = "READY"
  BY DEF VerifyCommit, MayBoard, Can, BOOKING_LIFECYCLE, From
<1>3. /\ booking' = [booking EXCEPT ![b] = "ONBOARD"]
      /\ seat' = [s \in Seats |->
                     IF seat[s] = [status |-> "RESERVED", booking |-> b]
                     THEN [seat[s] EXCEPT !.status = "OCCUPIED"] ELSE seat[s]]
      /\ UNCHANGED <<trip, cancellations, settled>>
  BY DEF VerifyCommit, Occupied
<1>4. \A s \in Seats : /\ seat'[s].booking = seat[s].booking
                       /\ \/ seat'[s].status = seat[s].status
                          \/ /\ seat'[s].status = "OCCUPIED" /\ seat[s].booking = b
                             /\ seat[s].status = "RESERVED"
  <2> TAKE s \in Seats
  <2>1. seat[s] \in SeatRow BY DEF TypeOK
  <2>2. QED BY <1>3, <2>1 DEF SeatRow
<1>5. SeatLinks'
  BY <1>4 DEF SeatLinks
<1>6. cancellations[b] = << >>
  BY <1>1, <1>2 DEF RecordsExplained
<1>7. \A a \in Bookings : SeatsOf(a)' = SeatsOf(a) /\ SeatsDue(a)' = SeatsDue(a)
  BY <1>1, <1>2, <1>3, <1>4 DEF SeatsOf, SeatsDue, Withdrawn, TypeOK, Absent
<1>8. SeatsMatchBookings'
  BY <1>7 DEF SeatsMatchBookings
<1>9. OccupiedMeansAboard'
  BY <1>1, <1>2, <1>3, <1>4 DEF OccupiedMeansAboard, TypeOK
<1>10. RecordsExplained' /\ SettledOnceIffCompleted'
  BY <1>1, <1>2, <1>3, <1>6 DEF RecordsExplained, SettledOnceIffCompleted, TypeOK
<1>11. QED BY <1>5, <1>8, <1>9, <1>10

(* A record of the trip's cancellation is not one of a passenger's.        *)
LEMMA AppendOther ==
  ASSUME NEW q \in Seq({"request", "trip"})
  PROVE  (\E i \in DOMAIN q : q[i] = "request") <=>
         (\E i \in DOMAIN Append(q, "trip") : Append(q, "trip")[i] = "request")
<1>1. /\ DOMAIN q = 1 .. Len(q) /\ Len(q) \in Nat
      /\ DOMAIN Append(q, "trip") = 1 .. Len(q) + 1
      /\ \A i \in 1 .. Len(q) : Append(q, "trip")[i] = q[i]
      /\ Append(q, "trip")[Len(q) + 1] = "trip"
  OBVIOUS
<1>2. QED BY <1>1

(* What a step leaves alone when it neither sells nor gives back seats.    *)
SameHoldings ==
  \A b \in Bookings : /\ SeatsOf(b)' = SeatsOf(b)
                      /\ booking[b] = Absent <=> booking'[b] = Absent
                      /\ Withdrawn(b) <=> Withdrawn(b)'

(* A trip's move leaves every booking with the seats it had.               *)
LEMMA MoverKeepsHoldings ==
  ASSUME TypeOK, LockInv, NEW m \in Movers, MoverCommit(m)
  PROVE  SameHoldings
<1>1. mover[m].saw = booking
  BY DEF MoverCommit, LockInv, MoverIsCurrent, TripExclusive
<1>2. /\ seat' = seat
      /\ \A b \in Bookings :
           /\ booking'[b] = Cascaded(booking, mover[m].target, b)
           /\ \/ cancellations'[b] = cancellations[b]
              \/ cancellations'[b] = Append(cancellations[b], "trip")
  BY <1>1 DEF MoverCommit, Written
<1>3. \A b \in Bookings : booking[b] = Absent <=> booking'[b] = Absent
  <2>1. Absent \notin BookingStatus
    BY DEF Absent, BookingStatus
  <2>2. ASSUME NEW b \in Bookings, booking[b] \in BookingStatus
        PROVE  booking'[b] \in BookingStatus
    BY <1>2, <2>2, CascadedReach, ReachInStatuses DEF TypeOK
  <2>3. ASSUME NEW b \in Bookings, booking[b] = Absent PROVE booking'[b] = Absent
    BY <1>2, <2>3, CascadedReach DEF TypeOK
  <2>4. QED BY <2>1, <2>2, <2>3 DEF TypeOK, RowStatus
<1>4. \A b \in Bookings : cancellations[b] \in Seq({"request", "trip"})
  BY DEF TypeOK
<1>5. \A b \in Bookings : Withdrawn(b) <=> Withdrawn(b)'
  BY <1>2, <1>4, AppendOther DEF Withdrawn
<1>6. QED BY <1>2, <1>3, <1>5 DEF SameHoldings, SeatsOf

(* A boarding leaves every booking with the seats it had.                  *)
LEMMA VerifyKeepsHoldings ==
  ASSUME TypeOK, NEW v \in Boarders, VerifyCommit(v)
  PROVE  SameHoldings
<1>1. booking[boarder[v].booking] = "READY"
  BY DEF VerifyCommit, MayBoard, Can, BOOKING_LIFECYCLE, From
<1>2. \A s \in Seats : seat'[s].booking = seat[s].booking
  <2> TAKE s \in Seats
  <2>1. seat[s] \in SeatRow BY DEF TypeOK
  <2>2. QED BY <2>1 DEF VerifyCommit, Occupied, SeatRow
<1>3. QED
  BY <1>1, <1>2 DEF VerifyCommit, Occupied, SameHoldings, SeatsOf, Withdrawn, TypeOK, Absent

(* A trip's move records and settles what its cascade decided, once.       *)
LEMMA MoverCommitDataInv ==
  ASSUME TypeOK, LockInv, DataInv, NEW m \in Movers, MoverCommit(m)
  PROVE  DataInv'
<1> USE DEF DataInv
<1> DEFINE target == mover[m].target
           W == Written(booking, mover[m].target)
           R == Recorded(booking, mover[m].target)
<1>1. /\ m \in TripExclusive
      /\ mover[m].saw = booking
      /\ Can(TRIP_LIFECYCLE, trip.status, target)
  BY DEF MoverCommit, LockInv, MoverIsCurrent, TripExclusive
<1>2. /\ seat' = seat /\ trip'.status = target
      /\ booking' = [b \in Bookings |-> Cascaded(booking, target, b)]
      /\ cancellations' = [b \in Bookings |->
                             IF b \in R THEN Append(cancellations[b], "trip")
                             ELSE cancellations[b]]
      /\ settled' = [b \in Bookings |->
                       IF target = "COMPLETED" /\ booking'[b] = "COMPLETED" /\ settled[b] = 0
                       THEN settled[b] + 1 ELSE settled[b]]
  <2>1. booking' = [b \in Bookings |-> IF b \in W THEN Cascaded(booking, target, b)
                                     ELSE booking[b]]
    BY <1>1 DEF MoverCommit
  <2>2. booking' = [b \in Bookings |-> Cascaded(booking, target, b)]
    BY <2>1 DEF Written
  <2>3. settled' = [b \in Bookings |->
                      IF b \in ToSettle(booking', target) THEN settled[b] + 1 ELSE settled[b]]
    BY <1>1, <2>1 DEF MoverCommit
  <2>4. settled' = [b \in Bookings |->
                      IF target = "COMPLETED" /\ booking'[b] = "COMPLETED" /\ settled[b] = 0
                      THEN settled[b] + 1 ELSE settled[b]]
    BY <2>3 DEF ToSettle
  <2>5. QED BY <1>1, <2>2, <2>4 DEF MoverCommit
<1>3. ASSUME NEW b \in Bookings, booking'[b] # booking[b]
      PROVE  /\ booking[b] \in ACTIVE_BOOKING_STATUSES
             /\ booking'[b] = "CANCELLED" <=> target \in CALLED_OFF
             /\ booking'[b] = "COMPLETED" <=> target = "COMPLETED"
             /\ booking[b] = "ONBOARD" => booking'[b] = "COMPLETED"
  BY <1>2, <1>3, CascadedValue DEF TypeOK
<1>4. SameHoldings
  BY MoverKeepsHoldings
<1>7. SeatLinks' /\ SeatsMatchBookings'
  BY <1>2, <1>4 DEF SeatLinks, SeatsMatchBookings, SeatsDue, SameHoldings
<1>8. OccupiedMeansAboard'
  <2> SUFFICES ASSUME NEW s \in Seats, seat[s].status = "OCCUPIED"
               PROVE  booking'[seat[s].booking] \in {"ONBOARD", "COMPLETED"}
    BY <1>2 DEF OccupiedMeansAboard
  <2>1. seat[s].booking \in Bookings
    BY DEF SeatLinks, TypeOK, SeatRow
  <2>2. booking[seat[s].booking] \in {"ONBOARD", "COMPLETED"}
    BY DEF OccupiedMeansAboard
  <2>3. "COMPLETED" \notin ACTIVE_BOOKING_STATUSES
    BY DEF ACTIVE_BOOKING_STATUSES, CANCELLABLE_STATUSES
  <2>4. QED BY <1>3, <2>1, <2>2, <2>3
<1>9. RecordsExplained'
  <2>1. trip.status \notin CALLED_OFF
    BY <1>1, TripHops
  <2> SUFFICES ASSUME NEW b \in Bookings
               PROVE  \/ cancellations'[b] = << >> /\ booking'[b] # "CANCELLED"
                      \/ Len(cancellations'[b]) = 1 /\ booking'[b] = "CANCELLED"
                      \/ /\ cancellations'[b] = <<"trip">> /\ booking'[b] = "ONBOARD"
                         /\ trip'.status \in CALLED_OFF
    BY DEF RecordsExplained
  <2>2. \/ cancellations[b] = << >> /\ booking[b] # "CANCELLED"
        \/ Len(cancellations[b]) = 1 /\ booking[b] = "CANCELLED"
    BY <2>1 DEF RecordsExplained
  <2>3. "CANCELLED" \notin ACTIVE_BOOKING_STATUSES
    BY DEF ACTIVE_BOOKING_STATUSES, CANCELLABLE_STATUSES
  <2>4. CASE b \in R
    <3>1. target \in CALLED_OFF /\ booking[b] \in ACTIVE_BOOKING_STATUSES
      BY <2>4 DEF Recorded
    <3>2. cancellations'[b] = <<"trip">> /\ Len(cancellations'[b]) = 1
      <4>1. cancellations[b] = << >>
        BY <2>2, <2>3, <3>1
      <4>2. cancellations'[b] = Append(cancellations[b], "trip")
        BY <1>2, <2>4
      <4>3. QED BY <4>1, <4>2
    <3>3. booking'[b] = "CANCELLED" \/ booking'[b] = "ONBOARD"
      <4>1. CASE booking[b] \in CANCELLABLE_STATUSES
        BY <1>2, <3>1, <4>1, CalledOffCancels DEF TypeOK
      <4>2. CASE booking[b] = "ONBOARD"
        BY <1>3, <3>1, <4>2 DEF CALLED_OFF
      <4>3. QED BY <3>1, <4>1, <4>2 DEF ACTIVE_BOOKING_STATUSES
    <3>4. QED BY <1>2, <3>1, <3>2, <3>3
  <2>5. CASE b \notin R
    <3>1. cancellations'[b] = cancellations[b]
      BY <1>2, <2>5
    <3>2. booking'[b] = "CANCELLED" <=> booking[b] = "CANCELLED"
      BY <1>3, <2>3, <2>5 DEF Recorded
    <3>3. QED BY <2>2, <3>1, <3>2
  <2>6. QED BY <2>4, <2>5
<1>10. SettledOnceIffCompleted'
  <2> SUFFICES ASSUME NEW b \in Bookings
               PROVE  settled'[b] = (IF booking'[b] = "COMPLETED" THEN 1 ELSE 0)
    BY DEF SettledOnceIffCompleted
  <2>1. settled[b] = (IF booking[b] = "COMPLETED" THEN 1 ELSE 0)
    BY DEF SettledOnceIffCompleted
  <2>2. booking[b] = "COMPLETED" => booking'[b] = "COMPLETED"
    BY <1>3 DEF ACTIVE_BOOKING_STATUSES, CANCELLABLE_STATUSES
  <2>3. QED BY <1>2, <1>3, <2>1, <2>2
<1>11. QED BY <1>7, <1>8, <1>9, <1>10

(* Every step keeps seats, records and settlements in agreement.           *)
LEMMA NextDataInv == TypeOK /\ LockInv /\ DataInv /\ [Next]_vars => DataInv'
<1> SUFFICES ASSUME TypeOK, LockInv, DataInv, [Next]_vars PROVE DataInv' OBVIOUS
<1>1. CASE UNCHANGED <<trip, booking, seat, cancellations, settled>>
  BY <1>1 DEF DataInv, SeatLinks, SeatsMatchBookings, SeatsOf, SeatsDue, Withdrawn,
              OccupiedMeansAboard, RecordsExplained, SettledOnceIffCompleted
<1>2. QED
  BY <1>1, BookCommitDataInv, CancelCommitDataInv, MoverCommitDataInv, VerifyCommitDataInv
     DEF Next, BookSeats, BookStart, BookRead, BookRefuse, BookSoldOut, BookRollback,
         CancelBooking, CancelLock, CancelRollback, MoveTrip, AcceptLock, AdvanceLock,
         MoverRead, MoverRollback, VerifyPassenger, VerifyHold, VerifyRefuse,
         VerifyRollback, Tick, vars, data

(* Seats, cancellation records and settlements always agree with the       *)
(* bookings they belong to, whatever interleaving produced them.           *)
THEOREM DataAgrees == Spec => []DataInv
<1>1. QED BY TypeCorrect, LocksHold, InitDataInv, NextDataInv, PTL DEF Spec

(* A booking has all the seats it asked for, or none.                      *)
THEOREM SeatsAlwaysMatch == Spec => []SeatsMatchBookings
<1>1. DataInv => SeatsMatchBookings BY DEF DataInv
<1>2. QED BY <1>1, DataAgrees, PTL

(* No booking ever gets a second cancellation record.                      *)
THEOREM CancelledOnce == Spec => []OneCancellationRecord
<1>1. Len(<< >>) = 0 /\ Len(<<"trip">>) = 1
  OBVIOUS
<1>2. DataInv => OneCancellationRecord
  <2> SUFFICES ASSUME DataInv, NEW b \in Bookings
               PROVE  /\ Len(cancellations[b]) <= 1
                      /\ booking[b] = "CANCELLED" => Len(cancellations[b]) = 1
    BY DEF OneCancellationRecord
  <2>1. CASE cancellations[b] = << >> /\ booking[b] # "CANCELLED"
    BY <1>1, <2>1
  <2>2. CASE Len(cancellations[b]) = 1
    BY <2>2
  <2>3. CASE cancellations[b] = <<"trip">> /\ booking[b] = "ONBOARD"
    BY <1>1, <2>3
  <2>4. QED BY <2>1, <2>2, <2>3 DEF DataInv, RecordsExplained
<1>3. QED BY <1>2, DataAgrees, PTL

(* Exactly the completed bookings have been settled, each exactly once.    *)
THEOREM SettledOnce == Spec => []SettledOnceIffCompleted
<1>1. DataInv => SettledOnceIffCompleted BY DEF DataInv
<1>2. QED BY <1>1, DataAgrees, PTL

(* No seat is occupied on behalf of a booking that was cancelled.          *)
THEOREM OccupiedIsAboard == Spec => []OccupiedMeansAboard
<1>1. DataInv => OccupiedMeansAboard BY DEF DataInv
<1>2. QED BY <1>1, DataAgrees, PTL

(***************************************************************************)
(* The limit on a passenger's active bookings.                             *)
(***************************************************************************)

(* The bookings of a passenger are finitely many, so they can be counted.  *)
LEMMA ActiveFinite ==
  ASSUME NEW p
  PROVE  IsFiniteSet(ActiveOf(p)) /\ Cardinality(ActiveOf(p)) \in Nat
BY RequestAssumption, FS_Subset, FS_CardinalityType DEF ActiveOf

(* Only a commit of BookSeats makes a booking active.                      *)
LEMMA ActiveShrinks ==
  ASSUME TypeOK, LockInv, [Next]_vars, \A a \in Bookings : ~BookCommit(a), NEW p
  PROVE  ActiveOf(p)' \subseteq ActiveOf(p)
<1> SUFFICES ASSUME NEW b \in Bookings, booking'[b] \in ACTIVE_BOOKING_STATUSES
             PROVE  booking[b] \in ACTIVE_BOOKING_STATUSES
  BY DEF ActiveOf
<1>1. CASE booking'[b] = booking[b]
  BY <1>1
<1>2. ASSUME NEW c \in Cancels, CancelCommit(c), booking'[b] # booking[b] PROVE FALSE
  <2>1. booking'[b] = "CANCELLED"
    BY <1>2 DEF CancelCommit, TypeOK
  <2>2. QED BY <2>1 DEF ACTIVE_BOOKING_STATUSES, CANCELLABLE_STATUSES
<1>3. ASSUME NEW m \in Movers, MoverCommit(m), booking'[b] # booking[b]
      PROVE  booking[b] \in ACTIVE_BOOKING_STATUSES
  <2>1. mover[m].saw = booking
    BY <1>3 DEF MoverCommit, LockInv, MoverIsCurrent, TripExclusive
  <2>2. booking'[b] = Cascaded(booking, mover[m].target, b)
    BY <1>3, <2>1 DEF MoverCommit
  <2>3. QED BY <1>3, <2>2, CascadedValue DEF TypeOK
<1>4. ASSUME NEW v \in Boarders, VerifyCommit(v), booking'[b] # booking[b]
      PROVE  booking[b] \in ACTIVE_BOOKING_STATUSES
  BY <1>4 DEF VerifyCommit, MayBoard, TypeOK
<1>5. QED
  BY <1>1, <1>2, <1>3, <1>4
     DEF Next, BookSeats, BookStart, BookRead, BookRefuse, BookSoldOut, BookRollback,
         CancelBooking, CancelLock, CancelRollback, MoveTrip, AcceptLock, AdvanceLock,
         MoverRead, MoverRollback, VerifyPassenger, VerifyHold, VerifyRefuse,
         VerifyRollback, Tick, vars, data

(* At first nobody has a booking.                                          *)
LEMMA InitLimitInv == Init => LimitInv
<1> SUFFICES ASSUME Init PROVE LimitInv OBVIOUS
<1>1. \A p \in Passengers : ActiveOf(p) = {}
  BY DEF Init, ActiveOf, Absent, ACTIVE_BOOKING_STATUSES, CANCELLABLE_STATUSES
<1>2. ActiveLimitHolds
  BY <1>1, FS_EmptySet, MaxActiveAssumption DEF ActiveLimitHolds
<1>3. LimitStillMet
  BY DEF Init, LimitStillMet, Ended
<1>4. QED BY <1>2, <1>3 DEF LimitInv

(* A sale is within the limit that was checked under the lock.             *)
LEMMA BookCommitLimitInv ==
  ASSUME TypeOK, LockInv, LimitInv, NEW b \in Bookings, BookCommit(b)
  PROVE  LimitInv'
<1> USE DEF LimitInv
<1> DEFINE p == PassengerOf[b]
<1>1. /\ Cardinality(ActiveOf(p)) < MaxActive
      /\ \A a \in PassengerHolders(p) : a = b
  BY DEF BookCommit, LimitStillMet
<1>2. /\ book' = [book EXCEPT ![b] = Ended("done")]
      /\ \A a \in Bookings \ {b} : booking'[a] = booking[a]
  BY DEF BookCommit, TypeOK
<1>3. \A q : ActiveOf(q)' \subseteq ActiveOf(q) \cup (IF q = p THEN {b} ELSE {})
  BY <1>2 DEF ActiveOf
<1>4. Cardinality(ActiveOf(p)') <= Cardinality(ActiveOf(p)) + 1
  <2>1. /\ IsFiniteSet(ActiveOf(p) \cup {b})
        /\ Cardinality(ActiveOf(p) \cup {b}) <= Cardinality(ActiveOf(p)) + 1
    <3>1. IsFiniteSet(ActiveOf(p)) /\ Cardinality(ActiveOf(p)) \in Nat
      BY ActiveFinite
    <3>2. /\ IsFiniteSet(ActiveOf(p) \cup {b})
          /\ Cardinality(ActiveOf(p) \cup {b}) =
               IF b \in ActiveOf(p) THEN Cardinality(ActiveOf(p))
               ELSE Cardinality(ActiveOf(p)) + 1
      BY <3>1, FS_AddElement
    <3>3. QED BY <3>1, <3>2
  <2>2. ActiveOf(p)' \subseteq ActiveOf(p) \cup {b}
    BY <1>3
  <2>3. /\ IsFiniteSet(ActiveOf(p)')
        /\ Cardinality(ActiveOf(p)') <= Cardinality(ActiveOf(p) \cup {b})
    BY <2>1, <2>2, FS_Subset
  <2>4. QED BY <2>1, <2>3, ActiveFinite, FS_CardinalityType
<1>5. ASSUME NEW q, q # p PROVE Cardinality(ActiveOf(q)') <= Cardinality(ActiveOf(q))
  BY <1>3, <1>5, ActiveFinite, FS_Subset
<1>6. ActiveLimitHolds'
  <2> SUFFICES ASSUME NEW q \in Passengers PROVE Cardinality(ActiveOf(q)') <= MaxActive
    BY DEF ActiveLimitHolds
  <2>1. Cardinality(ActiveOf(q)') \in Nat
    BY ActiveFinite, FS_Subset, FS_CardinalityType, RequestAssumption DEF ActiveOf
  <2>2. CASE q = p
    BY <1>1, <1>4, <2>1, <2>2, ActiveFinite, MaxActiveAssumption
  <2>3. CASE q # p
    BY <1>5, <2>1, <2>3, ActiveFinite, MaxActiveAssumption DEF ActiveLimitHolds
  <2>4. QED BY <2>2, <2>3
<1>7. LimitStillMet'
  <2> SUFFICES ASSUME NEW a \in Bookings, book'[a].pc = "read"
               PROVE  /\ Cardinality(ActiveOf(PassengerOf[a])') < MaxActive
                      /\ \A x \in PassengerHolders(PassengerOf[a])' : x = a
    BY DEF LimitStillMet
  <2>1. a # b /\ book[a].pc = "read"
    BY <1>2 DEF Ended, TypeOK
  <2>2. PassengerOf[a] # p
    BY <1>1, <2>1 DEF PassengerHolders
  <2>3. /\ Cardinality(ActiveOf(PassengerOf[a])) < MaxActive
        /\ \A x \in PassengerHolders(PassengerOf[a]) : x = a
    BY <2>1 DEF LimitStillMet
  <2>4. Cardinality(ActiveOf(PassengerOf[a])') \in Nat
    BY FS_Subset, FS_CardinalityType, RequestAssumption DEF ActiveOf
  <2>5. Cardinality(ActiveOf(PassengerOf[a])') < MaxActive
    BY <1>5, <2>2, <2>3, <2>4, ActiveFinite, MaxActiveAssumption
  <2>6. PassengerHolders(PassengerOf[a])' \subseteq PassengerHolders(PassengerOf[a])
    BY <1>2 DEF PassengerHolders, Ended, TypeOK
  <2>7. QED BY <2>3, <2>5, <2>6
<1>8. QED BY <1>6, <1>7

(* Every step keeps the limit, and the counts made under a lock true.      *)
LEMMA NextLimitInv == TypeOK /\ LockInv /\ LimitInv /\ [Next]_vars => LimitInv'
<1> SUFFICES ASSUME TypeOK, LockInv, LimitInv, [Next]_vars PROVE LimitInv' OBVIOUS
<1> USE DEF LimitInv
<1>1. CASE \E b \in Bookings : BookCommit(b)
  BY <1>1, BookCommitLimitInv
<1>2. CASE \A b \in Bookings : ~BookCommit(b)
  <2>1. ASSUME NEW p
        PROVE  /\ Cardinality(ActiveOf(p)') \in Nat
               /\ Cardinality(ActiveOf(p)') <= Cardinality(ActiveOf(p))
    BY <1>2, ActiveShrinks, ActiveFinite, FS_Subset, FS_CardinalityType
  <2>2. ActiveLimitHolds'
    BY <2>1, ActiveFinite, MaxActiveAssumption DEF ActiveLimitHolds
  <2>3. CASE \E b \in Bookings : BookRead(b)
    <3>1. PICK b \in Bookings : BookRead(b) BY <2>3
    <3>2. /\ PassengerHolders(PassengerOf[b]) = {}
          /\ Cardinality(ActiveOf(PassengerOf[b])) < MaxActive
          /\ book' = [book EXCEPT ![b].pc = "read", ![b].seen = trip]
      BY <3>1 DEF BookRead, MayBook
    <3> SUFFICES ASSUME NEW a \in Bookings, book'[a].pc = "read"
                 PROVE  /\ Cardinality(ActiveOf(PassengerOf[a])') < MaxActive
                        /\ \A x \in PassengerHolders(PassengerOf[a])' : x = a
      BY <2>2 DEF LimitStillMet
    <3>3. \A q : PassengerHolders(q)' \subseteq
                   PassengerHolders(q) \cup (IF q = PassengerOf[b] THEN {b} ELSE {})
      BY <3>2 DEF PassengerHolders, TypeOK
    <3>4. Cardinality(ActiveOf(PassengerOf[a])) < MaxActive
      BY <3>2 DEF LimitStillMet, TypeOK
    <3>5. \A x \in PassengerHolders(PassengerOf[a])' : x = a
      <4>1. CASE a = b
        BY <3>2, <3>3, <4>1
      <4>2. CASE a # b
        <5>1. book[a].pc = "read" BY <3>2, <4>2 DEF TypeOK
        <5>2. PassengerOf[a] # PassengerOf[b]
          BY <3>2, <5>1 DEF PassengerHolders
        <5>3. QED BY <3>3, <5>1, <5>2 DEF LimitStillMet
      <4>3. QED BY <4>1, <4>2
    <3>6. QED BY <2>1, <3>4, <3>5, ActiveFinite, MaxActiveAssumption
  <2>4. CASE \A b \in Bookings : book'[b].pc = "read" => book[b].pc = "read"
    <3>1. \A q : PassengerHolders(q)' \subseteq PassengerHolders(q)
      BY <2>4 DEF PassengerHolders
    <3>2. LimitStillMet'
      <4> SUFFICES ASSUME NEW a \in Bookings, book'[a].pc = "read"
                   PROVE  /\ Cardinality(ActiveOf(PassengerOf[a])') < MaxActive
                          /\ \A x \in PassengerHolders(PassengerOf[a])' : x = a
        BY DEF LimitStillMet
      <4>1. /\ Cardinality(ActiveOf(PassengerOf[a])) < MaxActive
            /\ \A x \in PassengerHolders(PassengerOf[a]) : x = a
        BY <2>4 DEF LimitStillMet
      <4>2. QED BY <2>1, <3>1, <4>1, ActiveFinite, MaxActiveAssumption
    <3>3. QED BY <2>2, <3>2
  <2>5. (\E b \in Bookings : BookRead(b))
          \/ (\A b \in Bookings : book'[b].pc = "read" => book[b].pc = "read")
    <3>1. CASE book' = book
      BY <3>1
    <3>2. ASSUME NEW a \in Bookings, BookSeats(a)
          PROVE  \/ BookRead(a)
                 \/ \A b \in Bookings : book'[b].pc = "read" => book[b].pc = "read"
      <4>1. CASE BookStart(a)
        BY <4>1 DEF BookStart, TypeOK
      <4>2. CASE BookRefuse(a) \/ BookSoldOut(a) \/ BookRollback(a)
        <5>1. book' = [book EXCEPT ![a] = Ended("refused")]
          BY <4>2 DEF BookRefuse, BookSoldOut, BookRollback
        <5>2. QED BY <5>1 DEF Ended, TypeOK
      <4>3. QED BY <1>2, <3>2, <4>1, <4>2 DEF BookSeats
    <3>3. QED
      BY <3>1, <3>2
         DEF Next, CancelBooking, CancelLock, CancelCommit, CancelRollback, MoveTrip,
             AcceptLock, AdvanceLock, MoverRead, MoverCommit, MoverRollback,
             VerifyPassenger, VerifyHold, VerifyCommit, VerifyRefuse, VerifyRollback,
             Tick, vars
  <2>6. QED BY <2>3, <2>4, <2>5
<1>3. QED BY <1>1, <1>2

(* No passenger ever holds more active bookings than the limit: the count  *)
(* made under the passenger's lock is still right at the insert.           *)
THEOREM LimitHolds == Spec => []ActiveLimitHolds
<1>1. LimitInv => ActiveLimitHolds BY DEF LimitInv
<1>2. QED BY <1>1, TypeCorrect, LocksHold, InitLimitInv, NextLimitInv, PTL DEF Spec

(* All that the proofs carry from step to step, in one: the locks hold,    *)
(* the data agrees and the limit is met.                                   *)
THEOREM BookingHolds == Spec => []IndInv
<1>1. TypeOK /\ LockInv /\ DataInv /\ LimitInv => IndInv BY DEF IndInv
<1>2. Spec => []LimitInv
  BY TypeCorrect, LocksHold, InitLimitInv, NextLimitInv, PTL DEF Spec
<1>3. QED BY <1>1, <1>2, TypeCorrect, LocksHold, DataAgrees, PTL

(***************************************************************************)
(* The trip implements SeatSale.                                           *)
(***************************************************************************)

(* The initial state maps to an initial state of SeatSale.                 *)
LEMMA InitImplements == Init => Inventory!Init
<1> SUFFICES ASSUME Init PROVE Inventory!Init OBVIOUS
<1>1. \A b \in Bookings : booking[b] = Absent /\ SeatsOf(b) = {}
  BY NullAssumption DEF Init, SeatsOf, FreeSeat
<1>2. QED BY <1>1 DEF Inventory!Init, Phase, Taken

(* BookCommit maps to the sale of its booking.                             *)
LEMMA BookCommitSells ==
  ASSUME TypeOK, LockInv, DataInv, NEW b \in Bookings, BookCommit(b)
  PROVE  Inventory!Sell(b)
<1>1. /\ booking[b] = Absent /\ booking'[b] # Absent
      /\ \A a \in Bookings \ {b} : booking'[a] = booking[a]
      /\ cancellations' = cancellations
  BY DEF BookCommit, LockInv, AbsentUntilDone, FirstStatus, Absent, TypeOK
<1>2. PICK S \in SUBSET AvailableSeats :
        /\ Cardinality(S) = SeatCount[b]
        /\ seat' = [s \in Seats |->
                      IF s \in S THEN [status |-> "RESERVED", booking |-> b] ELSE seat[s]]
  BY DEF BookCommit, Reserved
<1>3. \A s \in S : s \in Seats /\ seat[s].booking = NoBooking
  BY DEF AvailableSeats, FreeSeat
<1>4. S \subseteq {s \in Seats : \A a \in Bookings : s \notin Taken[a]}
  BY <1>3, NullAssumption DEF Taken, SeatsOf
<1>5. SeatsOf(b) = {} /\ ~Withdrawn(b)
  <2>1. SeatsOf(b) = {}
    BY <1>1, NoSeats DEF DataInv, SeatsMatchBookings, SeatsDue
  <2>2. cancellations[b] = << >>
    BY <1>1 DEF DataInv, RecordsExplained, Absent
  <2>3. QED BY <2>1, <2>2 DEF Withdrawn
<1>6. Taken' = [Taken EXCEPT ![b] = S]
  <2>1. SeatsOf(b)' = S
    BY <1>2, <1>3, <1>5 DEF SeatsOf
  <2>2. \A a \in Bookings \ {b} : SeatsOf(a)' = SeatsOf(a)
    BY <1>2, <1>3, NullAssumption DEF SeatsOf
  <2>3. QED BY <2>1, <2>2 DEF Taken
<1>7. Phase[b] = "new" /\ Phase' = [Phase EXCEPT ![b] = "sold"]
  BY <1>1, <1>5 DEF Phase, Withdrawn
<1>8. S \in SUBSET Inventory!Free
  BY <1>4 DEF Inventory!Free, Taken
<1>9. \E T \in SUBSET Inventory!Free :
        /\ Cardinality(T) = SeatCount[b]
        /\ Taken' = [Taken EXCEPT ![b] = T]
  <2>1. WITNESS S \in SUBSET Inventory!Free
  <2>2. QED BY <1>2, <1>6
<1>10. QED BY <1>7, <1>9 DEF Inventory!Sell, Inventory!Cardinality, Cardinality

(* CancelCommit maps to the withdrawal of its booking.                     *)
LEMMA CancelCommitWithdraws ==
  ASSUME TypeOK, LockInv, DataInv, NEW c \in Cancels, CancelCommit(c)
  PROVE  \E b \in Bookings : Inventory!Withdraw(b)
<1>1. PICK b \in Bookings : b = cancel[c].booking /\ booking[b] \in CANCELLABLE_STATUSES
  BY HeldRow DEF CancelCommit, LockInv
<1>2. cancellations[b] = << >>
  BY <1>1 DEF DataInv, RecordsExplained, CANCELLABLE_STATUSES
<1>3. /\ booking' = [booking EXCEPT ![b] = "CANCELLED"]
      /\ seat' = [s \in Seats |-> IF seat[s].booking = b THEN FreeSeat ELSE seat[s]]
      /\ cancellations' = [cancellations EXCEPT ![b] = Append(@, "request")]
  BY <1>1 DEF CancelCommit, Released
<1>4. cancellations'[b] = <<"request">>
  BY <1>2, <1>3 DEF TypeOK
<1>5. Taken' = [Taken EXCEPT ![b] = {}]
  <2>1. SeatsOf(b)' = {}
    BY <1>3, NullAssumption DEF SeatsOf, FreeSeat
  <2>2. \A a \in Bookings \ {b} : SeatsOf(a)' = SeatsOf(a)
    BY <1>3, NullAssumption DEF SeatsOf, FreeSeat
  <2>3. QED BY <2>1, <2>2 DEF Taken
<1>6. ~Withdrawn(b) /\ Withdrawn(b)'
  BY <1>2, <1>4 DEF Withdrawn
<1>7. \A a \in Bookings \ {b} : /\ Withdrawn(a)' <=> Withdrawn(a)
                               /\ booking'[a] = booking[a]
  BY <1>3 DEF Withdrawn, TypeOK
<1>8. booking[b] # Absent /\ booking'[b] # Absent
  BY <1>1, <1>3 DEF Absent, CANCELLABLE_STATUSES, TypeOK
<1>9. Phase[b] = "sold" /\ Phase' = [Phase EXCEPT ![b] = "withdrawn"]
  BY <1>6, <1>7, <1>8 DEF Phase
<1>10. QED BY <1>5, <1>9 DEF Inventory!Withdraw

(* A step that moves no seat and no withdrawal is a stutter of SeatSale.   *)
LEMMA SameHoldingsStutter ==
  ASSUME SameHoldings PROVE Phase' = Phase /\ Taken' = Taken
BY DEF SameHoldings, Phase, Taken

(* Every step maps to a step of SeatSale or to a stutter.                  *)
LEMMA NextImplements ==
  ASSUME TypeOK, LockInv, DataInv, [Next]_vars
  PROVE  (\E b \in Bookings : Inventory!Sell(b) \/ Inventory!Withdraw(b))
           \/ (Phase' = Phase /\ Taken' = Taken)
<1>1. CASE UNCHANGED <<booking, seat, cancellations>>
  BY <1>1 DEF Phase, Taken, SeatsOf, Withdrawn
<1>2. QED
  BY <1>1, BookCommitSells, CancelCommitWithdraws, MoverKeepsHoldings,
     VerifyKeepsHoldings, SameHoldingsStutter
     DEF Next, BookSeats, BookStart, BookRead, BookRefuse, BookSoldOut, BookRollback,
         CancelBooking, CancelLock, CancelRollback, MoveTrip, AcceptLock, AdvanceLock,
         MoverRead, MoverRollback, VerifyPassenger, VerifyHold, VerifyRefuse,
         VerifyRollback, Tick, vars, data

(* Every behaviour of the trip, under any interleaving of its requests, is *)
(* one of the seat sale: no seat is sold twice, no booking gets part of    *)
(* what it asked for, and a withdrawn booking never has seats again.       *)
THEOREM TripImplementsSeatSale == Spec => ImplementsSeatSale
<1>1. TypeOK /\ LockInv /\ DataInv /\ [Next]_vars =>
        [Inventory!Next]_<<Phase, Taken>>
  BY NextImplements DEF Inventory!Next
<1>2. QED
  BY <1>1, InitImplements, TypeCorrect, LocksHold, DataAgrees, PTL
     DEF Spec, ImplementsSeatSale, Inventory!Spec

(***************************************************************************)
(* Who waits for whom.                                                     *)
(***************************************************************************)

(* Who is in a set that waiting does not lead out of stays in it, and who  *)
(* is not in one is not ahead of itself.                                   *)
LEMMA NotAheadOfItself ==
  ASSUME NEW p, NEW X, Closed(WaitsFor, X), Successors(WaitsFor, {p}) \subseteq X, p \notin X
  PROVE  p \notin Ahead(p)
<1>1. SUFFICES ASSUME p \in Ahead(p) PROVE FALSE
  OBVIOUS
<1>2. PICK q \in Successors(WaitsFor, {p}) : p \in ReachableFrom(WaitsFor, q)
  BY <1>1 DEF Ahead
<1> DEFINE S == X \cap ({q} \cup Targets(WaitsFor))
<1>3. q \in S
  BY <1>2
<1>4. Closed(WaitsFor, S)
  BY DEF Closed, Targets
<1>5. p \in S
  BY <1>2, <1>3, <1>4 DEF ReachableFrom
<1>6. QED BY <1>5

(* The kinds of request that wait for each other.                          *)
LEMMA WaitKinds ==
  ASSUME NEW hop \in WaitsFor
  PROVE  \/ /\ hop[1] \in Bookings /\ book[hop[1]].pc = "started"
            /\ hop[2] \in Bookings \ {hop[1]} /\ book[hop[2]].pc = "read"
         \/ /\ hop[1] \in Bookings /\ book[hop[1]].pc = "read"
            /\ hop[2] \in Movers \cup Boarders
         \/ hop[1] \in Cancels /\ hop[2] \in Movers
         \/ hop[1] \in Movers /\ hop[2] \in Cancels
         \/ hop[1] \in Boarders /\ hop[2] \in Cancels
<1>1. CASE hop \in BookWaits
  <2>1. CASE hop \in {b \in Bookings : book[b].pc = "read"} \X TripForUpdateBlockers
    BY <2>1 DEF TripForUpdateBlockers, TripExclusive, TripNoKey
  <2>2. CASE hop \notin {b \in Bookings : book[b].pc = "read"} \X TripForUpdateBlockers
    <3>1. PICK b \in {x \in Bookings : book[x].pc = "started"} :
            hop \in {b} \X (PassengerHolders(PassengerOf[b]) \ {b})
      BY <1>1, <2>2 DEF BookWaits
    <3>2. QED BY <3>1 DEF PassengerHolders
  <2>3. QED BY <2>1, <2>2
<1>2. CASE hop \in CancelWaits
  BY <1>2 DEF CancelWaits, TripForKeyShareBlockers, TripExclusive
<1>3. CASE hop \in MoverWaits
  BY <1>3 DEF MoverWaits, RowHolders
<1>4. CASE hop \in BoardWaits
  BY <1>4 DEF BoardWaits, RowHolders
<1>5. QED BY <1>1, <1>2, <1>3, <1>4 DEF WaitsFor

(* A boarding waits for cancellations only, these wait for moves and moves *)
(* for cancellations: nobody there waits for a boarding, or for a booking. *)
LEMMA BoardersApart ==
  ASSUME NEW v \in Boarders PROVE v \notin Ahead(v)
<1> DEFINE X == Cancels \cup Movers
<1>1. Closed(WaitsFor, X)
  BY WaitKinds, KindsAssumption DEF Closed
<1>2. Successors(WaitsFor, {v}) \subseteq X
  BY WaitKinds, KindsAssumption DEF Successors
<1>3. v \notin X
  BY KindsAssumption
<1>4. QED BY <1>1, <1>2, <1>3, NotAheadOfItself

(* A booking waits for another of its passenger's that is further on, or   *)
(* for the trip: nobody there waits for a booking that has just started.   *)
LEMMA BookingsApart ==
  ASSUME NEW b \in Bookings PROVE b \notin Ahead(b)
<1> DEFINE OnTrip == Cancels \cup Movers \cup Boarders
           Further == {c \in Bookings : book[c].pc = "read"}
<1>1. CASE book[b].pc = "read"
  <2>1. Closed(WaitsFor, OnTrip)
    BY WaitKinds, KindsAssumption DEF Closed
  <2>2. Successors(WaitsFor, {b}) \subseteq OnTrip
    BY <1>1, WaitKinds, KindsAssumption DEF Successors
  <2>3. b \notin OnTrip
    BY KindsAssumption
  <2>4. QED BY <2>1, <2>2, <2>3, NotAheadOfItself
<1>2. CASE book[b].pc # "read"
  <2>1. Closed(WaitsFor, OnTrip \cup Further)
    BY WaitKinds, KindsAssumption DEF Closed
  <2>2. Successors(WaitsFor, {b}) \subseteq OnTrip \cup Further
    BY <1>2, WaitKinds, KindsAssumption DEF Successors
  <2>3. b \notin OnTrip \cup Further
    BY <1>2, KindsAssumption
  <2>4. QED
    <3> HIDE DEF OnTrip, Further
    <3> QED BY <2>1, <2>2, <2>3, NotAheadOfItself
<1>3. QED BY <1>1, <1>2

(* Neither a boarding nor a booking is ever part of a deadlock, whatever   *)
(* the requests on the trip are (TripRepository.hold_for_boarding).        *)
THEOREM BoardingOutOfDeadlocks == Spec => []BoardingNeverDeadlocks
<1>1. BoardingNeverDeadlocks
  BY BoardersApart, BookingsApart DEF BoardingNeverDeadlocks
<1>2. QED BY <1>1, PTL
=============================================================================
