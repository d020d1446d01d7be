----------------------------- MODULE Lifecycles -----------------------------
(***************************************************************************)
(* The status tables of backend/domain/lifecycles.py and the questions     *)
(* backend/domain/state_machine.py answers about them.  A lifecycle is a   *)
(* relation: a set of pairs <<from, to>>, one for each declared hop.       *)
(***************************************************************************)
EXTENDS Naturals, FiniteSets

TripStatus ==
  {"SCHEDULED", "REQUESTED", "DRIVER_ASSIGNED", "DRIVER_ARRIVING",
   "ARRIVED_AT_PICKUP", "BOARDING", "IN_TRANSIT", "ARRIVED",
   "COMPLETED", "CANCELLED", "EXPIRED", "NO_DRIVER_AVAILABLE"}

BookingStatus ==
  {"PENDING", "CONFIRMED", "DRIVER_ASSIGNED", "READY", "ONBOARD",
   "COMPLETED", "CANCELLED", "NO_SHOW"}

(* One row of the table: from a status to each of a set of next ones.      *)
From(s, nexts) == {s} \X nexts

TRIP_LIFECYCLE == UNION {
  From("SCHEDULED", {"DRIVER_ASSIGNED", "CANCELLED", "EXPIRED"}),
  From("REQUESTED",
       {"DRIVER_ASSIGNED", "NO_DRIVER_AVAILABLE", "CANCELLED", "EXPIRED"}),
  From("DRIVER_ASSIGNED",
       {"DRIVER_ARRIVING", "REQUESTED", "SCHEDULED", "CANCELLED"}),
  From("DRIVER_ARRIVING", {"ARRIVED_AT_PICKUP", "REQUESTED", "CANCELLED"}),
  From("ARRIVED_AT_PICKUP", {"BOARDING", "CANCELLED"}),
  From("BOARDING", {"IN_TRANSIT", "CANCELLED"}),
  From("IN_TRANSIT", {"ARRIVED"}),
  From("ARRIVED", {"COMPLETED"})}

BOOKING_LIFECYCLE == UNION {
  From("PENDING", {"CONFIRMED", "CANCELLED"}),
  From("CONFIRMED", {"DRIVER_ASSIGNED", "CANCELLED"}),
  From("DRIVER_ASSIGNED", {"READY", "CONFIRMED", "CANCELLED"}),
  From("READY", {"ONBOARD", "CANCELLED", "NO_SHOW"}),
  From("ONBOARD", {"COMPLETED"})}

SETTLEMENT_LIFECYCLE == UNION {
  From("PENDING", {"PROCESSING", "REJECTED"}),
  From("PROCESSING", {"PAID", "REJECTED"})}

TICKET_LIFECYCLE == UNION {
  From("OPEN", {"IN_PROGRESS", "RESOLVED", "CLOSED"}),
  From("IN_PROGRESS", {"RESOLVED", "CLOSED"}),
  From("RESOLVED", {"IN_PROGRESS", "CLOSED"})}

(* StateMachine.can and StateMachine.is_terminal, for a lifecycle L.       *)
Can(L, current, target) == <<current, target>> \in L
IsTerminal(L, s) == \A hop \in L : hop[1] # s

(* The statuses some declared route leads to from s (s itself, by the      *)
(* empty route): those in every set that holds s and is closed under the   *)
(* declared hops.  LifecyclePath models the search StateMachine.path makes *)
(* for such a route.                                                       *)
Successors(L, S) == {hop[2] : hop \in {h \in L : h[1] \in S}}
Targets(L)       == {hop[2] : hop \in L}
Closed(L, S)     == \A hop \in L : hop[1] \in S => hop[2] \in S
ReachableFrom(L, s) ==
  {t \in {s} \cup Targets(L) :
     \A S \in SUBSET ({s} \cup Targets(L)) : s \in S /\ Closed(L, S) => t \in S}

(* A trip that ends without anybody travelling.                            *)
CALLED_OFF == {"CANCELLED", "EXPIRED", "NO_DRIVER_AVAILABLE"}

BOOKABLE_TRIP_STATUSES ==
  {"SCHEDULED", "DRIVER_ASSIGNED", "DRIVER_ARRIVING", "ARRIVED_AT_PICKUP"}

CANCELLABLE_STATUSES == {"PENDING", "CONFIRMED", "DRIVER_ASSIGNED", "READY"}

(* The bookings active_for_trip and count_active_for_passenger select.     *)
ACTIVE_BOOKING_STATUSES == CANCELLABLE_STATUSES \cup {"ONBOARD"}

(* The booking status a trip's status implies; NoTarget when the table of  *)
(* TRIP_TO_BOOKING_STATUS has no entry, and the cascade does nothing.      *)
NoTarget == "no target"
TRIP_TO_BOOKING_STATUS(t) ==
  CASE t = "DRIVER_ASSIGNED"   -> "DRIVER_ASSIGNED"
    [] t = "ARRIVED_AT_PICKUP" -> "READY"
    [] t = "IN_TRANSIT"        -> "ONBOARD"
    [] t = "COMPLETED"         -> "COMPLETED"
    [] t \in CALLED_OFF        -> "CANCELLED"
    [] OTHER                   -> NoTarget

BookingReach == [s \in BookingStatus |-> ReachableFrom(BOOKING_LIFECYCLE, s)]

(* Booking.follow_trip: walk the declared route to the target, however     *)
(* many hops it takes; stay put when the booking is finished or when no    *)
(* route leads there.  A finished status has no way out, so a walk never   *)
(* crosses one on its way to another status.                               *)
FollowTrip(s, target) ==
  IF target \in BookingReach[s] /\ ~IsTerminal(BOOKING_LIFECYCLE, s)
  THEN target ELSE s
=============================================================================
