SPECIFICATION MCSpec
CONSTANTS
  r3 = r3
  p1 = p1
  p2 = p2
  Requests = {r3}
  Offers = {o1}
  Scheduled = {t1}
  Drivers = {d1}
  Accepts = {a1}
  Movers = {m1}
  Desks = {k1}
  AdvanceTargets = {"CANCELLED"}
  Passengers = {p1, p2}
  PassengerOf <- MCPassengerOf
  MaxActive = 1
  NoRequest = NoRequest
  NoDriver = NoDriver
  NoOffer = NoOffer
  NoTrip = NoTrip
SYMMETRY MCSymmetry
CHECK_DEADLOCK FALSE
INVARIANTS
  SuspendedHasNoTrip
