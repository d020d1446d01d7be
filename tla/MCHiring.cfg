SPECIFICATION MCSpec
CONSTANTS
  r3 = r3
  p1 = p1
  p2 = p2
  Requests = {r1, r2, r3}
  Offers = {o1, o2, o3}
  Scheduled = {t1}
  Drivers = {d1, d2}
  Accepts = {a1, a2}
  Movers = {m1}
  Desks = {k1}
  AdvanceTargets = {"CANCELLED", "DRIVER_ARRIVING"}
  Passengers = {p1, p2}
  PassengerOf <- MCPassengerOf
  MaxActive = 2
  NoRequest = NoRequest
  NoDriver = NoDriver
  NoOffer = NoOffer
  NoTrip = NoTrip
SYMMETRY MCSymmetry
CHECK_DEADLOCK FALSE
INVARIANTS
  OneOpenRequest
  OneRidePerRequest
  DriverHasOneTrip
PROPERTIES
  AnswersAreFinal
  RefusedOnlyForALiveRequest
  HiredWhileFit
  ImplementsMatching
