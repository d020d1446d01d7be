SPECIFICATION MCSpec
CONSTANTS
  cash = cash
  online = online
  Settlements = {s1, s2, s3}
  Deciders = {o1, o2}
  Fares = {cash, online}
  FareEffect <- MCFareEffect
  Amounts <- MCAmounts
  Minimum = 2
  NoSettlement = NoSettlement
  s1 = s1
  s2 = s2
  s3 = s3
  o1 = o1
  o2 = o2
  passenger = passenger
  b1 = b1
  b2 = b2
  c1 = c1
  m1 = m1
  v1 = v1
  Seats = {w1, w2}
  Bookings = {b1, b2}
  Passengers = {passenger}
  PassengerOf <- MCPassengerOf
  SeatCount <- MCSeatCount
  MaxActive = 1
  Drivers = {d1}
  Movers = {m1}
  Cancels = {c1}
  Boarders = {v1}
  NoDriver = NoDriver
  NoBooking = NoBooking
CHECK_DEADLOCK FALSE
INVARIANTS
  PendingIsTheOpenOne
  LedgerReconciles
PROPERTIES
  SettlementKeepsLifecycle
  ImplementsAccount
  EveryRequestEnds
  EveryTripRequestEnds
