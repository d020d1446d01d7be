SPECIFICATION Spec
CONSTANTS
  passenger = passenger
  Seats = {s1, s2}
  Bookings = {b1, b2}
  Passengers = {passenger}
  PassengerOf <- MCPassengerOf
  SeatCount <- MCSeatCount
  MaxActive = 1
  Drivers = {d1, d2}
  Movers = {m1, m2}
  Cancels = {c1, c2}
  Boarders = {v1}
  NoDriver = NoDriver
  NoBooking = NoBooking
SYMMETRY MCSymmetry
CHECK_DEADLOCK FALSE
PROPERTIES
  SoldOnlyWhileBookable
