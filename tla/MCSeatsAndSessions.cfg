SPECIFICATION MCSpec
CONSTANTS
  b1 = b1
  b2 = b2
  b3 = b3
  p1 = p1
  p2 = p2
  number = number
  Seats = {w1, w2}
  Drivers = {x1, x2}
  Cancels = {y1, y2}
  Movers = {z1, z2}
  Bookings = {b1, b2, b3}
  Passengers = {p1, p2}
  PassengerOf <- MCPassengerOf
  SeatCount <- MCSeatCount
  MaxActive = 1
  Boarders = {v1}
  NoDriver = NoDriver
  NoBooking = NoBooking
  Verifiers = {w1, w2}
  Refreshers = {x1, x2}
  Codes = {y1, y2}
  Accounts = {z1, z2}
  Phones = {number}
  Enders = {e1}
  Bookers = {k1}
  NoAccount = NoAccount
  NoPhone = NoPhone
  NoCode = NoCode
  NoToken = NoToken
  CodePhone <- MCCodePhone
  VerifierPhone <- MCVerifierPhone
  EnderKinds <- MCEnderKinds
  MaxAttempts = 2
  MaxPerWindow = 1
SYMMETRY MCSymmetry
CHECK_DEADLOCK FALSE
INVARIANTS
  IndInv
  SeatsMatchBookings
  OccupiedMeansAboard
  OneCancellationRecord
  SettledOnceIffCompleted
  ActiveLimitHolds
  BoardingNeverDeadlocks
  EveryGuessIsPaidFor
  CodesAreRationed
  OnlyAnOverlapSurvives
  OnlyDeletionDeadlocks
PROPERTIES
  LifecyclesAreKept
  ImplementsSeatSale
  ImplementsSignInChain
