SPECIFICATION RoutesSpec
CONSTANTS
  s1 = s1
  s2 = s2
  Scope <- MCScope
  LastSequence = 2
  Generators = {g1}
  Pricers = {p1, p2}
  Prices = {10, 20}
  SeedPrice = 5
  LastDay = 2
  NoEnd = NoEnd
CHECK_DEADLOCK FALSE
INVARIANTS
  PriceIsTheLastSet
