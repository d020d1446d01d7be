SPECIFICATION DispatchSpec
CONSTANTS
  Runs = {i1}  Crew = {dr1}  BigEnough <- MCBigEnough
  Presses = {o1, o2}  Scripts = {x1}  MaxOffers = 1
  NoRun = NoRun  NoCrew = NoCrew
CHECK_DEADLOCK FALSE
INVARIANT
  OneCardOnAScreen
