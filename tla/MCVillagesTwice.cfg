SPECIFICATION VillagesSpec
CONSTANTS
  j1 = j1
  Jobs = {j1}
  File <- MCFile
  Clicks = {c1, c2}
  Clicked <- MCClicked
  Pins = {}
  Points = {}
  NoPoint = NoPoint
  NoCode = NoCode
CHECK_DEADLOCK FALSE
INVARIANT
  EachRowImportedOnce
