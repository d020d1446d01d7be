SPECIFICATION GarageSpec
CONSTANTS
  r1 = r1
  r2 = r2
  r3 = r3
  driver = driver
  pa = pa
  pb = pb
  Registrations = {r1, r2, r3}
  CarDecisions = {x1}
  CarUploads = {}
  CarErasers = {}
  ErasedDriver <- MCErased
  Drivers = {driver}
  Plates = {pa, pb}
  CarDriver <- MCCarDriver
  CarPlate <- MCCarPlate
  NoCar = NoCar
CHECK_DEADLOCK FALSE
INVARIANTS
  PlateTakenIsNamed
