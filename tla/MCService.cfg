SPECIFICATION MCSpec
CONSTANTS
  a1 = a1 a2 = a2 a3 = a3 a4 = a4 k1 = k1 k2 = k2 d1 = d1 d2 = d2 d3 = d3 t1 = t1 t2 = t2
  Arrivals = {a1, a2, a3, a4}  UserKeys = {k1, k2}  NoArrival = NoArrival  Room = 2
  ArrivalKey <- MCArrivalKey  Digest <- MCDigest  Target <- MCTarget
  Tries = {v1, v2, v3, v4, v5}  MaxCodes = 2  MaxPeriods = 2
  q1 = q1 q2 = q2 q3 = q3 y1 = y1
  Raisers = {q1, q2, q3}  Hands = {h1, h2}  Years = {y1}  YearOf <- MCYearOf  NoTicket = NoTicket
  g1 = g1 g2 = g2 g3 = g3 p1 = p1 p2 = p2 driver = driver
  Ratings = {g1, g2, g3}  RatingBy <- MCRatingBy  RatingOf <- MCRatingOf  Score <- MCScore
  u1 = u1 u2 = u2 document = document
  Holders = {driver}  Types = {document}  Uploads = {u1, u2}  Reviews = {w1, w2}
  Verdicts = {x1}  Erasers = {e1}  NoPaper = NoPaper  NoHolder = NoHolder
  UploadHolder <- MCUploadHolder  UploadType <- MCUploadType
  r1 = r1 r2 = r2 r3 = r3 r4 = r4 pa = pa pb = pb pq = pq
  Registrations = {r1, r2, r3, r4}  CarDecisions = {x2}  CarUploads = {x4}  CarErasers = {e2}  Drivers = {driver}  Plates = {pa, pb, pq}
  CarDriver <- MCCarDriver  CarPlate <- MCCarPlate  ErasedDriver <- MCErased  NoCar = NoCar
  i1 = i1 i2 = i2 dr1 = dr1 dr2 = dr2
  Runs = {i1, i2}  Crew = {dr1, dr2}  BigEnough <- MCBigEnough  Presses = {o3, o4}
  Scripts = {x3}  MaxOffers = 2  NoRun = NoRun  NoCrew = NoCrew
  j1 = j1 j2 = j2 c1 = c1 c2 = c2 c3 = c3
  Jobs = {j1, j2}  File <- MCFile  Clicks = {c1, c2, c3}  Clicked <- MCClicked
  Pins = {n1, n2}  Points = {o1, o2}  NoPoint = NoPoint  NoCode = NoCode
  s1 = s1 s2 = s2
  Scope <- MCScope  LastSequence = 2  Generators = {m1, m2}  Pricers = {f1, f2}
  Prices = {10, 20}  SeedPrice = 5  LastDay = 3  NoEnd = NoEnd
  atVillage = 1
  Reports = {b1, b2, b3}  Names = {l1, l2}  Spots = {1, 2, 3}  Deciders = {z1}
  NoRename = NoRename  VillageNear <- MCVillageNear
INVARIANTS
  CodesHold
  AftercareHolds
  FilesAccountedFor
  ActiveOnReviewedPapers
  OnlyACrossingMisplacesCars
  DispatchHolds
  ImportedWhole
  OnlyACrossingLeavesAStation
  StopsAreOneGeneration
  PricesHold
  OneRowPerPlace
PROPERTIES
  KeysHold
  MigrationsHold
SYMMETRY MCSymmetry
CHECK_DEADLOCK FALSE
