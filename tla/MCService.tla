----------------------------- MODULE MCService -----------------------------
(***************************************************************************)
(* The parts of the service that share no row with each other, checked in   *)
(* one run: a behaviour is a behaviour of one of them, chosen at the start, *)
(* while the others keep their initial state.                              *)
(***************************************************************************)
EXTENDS Retries, BoardingCodes, Aftercare, Papers, Garage, Dispatch,
        Migrations, Geography, TLC

CONSTANTS a1, a2, a3, a4, k1, k2, d1, d2, d3, t1, t2,   \* idempotent requests
          q1, q2, q3, y1,                               \* tickets
          g1, g2, g3, p1, p2, driver,                   \* ratings
          u1, u2, document,                             \* papers
          r1, r2, r3, r4, pa, pb, pq,                   \* registrations
          j1, j2, c1, c2, c3,                           \* imports
          s1, s2, atVillage,                            \* stations, spots
          i1, i2, dr1, dr2                              \* trips on the board

\* Two equal requests, a different one and one to another target under k1.
MCArrivalKey == a1 :> k1 @@ a2 :> k1 @@ a3 :> k1 @@ a4 :> k2
MCDigest     == a1 :> d1 @@ a2 :> d1 @@ a3 :> d2 @@ a4 :> d3
MCTarget     == a1 :> t1 @@ a2 :> t1 @@ a3 :> t2 @@ a4 :> t1
MCYearOf     == q1 :> y1 @@ q2 :> y1 @@ q3 :> y1
\* One passenger rates the driver twice, another once.
MCRatingBy   == g1 :> p1 @@ g2 :> p1 @@ g3 :> p2
MCRatingOf   == g1 :> driver @@ g2 :> driver @@ g3 :> driver
MCScore      == g1 :> 5 @@ g2 :> 5 @@ g3 :> 1
MCUploadHolder == u1 :> driver @@ u2 :> driver
MCUploadType   == u1 :> document @@ u2 :> document
\* A car, another, the first again, and a third.
MCCarDriver  == r1 :> driver @@ r2 :> driver @@ r3 :> driver @@ r4 :> driver
MCCarPlate   == r1 :> pa @@ r2 :> pb @@ r3 :> pa @@ r4 :> pq
MCErased     == [e \in CarErasers |-> driver]
\* Of the requests over cars at most so many are made.
MaxCarRequests == 4
FewCarRequests == Cardinality({r \in GarageRequests : garage'[r] # "new"}) <= MaxCarRequests
\* A file clicked twice and a second file that shares a name with it and
\* names the code the first would take.
MCFile == j1 :> <<[name |-> "x", code |-> NoCode], [name |-> "y", code |-> NoCode]>>
       @@ j2 :> <<[name |-> "x", code |-> NoCode], [name |-> "z", code |-> 1]>>
MCClicked == c1 :> j1 @@ c2 :> j1 @@ c3 :> j2
MCScope == <<s1, s2>>
\* A car that can drive either trip and one too small for the second.
MCBigEnough == i1 :> {dr1, dr2} @@ i2 :> {dr1}
MCVillageNear(name, spot) == spot = atVillage

VARIABLE part

Parts == {"retries", "codes", "desk", "ratings", "papers", "garage", "dispatch", "migrations",
          "villages", "routes", "places"}

MCInit ==
  /\ part \in Parts
  /\ RetriesInit /\ CodesInit /\ DeskInit /\ RatingsInit /\ PapersInit /\ GarageInit
  /\ DispatchInit
  /\ MigrationsInit /\ VillagesInit /\ RoutesInit /\ PlacesInit

Others ==
  /\ IF part = "retries" THEN TRUE ELSE UNCHANGED retryVars
  /\ IF part = "codes" THEN TRUE ELSE UNCHANGED codesVars
  /\ IF part = "desk" THEN TRUE ELSE UNCHANGED deskVars
  /\ IF part = "ratings" THEN TRUE ELSE UNCHANGED ratingVars
  /\ IF part = "papers" THEN TRUE ELSE UNCHANGED paperVars
  /\ IF part = "garage" THEN TRUE ELSE UNCHANGED garageVars
  /\ IF part = "dispatch" THEN TRUE ELSE UNCHANGED dispatchVars
  /\ IF part = "migrations" THEN TRUE ELSE UNCHANGED migrationVars
  /\ IF part = "villages" THEN TRUE ELSE UNCHANGED villagesVars
  /\ IF part = "routes" THEN TRUE ELSE UNCHANGED routesVars
  /\ IF part = "places" THEN TRUE ELSE UNCHANGED placesVars

MCNext ==
  /\ UNCHANGED part
  /\ \/ part = "retries" /\ RetriesNext
     \/ part = "codes" /\ CodesNext
     \/ part = "desk" /\ DeskNext
     \/ part = "ratings" /\ RatingsNext
     \/ part = "papers" /\ PapersNext
     \/ part = "garage" /\ GarageNext /\ FewCarRequests
     \/ part = "dispatch" /\ DispatchNext
     \/ part = "migrations" /\ MigrationsNext
     \/ part = "villages" /\ VillagesNext
     \/ part = "routes" /\ RoutesNext
     \/ part = "places" /\ PlacesNext
  /\ Others

MCSpec == MCInit /\ [][MCNext]_<<retryVars, codesVars, deskVars, ratingVars, paperVars,
                                 garageVars, dispatchVars, migrationVars, villagesVars, routesVars,
                                 placesVars, part>>
MCSymmetry == Permutations(Reviews)
=============================================================================
