------------------------------- MODULE Garage -------------------------------
(***************************************************************************)
(* A driver's cars (use case vehicles, VehicleRepository, routers/vehicles). *)
(* A driver presents one car; registering another retires the one before,  *)
(* and correcting the details of the same plate sends it back for review,  *)
(* as replacing a paper of an active car does (vehicle_documents).  Closing *)
(* the account retires every car (erasure).  All is read unlocked and       *)
(* written at the commit; the unique constraint on the plate is the one     *)
(* thing the database decides.                                             *)
(***************************************************************************)
EXTENDS Naturals, FiniteSets

CONSTANTS Registrations,  \* requests to register, and the car each would add
          CarDecisions,   \* requests to activate or suspend a car
          CarUploads,     \* requests to replace a paper of a car
          CarErasers,     \* requests of drivers to close their account
          Drivers, Plates,
          CarDriver, CarPlate, ErasedDriver,
          NoCar

CarChanges     == CarDecisions \cup CarUploads   \* set the status of one car
GarageRequests == Registrations \cup CarChanges \cup CarErasers

ASSUME GarageAssumption ==
  /\ CarDriver \in [Registrations -> Drivers] /\ CarPlate \in [Registrations -> Plates]
  /\ ErasedDriver \in [CarErasers -> Drivers]
  /\ NoCar \notin Registrations /\ Registrations \cap (CarChanges \cup CarErasers) = {}
  /\ CarDecisions \cap CarUploads = {} /\ CarChanges \cap CarErasers = {}
  /\ IsFiniteSet(Registrations)

VARIABLES
  garage,    \* how far each request is
  looked,    \* what each request has read and decided
  retiring,  \* the cars each closing of an account has read
  car,       \* vehicles
  riding,    \* the car each driver has a trip in flight with
  crossed    \* for each request, what began or ended while it ran (history)

garageVars == <<garage, looked, retiring, car, riding, crossed>>

VehicleStatus == {"PENDING", "ACTIVE", "SUSPENDED", "RETIRED"}
CarRow  == [status : {"NONE"} \cup VehicleStatus, born : 0..Cardinality(Registrations)]
Looked  == [car : Registrations \cup {NoCar},      \* the car it will write
            was : {"NONE"} \cup VehicleStatus,
            now : {"NONE"} \cup VehicleStatus]
NotLooked == [car |-> NoCar, was |-> "NONE", now |-> "NONE"]

GarageTypeOK ==
  /\ garage \in [GarageRequests -> {"new", "read", "flushed", "done", "refused", "collided"}]
  /\ looked \in [GarageRequests -> Looked]
  /\ retiring \in [CarErasers -> SUBSET Registrations]
  /\ car \in [Registrations -> CarRow]
  /\ riding \in [Drivers -> Registrations \cup {NoCar}]
  /\ crossed \in [GarageRequests -> SUBSET (GarageRequests \cup Drivers)]

GarageInit ==
  /\ garage = [r \in GarageRequests |-> "new"]
  /\ looked = [r \in GarageRequests |-> NotLooked]
  /\ retiring = [e \in CarErasers |-> {}]
  /\ car = [c \in Registrations |-> [status |-> "NONE", born |-> 0]]
  /\ riding = [d \in Drivers |-> NoCar]
  /\ crossed = [r \in GarageRequests |-> {}]

InGarage(r) == garage[r] \in {"read", "flushed"}
Proceeds(r, s) == garage' = [garage EXCEPT ![r] = s]

\* A request that begins runs beside those in flight, and they beside it.
Enters(r, what) ==
  /\ Proceeds(r, "read")
  /\ looked' = [looked EXCEPT ![r] = what]
  /\ crossed' = [q \in GarageRequests |->
       IF q = r THEN {p \in GarageRequests : InGarage(p)}
       ELSE IF InGarage(q) THEN crossed[q] \cup {r} ELSE crossed[q]]

Exists(c) == car[c].status # "NONE"
CarsOf(d) == {c \in Registrations : Exists(c) /\ CarDriver[c] = d}

\* current_for_driver: the newest that is not retired.
Presented(d) ==
  {c \in CarsOf(d) : /\ car[c].status # "RETIRED"
                     /\ \A k \in CarsOf(d) : car[k].status # "RETIRED" => car[k].born <= car[c].born}

\* find_by_plate_key: whoever has the plate, a retired car included.
PlateIgnored(r) == {}                                           \* a fault
WithPlate(r)    == {c \in Registrations : Exists(c) /\ CarPlate[c] = CarPlate[r]}

\* A closed account asks nothing (current_actor).
AccountGone(d) == \E e \in CarErasers : garage[e] = "done" /\ ErasedDriver[e] = d

-----------------------------------------------------------------------------
(* RegisterVehicle.                                                        *)

MayRegister(r) ==
  /\ ~AccountGone(CarDriver[r])
  /\ \A c \in WithPlate(r) : CarDriver[c] = CarDriver[r]
  /\ riding[CarDriver[r]] = NoCar

RegisterRead(r) ==
  /\ garage[r] = "new" /\ MayRegister(r)
  /\ IF Presented(CarDriver[r]) = {} THEN Enters(r, NotLooked)
     ELSE \E c \in Presented(CarDriver[r]) :
            Enters(r, [car |-> c, was |-> car[c].status,
                       now |-> IF CarPlate[c] = CarPlate[r] THEN "PENDING" ELSE "RETIRED"])
  /\ UNCHANGED <<retiring, car, riding>>

RegisterRefuse(r) ==
  /\ garage[r] = "new" /\ ~MayRegister(r)
  /\ Proceeds(r, "refused")
  /\ UNCHANGED <<looked, retiring, car, riding, crossed>>

Corrects(r) == looked[r].car # NoCar /\ looked[r].now = "PENDING"

\* The status, where it was changed from what was read.
Rewritten(r) ==
  IF looked[r].car = NoCar \/ looked[r].now = looked[r].was THEN car
  ELSE [car EXCEPT ![looked[r].car].status = looked[r].now]

\* The same car again: updated in place and sent back for review.
RegisterCorrect(r) ==
  /\ garage[r] = "read" /\ Corrects(r)
  /\ car' = Rewritten(r)
  /\ Proceeds(r, "done")
  /\ UNCHANGED <<looked, retiring, riding, crossed>>

\* Another car: its insert waits for an uncommitted one of the same plate,
\* and fails on a committed one.
PlateHolders(r) == {q \in Registrations : garage[q] = "flushed" /\ CarPlate[q] = CarPlate[r]}

RegisterInsert(r) ==
  /\ garage[r] = "read" /\ ~Corrects(r) /\ PlateHolders(r) = {}
  /\ Proceeds(r, IF WithPlate(r) = {} THEN "flushed" ELSE "collided")
  /\ UNCHANGED <<looked, retiring, car, riding, crossed>>

RegisterCommit(r) ==
  /\ garage[r] = "flushed"
  /\ car' = [Rewritten(r) EXCEPT ![r] = [status |-> "PENDING",
                born |-> 1 + Cardinality({c \in Registrations : Exists(c)})]]
  /\ Proceeds(r, "done")
  /\ UNCHANGED <<looked, retiring, riding, crossed>>

-----------------------------------------------------------------------------
(* DecideVehicle.  Whether the papers are in order is Papers.              *)

DecideCar(x) ==
  /\ garage[x] = "new"
  /\ \E c \in Registrations, s \in {"ACTIVE", "SUSPENDED"} :
       /\ car[c].status \notin {"NONE", "RETIRED"}
       /\ s = "SUSPENDED" => riding[CarDriver[c]] # c
       /\ Enters(x, [car |-> c, was |-> car[c].status, now |-> s])
  /\ UNCHANGED <<retiring, car, riding>>

-----------------------------------------------------------------------------
(* UploadVehicleDocument, of an active car: it goes back to pending, whether *)
(* or not a trip has it.  A car that is not active keeps its status.       *)

UploadCar(u) ==
  /\ garage[u] = "new"
  /\ \E c \in Registrations :
       /\ car[c].status = "ACTIVE" /\ ~AccountGone(CarDriver[c])
       /\ Enters(u, [car |-> c, was |-> "ACTIVE", now |-> "PENDING"])
  /\ UNCHANGED <<retiring, car, riding>>

\* What a decision or an upload read, and decided, is written.
ChangeCommit(x) ==
  /\ garage[x] = "read" /\ x \in CarChanges
  /\ car' = Rewritten(x)
  /\ Proceeds(x, "done")
  /\ UNCHANGED <<looked, retiring, riding, crossed>>

-----------------------------------------------------------------------------
(* DeleteAccount of a driver: looks for a trip in flight, reads the cars,  *)
(* and retires them whatever they have become.                             *)

EraseCars(e) ==
  /\ garage[e] = "new" /\ ~AccountGone(ErasedDriver[e]) /\ riding[ErasedDriver[e]] = NoCar
  /\ Enters(e, NotLooked)
  /\ UNCHANGED <<retiring, car, riding>>

EraseCarsRead(e) ==
  /\ garage[e] = "read"
  /\ retiring' = [retiring EXCEPT ![e] = CarsOf(ErasedDriver[e])]
  /\ Proceeds(e, "flushed")
  /\ UNCHANGED <<looked, car, riding, crossed>>

EraseCarsCommit(e) ==
  /\ garage[e] = "flushed"
  /\ car' = [c \in Registrations |->
                IF c \in retiring[e] THEN [car[c] EXCEPT !.status = "RETIRED"] ELSE car[c]]
  /\ Proceeds(e, "done")
  /\ UNCHANGED <<looked, retiring, riding, crossed>>

-----------------------------------------------------------------------------
GarageFails(r) ==
  /\ InGarage(r)
  /\ Proceeds(r, "refused")
  /\ UNCHANGED <<looked, retiring, car, riding, crossed>>

\* A trip takes the driver's active car and gives it back (Hiring, TripBooking).
RideStarts(d) ==
  /\ riding[d] = NoCar
  /\ \E c \in CarsOf(d) : car[c].status = "ACTIVE" /\ riding' = [riding EXCEPT ![d] = c]
  /\ crossed' = [q \in GarageRequests |-> IF InGarage(q) THEN crossed[q] \cup {d} ELSE crossed[q]]
  /\ UNCHANGED <<garage, looked, retiring, car>>

RideEnds(d) ==
  /\ riding[d] # NoCar
  /\ riding' = [riding EXCEPT ![d] = NoCar]
  /\ UNCHANGED <<garage, looked, retiring, car, crossed>>

register_vehicle(r) == \/ RegisterRead(r) \/ RegisterRefuse(r) \/ RegisterCorrect(r)
                       \/ RegisterInsert(r) \/ RegisterCommit(r)
decide_vehicle(x)   == DecideCar(x) \/ ChangeCommit(x)
upload_permit(u)    == UploadCar(u) \/ ChangeCommit(u)
retire_cars(e)      == EraseCars(e) \/ EraseCarsRead(e) \/ EraseCarsCommit(e)

GarageNext ==
  \/ \E r \in Registrations : register_vehicle(r)
  \/ \E x \in CarDecisions : decide_vehicle(x)
  \/ \E u \in CarUploads : upload_permit(u)
  \/ \E e \in CarErasers : retire_cars(e)
  \/ \E r \in GarageRequests : GarageFails(r)
  \/ \E d \in Drivers : RideStarts(d) \/ RideEnds(d)

GarageSpec == GarageInit /\ [][GarageNext]_garageVars

-----------------------------------------------------------------------------
RanBeside(q, r) == r \in crossed[q] \/ q \in crossed[r]
Wrote(r, c)     == /\ garage[r] = "done"
                   /\ \/ r = c \/ looked[r].car = c
                      \/ r \in CarErasers /\ c \in retiring[r]
WroteOf(r, d)   == \E c \in Registrations : CarDriver[c] = d /\ Wrote(r, c)
Crossing(d)     == \E q, r \in GarageRequests :
                     q # r /\ RanBeside(q, r) /\ WroteOf(q, d) /\ WroteOf(r, d)

\* vehicles.py and models/supply.py: one plate is one car; a driver presents
\* one car, unless two requests about that driver's cars crossed; and the car
\* under a trip is in service, unless whoever took it out of service began
\* before the trip did (vehicles.py:108-109 and 247-255), or sent it back to
\* pending by a paper replaced on the way, which vehicle_documents.py:104-111
\* does to an active car without asking for a trip.
OnlyACrossingMisplacesCars ==
  /\ \A c, k \in Registrations : Exists(c) /\ Exists(k) /\ CarPlate[c] = CarPlate[k] => c = k
  /\ \A c, k \in Registrations :
       /\ Exists(c) /\ Exists(k) /\ CarDriver[c] = CarDriver[k] /\ c # k
       /\ car[c].status # "RETIRED" /\ car[k].status # "RETIRED"
       => Crossing(CarDriver[c])
  /\ \A d \in Drivers : riding[d] # NoCar /\ car[riding[d]].status # "ACTIVE" =>
       \E r \in GarageRequests :
         /\ Wrote(r, riding[d])
         /\ d \in crossed[r] \/ (r \in CarUploads /\ car[riding[d]].status = "PENDING")

\* Why it is so: what the proofs in Supply_proofs carry from step to step.

\* What a request is about is a car on record; the plate it is about to take
\* is free, and nobody else is about to take it.
LooksExplained ==
  /\ \A r \in GarageRequests : garage[r] = "new" => looked[r] = NotLooked /\ crossed[r] = {}
  /\ \A r \in GarageRequests : looked[r].car # NoCar =>
       Exists(looked[r].car) /\ looked[r].now \in VehicleStatus
  /\ \A r \in Registrations : looked[r].car # NoCar =>
       /\ CarDriver[looked[r].car] = CarDriver[r]
       /\ looked[r].was # "RETIRED" /\ looked[r].now \in {"PENDING", "RETIRED"}
  /\ \A x \in CarChanges : garage[x] \notin {"new", "refused"} => looked[x].car # NoCar
  /\ \A x \in CarChanges : garage[x] \in {"new", "read", "done", "refused"}
  /\ \A u \in CarUploads : looked[u].car # NoCar => looked[u].now = "PENDING"
  /\ \A e \in CarErasers : /\ looked[e] = NotLooked /\ garage[e] # "collided"
                            /\ retiring[e] \subseteq CarsOf(ErasedDriver[e])
  /\ \A r \in Registrations : Exists(r) => garage[r] = "done"
  /\ \A r \in Registrations : garage[r] = "flushed" => ~Corrects(r)
  /\ \A d \in Drivers : riding[d] # NoCar => Exists(riding[d]) /\ CarDriver[riding[d]] = d

PlatesExplained ==
  /\ \A c, k \in Registrations : Exists(c) /\ Exists(k) /\ CarPlate[c] = CarPlate[k] => c = k
  /\ \A r \in Registrations : garage[r] = "flushed" =>
       WithPlate(r) = {} /\ \A q \in PlateHolders(r) : q = r

\* Requests in flight are beside each other; what one of them read still
\* holds, unless a request that ran beside it has written meanwhile.
InUse(d)   == {c \in CarsOf(d) : car[c].status # "RETIRED"}
About(r)   == IF r \in Registrations THEN CarDriver[r]
              ELSE IF r \in CarErasers THEN ErasedDriver[r] ELSE CarDriver[looked[r].car]
Undercut(r) == \E q \in GarageRequests : q # r /\ RanBeside(q, r) /\ WroteOf(q, About(r))
StillAsRead(r) ==
  /\ InUse(About(r)) \subseteq {looked[r].car}
  /\ looked[r].car # NoCar => car[looked[r].car].status = looked[r].was
CrossingsExplained ==
  /\ \A q, r \in GarageRequests : InGarage(q) /\ InGarage(r) /\ q # r => RanBeside(q, r)
  /\ \A d \in Drivers :
       \/ Crossing(d)
       \/ /\ \A c, k \in InUse(d) : c = k
          /\ \A r \in Registrations \cup CarChanges :
               InGarage(r) /\ About(r) = d => Undercut(r) \/ StillAsRead(r)

\* Whoever takes a car out of service that a trip has began before the trip,
\* but for an upload.
RidesExplained ==
  /\ \A r \in GarageRequests \ CarUploads :
       InGarage(r) /\ looked[r].car # NoCar /\ looked[r].now # "ACTIVE" =>
         LET d == CarDriver[looked[r].car] IN riding[d] = looked[r].car => d \in crossed[r]
  /\ \A e \in CarErasers : InGarage(e) /\ riding[ErasedDriver[e]] # NoCar =>
       ErasedDriver[e] \in crossed[e]
  /\ \A d \in Drivers : riding[d] # NoCar /\ car[riding[d]].status # "ACTIVE" =>
       \E r \in GarageRequests :
         /\ Wrote(r, riding[d])
         /\ d \in crossed[r] \/ (r \in CarUploads /\ car[riding[d]].status = "PENDING")

\* The inductive invariant.
GarageInv == /\ GarageTypeOK /\ LooksExplained /\ PlatesExplained
             /\ CrossingsExplained /\ RidesExplained

\* vehicles.py:99-100, "the driver needs to know the plate is taken, not see a
\* 500": the constraint refuses only what was registered meanwhile.
PlateTakenIsNamed ==
  \A r \in Registrations : garage[r] = "collided" =>
    \E q \in Registrations : RanBeside(q, r) /\ CarPlate[q] = CarPlate[r]
=============================================================================
