----------------------------- MODULE Migrations -----------------------------
(***************************************************************************)
(* The database schema's history (migrations/versions, run by alembic).    *)
(*                                                                         *)
(* A revision is a sequence of steps up and a sequence of steps down. A    *)
(* command runs revisions one after another in ONE transaction (env.py):   *)
(* it takes effect at its commit, and a step that cannot apply, or a crash, *)
(* undoes all of it. The service keeps running meanwhile (deploy/bootstrap *)
(* runs alembic inside the API's container): it writes any table the       *)
(* command has not locked yet.                                             *)
(*                                                                         *)
(* The schema is its tables, the tables each refers to, the columns added  *)
(* since the first revision, and the rules on rows. Rows are kinds of row  *)
(* that a later step trips over; indexes nothing depends on are left out.  *)
(***************************************************************************)
EXTENDS Naturals, Sequences, SequencesExt

VARIABLES
  schema,    \* the committed schema
  revision,  \* alembic_version: how many revisions it has
  rows,      \* the kinds of row the committed tables hold
  command    \* the alembic command under way

migrationVars == <<schema, revision, rows, command>>

-----------------------------------------------------------------------------
\* Steps.

Unique(columns) == <<"uq", columns>>
NotNull(column) == <<"null", column>>
Check(name)     == <<"ck", name>>
Coded(promise)  == <<"code", promise>>   \* kept by the use cases, not by the database

Create(t, refs, rules) == [does |-> "create", table |-> t, refs |-> refs, of |-> rules]
Drop(t)                == [does |-> "drop", table |-> t, refs |-> {}, of |-> {}]
AddColumns(t, cs)      == [does |-> "add_columns", table |-> t, refs |-> {}, of |-> cs]
DropColumns(t, cs)     == [does |-> "drop_columns", table |-> t, refs |-> {}, of |-> cs]
AddRule(t, rule)       == [does |-> "add_rule", table |-> t, refs |-> {}, of |-> {rule}]
DropRule(t, rule)      == [does |-> "drop_rule", table |-> t, refs |-> {}, of |-> {rule}]
AddRef(t, u)           == [does |-> "add_ref", table |-> t, refs |-> {u}, of |-> {}]
DropRef(t, u)          == [does |-> "drop_ref", table |-> t, refs |-> {u}, of |-> {}]
Turn(t, old, new)      == [does |-> "turn", table |-> t, refs |-> {}, of |-> <<old, new>>]
StopAt(t, kinds)       == [does |-> "stop", table |-> t, refs |-> {}, of |-> kinds]

\* The first revision's tables in its order, each with the tables it refers to
\* and its rules.
OpsTables == <<
  <<"app_settings", {}, {Unique("key")}>>, <<"audit_logs", {}, {}>>,
  <<"idempotency_keys", {}, {Unique("key__endpoint")}>>,
  <<"import_jobs", {}, {}>>,
  <<"number_sequences", {}, {Unique("entity__year")}>>,
  <<"otp_challenges", {}, {}>> >>
PeopleTables == <<
  <<"permissions", {}, {Unique("code")}>>,
  <<"provinces", {}, {Unique("code")}>>,
  <<"roles", {}, {Unique("code")}>>,
  <<"users", {}, {Unique("phone"), NotNull("phone")}>>,
  <<"vehicle_types", {}, {Unique("code")}>>,
  <<"device_tokens", {"users"}, {Unique("token")}>>,
  <<"notifications", {"users"}, {}>> >>
AccessTables == <<
  <<"refresh_tokens", {"users"}, {Unique("token_hash")}>>,
  <<"regions", {"provinces"}, {Unique("code")}>>,
  <<"role_permissions", {"permissions", "roles"},
    {Unique("role_id__permission_id")}>>,
  <<"support_tickets", {"users"}, {Unique("reference")}>>,
  <<"user_roles", {"roles", "users"}, {Unique("user_id__role_id")}>>,
  <<"districts", {"provinces", "regions"}, {Unique("code")}>> >>
PlaceTables == <<
  <<"ticket_messages", {"support_tickets"}, {}>>,
  <<"villages", {"districts"}, {Unique("code")}>>,
  <<"stations", {"districts", "villages"}, {Unique("code")}>>,
  <<"village_aliases", {"villages"}, {Unique("village_id__name_key")}>>,
  <<"destinations", {"districts", "destinations", "stations"},
    {Unique("code")}>> >>
DriverTables == <<
  <<"drivers", {"districts", "stations", "users"}, {Unique("user_id")}>>,
  <<"driver_documents", {"drivers"}, {}>>,
  <<"driver_locations", {"drivers"}, {Unique("driver_id")}>>,
  <<"route_templates", {"destinations"}, {Unique("code")}>>,
  <<"vehicles", {"drivers"}, {Unique("plate_number")}>> >>
MoneyTables == <<
  <<"wallets", {"drivers"}, {Unique("driver_id__currency")}>>,
  <<"routes", {"destinations", "stations", "route_templates"},
    {Unique("code")}>>,
  <<"settlements", {"drivers", "wallets"}, {Unique("reference")}>>,
  <<"wallet_transactions", {"wallets"}, {}>>,
  <<"fare_rules", {"routes"}, {}>> >>
TripTables == <<
  <<"route_schedules", {"routes"},
    {Unique("route_id__departure_time__vehicle_type_code__active_from")}>>,
  <<"route_stops", {"destinations", "routes", "stations"},
    {Unique("route_id__sequence")}>>,
  <<"trips",
    {"destinations", "drivers", "stations", "routes", "route_schedules", "vehicles"},
    {Unique("number"), NotNull("route_id")}>> >>
BookingTables == <<
  <<"bookings", {"destinations", "users", "stations", "trips"},
    {Unique("number")}>>,
  <<"dispatch_offers", {"drivers", "trips"},
    {Unique("trip_id__driver_id__offered_at")}>>,
  <<"ride_requests", {"destinations", "stations", "users", "routes", "trips"},
    {}>>,
  <<"trip_seats", {"trips"}, {Unique("trip_id__seat_number")}>> >>
JourneyTables == <<
  <<"trip_stops", {"destinations", "stations", "trips"},
    {Unique("trip_id__sequence")}>>,
  <<"booking_seats", {"bookings", "trip_seats"}, {Unique("trip_seat_id")}>>,
  <<"cancellations", {"bookings", "trips"}, {}>>,
  <<"commissions", {"bookings", "drivers", "trips"},
    {Unique("booking_id")}>>,
  <<"payments", {"bookings", "trips"}, {Unique("booking_id")}>> >>
RatingTables == <<
  <<"ratings", {"bookings", "users", "trips"},
    {Unique("trip_id__rater_user_id__ratee_user_id")}>> >>

\* And the order it takes them away in.
DropJourneys == <<
  "ratings", "payments", "commissions", "cancellations", "booking_seats",
  "trip_stops", "trip_seats", "ride_requests", "dispatch_offers", "bookings",
  "trips", "route_stops", "route_schedules", "fare_rules",
  "wallet_transactions", "settlements", "routes" >>
DropDrivers == <<
  "wallets", "vehicles", "route_templates", "driver_locations",
  "driver_documents", "drivers", "destinations", "village_aliases",
  "stations", "villages", "ticket_messages", "districts" >>
DropPeople == <<
  "user_roles", "support_tickets", "role_permissions", "regions",
  "refresh_tokens", "notifications", "device_tokens", "vehicle_types",
  "users", "roles", "provinces", "permissions", "otp_challenges",
  "number_sequences", "import_jobs", "idempotency_keys", "audit_logs",
  "app_settings" >>

FirstTables == OpsTables \o PeopleTables \o AccessTables \o PlaceTables \o DriverTables
                 \o MoneyTables \o TripTables \o BookingTables \o JourneyTables \o RatingTables
FirstUp   == [i \in 1..47 |-> Create(FirstTables[i][1], FirstTables[i][2], FirstTables[i][3])]
FirstDrops == DropJourneys \o DropDrivers \o DropPeople
FirstDown  == [i \in 1..47 |-> Drop(FirstDrops[i])]

\* 5f76dd65710a: stops on a route template.
StopsUp   == << AddColumns("route_templates", {"intermediate_destination_ids"}) >>
StopsDown == << DropColumns("route_templates", {"intermediate_destination_ids"}) >>

\* 9d747a16cbb1: one plate however it is written. Two cars of one key stop it.
PlateUp   == << AddColumns("vehicles", {"plate_key"}),
                DropRule("vehicles", Unique("plate_number")),
                AddRule("vehicles", Unique("plate_key")) >>
PlateDown == << DropRule("vehicles", Unique("plate_key")),
                AddRule("vehicles", Unique("plate_number")),
                DropColumns("vehicles", {"plate_key"}) >>

\* 73ba4e3b4c32: which way a settlement's money goes.
DirectionUp   == << AddColumns("settlements", {"direction"}),
                    AddRule("settlements", Check("direction")) >>
DirectionDown == << DropRule("settlements", Check("direction")),
                    DropColumns("settlements", {"direction"}) >>

\* e405b0b4c024: a deleted stop no longer holds its place on the route.
LiveStopsUp   == << DropRule("route_stops", Unique("route_id__sequence")),
                    AddRule("route_stops", Unique("route_id__sequence__live")) >>
LiveStopsDown == << DropRule("route_stops", Unique("route_id__sequence__live")),
                    AddRule("route_stops", Unique("route_id__sequence")) >>

\* fd2262b18e90: passengers ask a fare and drivers offer one. The old quote is
\* carried across as the asking price, and none becomes 0, which the check refuses.
AskingColumns == {"offered_fare_minor", "offered_fare_currency", "agreed_fare_minor",
                  "accepted_offer_id", "note"}
FaresUp   == << AddColumns("ride_requests", AskingColumns),
                AddRule("ride_requests", Check("offer_positive")),
                Create("fare_offers", {"ride_requests", "drivers"},
                       {Unique("request__driver__offered"), Check("amount_positive")}) >>
FaresDown == << Drop("fare_offers"),
                DropRule("ride_requests", Check("offer_positive")),
                DropColumns("ride_requests", AskingColumns),
                Turn("ride_requests", {"asked"}, {"unpriced"}) >>

\* a1c73f9e2b40: the road permit moves from the driver to the car, and a car
\* left without one is no longer ACTIVE.
PermitUp   == << Create("vehicle_documents", {"vehicles"}, {}),
                 Turn("driver_documents", {"driversPermit"}, {"carsPermit"}),
                 Turn("vehicles", {"bareCar"}, {}),
                 AddRule("vehicles", Coded("active_has_its_permit")) >>
PermitDown == << Turn("driver_documents", {"carsPermit"}, {"driversPermit"}),
                 DropRule("vehicles", Coded("active_has_its_permit")),
                 Drop("vehicle_documents") >>

\* b7e91c3d5a02: the way back.
ReturnUp   == << AddColumns("ride_requests", {"return_for"}) >>
ReturnDown == << DropColumns("ride_requests", {"return_for"}) >>

\* c3f80a91d47e: and its price. Alembic applies the naming convention of
\* infrastructure/db/base.py to a check constraint it creates, and to one it is
\* told to drop by its type; the way down names no type, so it looks for the
\* short name, which no constraint has.
SplitUp   == << AddColumns("ride_requests", {"return_fare_minor"}),
                AddColumns("fare_offers", {"return_amount_minor"}),
                AddRule("ride_requests", Check("return_fare_positive")),
                AddRule("fare_offers", Check("return_amount_positive")) >>
SplitDown == << DropRule("fare_offers", <<"short_name", "return_amount_positive">>),
                DropRule("ride_requests", <<"short_name", "return_fare_positive">>),
                DropColumns("fare_offers", {"return_amount_minor"}),
                DropColumns("ride_requests", {"return_fare_minor"}) >>

\* d81a4f6c92b3: a negotiated trip may have no route.
NegotiatedUp   == << DropRule("trips", NotNull("route_id")), AddColumns("trips", {"return_for"}) >>
NegotiatedDown == << DropColumns("trips", {"return_for"}), AddRule("trips", NotNull("route_id")) >>

\* a7c31d5e08b4: a passenger's rating.
StandingUp   == << AddColumns("users", {"rating_sum", "rating_count"}),
                   AddRule("users", Check("rating_count_non_negative")),
                   AddRule("users", Check("rating_sum_within_bounds")) >>
StandingDown == << DropRule("users", Check("rating_sum_within_bounds")),
                   DropRule("users", Check("rating_count_non_negative")),
                   DropColumns("users", {"rating_sum", "rating_count"}) >>

\* c9e42a71f5d8 and 4c7d2e9a1f38: tables that stand alone.
CrashesUp   == << Create("crash_reports", {}, {}) >>
CrashesDown == << Drop("crash_reports") >>
LaunchesUp   == << Create("app_version_checks", {}, {Unique("day__app__platform__version_code")}) >>
LaunchesDown == << Drop("app_version_checks") >>

\* f2727dd1984a: a staff email.
EmailUp   == << AddColumns("users", {"email"}), AddRule("users", Unique("email")) >>
EmailDown == << DropRule("users", Unique("email")), DropColumns("users", {"email"}) >>

\* a3d9e17c5b02: an idempotency key belongs to its user.
KeyUp   == << DropRule("idempotency_keys", Unique("key__endpoint")),
              AddRule("idempotency_keys", Unique("user_id__key__endpoint")) >>
KeyDown == << DropRule("idempotency_keys", Unique("user_id__key__endpoint")),
              AddRule("idempotency_keys", Unique("key__endpoint")) >>

\* b8e41c2d9f63: a deleted account has no number.
NoNumberUp   == << DropRule("users", NotNull("phone")) >>
NoNumberDown == << AddRule("users", NotNull("phone")) >>

\* 7e3b1d9c5a24: places passengers name.
PlacesUp   == << Create("places", {"districts", "villages", "stations"},
                        {Check("report_count_positive"), Check("status")}),
                 AddColumns("ride_requests", {"origin_place_id"}),
                 AddRef("ride_requests", "places") >>
PlacesDown == << DropRef("ride_requests", "places"),
                 DropColumns("ride_requests", {"origin_place_id"}),
                 Drop("places") >>

\* b5e81c2f7a90: boarding-code attempts.
AttemptsUp   == << AddColumns("trips", {"boarding_failures", "boarding_locked_until"}) >>
AttemptsDown == << DropColumns("trips", {"boarding_locked_until", "boarding_failures"}) >>

\* c4d92e7b1a36: one open request per passenger. Requests past their deadline
\* are closed first; two live ones of one passenger stop the command.
OneOpenUp   == << Turn("ride_requests", {"staleTwins"}, {}),
                  StopAt("ride_requests", {"liveTwins"}),
                  AddRule("ride_requests", Unique("passenger_id__open")) >>
OneOpenDown == << DropRule("ride_requests", Unique("passenger_id__open")) >>

\* The chain of down_revision.
Upgrades == << FirstUp, StopsUp, PlateUp, DirectionUp, LiveStopsUp, FaresUp, PermitUp,
  ReturnUp, SplitUp, NegotiatedUp, StandingUp, CrashesUp, EmailUp, KeyUp, NoNumberUp,
  LaunchesUp, PlacesUp, AttemptsUp, OneOpenUp >>
Downgrades == << FirstDown, StopsDown, PlateDown, DirectionDown, LiveStopsDown, FaresDown,
  PermitDown, ReturnDown, SplitDown, NegotiatedDown, StandingDown, CrashesDown, EmailDown,
  KeyDown, NoNumberDown, LaunchesDown, PlacesDown, AttemptsDown, OneOpenDown >>
Newest == Len(Upgrades)

-----------------------------------------------------------------------------
\* What a step needs, and what it makes of the schema.

Empty == [tables |-> {}, refs |-> {}, columns |-> {}, rules |-> {}]

\* The kinds of row, the table each lives in, and the rule each one breaks.
KindTable == [samePlates |-> "vehicles", bareCar |-> "vehicles", deadStop |-> "route_stops",
  asked |-> "ride_requests", unpriced |-> "ride_requests", liveTwins |-> "ride_requests",
  staleTwins |-> "ride_requests", noRoute |-> "trips", noPhone |-> "users",
  sharedKey |-> "idempotency_keys", driversPermit |-> "driver_documents",
  carsPermit |-> "vehicle_documents"]
Kinds == DOMAIN KindTable

Against(k) ==
  CASE k = "samePlates" -> {<<"vehicles", Unique("plate_key")>>}
    [] k = "bareCar"    -> {<<"vehicles", Coded("active_has_its_permit")>>}
    [] k = "deadStop"   -> {<<"route_stops", Unique("route_id__sequence")>>}
    [] k = "unpriced"   -> {<<"ride_requests", Check("offer_positive")>>}
    [] k \in {"liveTwins", "staleTwins"} -> {<<"ride_requests", Unique("passenger_id__open")>>}
    [] k = "noRoute"    -> {<<"trips", NotNull("route_id")>>}
    [] k = "noPhone"    -> {<<"users", NotNull("phone")>>}
    [] k = "sharedKey"  -> {<<"idempotency_keys", Unique("key__endpoint")>>}
    [] OTHER            -> {}

InTable(t, xs) == {<<t, x>> : x \in xs}

Applies(step, s, kinds) ==
  LET t == step.table IN
  CASE step.does = "create" -> t \notin s.tables /\ step.refs \subseteq s.tables \cup {t}
    [] step.does = "drop" -> t \in s.tables /\ \A u \in s.tables \ {t} : <<u, t>> \notin s.refs
    [] step.does = "add_columns" -> t \in s.tables /\ InTable(t, step.of) \cap s.columns = {}
    [] step.does = "drop_columns" -> InTable(t, step.of) \subseteq s.columns
    [] step.does = "add_rule" -> /\ t \in s.tables /\ InTable(t, step.of) \cap s.rules = {}
                                 /\ \A r \in step.of : r[1] # "code" =>
                                      \A k \in kinds : <<t, r>> \notin Against(k)
    [] step.does = "drop_rule" -> InTable(t, step.of) \subseteq s.rules
    [] step.does = "add_ref" -> {t} \cup step.refs \subseteq s.tables
    [] step.does = "drop_ref" -> InTable(t, step.refs) \subseteq s.refs
    [] step.does = "stop" -> step.of \cap kinds = {}
    [] step.does = "turn" -> t \in s.tables

After(step, s) ==
  LET t == step.table
      NotOf(pairs) == {p \in pairs : p[1] # t} IN
  CASE step.does = "create" -> [tables |-> s.tables \cup {t}, columns |-> s.columns,
         refs |-> s.refs \cup InTable(t, step.refs), rules |-> s.rules \cup InTable(t, step.of)]
    [] step.does = "drop" -> [tables |-> s.tables \ {t}, refs |-> NotOf(s.refs),
         columns |-> NotOf(s.columns), rules |-> NotOf(s.rules)]
    [] step.does = "add_columns" -> [s EXCEPT !.columns = @ \cup InTable(t, step.of)]
    [] step.does = "drop_columns" -> [s EXCEPT !.columns = @ \ InTable(t, step.of)]
    [] step.does = "add_rule" -> [s EXCEPT !.rules = @ \cup InTable(t, step.of)]
    [] step.does = "drop_rule" -> [s EXCEPT !.rules = @ \ InTable(t, step.of)]
    [] step.does = "add_ref" -> [s EXCEPT !.refs = @ \cup InTable(t, step.refs)]
    [] step.does = "drop_ref" -> [s EXCEPT !.refs = @ \ InTable(t, step.refs)]
    [] OTHER -> s

\* A step that changes rows, and the rows a dropped table takes with it.
TurnedRows(step, kinds) ==
  IF step.does = "turn" /\ step.of[1] \cap kinds # {} THEN (kinds \ step.of[1]) \cup step.of[2]
  ELSE IF step.does = "drop" THEN {k \in kinds : KindTable[k] # step.table}
  ELSE kinds

\* A step that defines something locks its table, and a table it refers to,
\* against writers until the commit; one that changes rows does not.
Unlocked(step) == {}                                            \* a fault
Locks(step) == IF step.does \in {"turn", "stop"} THEN {} ELSE {step.table} \cup step.refs

-----------------------------------------------------------------------------
\* Commands.

Idle == [doing |-> "none", to |-> 0, revision |-> 0, done |-> 0, schema |-> Empty,
         gone |-> {}, came |-> {}, locked |-> {}]

Seen == (rows \ command.gone) \cup command.came
Steps == IF command.doing = "up" THEN Upgrades[command.revision + 1]
         ELSE Downgrades[command.revision]
Arrived == command.revision = command.to

MigrationsInit ==
  schema = Empty /\ revision = 0 /\ rows = {} /\ command = Idle

\* Upgrading to the head of the image deployed, one revision on or the newest;
\* downgrading is by hand, one revision at a time.
Begin(doing, to) ==
  /\ command = Idle
  /\ command' = [Idle EXCEPT !.doing = doing, !.to = to, !.revision = revision, !.schema = schema]
  /\ UNCHANGED <<schema, revision, rows>>

Upgrade == revision < Newest /\ \E to \in {revision + 1, Newest} : Begin("up", to)
Downgrade == revision > 0 /\ Begin("down", revision - 1)

RunStep ==
  /\ command.doing # "none" /\ ~Arrived /\ command.done < Len(Steps)
  /\ LET step == Steps[command.done + 1]
         kinds == TurnedRows(step, Seen) IN
     /\ Applies(step, command.schema, Seen)
     /\ command' = [command EXCEPT !.done = @ + 1, !.schema = After(step, @),
                      !.gone = rows \ kinds, !.came = kinds \ rows,
                      !.locked = @ \cup Locks(step)]
  /\ UNCHANGED <<schema, revision, rows>>

NextRevision ==
  /\ command.doing # "none" /\ ~Arrived /\ command.done = Len(Steps)
  /\ command' = [command EXCEPT !.done = 0,
                   !.revision = IF command.doing = "up" THEN @ + 1 ELSE @ - 1]
  /\ UNCHANGED <<schema, revision, rows>>

Commit ==
  /\ command.doing # "none" /\ Arrived
  /\ schema' = command.schema /\ revision' = command.to /\ rows' = Seen
  /\ command' = Idle

\* A step that cannot apply, or a crash, ends the command and undoes it.
GiveUp ==
  /\ command.doing # "none"
  /\ command' = Idle /\ UNCHANGED <<schema, revision, rows>>

\* The service, on the committed schema, writes a row that breaks none of its
\* rules; a passenger's second live request passes its deadline, also one whose
\* table a command under way has already dropped.
Writable(k) ==
  /\ KindTable[k] \in schema.tables \ command.locked
  /\ k = "asked" => <<"ride_requests", "offered_fare_minor">> \in schema.columns
  /\ k = "unpriced" => <<"ride_requests", "offered_fare_minor">> \notin schema.columns
  /\ k = "driversPermit" => "vehicle_documents" \notin schema.tables
  /\ k = "bareCar" => "vehicle_documents" \notin schema.tables

ServiceWrites(k) ==
  /\ k \notin rows /\ Writable(k) /\ Against(k) \cap schema.rules = {}
  /\ rows' = rows \cup {k}
  /\ command' = [command EXCEPT !.gone = @ \ {k}]
  /\ UNCHANGED <<schema, revision>>

DeadlinePasses ==
  /\ "liveTwins" \in rows
  /\ rows' = (rows \ {"liveTwins"}) \cup {"staleTwins"}
  /\ command' = [command EXCEPT !.gone = IF "liveTwins" \in @ THEN @ \cup {"staleTwins"}
                                         ELSE @ \ {"staleTwins"}]
  /\ UNCHANGED <<schema, revision>>

MigrationsNext ==
  \/ Upgrade \/ Downgrade \/ RunStep \/ NextRevision \/ Commit \/ GiveUp
  \/ \E k \in Kinds : ServiceWrites(k)
  \/ DeadlinePasses

MigrationsSpec == MigrationsInit /\ [][MigrationsNext]_migrationVars

-----------------------------------------------------------------------------
\* What the schema is at each revision, going up from nothing.
AllUp == FlattenSeq(Upgrades)
Built[n \in 0..Len(AllUp)] == IF n = 0 THEN Empty ELSE After(AllUp[n], Built[n - 1])
Length(r) == Len(FlattenSeq(SubSeq(Upgrades, 1, r)))

\* Whatever commands were run, failed or were cut off, the schema is the one
\* its revision number stands for: each way down undoes exactly its way up, and
\* a command takes effect whole or not at all.
SchemaFollowsRevision == command = Idle => schema = Built[Length(revision)]

\* No table refers to one that is gone, and no row is in one.
ReferencesResolve == schema.refs \subseteq schema.tables \X schema.tables
RowsHaveTables == \A k \in rows : KindTable[k] \in schema.tables

\* No row stands that a rule in force forbids, whatever the service wrote while
\* the command that made the rule was running.
RulesHoldOnRows == \A k \in rows : Against(k) \cap schema.rules = {}

\* From any revision, with any history behind it, nothing but rows can stop an
\* upgrade: every step finds the tables, columns and rules it works on.
OnlyRowsStopAnUpgrade ==
  command.doing = "up" /\ ~Arrived /\ command.done < Len(Steps)
    => Applies(Steps[command.done + 1], command.schema, {})

\* What the revision number promises about the schema.
SchemaReplays == SchemaFollowsRevision /\ OnlyRowsStopAnUpgrade

\* What the schema promises about the rows, over any history of commands and
\* anything the service wrote beside them (migrations/env.py: one transaction).
RowsFitTheSchema == ReferencesResolve /\ RowsHaveTables /\ RulesHoldOnRows

\* No upgrade loses a permit that was sent (a1c73f9e2b40: "Existing rows are
\* moved, not recreated"). A downgrade loses one sent after its rows were copied
\* back and before the table is dropped.
Permits == {"driversPermit", "carsPermit"}
PermitSurvives ==
  rows \cap Permits # {} /\ command.doing # "down" => rows' \cap Permits # {}
PermitsAreKept == [][PermitSurvives]_migrationVars

\* All of it, over any history of commands.
MigrationsHold == [](SchemaReplays /\ RowsFitTheSchema) /\ PermitsAreKept

-----------------------------------------------------------------------------
\* Why it is so. What a command has made of the schema and the rows so far fits
\* as the committed ones do: a row is written to a table only while it is
\* unlocked, and there the two schemas agree.
Fits(s, kinds) ==
  /\ s.refs \subseteq s.tables \X s.tables
  /\ \A k \in kinds : KindTable[k] \in s.tables /\ Against(k) \cap s.rules = {}

ChangesAreLocked ==
  /\ \A t \in schema.tables : t \in command.schema.tables \cup command.locked
  /\ \A p \in command.schema.rules : p \in schema.rules \/ p[1] \in command.locked

\* The two revisions that turn rows into rows a rule could forbid.
PermitMoves ==
  command.doing = "up" /\ command.revision = 6 /\ command.done > 0 =>
    /\ "vehicles" \in command.locked /\ "vehicle_documents" \in command.schema.tables
    /\ command.done > 2 => "bareCar" \notin Seen
FaresReturn ==
  command.doing = "down" /\ command.revision = 6 /\ command.done \in {2, 3} =>
    <<"ride_requests", Check("offer_positive")>> \notin command.schema.rules

PermitsUnderWay ==
  command.doing = "up" /\ rows \cap Permits # {} => Seen \cap Permits # {}

\* A schema is a record of its four parts.
IsSchema(s) ==
  s = [tables |-> s.tables, refs |-> s.refs, columns |-> s.columns, rules |-> s.rules]

MigrationsTypeOK ==
  /\ IsSchema(schema) /\ IsSchema(command.schema)
  /\ revision \in 0..Newest /\ rows \subseteq Kinds
  /\ command = [doing |-> command.doing, to |-> command.to, revision |-> command.revision,
                done |-> command.done, schema |-> command.schema, gone |-> command.gone,
                came |-> command.came, locked |-> command.locked]
  /\ command.doing \in {"none", "up", "down"} /\ command.done \in Nat
  /\ command.revision \in 0..Newest /\ command.to \in 0..Newest
  /\ command.doing = "up" => command.revision <= command.to
  /\ command.doing = "down" => command.revision >= command.to
  /\ Seen \subseteq Kinds

MigrationsInv ==
  /\ MigrationsTypeOK /\ RowsFitTheSchema
  /\ command.doing = "none" => command = Idle
  /\ command.doing # "none" => Fits(command.schema, Seen) /\ ChangesAreLocked
  /\ PermitMoves /\ FaresReturn /\ PermitsUnderWay
=============================================================================
