# VELRO in TLA+

A verification project for the VELRO backend (`src/backend`): TLA+ models of the
parts where concurrent requests decide about shared rows, TLC runs over small
instances of them, and TLAPS proofs for every instance. Paths below are
relative to `src/backend` unless they start with `docs/`.

## The system

VELRO sells seats on shared trips and brings passengers and drivers together.
Handsets and an admin console call an HTTP API (FastAPI); each request runs one
use case over one SQLAlchemy session and one PostgreSQL transaction
(`ui/api/session_scope.py`), READ COMMITTED, committed when the response is a
success and rolled back otherwise. There are no background workers: components
meet only in the database, and every hard behaviour is two transactions meeting
on a row. `docs/adr/0012-contended-rows.md` is the project's own rule for them:
hold a row `FOR UPDATE` before deciding about it, and take locks in one order.

| Component | State | Operations | What makes it correct |
|---|---|---|---|
| Status lifecycles (`domain/lifecycles.py`, `state_machine.py`) | none: tables | `can`, `is_terminal`, `path`, `check` | declared hops only |
| Trip, seats, bookings (`book_seats`, `cancel_booking`, `trip_lifecycle`, repositories `trips`, `seats`) | trip row, seat rows, booking rows, cancellation records, commission rows | `BookSeats`, `CancelBooking`, `AdvanceTrip`, `VerifyPassenger` | a seat sold once; all seats or none; one cancellation record; each completed fare settled once; no status overwritten; active-booking limit |
| Wallet and settlements (`settlements`, `domain/wallet.py`, repository `money`) | wallet, ledger, settlement rows | `RequestSettlement`, `RecordCollection`, `DecideSettlement`, booking a fare in `AdvanceTrip._settle` | one open settlement; hold = pending; ledger reconciles; paid once |
| Fare arithmetic (`domain/fare.py`, `domain/money.py`, `domain/negotiation.py`) | none | `percentage`, `split_off`, the quote, the bounds on an offer, the late fee | shares add up to the fare; the driver makes their share whoever held the cash |
| Dispatch (`dispatch`, `scripts/expire-empty-trips.py`) | dispatch offers, trips without a driver, availability | offer, lapse, `AcceptTrip`, the script that expires empty departures | one card per driver and trip; a driver is ON_TRIP only with a trip |
| Fare negotiation (`negotiate_fare`) | ride requests, fare offers | `RequestRide`, `OfferFare`, `WithdrawOffer`, `AcceptOffer` | one accepted offer per request, which builds one trip and one booking |
| Drivers (`domain/driver.py`, `routers/driver.py`, `routers/admin.py`) | approval, availability | approve, suspend, go online | only an approved driver works |
| Boarding code (`TripRepository.reserve_boarding_attempt`) | failures, locked-until | reserve, compare, refund | no more than the limit per lockout; a right code does not count |
| Idempotency (`ui/api/idempotency.py`) | stored answers by user, key, endpoint | wrap a handler | a retry gets the first answer and does nothing twice |
| Sign-in and sessions (`authenticate`, `services/tokens.py`, repository `identity`) | one-time codes, users, refresh tokens | request a code, verify, refresh, log out, suspend, reinstate | bounded guesses and codes; one live token per sign-in; an end is an end |
| Account deletion (`delete_account`, repository `erasure`) | what an account owns | one request | nothing begun before survives |
| Documents and files (`driver_documents`, `vehicle_documents`, `services/storage.py`) | document rows, files on disk, approval | upload, review, approve, erase | a row has its file, a file its row; approved on what was reviewed |
| Vehicles (`vehicles`) | cars, plates | register, correct, replace, activate, suspend, replace a paper, retire with the account | one plate one car; one car presented but where requests crossed; the car under a trip in service, but for one taken out by a request begun before the trip or sent back by a paper replaced on the way |
| Ratings (`rate_trip`) | ratings, totals | rate | totals are the ratings on file |
| Support, numbers (`support`, `services/numbers.py`) | tickets, messages, sequences | raise, reply, decide | references gap-free; an answered ticket is not unread |
| Villages and imports (`import_villages`, `admin.place_village`) | jobs, villages, stations | preview, commit, pin | a file goes in whole; a station stands with its village |
| Routes and prices (`generate_routes`, `admin.set_route_fare`, repository `routing`) | routes, stops, fare rules | generate, set a price, quote | one generation of stops; a leg keeps a price, the one last set |
| Places (`report_place`, `routers/geography.py`) | names passengers give | report, approve, reject | one row per place |
| Schema (`migrations/`) | the database's tables and rules | upgrade, downgrade | a command takes effect whole; down undoes up |
| Search, admin reads, notifications, clients | | | nothing that decides |

How they interact: `AdvanceTrip` writes the trip, cascades to its bookings,
sets the driver's availability and, at COMPLETED, books fares on the wallet, all
in one transaction. `AcceptTrip` shares the cascade. `AcceptOffer` builds a trip
and a booking out of a negotiation and takes the same passenger and driver
locks. A deletion or suspension ends sessions and reaches drivers, documents and
files. Booking seats, asking for a ride, accepting an offer and taking a trip run
inside the idempotency wrapper. Notifications are best effort and
decide nothing.

`PROJECT.json` lists every component with its sources and status, and every
hazard found while reading, at its line.

## Modules

| Module | What it is |
|---|---|
| `Lifecycles` | the status tables as relations, reachability, `FollowTrip` |
| `SeatSale` | abstract: what the booking of seats promises |
| `TripBooking` | one trip, its bookings and seats, under concurrent transactions |
| `Account` | abstract: what a driver's account promises |
| `Payouts` | one driver's wallet and settlements under concurrent transactions |
| `FareArithmetic` | the sums: shares, quotes, bounds, fees, wallet entries |
| `Matching` | abstract: what agreeing a ride promises |
| `Hiring` | ride requests, offers, and the trips and rows of the drivers who get them |
| `SignInChain` | abstract: the tokens that descend from one sign-in |
| `SignIn` | codes, guesses, accounts, refresh tokens and what ends them |
| `AtMostOnce`, `Retries` | abstract: a key's work is done once; the wrapper that promises it |
| `BoardingCodes` | the attempts at boarding codes and their lockout |
| `Dispatch` | the dispatcher's board and the script that closes it |
| `Papers` | documents, files, approval, deletion, a process that dies |
| `Garage` | a driver's cars |
| `SupportDesk`, `Ratings`, `Aftercare` | tickets and their numbers; ratings and their totals; both together |
| `Villages`, `Routes`, `Places`, `Geography` | where the service goes: each of the three, and their promises together |
| `Migrations` | every revision of the schema, up and down, beside a running service |
| `MCSeatsAndSessions`, `MCPayouts`, `MCHiring`, `MCService` | TLC instances for the passing runs |
| `MCTripBooking`, `MCSignIn`, `MCGarage`, `MCRoutes`, `MCDispatch`, `MCVillages` | the small instances of the violation runs (`MCHiring` serves both) |
| `TripBooking_proofs`, `Payouts_proofs`, `Hiring_proofs`, `SignIn_proofs`, `FareArithmetic_proofs` | the theorems about the module each is named for |
| `Requests_proofs` | the theorems about `BoardingCodes`, `Retries` and `Migrations` |
| `Supply_proofs` | the theorems about `Papers` and `Garage` |
| `Office_proofs` | the theorems about `Dispatch`, `Aftercare` and `Geography` with their parts |

`TripBooking` is shown to implement `SeatSale`, `Payouts` `Account`, `Hiring`
`Matching`, `SignIn` `SignInChain` and `Retries` `AtMostOnce` (`INSTANCE ... WITH`).

`TripBooking` and `Payouts` meet in one step: the `ToSettle` bookings of
`TripBooking!MoverCommit` are the fares `Payouts!FareCommit` books. Each is
checked with the other's part reduced to what it can see of it: a counter of
settlements per booking in the one, an arbitrary order of fares in the other.
`MCPayouts` takes the fares' effects from `FareArithmetic`, whose theorems say
what those effects are for every fare and rate. `TripBooking` and `Hiring` meet in
the trip: `AcceptTrip` and `AdvanceTrip` are in both, in the first with what they
do to one trip's bookings and seats, in the second with what they do to one
driver's row and other trips. A trip an offer builds has exactly one booking, so
`Hiring` counts those trips as their passenger's active bookings. `Dispatch` has
the same acceptance as one step: it holds the trip and the driver throughout.
`BoardingCodes` is the first half of `VerifyPassenger`, `TripBooking!Verify...` the
second. `SignIn` sees a booking only as something an account keeps alive;
`Papers` sees a deletion only as the rows and files it removes.

### Transactions as steps

A transaction is cut where another can come between: at an unlocked read that
a later decision uses, at each wait for a lock, at the commit. Everything else
of a handler is one action. What a transaction has read is kept in its own
record (`seen`, `saw`, `at`, `carry`, `noted`, `looked`), so a stale read stays
stale. Locks are not variables: a lock is held from the step that takes it to the
commit or rollback, so its holders are a set computed from how far each request
is (`TripExclusive`, `RowHolders`, `WalletHolders`, `UserHolders`, `PlateHolders`,
`KeyHolders`, ...). A locking step is disabled while the row's holders conflict,
by PostgreSQL's table: `FOR UPDATE` conflicts with everything, `FOR NO KEY UPDATE`
with itself and with `FOR UPDATE`, the `FOR KEY SHARE` of a foreign-key check only
with `FOR UPDATE`. An insert into a unique index waits for whoever has put the
same key there and not committed. Any transaction may fail before its commit and
leave nothing behind (`...Rollback`, `...Fail`).

| Code | Actions |
|---|---|
| `BookSeats.execute` | `BookStart` (clock), `BookRead` / `BookRefuse` (passenger lock, limit, first check), `BookCommit` / `BookSoldOut` (trip lock, second check, seats, insert) |
| `CancelBooking.execute` | `CancelLock` (booking row, status check), `CancelCommit` (status, seats, record and its foreign key) |
| `AdvanceTrip.execute` | `AdvanceLock` (trip row, ownership, lifecycle), `MoverRead` (bookings, unlocked), `MoverCommit` (trip, cascade, records, fares) |
| `AcceptTrip.execute` | `AcceptLock`, then as above |
| `VerifyPassenger.execute` | `Reserve` / `RefuseLocked` (its own transaction), `HoldForBoarding`, `BoardCommit`, `WrongCode` in `BoardingCodes`; `VerifyHold` (trip), `VerifyCommit` / `VerifyRefuse` (booking row, board) in `TripBooking` |
| `RequestSettlement`, `RecordCollection` | `AskLock` (wallet), `AskCommit` / `AskRefuse` (open settlement, create, hold) |
| `DecideSettlement` | `DecideLock` (settlement), `DecideCommit` (wallet, money, status) |
| `AdvanceTrip._settle` | `FareLock`, `FareCommit` |
| `RequestRide.execute` | `AskLook` (open request, clock), `AskInsert` (expire what has run out, insert) / `AskTwinWon` (the unique index) |
| `CancelRideRequest`, `expire_stale_for_passenger` from the list | `CancelRideRequest`, `ListExpires`; `Deadline` is the passing of `expires_at` |
| `OfferFare.execute` and its route | `BidFind` (request and driver, unlocked), `BidCommit` (request lock, trips, own offers, insert) |
| `WithdrawOffer.execute` | `WithdrawOffer` (one conditional `UPDATE`) |
| `AcceptOffer.execute` | `AcceptLock` (passenger, request, limit), `AcceptHold` (answer, driver lock, driver read again), `AcceptCommit` |
| `AcceptTrip`, `AdvanceTrip` in `Hiring` | `TakeFind` (driver, unlocked), `TakeCommit`; `AdvanceLock`, `AdvanceCommit` |
| going online or offline, approval, suspension, a new document | `DeskRead`, `DeskCommit` |
| `RequestOtp` | `AskCount` (number's lock, window), `AskRefuse`, `AskCommit`; `AskFail` when no carrier takes it; `CodeAges` is the clock |
| `VerifyOtp` | `VerifyFind` / `VerifyExpired`, `VerifyReserve` (its own transaction) / `VerifyExhausted`, `VerifyWrong`, `VerifyConsume` / `VerifyTwinWon`, `VerifyKnown` / `VerifyOff` / `VerifyNew`, `VerifyCommit` |
| `RefreshSession` | `RefreshFind` / `RefreshOff`, `RefreshRotate`, `RefreshCommit`; a token already used: `ReplayLook`, `ReplayEnds` (its own transaction) |
| log out, suspend, reinstate, `DeleteAccount` | `EnderRead` / `EnderRefuse`, for a deletion `DeleteLock`, `DeleteCodes`, then `SweepLook`, `SweepHold`, `EnderCommit`; `BookerRead`, `BookerCommit` are the bookings a deletion refuses over |
| the idempotency wrapper | `Look`, `Handle`, `AfterConflict`, `Flush`, `AfterBeaten`, `RetryCommit` |
| `RaiseTicket`, `allocate` of numbers; replies, decisions | `NumberFirst`, `NumberInsert`, `NumberTaken`, `NumberNext`, `RaiseTicket`; `ReplyRead`, `DecideRead`, `HandCommit` |
| `RateTrip` | `RateFind`, `CreateOnce` (savepoint), `RecordRating`, `RateCommit` |
| uploading, reviewing, approving, erasing papers | `UploadPut` (the file), `UploadCommit`, `UploadRollback` (the hook); `Review...`, `Verdict...`; `EraseLook`, `EraseCommit`, `EraseFiles`; `Dies` |
| `RegisterVehicle`, `DecideVehicle`, `UploadVehicleDocument`, a driver's `DeleteAccount` | `RegisterRead` / `RegisterRefuse`, `RegisterCorrect` or `RegisterInsert`, `RegisterCommit`; `DecideCar` or `UploadCar`, then `ChangeCommit`; `EraseCars` (looks for a trip), `EraseCarsRead`, `EraseCarsCommit` |
| offering a trip, the cards' lapse, taking a trip, the script | `OfferRead`, `OfferWrite`, `OffersLapse`, `Answered`, `ScriptLook`, `ScriptCommit` |
| alembic | `Upgrade`, `Downgrade`, `RunStep`, `NextRevision`, `Commit`, `GiveUp`; the service beside it is `ServiceWrites` |
| preview and commit of an import; a pin | `Preview`, `CommitOpen`, `NextCodes`, `CreateVillage` / `BreakRing`, `CommitImport`; `PlaceRead`, `PlaceStations`, `PlaceCommit` |
| `GenerateRoutes`, `set_route_fare` | `FindRoute`, `ListStops`, `CreateRoute` or `RebuildStops`, `GenerateCommit`; `FareRead`, `FareWrite` |
| `ReportPlace`, `_decide` | `ReportLook`, `ReportWrite`; `DeciderRead`, `DeciderWrite` |

One point deserves care. SQLAlchemy's session keeps one object per row, and a
`SELECT ... FOR UPDATE` of a row whose object is still referenced returns that
object as it was loaded (nothing in the code asks for `populate_existing`).
`BookSeats` loads the trip at line 120, still holds it at line 150 and locks it
there: `book[b].seen` is therefore what the second check reads. The other use
cases lock the row they decide on as their first access to it.

The same holds of `OfferFare`, whose route has loaded the request, and of
`AcceptTrip`, which has loaded the driver: `BidFind` and `TakeFind` decide on
statuses that `BidCommit` and `TakeCommit` do not read again. A write of such a row
is an `UPDATE` of the columns the request changed, which leaves the others as
they are by then (`Saved`; likewise `HandCommit`, `Moved`, `Switched`). `AcceptOffer`
loads neither before it locks it, and answers an offer by a conditional `UPDATE`
whose row count it checks.

Definitions marked `a fault` next to one of the same shape are that definition with a
plausible bug in it. No action uses them; they document what each property
would catch, and `PROJECT.json` pairs each property with one.

### Abstractions

* One trip, one driver's wallet. Nothing locks two trips or two wallets.
* The number-sequence row that `BookSeats` and `RequestSettlement` also lock is
  in `SupportDesk` only: it is taken last and its holder waits for nothing
  afterwards.
* Which free seats a booking gets is left open (the code takes the lowest
  numbers). `BLOCKED`, which no running code sets, is not a seat status here.
* A booking's code is the booking. In `TripBooking` the clock is one bit, before
  or after the cut-off; in `BoardingCodes` a lockout is ahead or past, and passes
  only while no attempt is between its two transactions (it is minutes, they are
  milliseconds); in `SignIn` a code is recent, aged out of the window or expired.
* `driver_id` is only ever set by `AcceptTrip`: `release_driver` has no caller.
* The wallet exists from the start, lifetime earned and commission are
  write-only totals, and `COMPLETED` books each fare in a step of its own: the
  code books all fares of a trip under one hold of the wallet, which is one of
  the orders the model allows. `Amounts` are signed: below zero a collection,
  above a payout.
* `FareArithmetic` has amounts as natural numbers of minor units: the code's
  integers are unbounded, and it refuses a second currency.
* In `Hiring` the price, the legs of a journey, the vehicle and the documents
  only refuse, and a refusal that held nothing leaves the state as it was. An
  offer's identifier is also that of the trip it may become. Drivers start
  approved and online; how they get there is `Desk`'s `approve` and `online`.
  Statuses no running code writes (offer `EXPIRED`, driver `BUSY` and `REJECTED`)
  are not statuses here.
* In `SignIn` the token a request issues carries the request's name, a hash is
  its token, and a role or a profile is not part of an account. A deletion
  refuses over active bookings, as in the code; the rows it scrubs are reduced to
  the number, the codes and the tokens, and in `Papers` to documents and files.
* In `Dispatch` no seat is sold once a departure is past, and the ranking by
  distance is any choice of the most drivers the limit allows.
* In `Papers` a document's type and holder are given, `beside` remembers which
  requests overlapped, and a process dies at any point between its file and its
  row.
* In `Villages` a spreadsheet is a sequence of names and optional codes, all in one
  district, and points are far apart; in `Places` spots lie on a line; in `Routes`
  the days are numbers and one leg has prices.
* In `Migrations` a schema is its tables, references, added columns and rules, and
  the rows are the kinds of row some step trips over.
* `Garage` keeps a trip only as the car a driver is riding with. An upload is about an
  active car: of another it leaves the status alone. Both `UploadCar` and `DecideCar`
  are a read and a write at the commit, with nothing locked between.

## Runs

| Run | Configuration | Shows |
|---|---|---|
| `seats_and_sessions`, seats | 2 seats, 3 bookings (one passenger wants 1 + 1 seats, another 2), limit 1, 2 drivers, 2 movers, 2 cancellations, 1 boarder | the safety of `TripBooking`, `IndInv`, the refinement of `SeatSale` |
| `seats_and_sessions`, sessions | 1 number, 2 accounts, 2 codes of 2 attempts, a window of 1, 2 guesses, 2 refreshes, a suspension, reinstatement or deletion, a booking; at most 6 of these 8 requests are made (`MaxAccountRequests`) | codes and guesses rationed, sessions that end, the refinement of `SignInChain` |
| `payouts_and_endings`, wallet | 3 settlements, 2 deciders, a cash fare of 10 and an online fare of 3 at 10 %, amounts -2..3, minimum 2 | all of `Payouts`, the refinement of `Account`, every request ends |
| `payouts_and_endings`, trip | 2 bookings, 1 driver, 1 mover, 1 cancellation, 1 boarder | every request over a trip ends |
| `hiring`, on the board | 3 requests of 2 passengers (one asks twice), 3 offers, 2 drivers, 2 acceptances, limit 2 | one open request, one ride per request, every answer final |
| `hiring`, one driver | one request of each passenger, 2 offers, a scheduled trip, 1 driver, 2 acceptances, a mover, a desk; no deadline passes | one trip at a time, hired while fit, the refinement of `Matching` |
| `service` | each part below at its own bounds, one part per behaviour | the parts that share no row |
| `booking_stale_trip`, `hiring_suspended`, `sign_in_closed_account`, `garage_plate_returns`, `fares_same_day`, `dispatch_two_presses`, `dispatch_overtaken`, `villages_twice` | the smallest instances of their modules | a statement of the repository the code does not keep (below) |

A run of several parts is a disjoint union: a behaviour picks a part at the start
(`part` or, in `MCHiring`, `scene`), takes only its steps and leaves the variables of
the others as they are. The parts share no row in the code, so the union loses
nothing, and the state count is the sum and not the product. In
`MCSeatsAndSessions` the two parts name their requests alike (`w`, `x`, `y`, `z`), so
that one permutation of names is a symmetry of both. `MCHiring` checks every property
in both scenes; the table says what each scene is for.

`MCService` puts the smaller components side by side in the same way. Its parts:

| Part | Bounds | Property |
|---|---|---|
| `Retries` | 4 arrivals on 2 keys (two equal, one with another body), 2 targets that can be taken twice | `KeysHold`: the refinement of `AtMostOnce`; nobody is refused what they have already done |
| `BoardingCodes` | 5 attempts, 2 codes per lockout, 2 lockouts | `CodesHold` |
| `SupportDesk`, `Ratings` | 3 tickets in one year, 2 replies or decisions; 3 ratings of one driver, two by one passenger | `AftercareHolds` |
| `Papers` | 1 holder, 1 type, 2 uploads, 2 reviews, 1 approval or suspension, 1 deletion; symmetry on reviews | `FilesAccountedFor`, `ActiveOnReviewedPapers` |
| `Garage` | 4 registrations of one driver (a car, another, the first again, a third), 1 decision, 1 replaced paper, 1 closing of the account; at most 4 of the 7 are made (`MaxCarRequests`) | `OnlyACrossingMisplacesCars` |
| `Dispatch` | 2 trips, 2 drivers (one's car too small for the second trip), 2 presses of Offer, 1 script, at most 2 offers | `DispatchHolds` |
| `Migrations` | none: 19 revisions up and down, every set of the 12 kinds of troublesome row | `MigrationsHold` |
| `Villages` | 2 jobs sharing a name and a code, 3 commits (one a double click), 2 pins, 2 points | `ImportedWhole`, `OnlyACrossingLeavesAStation` |
| `Routes` | 2 stations, 3 stops, 2 generations, 2 price changes of 2 prices, days 0..3 | `StopsAreOneGeneration`, `PricesHold` |
| `Places` | 3 reports, 2 names, 3 spots, 1 decision | `OneRowPerPlace` |

The bounds are the smallest where the races are possible: more seats are wanted
than there are, one passenger has two requests and a limit of one, two
transactions of every kind that can compete with its own kind, a booking of
several seats and one of a single seat. A mover may run again and again, so
trips go through their whole lifecycle. Three settlements allow one paid, one
refused and one open; the two fares make a debt and a credit. The two
scenes of `hiring` split what would be too large together: on the board, two acceptances
compete for offers of one request, for requests of one passenger and for
drivers, with a withdrawal, a cancellation, an expiry and a second request
between any two steps; about the driver, an acceptance, a trip from the
timetable, a move of a trip and a write of the desk compete for one row. There
`AdvanceTargets` is DRIVER_ARRIVING and CANCELLED: every other target a driver may
ask for sets the availability as one of these two does, except ARRIVED, which
leaves it. Over accounts a window of one code makes two requests compete for it, two
attempts let one guess be wrong and another late, and two accounts allow a closed
account's number to be registered again; six requests are a sign-in with its code, a
refresh, an end and two more of any kind. In `Garage` four are enough for a car, its
replacement, the first plate again and one more, or for a car, its activation and two
requests that cross a trip. In `service` a retry meets its original,
a lockout is reached twice, a year's first number is asked for twice, and so on:
each part has two of whatever can cross. The proofs remove the bounds for
everything they cover. `CHECK_DEADLOCK FALSE` is set because a trip that is over,
with every request made, stops: nothing is left to do. Symmetry is used only for
safety and only on sets the model never orders.

### Fairness

`FairSpec`, of `TripBooking` and `Payouts`, assumes what the code and the database
provide: a running transaction goes on (weak fairness of its next step); a waiter
for a lock that is free again and again gets it, since PostgreSQL queues waiters
(strong fairness); a cycle of waiters is broken by the deadlock detector, which
aborts a member (`DeadlockAbort`, weak fairness). No request is assumed to arrive,
no driver to move a trip, and no rollback to happen otherwise. `MCPayouts` runs both at
once, with the fairness of both (`MCFairness`). There a strong fairness of one part and
one of the other are stated as one, of their disjunction: in a behaviour of one part no
request of the other has begun, so none of the other's steps after a lock is ever
enabled, and the disjunction is enabled, and taken, exactly when the part's own action is.

The other modules state no liveness. Whether a ride request is answered, a ticket
decided or a place approved is up to people. `Hiring` takes its locks in the order
passenger, request, offer, trip, driver, so nobody waits in a cycle; in `SignIn`
`OnlyDeletionDeadlocks` states it as safety of the wait-for graph.

## What the checks found

The violation runs each show one statement of the repository that the code
does not keep. The model is not changed to hide them.

1. `SoldOnlyWhileBookable` (`booking_stale_trip`): `book_seats.py` lines 148-149 say
   the check under the trip lock is "true at commit, not merely at read". It
   reads the status loaded before the lock, so a trip cancelled or departed in
   the window still sells. Such a booking on a cancelled trip is never moved
   again and counts towards its passenger's limit. A sale still takes only free
   seats (`SeatsMatchBookings`, `SeatSale`).
2. `SuspendedHasNoTrip` (`hiring_suspended`): a suspension looks for trips in flight
   without holding the driver (`ui/api/routers/admin.py` line 1032), so a trip may
   be agreed between its look and its commit; `AcceptTrip` may also start from an
   approval that has been withdrawn since (`dispatch.py` line 298).
3. `OnlyActiveIsSuspended` (`sign_in_closed_account`): a suspension writes the status
   it decided on from an unlocked read (`admin.py` line 1346); a deletion committed
   in between is overwritten, and reinstating then opens a closed account.
4. `PlateTakenIsNamed` (`garage_plate_returns`): a driver who goes back to a car
   registered before passes the check of `vehicles.py` line 98, which names only
   another driver's plate, and meets the unique constraint as a server error.
5. `PriceIsTheLastSet` (`fares_same_day`): prices have a day's resolution, so of two
   changes on one day either may be quoted (`repositories/routing.py` line 192).
6. `OneCardOnAScreen` (`dispatch_two_presses`): `dispatch.py` lines 154-158 say that a
   driver who has the trip on the screen is not offered it again, since the button
   "is pressed twice on a slow connection as a matter of course". The cards are read
   without a lock and no index forbids two, so presses that cross each write one.
   The comment holds of presses that follow each other: that is the first conjunct
   of `DispatchHolds`.
7. `OnlyTheEmptyExpire` (`dispatch_overtaken`): `scripts/expire-empty-trips.py` lines 9-12
   say it closes "only those that are still empty". It looks, and writes at its next
   statement by the trip's id, so a trip a driver takes in between is EXPIRED with a
   driver, who stays ON_TRIP. `DispatchHolds` says it happens in no other way.
8. `EachRowImportedOnce` (`villages_twice`): `ui/api/routers/imports.py` lines 205-206 say a
   second commit "is refused rather than repeated -- an operator who clicks twice on a
   slow connection must not import everything twice". `CommitVillageImport` reads the
   job unlocked and marks it COMMITTED at the end, so two calls that cross import the
   file twice unless it names its own codes. `ImportedWhole` says that a call that
   follows another is refused, and that no call alone imports a row twice.

### Seen while modelling

What the models do because the code does it, and that no run is about: some cost
an error and no data, some contradict no statement of the repository.

* Booking: the second clock check of `BookSeats` reuses the time of the first
  (`book_seats.py` 154-156). A driver who has boarded somebody and then cancels
  leaves the boarded booking ONBOARD for good, with a cancellation record
  (`trip_lifecycle.py` 164); `RecordsExplained` names the case. A booking sold at
  ARRIVED_AT_PICKUP is never READY (`book_seats.py` 185), so its code is refused until
  IN_TRANSIT boards it unverified.
* Lock order: ADR 0012 says no two requests can wait on each other in a cycle. A
  cancellation (booking, then trip through a foreign key) and a move (trip, then
  bookings) can, and so can asking for and deciding a settlement (`settlements.py`
  106/109 and 288/304), and a deletion with a sign-in, a refresh or a suspension.
  PostgreSQL aborts one of them: an error, not data (`EveryRequestEnds`,
  `EveryTripRequestEnds`).
* Negotiation: `OfferFare` reads the request's status as its route loaded it before
  the lock (`negotiate_fare.py` 323), so a bid may land on a request that is gone;
  it can never be accepted. `AcceptOffer` does not look at `expires_at`.
* Dispatch: `AcceptTrip` asks for no card and compares no capacity.
* Vehicles: a paper replaced during a trip sends the car under it back to PENDING
  (`vehicle_documents.py` 107-111 asks for no trip), and the trip goes on with it: the
  one case in which the third conjunct of `OnlyACrossingMisplacesCars` blames a request
  that began after the trip.
* Sign-in: every guess needs a second database connection while its request holds
  one (`ui/api/deps.py` 214). A refresh that overlaps the end of every session
  may leave its token live, which the comment at `ui/api/routers/admin.py` 1348-1352
  rules out ("a refused suspension revokes nothing, and a committed one leaves no refresh
  token to mint access tokens with"): the sweep has read the account's tokens before the
  refresh commits its own. `OnlyAnOverlapSurvives` says it is the only case, for tokens
  as for bookings; the token is refused while the account is off, and works again once
  it is reinstated.
* Deletion: ride requests are closed by identifier without looking at their status
  again, and the driver row is written unlocked.
* Support: a reply or decision that crosses a close can still be written on the
  closed ticket.
* Villages: a preview that is no longer current imports names added since; of two crossing placements a station may stay behind.
* Places: a rename, or two reports that cross, can give one place two rows, and
  the count of reports can lose one.
* Routes: regenerating brings back the distance a correction had changed, and
  prices of legs keep their sequence numbers when the template's stops change.
* Migrations: the downgrade of `c3f80a91d47e` drops its check constraints by a name
  they do not have; `fd2262...` fills an unquoted fare with 0 and then demands more
  than 0; a downgrade and upgrade of `73ba...` turn a collection into a payout; a
  permit sent while `a1c73f9e2b40` is being taken down is lost; four downgrades are
  refused once rows only the newer schema allows exist.

## Proofs

`tlapm` checks the eight proof modules completely. Assumptions are the named
`ASSUME`s of the modules: finite sets of seats, bookings, requests, offers,
scheduled trips, codes, attempts, uploads, tickets and ratings; at least one seat
per booking, natural limits, nulls outside their sets, kinds of request disjoint;
integer fares, amounts and spots; a template with a station in its scope (an empty
one is refused), a calendar of at least a day, and files whose codes are numbers.
Everything else is arbitrary: any number of seats, bookings, passengers, drivers,
accounts, numbers and requests of each kind. `PROJECT.json` names each theorem with
the property it proves. Every invariant a passing run checks is proved but for the
part `SchemaReplays` of `MigrationsHold`, and every inductive invariant named below
was checked by TLC, on the instance of the run that checks its property, before it
was proved; only `IndInv` of `TripBooking` stays among a run's invariants, the others
would repeat what the properties they imply already ask.

**TripBooking.** `TypeOK` is inductive alone. The safety properties are not: that a
cancelled booking is not overwritten depends on why the mover's unlocked read
cannot go stale in a way that matters. `LockInv` says it: while a mover holds
the trip exclusively no boarding holds it (`TripHeldByOne`), a held booking
stays cancellable with one holder (`RowsHeldByOne`), and what a mover read is
still the state, the move it decided on is still legal and the driver still its own
(`MoverIsCurrent`) — a cancellation cannot commit, since its foreign key waits
for the trip, and a booking cannot either. `DataInv` then relates the
rows: seats to bookings, records to statuses (`RecordsExplained`), fares to
statuses. `LimitInv` carries the active-booking
limit: a request that has counted under its passenger's lock is the only one
past that point, so its count still holds (`LimitStillMet`). The refinement
maps a booking to "new", "sold" or "withdrawn" and to its seats; only
`BookCommit` and `CancelCommit` are steps of `SeatSale`, all others stutter.
`BoardingNeverDeadlocks` needs no invariant of the rows, only what each lock's
holders can be (`WaitKinds`): a boarding waits for cancellations, and these and the
moves wait for each other only; a booking waits for one of its passenger's that is
further on, or for the trip, and nobody there waits for a booking that has just
started. What is closed under waiting and lacks a request holds no cycle through it
(`NotAheadOfItself`).

**Payouts.** `MoneyInv` says that the wallet's holder has read its current value
(`WalletHeldByOne`), that a settlement exists only once its request is done
(`CreatedWhenDone`) and that a decision is still about the status it was made on
(`DecisionIsCurrent`); with these, at most one settlement is open, pending is
exactly what it holds, and the ledger adds up. The refinement maps the account to
`available + pending`: a hold moves nothing, a paid settlement moves its
amount, a fare its effect. That opening a settlement does not take the balance through
zero (`HoldsStayOnTheirSide`) is proved as an action property of its own; the runs check
it as a part of `ImplementsAccount`, where `Account` asks it of every hold.

**Hiring.** `TypeOK` is inductive alone. What the runs check is not: that a driver
has one trip depends on what an acceptance may rely on between answering its
offer and its commit. `AcceptIsCurrent` says it: the request an acceptance holds
stays open and has one holder, and from the moment it has the driver, the offer
stays unanswered, the driver approved, online and free, since every writer of
these rows waits for them. `MoveIsCurrent` says the same of a trip being moved, and
`RowsAgree` which rows exist in step: a trip only of an accepted offer, an
accepted offer only on a matched request. The proofs state "at most one" as
"any two are equal" (`TwinsAreOne`, `MatchedOnce`, `DrivenOnce`) and come back to
cardinalities in `InvIsIndInv`. `QuietSteps` then leaves few steps that can
answer an offer, end a request or hire a driver, which gives `AnswersAreFinal` and
`HiredWhileFit`; `RefusedOnlyForALiveRequest` follows from the two steps that can
refuse an ask, each by the clock it read. The refinement maps requests to their phase and drivers to whether
they have a trip in flight: `AcceptCommit` is `Match`, the ends of requests `Close`
and `Ask`, `TakeCommit` `Engage`, a last move of a trip `Finish`.

**SignIn.** That a sign-in has one usable token (`OneUsableToken`) rests on what a
refresh relies on between its conditional `UPDATE` and its commit: the token it is
exchanging is still live and nobody else, another refresh or the end of every
session, is exchanging or retiring it (`RotationsExplained`). That a code makes
one session (`OneSessionPerCode`) rests on who holds the code's row
(`CodesExplained`); that two first sign-ins end on one account
(`OneAccountPerNumber`) on the number taken but not yet committed
(`AccountsExplained`); and that a number is sent no more codes than its window
allows on the count made under its lock (`CountsStand`). `GuessesExplained` ties the
number of an attempt to the counter it was drawn from, in a transaction that no
later refusal undoes. `SignInInv` is their conjunction. The refinement maps the chains of
`SignInChain` to verifications, their live tokens to the usable tokens that descend
from each, and the issued ones to every token that exists: `VerifyCommit` opens a
chain, `RefreshCommit` renews it, a replay's or an ender's sweep ends it.
`OnlyAnOverlapSurvives` is about history: `met` holds who was in flight with whom.
`OverlapInv` says that whoever holds an account has met everybody who is about to
switch it off and the one who did (`OverlapsMet`), and that an ender about to commit
has met the owner of every live token its sweep will miss and of every booking its
check did not see (`SwitchesExplained`). `OnlyDeletionDeadlocks` (`NoDeletionNoCycle`):
an account's row is held by deletions only, so in a set without one nobody waits for
a row of that kind; then nobody waits for a token, whose holder is about to take an
account's row, nor for a number, nor for a code, and a set in which each waits for
another of the set is empty.

**FareArithmetic.** Integer division against a rate in basis points: both shares lie
between nothing and the fare and add up to it, the platform's is within half a
minor unit of its rate (`SplitIsExact`); dividing two legs apart or together
differs by at most one unit (`SplittingApartCostsAtMostOne`); the notes in hand and
the wallet's entry together are the driver's share, whoever held the cash
(`DriverMakesTheirShare`); and an offer whose total is within a factor of five of
what was asked has no leg beyond that, however its legs divide it
(`NoLegEscapesTheBounds`).

**Retries and BoardingCodes.** A key's insert has one holder, who found no answer
stored (`RetriesInv`); with `RoomExplained` (a target has one holder, who found room
in it, and whoever was told of a conflict was told with nobody else holding it) the
wrapper implements `AtMostOnce`, and nobody is refused what their own request did.
For the codes, `PeriodsExplained`: nobody is between paying for an attempt and its
answer while a lockout is served, so what a right code gives back was paid in the
present period, and the attempts that count are never more than the limit.

**Papers.** `UploadsExplained` ties rows and files to how far an upload is.
`BesideExplained` says that requests in flight together are in each other's
`beside`, and that a deletion can miss a paper only if it was uploaded beside it; and
`TimesExplained` that no two uploads have the same time, which is what makes "the
current document" one. `ApprovalsExplained` strengthens `ActiveOnReviewedPapers`
to what holds between the steps: an upload that will leave an approval standing,
and an approval about to be written, each have the other beside them.

**Garage.** The plate an insert holds is free and held by nobody else
(`PlatesExplained`). For one car presented the invariant is a disjunction per driver
(`CrossingsExplained`): either two requests about that driver's cars crossed and
both wrote, or the driver has at most one car in use and every request still sees the
cars it read, unless one beside it has written; closing an account counts as a request
about its driver's cars, whatever it finds. `RidesExplained` carries the third conjunct:
a request that will take a car out of service and found no trip on it (a decision, a
registration, the closing of an account) has any trip that takes the car meanwhile in its
`crossed`. A replaced paper is the exception, since `UploadVehicleDocument` looks for no
trip: it leaves the car PENDING and nothing else, and that is all the property grants it.

**Dispatch.** The board's promise allows two cards for one driver only where presses
crossed; `CardsExplained` carries it to the press that has read the cards and not yet
written its own. `BoardExplained` follows a trip the script has its hands on:
nobody's, or taken since and then in `overtaken`. That a driver is ON_TRIP only with a
trip rests on both. The two exceptions are what the violation runs show (findings 6 and
7); `TheBoardHolds` is that there are no others.

**SupportDesk and Ratings.** A number in a request's hands is the year's next and has
one holder (`NumbersExplained`), so a failure gives it back with no gap; a ticket
that somebody found past OPEN is past it for good (`HandsExplained`). In `Ratings` the
sum of a person's scores is stated as the number of their stars (`Stars`), a set
whose size the prover can reason about where a fold is beyond it; what an `UPDATE` has
made of a row is one rating more than the row, and its holder is the only one
(`RowsHeld`).

**Villages, Routes, Places.** A commit's rows to come and rows made together are what
the preview called new and nothing it did not know (`CommitExplained`), in whatever
order they are created and each once; the commits of one job that opened were beside
each other (`BesideEachOther`), so a call that follows another finds the job COMMITTED
and is refused, which is what `FilesImportedWhole` proves beside the wholeness; a placement that has read the station of a village nobody
moved meanwhile found both in one place (`PinsExplained`). A generation has found
every stop of the routes it rebuilds, which are its own until it ends
(`GenerationsExplained`). A rule is one change of price, closed only by another that
starts the day it ends, and no day is without one in force (`RulesExplained`): closing
a rule and opening the next on the same day leaves none uncovered, however changes
cross. When no day saw two changes, the newest rule begun by a day is in force on it,
since whatever closed it would be newer and begun by then; so it is the only one
quoted and the last one set (`OneChangeADayIsExact`). `OneRowPerPlace` is
inductive with "a row is one finished report's" (`RowsAreReports`) and "a row a report
did not find came while it ran" (`UnfoundCameSince`).

**Migrations.** Of `MigrationsHold`, `RowsFitTheSchema` and `PermitsAreKept` are proved.
`RowsFitTheSchema` is about the committed schema; `MigrationsInv`
says the same of what the command under way has made of it so far (`Fits`), and that
a table the command has taken away, or a rule it has added, is of a table it has
locked (`ChangesAreLocked`): so whatever the service writes meanwhile meets the rules
it was written under. A step that turns rows needs its own reason: the permits'
revision creates the cars' documents first, which locks the cars (`PermitMoves`), and
the way down of the fares has dropped the check by the time a fare is taken away
(`FaresReturn`). `WaysUp` and `WaysDown` go through the 38 lists of steps. The proof
needs that a row is in a table that exists; stating it showed that a request whose
deadline passes while its table is being dropped has to go with the table.

Only model-checked: `EveryRequestEnds` and `EveryTripRequestEnds` (liveness under
fairness, and `ENABLED`, are beyond the prover), and `SchemaReplays`, which is about
what folding the steps of 19 revisions one after another builds: induction over data.
`Migrations` has no constants and finitely many states, so TLC's run is of every
behaviour it has. The statements of the
violation runs are false of the code and have none.

## Not modelled

* The handset clients and the admin console: user interface and caches over the
  API. Deployment, marketing and motion material hold no program state.
* Search, the reports, the dashboards and most of the admin API: reads, each one
  statement or a page of them; nothing is decided on what they return.
* Notifications, SMS, e-mail and the audit trail: best effort, written by a request
  and read back by nothing that decides. A code no carrier takes is `AskFail`.
* The seed and the other operators' scripts: they load reference data once, by
  hand, with nobody else about; the price the seed sets is `SeedPrice`. `scripts/make-review-driver.py` sets up
  one review account's car in the same way, and is not in `Garage`.
* Parsing: spreadsheets, spellings, amounts, telephone numbers. What they refuse is
  refused before anything is decided.
* Roles and settings: written by one statement of one operator. (A role granted
  again after it was revoked meets a unique constraint: `user_roles` keeps revoked
  rows.)
* The creation of a wallet (two first requests of one driver: one fails and leaves
  nothing behind), the connection pool and the threads, and the expiry of stored
  idempotent answers after a day.
* In an account's deletion, the closing of its ride requests and offers and the
  scrubbing of messages.

What is left would add rows to components that are here, not behaviours: the
wallet's creation in `Payouts`, a deletion's writes to `Hiring`'s requests, and a
composition of `Garage` with `Dispatch` where a car changes between an offer and its
acceptance.
