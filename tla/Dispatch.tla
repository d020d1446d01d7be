------------------------------ MODULE Dispatch ------------------------------
(***************************************************************************)
(* The dispatcher's board: trips that need a driver are offered to several *)
(* (use case dispatch, routers/dispatch.py, DispatchOfferRepository), one  *)
(* of them takes the trip, and the office's script closes the departures   *)
(* nobody drove (scripts/expire-empty-trips.py).                           *)
(*                                                                         *)
(* Offering locks nothing.  Taking a trip holds it and its driver for the  *)
(* whole request, so it is one step here; TripBooking and Hiring are about *)
(* what happens inside it.  The trips are ones nobody has booked, the only *)
(* ones the script will close; no seat is sold once a departure is past.   *)
(***************************************************************************)
EXTENDS Naturals, FiniteSets

CONSTANTS Runs,        \* the trips on the board
          Crew,        \* drivers, approved and with an active car
          BigEnough,   \* for each trip, those whose car seats enough
          Presses,     \* presses of Offer
          Scripts,     \* runs of expire-empty-trips
          MaxOffers,   \* dispatch.max_offers_per_trip
          NoRun, NoCrew

ASSUME DispatchAssumption ==
  /\ BigEnough \in [Runs -> SUBSET Crew] /\ MaxOffers \in Nat \ {0}
  /\ NoRun \notin Runs /\ NoCrew \notin Crew

VARIABLES
  board,      \* trips
  crew,       \* drivers.availability
  cards,      \* dispatch_offers
  press,      \* what each press has read
  closing,    \* what each script has looked at and written
  overdue,    \* trips whose departure is more than the grace period gone
  alongside,  \* for each press, the presses that ran while it did (history)
  overtaken   \* trips taken between a script's look and its write (history)

dispatchVars == <<board, crew, cards, press, closing, overdue, alongside, overtaken>>

\* SCHEDULED stands for REQUESTED too, UNDER_WAY for the statuses from
\* DRIVER_ASSIGNED to ARRIVED and ENDED for COMPLETED and CANCELLED.
RunRow    == [status : {"SCHEDULED", "UNDER_WAY", "ENDED", "EXPIRED"}, driver : Crew \cup {NoCrew}]
Card      == [run : Runs, driver : Crew, by : Presses, response : {"none", "lapsed", "ACCEPTED"}]
PressNote == [step : {"new", "read", "done"}, run : Runs \cup {NoRun}, to : SUBSET Crew]

DispatchTypeOK ==
  /\ board \in [Runs -> RunRow]
  /\ crew \in [Crew -> {"ONLINE", "ON_TRIP"}]
  /\ cards \subseteq Card
  /\ press \in [Presses -> PressNote]
  /\ closing \in [Scripts -> [step : {"open", "done"}, at : Runs \cup {NoRun}, held : SUBSET Runs]]
  /\ overdue \subseteq Runs /\ overtaken \subseteq Runs
  /\ alongside \in [Presses -> SUBSET Presses]

DispatchInit ==
  /\ board = [t \in Runs |-> [status |-> "SCHEDULED", driver |-> NoCrew]]
  /\ crew = [d \in Crew |-> "ONLINE"]
  /\ cards = {}
  /\ press = [p \in Presses |-> [step |-> "new", run |-> NoRun, to |-> {}]]
  /\ closing = [x \in Scripts |-> [step |-> "open", at |-> NoRun, held |-> {}]]
  /\ overdue = {} /\ overtaken = {}
  /\ alongside = [p \in Presses |-> {}]

OpenCards(t) == {c \in cards : c.run = t /\ c.response = "none"}
InFlightOf(d) == {t \in Runs : board[t].driver = d /\ board[t].status = "UNDER_WAY"}

-----------------------------------------------------------------------------
(* OfferTripToDrivers.                                                     *)

\* NearestStationMatching: the nearest of the drivers online whose car is big
\* enough.  Where they are is left open, so any of them may be the nearest.
AvailableFor(t) == {d \in BigEnough[t] : crew[d] = "ONLINE"}
Ranked(t) == {S \in SUBSET AvailableFor(t) :
                Cardinality(S) = MaxOffers \/ (S = AvailableFor(t) /\ Cardinality(S) < MaxOffers)}

\* Who has the trip on their screen already is not offered it again.
NobodyAlready(t) == {}                                          \* a fault
Already(t) == {c.driver : c \in OpenCards(t)}

OfferRead(p) ==
  /\ press[p].step = "new"
  /\ \E t \in Runs : \E S \in Ranked(t) :
       /\ board[t].status = "SCHEDULED" /\ S # {}
       /\ press' = [press EXCEPT ![p] = [step |-> "read", run |-> t, to |-> S \ Already(t)]]
  /\ alongside' = [q \in Presses |->
       IF q = p THEN {r \in Presses : press[r].step = "read"}
       ELSE IF press[q].step = "read" THEN alongside[q] \cup {p} ELSE alongside[q]]
  /\ UNCHANGED <<board, crew, cards, closing, overdue, overtaken>>

OfferWrite(p) ==
  /\ press[p].step = "read"
  /\ cards' = cards \cup {[run |-> press[p].run, driver |-> d, by |-> p, response |-> "none"] :
                            d \in press[p].to}
  /\ press' = [press EXCEPT ![p].step = "done"]
  /\ UNCHANGED <<board, crew, closing, overdue, alongside, overtaken>>

offer_trip(p) == OfferRead(p) \/ OfferWrite(p)

\* dispatch.offer_ttl_seconds: the cards of one press lapse together.
OffersLapse(p) ==
  /\ \E c \in cards : c.by = p /\ c.response = "none"
  /\ cards' = {IF c.by = p /\ c.response = "none" THEN [c EXCEPT !.response = "lapsed"] ELSE c :
                 c \in cards}
  /\ UNCHANGED <<board, crew, press, closing, overdue, alongside, overtaken>>

-----------------------------------------------------------------------------
(* AcceptTrip, and the end of the trip.                                    *)

HeldByScript(t) == \E x \in Scripts : closing[x].step = "open" /\ t \in closing[x].held

\* find_open takes one of the driver's cards for the trip, if there is one.
Answered(d, t) ==
  LET mine == {c \in OpenCards(t) : c.driver = d} IN
  IF mine = {} THEN {cards}
  ELSE {(cards \ {c}) \cup {[c EXCEPT !.response = "ACCEPTED"]} : c \in mine}

accept_trip(d, t) ==
  /\ ~HeldByScript(t)
  /\ board[t].status = "SCHEDULED"
  /\ crew[d] = "ONLINE" /\ InFlightOf(d) \subseteq {t}
  /\ board' = [board EXCEPT ![t] = [status |-> "UNDER_WAY", driver |-> d]]
  /\ crew' = [crew EXCEPT ![d] = "ON_TRIP"]
  /\ cards' \in Answered(d, t)
  /\ UNCHANGED <<press, closing, overdue, alongside, overtaken>>

RunEnds(t) ==
  /\ board[t].status = "UNDER_WAY" /\ ~HeldByScript(t)
  /\ board' = [board EXCEPT ![t].status = "ENDED"]
  /\ crew' = [crew EXCEPT ![board[t].driver] = "ONLINE"]
  /\ UNCHANGED <<cards, press, closing, overdue, alongside, overtaken>>

-----------------------------------------------------------------------------
(* expire-empty-trips: one session, one commit for all the trips named.    *)

DepartureGone(t) ==
  /\ t \notin overdue /\ overdue' = overdue \cup {t}
  /\ UNCHANGED <<board, crew, cards, press, closing, alongside, overtaken>>

Expirable(t) == board[t].status = "SCHEDULED" /\ board[t].driver = NoCrew /\ t \in overdue

\* The trip looked at before is written, by its id, when the session runs its
\* next statement, and held from then on.
Flushed(x) == closing[x].held \cup ({closing[x].at} \cap Runs)
Overtaking(x) == overtaken \cup {t \in {closing[x].at} \cap Runs : board[t].status # "SCHEDULED"}

ScriptLook(x) ==
  /\ closing[x].step = "open"
  /\ \E t \in Runs \ Flushed(x) :
       Expirable(t) /\ closing' = [closing EXCEPT ![x].at = t, ![x].held = Flushed(x)]
  /\ overtaken' = Overtaking(x)
  /\ UNCHANGED <<board, crew, cards, press, overdue, alongside>>

ScriptCommit(x) ==
  /\ closing[x].step = "open" /\ Flushed(x) # {}
  /\ board' = [t \in Runs |-> IF t \in Flushed(x) THEN [board[t] EXCEPT !.status = "EXPIRED"]
                                                  ELSE board[t]]
  /\ overtaken' = Overtaking(x)
  /\ closing' = [closing EXCEPT ![x] = [step |-> "done", at |-> NoRun, held |-> Flushed(x)]]
  /\ UNCHANGED <<crew, cards, press, overdue, alongside>>

DispatchNext ==
  \/ \E p \in Presses : offer_trip(p) \/ OffersLapse(p)
  \/ \E d \in Crew, t \in Runs : accept_trip(d, t)
  \/ \E t \in Runs : RunEnds(t) \/ DepartureGone(t)
  \/ \E x \in Scripts : ScriptLook(x) \/ ScriptCommit(x)

DispatchSpec == DispatchInit /\ [][DispatchNext]_dispatchVars

-----------------------------------------------------------------------------
\* dispatch.py:154-158, "a driver who already has this trip on his screen is
\* not offered it again", however often the button is pressed.
OneCardOnAScreen ==
  \A t \in Runs : \A c, k \in OpenCards(t) : c.driver = k.driver => c = k

\* expire-empty-trips.py:9-12: it closes "only those that are still empty".
OnlyTheEmptyExpire ==
  \A t \in Runs : board[t].status = "EXPIRED" => board[t].driver = NoCrew

\* Neither is kept.  What is: presses that come one after the other leave one
\* card, and only presses that ran beside each other leave two; the card
\* answered ACCEPTED names the driver who has the trip, and is the only one of
\* the trip; a driver is ON_TRIP, which neither going offline nor another trip
\* gets them out of, only while a trip of theirs is under way, and a trip with
\* a driver is not EXPIRED, but for trips taken between a script's look and
\* its write.
DispatchHolds ==
  /\ \A t \in Runs : \A c, k \in OpenCards(t) :
       c.driver = k.driver /\ c # k => c.by \in alongside[k.by] \/ k.by \in alongside[c.by]
  /\ \A c \in cards : c.response = "ACCEPTED" => board[c.run].driver = c.driver
  /\ \A c, k \in cards : c.response = "ACCEPTED" /\ k.response = "ACCEPTED" /\ c.run = k.run => c = k
  /\ \A d \in Crew : crew[d] = "ON_TRIP" =>
       InFlightOf(d) # {} \/ \E t \in overtaken : board[t].driver = d
  /\ \A t \in Runs : board[t].status = "EXPIRED" /\ board[t].driver # NoCrew => t \in overtaken

(* Why it is so: what the proofs in Office_proofs carry from step to step. *)

\* A card is one press's, for one driver; what a press is about to offer is on
\* nobody's screen already, but for cards of presses that ran alongside it.
CardsExplained ==
  /\ \A c \in cards : press[c.by].step = "done"
  /\ \A c, k \in cards : c.by = k.by /\ c.driver = k.driver => c = k
  /\ \A p, q \in Presses : press[p].step = "read" /\ press[q].step = "read" /\ p # q =>
       p \in alongside[q] \/ q \in alongside[p]
  /\ \A p \in Presses : press[p].step = "read" =>
       /\ press[p].run \in Runs
       /\ \A c \in OpenCards(press[p].run) : c.driver \in press[p].to =>
            p \in alongside[c.by] \/ c.by \in alongside[p]
  /\ \A t \in Runs : \A c, k \in OpenCards(t) :
       c.driver = k.driver /\ c # k => c.by \in alongside[k.by] \/ k.by \in alongside[c.by]

\* A card answered is for a trip that was taken, once.
AnswersExplained ==
  /\ \A c \in cards : c.response = "ACCEPTED" =>
       board[c.run].status # "SCHEDULED" /\ board[c.run].driver = c.driver
  /\ \A c, k \in cards : c.response = "ACCEPTED" /\ k.response = "ACCEPTED" /\ c.run = k.run => c = k

\* Who drives what, and what a script has its hands on: nobody's trip, unless
\* it was taken between the look and the write.
BoardExplained ==
  /\ \A t \in Runs : /\ board[t].status = "SCHEDULED" => board[t].driver = NoCrew
                     /\ board[t].status = "UNDER_WAY" => board[t].driver \in Crew
                     /\ board[t].status = "EXPIRED" => board[t].driver = NoCrew \/ t \in overtaken
  /\ \A d \in Crew : crew[d] = "ON_TRIP" =>
       InFlightOf(d) # {} \/ \E t \in overtaken : board[t].driver = d
  /\ \A x \in Scripts : closing[x].step = "open" =>
       \A t \in closing[x].held : board[t].driver = NoCrew \/ t \in overtaken

\* The inductive invariant.
DispatchInv == DispatchTypeOK /\ CardsExplained /\ AnswersExplained /\ BoardExplained
=============================================================================
