------------------------------- MODULE Routes -------------------------------
(***************************************************************************)
(* The concrete routes of one template (generate_routes.py) and the price  *)
(* of one leg of one of them (admin.set_route_fare, FareRepository,        *)
(* FixedRouteFare.quote).  Regenerating rebuilds a route's stops at the    *)
(* same sequences; a price is superseded, never edited.  Nothing here is   *)
(* locked but by the statements that write.                                *)
(***************************************************************************)
EXTENDS Integers, Sequences, FiniteSets

CONSTANTS Scope,        \* the stations the template covers, in the order listed
          LastSequence, \* of the target: 1 + the intermediate destinations
          Generators,   \* calls of generate_routes
          Pricers,      \* calls of set_route_fare
          Prices,       \* amounts they set
          SeedPrice,    \* the amount the seed configured on day 0
          LastDay,      \* bound on the calendar
          NoEnd         \* a price without valid_to

\* An empty scope is refused before anything is done (ROUTE_TEMPLATE_SCOPE_EMPTY).
ASSUME RoutesAssumption ==
  /\ Len(Scope) \in Nat \ {0} /\ LastSequence \in Nat \ {0}
  /\ LastDay \in Nat \ {0} /\ NoEnd \notin Nat

VARIABLES stops,      \* per station: the live stops of its route, [sequence, by]
          routed,     \* stations whose route exists
          generator,  \* the running generations
          rules,      \* fare_rules of the leg
          pricer,     \* the running changes of price
          today,      \* the date the requests read
          set         \* the changes committed: [day, price] (history)

routesVars == <<stops, routed, generator, rules, pricer, today, set>>

Stations == {Scope[i] : i \in 1..Len(Scope)}
StopsBy(g) == {[sequence |-> n, by |-> g] : n \in 0..LastSequence}
SeedRule == [id |-> 0, from |-> 0, until |-> NoEnd, price |-> SeedPrice]
AtRest == [step |-> "look", at |-> 1, found |-> {}, dropped |-> {}, made |-> {}]

Stop   == [sequence : 0..LastSequence, by : Generators]
Generation == [step : {"look", "list", "create", "drop", "commit", "done", "failed"},
               at : 1..(Len(Scope) + 1), found : SUBSET Stop, dropped : SUBSET Stop,
               made : SUBSET Stations]
Rule   == [id : Nat, from : 0..LastDay, until : (0..LastDay) \cup {NoEnd},
           price : Prices \cup {SeedPrice}]
Change == [day : 0..LastDay, price : Prices \cup {SeedPrice}]

RoutesTypeOK ==
  /\ stops \in [Stations -> SUBSET Stop] /\ routed \subseteq Stations
  /\ generator \in [Generators -> Generation]
  /\ rules \subseteq Rule /\ IsFiniteSet(rules)
  /\ pricer \in [Pricers -> [step : {"idle", "write", "done"}, day : 0..LastDay, rule : Rule]]
  /\ today \in 0..LastDay /\ set \in Seq(Change)

RoutesInit ==
  /\ stops = [s \in Stations |-> {}]
  /\ routed = {}
  /\ generator = [g \in Generators |-> AtRest]
  /\ rules = {SeedRule}
  /\ pricer = [p \in Pricers |-> [step |-> "idle", day |-> 0, rule |-> SeedRule]]
  /\ today = 1
  /\ set = <<[day |-> 0, price |-> SeedPrice]>>

-----------------------------------------------------------------------------
Station(g) == Scope[generator[g].at]

\* _materialise: find the route, then the stops it has now.
FindRoute(g) ==
  /\ generator[g].step = "look"
  /\ generator' = [generator EXCEPT ![g].step = IF Station(g) \in routed THEN "list" ELSE "create"]
  /\ UNCHANGED <<stops, routed, rules, pricer, today, set>>

ListStops(g) ==
  /\ generator[g].step = "list"
  /\ generator' = [generator EXCEPT ![g].step = "drop", ![g].found = stops[Station(g)]]
  /\ UNCHANGED <<stops, routed, rules, pricer, today, set>>

\* The route row, and the unique code of a new one, belong to whoever wrote
\* them until that transaction ends.
RoutesNotHeld(g) == {}                                  \* a fault: codes not unique
RouteHolders(g) == {h \in Generators \ {g} : Station(g) \in generator[h].made}
AfterStation(row, s) ==
  [row EXCEPT !.made = @ \cup {s}, !.found = {},
              !.at = @ + 1, !.step = IF row.at = Len(Scope) THEN "commit" ELSE "look"]
RolledBack == [AtRest EXCEPT !.step = "failed"]

CreateRoute(g) ==
  /\ generator[g].step = "create"
  /\ RouteHolders(g) = {}
  /\ generator' = [generator EXCEPT ![g] =
       IF Station(g) \in routed THEN RolledBack ELSE AfterStation(@, Station(g))]
  /\ UNCHANGED <<stops, routed, rules, pricer, today, set>>

\* The stops listed are soft-deleted and one stop per sequence is inserted; a
\* stop another generation has put at a sequence meanwhile refuses the insert.
Cleared(row, s) == [AfterStation(row, s) EXCEPT !.dropped = @ \cup row.found]
StillThere(g) == stops[Station(g)] \ generator[g].found

RebuildStops(g) ==
  /\ generator[g].step = "drop"
  /\ RouteHolders(g) = {}
  /\ generator' = [generator EXCEPT ![g] =
       IF StillThere(g) # {} THEN RolledBack
       ELSE Cleared(generator[g], Station(g))]
  /\ UNCHANGED <<stops, routed, rules, pricer, today, set>>

GenerateCommit(g) ==
  /\ generator[g].step = "commit"
  /\ stops' = [s \in Stations |-> IF s \in generator[g].made
                                  THEN (stops[s] \ generator[g].dropped) \cup StopsBy(g)
                                  ELSE stops[s]]
  /\ routed' = routed \cup generator[g].made
  /\ generator' = [generator EXCEPT ![g] = [AtRest EXCEPT !.step = "done"]]
  /\ UNCHANGED <<rules, pricer, today, set>>

-----------------------------------------------------------------------------
\* find_rule: in force on the day, the most recently effective first; nothing
\* orders two that took effect on one day.
InForce(d) == {r \in rules : r.from <= d /\ (r.until = NoEnd \/ r.until >= d)}
AnyInForce(S) == S                                       \* a fault: in no order
MostRecent(S) == {r \in S : \A other \in S : other.from <= r.from}
find_rule(d) == MostRecent(InForce(d))
Quoted(d) == {r.price : r \in find_rule(d)}

\* set_route_fare reads the newest rule by its first day alone ...
FareRead(p) ==
  /\ pricer[p].step = "idle"
  /\ \E r \in MostRecent({x \in rules : x.from <= today}) :
       pricer' = [pricer EXCEPT ![p] = [step |-> "write", day |-> today, rule |-> r]]
  /\ UNCHANGED <<stops, routed, generator, rules, today, set>>

\* ... closes it on the day the request read and inserts the next from it.
FareWrite(p) ==
  LET day == pricer[p].day
      old == CHOOSE r \in rules : r.id = pricer[p].rule.id
  IN /\ pricer[p].step = "write"
     /\ \E price \in Prices :
          /\ rules' = (rules \ {old})
                      \cup {[old EXCEPT !.until = day],
                            [id |-> Len(set), from |-> day, until |-> NoEnd, price |-> price]}
          /\ set' = Append(set, [day |-> day, price |-> price])
     /\ pricer' = [pricer EXCEPT ![p].step = "done"]
     /\ UNCHANGED <<stops, routed, generator, today>>

Tomorrow ==
  /\ today < LastDay
  /\ today' = today + 1
  /\ UNCHANGED <<stops, routed, generator, rules, pricer, set>>

generate_routes(g) == \/ FindRoute(g) \/ ListStops(g) \/ CreateRoute(g)
                      \/ RebuildStops(g) \/ GenerateCommit(g)
set_route_fare(p)  == FareRead(p) \/ FareWrite(p)

RoutesNext == \/ \E g \in Generators : generate_routes(g)
              \/ \E p \in Pricers : set_route_fare(p)
              \/ Tomorrow

RoutesSpec == RoutesInit /\ [][RoutesNext]_routesVars

-----------------------------------------------------------------------------
\* "A template whose intermediate stops changed must not leave an orphaned
\* stop behind": however generations cross, a route's live stops are one whole
\* generation's, each sequence once (_rebuild_stops).
StopsAreOneGeneration ==
  \A s \in Stations : IF s \in routed THEN \E g \in Generators : stops[s] = StopsBy(g)
                                      ELSE stops[s] = {}

Changes == {set[i] : i \in 1..Len(set)}
LastSetBy(d) == CHOOSE c \in Changes : c.day <= d /\ \A e \in Changes : e.day <= d => e.day <= c.day

\* "A booking made yesterday can still be explained": when no day saw two
\* changes, every day so far quotes exactly the last price set by then, even
\* where requests overlap or run past midnight (set_route_fare, find_rule).
OneChangeADayIsExact ==
  (\A i, k \in 1..Len(set) : set[i].day = set[k].day => i = k)
    => \A d \in 0..today : Quoted(d) = {LastSetBy(d).price}

\* A leg that has a price keeps one, whatever changes cross.
PriceNeverVanishes == \A d \in 0..today : Quoted(d) # {}

\* Every day has a price to quote, and the one last set for it (set_route_fare,
\* find_rule).
PricesHold == PriceNeverVanishes /\ OneChangeADayIsExact

\* "Among equals the most recently effective wins, so superseding a price is
\* an insert rather than an edit" (find_rule): the price quoted today is the
\* last one anybody set.
PriceIsTheLastSet == Quoted(today) = {set[Len(set)].price}

(* Why it is so: what the proofs in Office_proofs carry from step to step. *)

\* A generation at work is at a station; the routes it has rebuilt are its
\* own until it ends, and it has found every stop they had.
GenerationsExplained ==
  /\ \A g \in Generators : generator[g].step \in {"look", "list", "create", "drop"} =>
       generator[g].at \in 1..Len(Scope)
  /\ \A g, h \in Generators : g # h => generator[g].made \cap generator[h].made = {}
  /\ \A g \in Generators : \A s \in generator[g].made : stops[s] \subseteq generator[g].dropped

\* A rule is one change of price, the first the seed's.  It is closed by
\* another that takes over the same day, so that no day is left without one.
RulesExplained ==
  /\ \A r \in rules : /\ r.id + 1 \in 1..Len(set)
                      /\ set[r.id + 1] = [day |-> r.from, price |-> r.price]
  /\ \A r, q \in rules : r.id = q.id => r = q
  /\ \A i \in 1..Len(set) : \E r \in rules : r.id + 1 = i
  /\ \A r \in rules : r.until # NoEnd =>
       r.from <= r.until /\ \E q \in rules : q.id # r.id /\ q.from = r.until
  /\ \A d \in 0..LastDay : InForce(d) # {}

\* The rule a change is about to close has begun.
PricersExplained ==
  \A p \in Pricers : LET was == pricer[p].rule IN pricer[p].step = "write" =>
    \E r \in rules : r.id = was.id /\ r.from <= pricer[p].day

\* The inductive invariant.
RoutesInv == /\ RoutesTypeOK /\ GenerationsExplained /\ StopsAreOneGeneration
             /\ RulesExplained /\ PricersExplained
=============================================================================
