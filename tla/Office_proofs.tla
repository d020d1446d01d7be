---------------------------- MODULE Office_proofs ----------------------------
(***************************************************************************)
(* Theorems about what the office sees and keeps: the dispatcher's board   *)
(* (Dispatch), tickets and ratings (Aftercare), and the network of         *)
(* villages, routes, prices and places (Geography), for any number of      *)
(* requests, drivers, trips and days.                                      *)
(***************************************************************************)
EXTENDS Dispatch, Aftercare, Geography, FiniteSetTheorems, WellFoundedInduction, TLAPS

(***************************************************************************)
(* Dispatch.                                                               *)
(***************************************************************************)

LEMMA InitDispatchInv == DispatchInit => DispatchInv
<1> SUFFICES ASSUME DispatchInit PROVE DispatchInv OBVIOUS
<1>1. DispatchTypeOK
  BY DEF DispatchInit, DispatchTypeOK, RunRow, PressNote
<1>2. CardsExplained
  BY DEF DispatchInit, CardsExplained, OpenCards
<1>3. AnswersExplained
  BY DEF DispatchInit, AnswersExplained
<1>4. BoardExplained
  BY DEF DispatchInit, BoardExplained
<1>5. QED BY <1>1, <1>2, <1>3, <1>4 DEF DispatchInv

(* Every step keeps the types.                                             *)
LEMMA NextDispatchTypeOK ==
  ASSUME DispatchInv, [DispatchNext]_dispatchVars PROVE DispatchTypeOK'
<1> USE DEF DispatchInv, DispatchTypeOK
<1>1. ASSUME NEW p \in Presses, OfferRead(p) PROVE DispatchTypeOK'
  <2>0. PICK t \in Runs : \E S \in Ranked(t) :
          press' = [press EXCEPT ![p] = [step |-> "read", run |-> t, to |-> S \ Already(t)]]
    BY <1>1 DEF OfferRead
  <2>1. PICK S \in Ranked(t) :
          press' = [press EXCEPT ![p] = [step |-> "read", run |-> t, to |-> S \ Already(t)]]
    BY <2>0
  <2>2. S \subseteq Crew
    BY <2>1, DispatchAssumption DEF Ranked, AvailableFor
  <2>3. press' \in [Presses -> PressNote]
    BY <2>1, <2>2 DEF PressNote
  <2>4. alongside' \in [Presses -> SUBSET Presses]
    BY <1>1 DEF OfferRead
  <2>5. QED BY <1>1, <2>3, <2>4 DEF OfferRead
<1>2. ASSUME NEW p \in Presses, OfferWrite(p) PROVE DispatchTypeOK'
  <2>1. press[p].run \in Runs /\ press[p].to \subseteq Crew
    BY <1>2 DEF OfferWrite, CardsExplained, PressNote
  <2>2. cards' \subseteq Card
    BY <1>2, <2>1 DEF OfferWrite, Card
  <2>3. press' \in [Presses -> PressNote]
    BY <1>2 DEF OfferWrite, PressNote
  <2>4. QED BY <1>2, <2>2, <2>3 DEF OfferWrite
<1>3. ASSUME NEW p \in Presses, OffersLapse(p) PROVE DispatchTypeOK'
  BY <1>3 DEF OffersLapse, Card
<1>4. ASSUME NEW d \in Crew, NEW t \in Runs, accept_trip(d, t) PROVE DispatchTypeOK'
  <2>1. cards' \subseteq Card
    <3>1. cards' \in Answered(d, t)
      BY <1>4 DEF accept_trip
    <3>2. QED BY <3>1 DEF Answered, OpenCards, Card
  <2>2. [status |-> "UNDER_WAY", driver |-> d] \in RunRow
    BY DEF RunRow
  <2>3. QED BY <1>4, <2>1, <2>2 DEF accept_trip
<1>5. ASSUME NEW t \in Runs, RunEnds(t) PROVE DispatchTypeOK'
  <2>1. board' \in [Runs -> RunRow]
    BY <1>5 DEF RunEnds, RunRow
  <2>2. crew' \in [Crew -> {"ONLINE", "ON_TRIP"}]
    BY <1>5 DEF RunEnds
  <2>3. QED BY <1>5, <2>1, <2>2 DEF RunEnds
<1>6. ASSUME NEW t \in Runs, DepartureGone(t) PROVE DispatchTypeOK'
  BY <1>6 DEF DepartureGone
<1>7. ASSUME NEW x \in Scripts, ScriptLook(x) \/ ScriptCommit(x) PROVE DispatchTypeOK'
  <2>1. Flushed(x) \subseteq Runs /\ Overtaking(x) \subseteq Runs
    BY DEF Flushed, Overtaking
  <2>2. overtaken' \subseteq Runs
    BY <1>7, <2>1 DEF ScriptLook, ScriptCommit
  <2>3. closing' \in [Scripts -> [step : {"open", "done"}, at : Runs \cup {NoRun}, held : SUBSET Runs]]
    <3>1. CASE ScriptLook(x)
      <4>1. PICK t \in Runs : closing' = [closing EXCEPT ![x].at = t, ![x].held = Flushed(x)]
        BY <3>1 DEF ScriptLook
      <4>2. \A y \in Scripts \ {x} : closing'[y] = closing[y]
        BY <4>1
      <4>3. closing'[x] = [step |-> closing[x].step, at |-> t, held |-> Flushed(x)]
        BY <4>1
      <4>4. DOMAIN closing' = Scripts /\ closing' = [y \in Scripts |-> closing'[y]]
        BY <4>1
      <4>5. QED BY <2>1, <4>2, <4>3, <4>4
    <3>2. CASE ScriptCommit(x)
      BY <2>1, <3>2 DEF ScriptCommit
    <3>3. QED BY <1>7, <3>1, <3>2
  <2>4. board' \in [Runs -> RunRow]
    <3>1. CASE ScriptLook(x)
      BY <3>1 DEF ScriptLook
    <3>2. CASE ScriptCommit(x)
      <4>1. \A t \in Runs : [board[t] EXCEPT !.status = "EXPIRED"] \in RunRow
        BY DEF RunRow
      <4>2. QED BY <3>2, <4>1 DEF ScriptCommit
    <3>3. QED BY <1>7, <3>1, <3>2
  <2>5. QED BY <1>7, <2>2, <2>3, <2>4 DEF ScriptLook, ScriptCommit
<1>8. CASE UNCHANGED dispatchVars
  BY <1>8 DEF dispatchVars
<1>9. QED BY <1>1, <1>2, <1>3, <1>4, <1>5, <1>6, <1>7, <1>8 DEF DispatchNext, offer_trip

(* A step that neither offers nor answers leaves the cards alone.          *)
LEMMA CardsSame ==
  ASSUME DispatchInv, UNCHANGED <<cards, press, alongside>> PROVE CardsExplained'
BY DEF DispatchInv, CardsExplained, OpenCards

(* Cards that were answered or lapsed are open no more.                    *)
LEMMA CardsFewer ==
  ASSUME DispatchInv, UNCHANGED <<press, alongside>>,
         \A c \in cards' : \E k \in cards : c.by = k.by /\ c.driver = k.driver /\ c.run = k.run,
         \A c, k \in cards' : c.by = k.by /\ c.driver = k.driver => c = k,
         \A c \in cards' : c.response = "none" => c \in cards
  PROVE  CardsExplained'
<1>1. \A t \in Runs : OpenCards(t)' \subseteq OpenCards(t)
  BY DEF OpenCards
<1>2. QED BY <1>1 DEF DispatchInv, CardsExplained

LEMMA OfferReadCards ==
  ASSUME DispatchInv, NEW p \in Presses, OfferRead(p) PROVE CardsExplained'
<1> USE DEF DispatchInv, DispatchTypeOK
<1>0. PICK t \in Runs : \E S \in Ranked(t) :
        press' = [press EXCEPT ![p] = [step |-> "read", run |-> t, to |-> S \ Already(t)]]
  BY DEF OfferRead
<1>1. PICK S \in Ranked(t) :
        press' = [press EXCEPT ![p] = [step |-> "read", run |-> t, to |-> S \ Already(t)]]
  BY <1>0
<1>2. /\ press[p].step = "new" /\ UNCHANGED cards
      /\ alongside' = [q \in Presses |->
           IF q = p THEN {r \in Presses : press[r].step = "read"}
           ELSE IF press[q].step = "read" THEN alongside[q] \cup {p} ELSE alongside[q]]
  BY DEF OfferRead
<1>3. /\ press'[p].step = "read" /\ press'[p].run = t /\ press'[p].to = S \ Already(t)
      /\ \A q \in Presses \ {p} : press'[q] = press[q]
  BY <1>1
<1>4. \A q \in Presses : q # p => alongside[q] \subseteq alongside'[q]
  BY <1>2
<1>5. \A c \in cards : c.by \in Presses /\ c.by # p
  BY <1>2 DEF CardsExplained, Card
<1>6. \A u \in Runs : OpenCards(u)' = OpenCards(u)
  BY <1>2 DEF OpenCards
<1>7. ASSUME NEW q \in Presses, NEW r \in Presses, press'[q].step = "read", press'[r].step = "read", q # r
      PROVE  q \in alongside'[r] \/ r \in alongside'[q]
  BY <1>2, <1>3, <1>4, <1>7 DEF CardsExplained
<1>8. ASSUME NEW q \in Presses, press'[q].step = "read"
      PROVE  /\ press'[q].run \in Runs
             /\ \A c \in OpenCards(press'[q].run) : c.driver \in press'[q].to =>
                  q \in alongside'[c.by] \/ c.by \in alongside'[q]
  <2>1. CASE q = p
    BY <1>3, <2>1 DEF Already
  <2>2. CASE q # p
    <3>1. press'[q] = press[q]
      BY <1>3, <2>2
    <3>2. \A c \in OpenCards(press[q].run) : c \in cards
      BY DEF OpenCards
    <3>3. QED BY <1>4, <1>5, <1>8, <2>2, <3>1, <3>2 DEF CardsExplained
  <2>3. QED BY <2>1, <2>2
<1>9. \A u \in Runs : \A c, k \in OpenCards(u) :
        c.driver = k.driver /\ c # k => c.by \in alongside'[k.by] \/ k.by \in alongside'[c.by]
  <2>1. \A u \in Runs : \A c \in OpenCards(u) : c.by \in Presses /\ c.by # p
    BY <1>5 DEF OpenCards
  <2>2. QED BY <1>4, <2>1 DEF CardsExplained
<1>10. \A c \in cards' : press'[c.by].step = "done"
  BY <1>2, <1>3, <1>5 DEF CardsExplained
<1>11. \A q \in Presses : press'[q].step = "read" => OpenCards(press[q].run)' = OpenCards(press'[q].run)
  BY <1>2 DEF OpenCards
<1>12. \A c, k \in cards' : c.by = k.by /\ c.driver = k.driver => c = k
  BY <1>2 DEF CardsExplained
<1>13. QED BY <1>6, <1>7, <1>8, <1>9, <1>10, <1>11, <1>12 DEF CardsExplained

LEMMA OfferWriteCards ==
  ASSUME DispatchInv, NEW p \in Presses, OfferWrite(p) PROVE CardsExplained'
<1> USE DEF DispatchInv, DispatchTypeOK
<1>1. /\ press[p].step = "read" /\ press'[p].step = "done"
      /\ \A q \in Presses \ {p} : press'[q] = press[q]
      /\ UNCHANGED alongside
  BY DEF OfferWrite
<1> DEFINE New == {[run |-> press[p].run, driver |-> d, by |-> p, response |-> "none"] : d \in press[p].to}
<1>2. cards' = cards \cup New
  BY DEF OfferWrite
<1>3. \A n \in New : n.by = p /\ n.run = press[p].run /\ n.driver \in press[p].to /\ n.response = "none"
  OBVIOUS
<1>4. \A n, m \in New : n.driver = m.driver => n = m
  OBVIOUS
<1> HIDE DEF New
<1>5. \A c \in cards : c.by \in Presses /\ c.by # p /\ press[c.by].step = "done"
  BY <1>1 DEF CardsExplained, Card
<1>6. \A c \in cards' : press'[c.by].step = "done"
  BY <1>1, <1>2, <1>3, <1>5
<1>7. \A c, k \in cards' : c.by = k.by /\ c.driver = k.driver => c = k
  BY <1>2, <1>3, <1>4, <1>5 DEF CardsExplained
<1>8. \A u \in Runs : \A c \in OpenCards(u)' :
        c \in OpenCards(u) \/ (c \in New /\ u = press[p].run)
  BY <1>2, <1>3 DEF OpenCards
<1>9. \A q, r \in Presses : press'[q].step = "read" /\ press'[r].step = "read" /\ q # r =>
        q \in alongside'[r] \/ r \in alongside'[q]
  BY <1>1 DEF CardsExplained
<1>10. ASSUME NEW q \in Presses, press'[q].step = "read"
       PROVE  /\ press'[q].run \in Runs
              /\ \A c \in OpenCards(press[q].run)' : c.driver \in press'[q].to =>
                   q \in alongside'[c.by] \/ c.by \in alongside'[q]
  <2>1. q # p /\ press'[q] = press[q] /\ press[q].run \in Runs
    BY <1>1, <1>10 DEF CardsExplained
  <2>2. \A c \in OpenCards(press[q].run)' : c \in OpenCards(press[q].run) \/ c \in New
    BY <1>2, <2>1 DEF OpenCards
  <2>3. QED BY <1>1, <1>3, <1>10, <2>1, <2>2 DEF CardsExplained
<1>11. ASSUME NEW u \in Runs, NEW c \in OpenCards(u)', NEW k \in OpenCards(u)', c.driver = k.driver, c # k
       PROVE  c.by \in alongside'[k.by] \/ k.by \in alongside'[c.by]
  <2>1. CASE c \in OpenCards(u) /\ k \in OpenCards(u)
    BY <1>1, <1>11, <2>1 DEF CardsExplained
  <2>2. CASE c \in New /\ k \in OpenCards(u) /\ u = press[p].run
    BY <1>1, <1>3, <1>11, <2>2 DEF CardsExplained
  <2>3. CASE k \in New /\ c \in OpenCards(u) /\ u = press[p].run
    BY <1>1, <1>3, <1>11, <2>3 DEF CardsExplained
  <2>4. CASE c \in New /\ k \in New
    BY <1>4, <1>11, <2>4
  <2>5. QED BY <1>8, <2>1, <2>2, <2>3, <2>4
<1>12. QED BY <1>6, <1>7, <1>9, <1>10, <1>11 DEF CardsExplained

LEMMA OffersLapseCards ==
  ASSUME DispatchInv, NEW p \in Presses, OffersLapse(p) PROVE CardsExplained' /\ AnswersExplained'
<1> USE DEF DispatchInv, DispatchTypeOK
<1> DEFINE L(c) == IF c.by = p /\ c.response = "none" THEN [c EXCEPT !.response = "lapsed"] ELSE c
<1>1. cards' = {L(c) : c \in cards} /\ UNCHANGED <<board, press, alongside>>
  BY DEF OffersLapse
<1>2. \A c \in cards : /\ L(c).by = c.by /\ L(c).driver = c.driver /\ L(c).run = c.run
                       /\ L(c).response = "lapsed" \/ L(c) = c
  BY DEF Card
<1> HIDE DEF L
<1>3. \A c \in cards' : \E k \in cards : c = L(k)
  BY <1>1
<1>4. \A c \in cards' : c.response \in {"none", "ACCEPTED"} => c \in cards
  BY <1>2, <1>3
<1>5. \A c \in cards' : \E k \in cards : c.by = k.by /\ c.driver = k.driver /\ c.run = k.run
  BY <1>2, <1>3
<1>6. ASSUME NEW c \in cards', NEW k \in cards', c.by = k.by, c.driver = k.driver PROVE c = k
  <2>1. PICK a \in cards : c = L(a)
    BY <1>3
  <2>2. PICK b \in cards : k = L(b)
    BY <1>3
  <2>3. a = b
    BY <1>2, <1>6, <2>1, <2>2 DEF CardsExplained
  <2>4. QED BY <2>1, <2>2, <2>3
<1>7. CardsExplained'
  BY <1>1, <1>4, <1>5, <1>6, CardsFewer
<1>8. AnswersExplained'
  BY <1>1, <1>4 DEF AnswersExplained
<1>9. QED BY <1>7, <1>8

LEMMA AcceptCards ==
  ASSUME DispatchInv, NEW d \in Crew, NEW t \in Runs, accept_trip(d, t)
  PROVE  CardsExplained' /\ AnswersExplained'
<1> USE DEF DispatchInv, DispatchTypeOK
<1>1. /\ board[t].status = "SCHEDULED" /\ board'[t].status = "UNDER_WAY" /\ board'[t].driver = d
      /\ \A u \in Runs \ {t} : board'[u] = board[u]
      /\ cards' \in Answered(d, t) /\ UNCHANGED <<press, alongside>>
  BY DEF accept_trip
<1>2. \A c \in cards : c.run \in Runs /\ (c.response = "ACCEPTED" => c.run # t)
  BY <1>1 DEF AnswersExplained, Card
<1>3. CASE cards' = cards
  BY <1>1, <1>2, <1>3, CardsSame DEF AnswersExplained
<1>4. CASE cards' # cards
  <2>1. PICK c \in OpenCards(t) :
          c.driver = d /\ cards' = (cards \ {c}) \cup {[c EXCEPT !.response = "ACCEPTED"]}
    BY <1>1, <1>4 DEF Answered
  <2> DEFINE a == [c EXCEPT !.response = "ACCEPTED"]
  <2>2. /\ c \in cards /\ c.run = t /\ c.response = "none"
        /\ a.by = c.by /\ a.driver = c.driver /\ a.run = c.run /\ a.response = "ACCEPTED"
    BY <2>1 DEF OpenCards, Card
  <2>3. cards' = (cards \ {c}) \cup {a}
    BY <2>1
  <2> HIDE DEF a
  <2>4. \A k \in cards' : k.response = "none" => k \in cards
    BY <2>2, <2>3
  <2>5. \A k \in cards' : \E j \in cards : k.by = j.by /\ k.driver = j.driver /\ k.run = j.run
    BY <2>2, <2>3
  <2>6. \A k, j \in cards' : k.by = j.by /\ k.driver = j.driver => k = j
    BY <2>2, <2>3 DEF CardsExplained
  <2>7. CardsExplained'
    BY <1>1, <2>4, <2>5, <2>6, CardsFewer
  <2>8. AnswersExplained'
    BY <1>1, <1>2, <2>1, <2>2, <2>3 DEF AnswersExplained
  <2>9. QED BY <2>7, <2>8
<1>5. QED BY <1>3, <1>4

(* Where the trips move, the answered cards follow.                        *)
LEMMA NextCards ==
  ASSUME DispatchInv, [DispatchNext]_dispatchVars PROVE CardsExplained' /\ AnswersExplained'
<1> USE DEF DispatchInv, DispatchTypeOK
<1>1. ASSUME UNCHANGED <<cards, press, alongside>>,
             \A u \in Runs : /\ board'[u].driver = board[u].driver
                             /\ board[u].status # "SCHEDULED" => board'[u].status # "SCHEDULED"
      PROVE  CardsExplained' /\ AnswersExplained'
  <2>1. \A c \in cards : c.run \in Runs
    BY DEF Card
  <2>2. QED BY <1>1, <2>1, CardsSame DEF AnswersExplained
<1>2. ASSUME NEW p \in Presses, OfferRead(p) \/ OfferWrite(p) PROVE AnswersExplained'
  <2>1. \A c \in cards' : c.response = "ACCEPTED" => c \in cards
    BY <1>2 DEF OfferRead, OfferWrite
  <2>2. UNCHANGED board
    BY <1>2 DEF OfferRead, OfferWrite
  <2>3. QED BY <2>1, <2>2 DEF AnswersExplained
<1>3. ASSUME NEW t \in Runs, RunEnds(t) \/ DepartureGone(t) PROVE CardsExplained' /\ AnswersExplained'
  <2>1. \A u \in Runs : /\ board'[u].driver = board[u].driver
                        /\ board[u].status # "SCHEDULED" => board'[u].status # "SCHEDULED"
    BY <1>3 DEF RunEnds, DepartureGone, RunRow
  <2>2. QED BY <1>1, <1>3, <2>1 DEF RunEnds, DepartureGone
<1>4. ASSUME NEW x \in Scripts, ScriptLook(x) \/ ScriptCommit(x) PROVE CardsExplained' /\ AnswersExplained'
  <2>1. \A u \in Runs : /\ board'[u].driver = board[u].driver
                        /\ board[u].status # "SCHEDULED" => board'[u].status # "SCHEDULED"
    BY <1>4 DEF ScriptLook, ScriptCommit, RunRow
  <2>2. QED BY <1>1, <1>4, <2>1 DEF ScriptLook, ScriptCommit
<1>5. CASE UNCHANGED dispatchVars
  BY <1>1, <1>5 DEF dispatchVars
<1>6. QED BY <1>2, <1>3, <1>4, <1>5, OfferReadCards, OfferWriteCards, OffersLapseCards, AcceptCards
         DEF DispatchNext, offer_trip

LEMMA BoardFacts ==
  ASSUME DispatchInv
  PROVE  /\ \A t \in Runs : board[t].status = "SCHEDULED" => board[t].driver = NoCrew
         /\ \A t \in Runs : board[t].status = "UNDER_WAY" => board[t].driver \in Crew
         /\ \A t \in Runs : board[t].status = "EXPIRED" => board[t].driver = NoCrew \/ t \in overtaken
BY DEF DispatchInv, BoardExplained

LEMMA NextBoard ==
  ASSUME DispatchInv, [DispatchNext]_dispatchVars PROVE BoardExplained'
<1> USE DEF DispatchInv, DispatchTypeOK
<1>1. ASSUME UNCHANGED <<board, crew, closing, overtaken>> PROVE BoardExplained'
  BY <1>1 DEF BoardExplained, InFlightOf
<1>2. ASSUME NEW d \in Crew, NEW t \in Runs, accept_trip(d, t) PROVE BoardExplained'
  <2>1. /\ board[t].status = "SCHEDULED" /\ board'[t].status = "UNDER_WAY" /\ board'[t].driver = d
        /\ \A u \in Runs \ {t} : board'[u] = board[u]
        /\ \A e \in Crew \ {d} : crew'[e] = crew[e]
        /\ ~HeldByScript(t) /\ UNCHANGED <<closing, overtaken>>
    BY <1>2 DEF accept_trip
  <2>2. board[t].driver = NoCrew
    BY <2>1, BoardFacts
  <2>3. t \in InFlightOf(d)' /\ \A e \in Crew : InFlightOf(e) \subseteq InFlightOf(e)'
    BY <2>1, <2>2, DispatchAssumption DEF InFlightOf
  <2>4. \A e \in Crew, u \in overtaken : board[u].driver = e => board'[u].driver = e
    BY <2>1, <2>2, DispatchAssumption
  <2>5. \A e \in Crew : crew'[e] = "ON_TRIP" =>
          InFlightOf(e)' # {} \/ \E u \in overtaken' : board'[u].driver = e
    <3>1. ASSUME NEW e \in Crew, crew'[e] = "ON_TRIP"
          PROVE  InFlightOf(e)' # {} \/ \E u \in overtaken' : board'[u].driver = e
      <4>1. CASE e = d
        BY <2>3, <4>1
      <4>2. CASE e # d
        BY <2>1, <2>3, <2>4, <3>1, <4>2 DEF BoardExplained
      <4>3. QED BY <4>1, <4>2
    <3>2. QED BY <3>1
  <2>6. \A x \in Scripts : closing'[x].step = "open" =>
          \A u \in closing'[x].held : board'[u].driver = NoCrew \/ u \in overtaken'
    BY <2>1 DEF BoardExplained, HeldByScript
  <2>7. QED BY <2>1, <2>5, <2>6 DEF BoardExplained
<1>3. ASSUME NEW t \in Runs, RunEnds(t) PROVE BoardExplained'
  <2>1. /\ board[t].status = "UNDER_WAY" /\ board'[t].status = "ENDED"
        /\ \A u \in Runs : board'[u].driver = board[u].driver /\ (u # t => board'[u] = board[u])
        /\ crew' = [crew EXCEPT ![board[t].driver] = "ONLINE"] /\ UNCHANGED <<closing, overtaken>>
    BY <1>3 DEF RunEnds, RunRow
  <2>2. board[t].driver \in Crew
    BY <2>1, BoardFacts
  <2>3. \A e \in Crew : e # board[t].driver => InFlightOf(e)' = InFlightOf(e) /\ crew'[e] = crew[e]
    BY <2>1, <2>2 DEF InFlightOf
  <2>4. \A e \in Crew : crew'[e] = "ON_TRIP" =>
          InFlightOf(e)' # {} \/ \E u \in overtaken' : board'[u].driver = e
    <3>1. ASSUME NEW e \in Crew, crew'[e] = "ON_TRIP"
          PROVE  InFlightOf(e)' # {} \/ \E u \in overtaken' : board'[u].driver = e
      <4>1. e # board[t].driver
        BY <2>1, <2>2, <3>1
      <4>2. InFlightOf(e)' = InFlightOf(e) /\ crew[e] = "ON_TRIP"
        BY <2>3, <3>1, <4>1
      <4>3. QED BY <2>1, <4>2 DEF BoardExplained
    <3>2. QED BY <3>1
  <2>5. QED BY <2>1, <2>4 DEF BoardExplained
<1>4. ASSUME NEW x \in Scripts, ScriptLook(x) PROVE BoardExplained'
  <2>1. /\ overtaken' = Overtaking(x) /\ overtaken \subseteq overtaken' /\ UNCHANGED <<board, crew>>
        /\ closing'[x].held = Flushed(x) /\ \A y \in Scripts \ {x} : closing'[y] = closing[y]
        /\ closing[x].step = "open"
    BY <1>4 DEF ScriptLook, Overtaking
  <2>2. \A t \in Flushed(x) : board[t].driver = NoCrew \/ t \in overtaken'
    <3>1. \A t \in {closing[x].at} \cap Runs : board[t].driver = NoCrew \/ t \in overtaken'
      BY <2>1, BoardFacts DEF Overtaking
    <3>2. QED BY <2>1, <3>1 DEF Flushed, BoardExplained
  <2>3. \A d \in Crew : InFlightOf(d)' = InFlightOf(d)
    BY <2>1 DEF InFlightOf
  <2>4. QED BY <2>1, <2>2, <2>3 DEF BoardExplained
<1>5. ASSUME NEW x \in Scripts, ScriptCommit(x) PROVE BoardExplained'
  <2>1. /\ overtaken' = Overtaking(x) /\ overtaken \subseteq overtaken' /\ UNCHANGED crew
        /\ closing'[x].step = "done" /\ \A y \in Scripts \ {x} : closing'[y] = closing[y]
        /\ closing[x].step = "open"
    BY <1>5 DEF ScriptCommit, Overtaking
  <2>2. \A t \in Runs : /\ board'[t].driver = board[t].driver
                        /\ board'[t].status = IF t \in Flushed(x) THEN "EXPIRED" ELSE board[t].status
    BY <1>5 DEF ScriptCommit, RunRow
  <2>3. \A t \in Flushed(x) : board[t].driver = NoCrew \/ t \in overtaken'
    <3>1. \A t \in {closing[x].at} \cap Runs : board[t].driver = NoCrew \/ t \in overtaken'
      BY <2>1, BoardFacts DEF Overtaking
    <3>2. QED BY <2>1, <3>1 DEF Flushed, BoardExplained
  <2>4. ASSUME NEW d \in Crew, crew[d] = "ON_TRIP"
        PROVE  InFlightOf(d)' # {} \/ \E t \in overtaken' : board'[t].driver = d
    <3>1. CASE \E t \in overtaken : board[t].driver = d
      BY <2>1, <2>2, <3>1
    <3>2. CASE InFlightOf(d) # {}
      <4>1. PICK t \in Runs : board[t].driver = d /\ board[t].status = "UNDER_WAY"
        BY <3>2 DEF InFlightOf
      <4>2. CASE t \in Flushed(x)
        BY <2>2, <2>3, <4>1, <4>2, DispatchAssumption
      <4>3. CASE t \notin Flushed(x)
        BY <2>2, <4>1, <4>3 DEF InFlightOf
      <4>4. QED BY <4>2, <4>3
    <3>3. QED BY <2>4, <3>1, <3>2 DEF BoardExplained
  <2>5. \A y \in Scripts : closing[y].held \subseteq Runs
    OBVIOUS
  <2>6. QED BY <2>1, <2>2, <2>3, <2>4, <2>5 DEF BoardExplained
<1>6. ASSUME NEW p \in Presses, offer_trip(p) \/ OffersLapse(p) PROVE BoardExplained'
  BY <1>1, <1>6 DEF offer_trip, OfferRead, OfferWrite, OffersLapse
<1>7. ASSUME NEW t \in Runs, DepartureGone(t) PROVE BoardExplained'
  BY <1>1, <1>7 DEF DepartureGone
<1>8. CASE UNCHANGED dispatchVars
  BY <1>1, <1>8 DEF dispatchVars
<1>9. QED BY <1>2, <1>3, <1>4, <1>5, <1>6, <1>7, <1>8 DEF DispatchNext

LEMMA DispatchInvHolds == DispatchSpec => []DispatchInv
<1>1. DispatchInv /\ [DispatchNext]_dispatchVars => DispatchInv'
  BY NextDispatchTypeOK, NextCards, NextBoard DEF DispatchInv
<1>2. QED BY <1>1, InitDispatchInv, PTL DEF DispatchSpec

(* Type correctness of the board, the cards and the scripts.               *)
THEOREM DispatchTypes == DispatchSpec => []DispatchTypeOK
<1>1. DispatchInv => DispatchTypeOK
  BY DEF DispatchInv
<1>2. QED BY <1>1, DispatchInvHolds, PTL

(* dispatch.py and expire-empty-trips.py: one open card per driver and     *)
(* trip unless two presses crossed, one answer per trip and it names who   *)
(* drives it, nobody is left ON_TRIP without a trip and no trip expires    *)
(* under its driver, unless it was taken under the script's eyes.          *)
THEOREM TheBoardHolds == DispatchSpec => []DispatchHolds
<1>1. DispatchInv => DispatchHolds
  <2> SUFFICES ASSUME DispatchInv PROVE DispatchHolds
    OBVIOUS
  <2>1. \A t \in Runs : \A c, k \in OpenCards(t) :
          c.driver = k.driver /\ c # k => c.by \in alongside[k.by] \/ k.by \in alongside[c.by]
    BY DEF DispatchInv, CardsExplained
  <2>2. /\ \A c \in cards : c.response = "ACCEPTED" => board[c.run].driver = c.driver
        /\ \A c, k \in cards : c.response = "ACCEPTED" /\ k.response = "ACCEPTED" /\ c.run = k.run => c = k
    BY DEF DispatchInv, AnswersExplained
  <2>3. \A d \in Crew : crew[d] = "ON_TRIP" =>
          InFlightOf(d) # {} \/ \E t \in overtaken : board[t].driver = d
    BY DEF DispatchInv, BoardExplained
  <2>4. QED BY <2>1, <2>2, <2>3, BoardFacts DEF DispatchHolds
<1>2. QED BY <1>1, DispatchInvHolds, PTL

(***************************************************************************)
(* Ratings.                                                                *)
(***************************************************************************)

(* One rating more about somebody: one more to count and its score more to *)
(* sum.                                                                    *)
LEMMA OneMoreRating ==
  ASSUME NEW S \in SUBSET Ratings, NEW r \in Ratings \ S
  PROVE  /\ Cardinality(S \cup {r}) = Cardinality(S) + 1
         /\ Cardinality(Stars(S \cup {r})) = Cardinality(Stars(S)) + Score[r]
         /\ Cardinality(S) \in Nat /\ Cardinality(Stars(S)) \in Nat
<1>1. IsFiniteSet(S)
  BY ScoreAssumption, FS_Subset
<1>2. Score[r] \in 1..5
  BY ScoreAssumption
<1> DEFINE more == {r} \X (1..Score[r])
<1>3. Stars(S \cup {r}) = Stars(S) \cup more
  <2>1. ASSUME NEW x \in Stars(S \cup {r}) PROVE x \in Stars(S) \cup more
    <3>1. PICK a \in S \cup {r}, i \in 1..5 : x = <<a, i>> /\ i <= Score[a]
      BY DEF Stars
    <3>2. CASE a \in S
      BY <3>1, <3>2 DEF Stars
    <3>3. CASE a = r
      <4>1. i \in 1..Score[r]
        BY <1>2, <3>1, <3>3
      <4>2. QED BY <3>1, <3>3, <4>1
    <3>4. QED BY <3>2, <3>3
  <2>2. ASSUME NEW x \in more PROVE x \in Stars(S \cup {r})
    <3>1. PICK i \in 1..Score[r] : x = <<r, i>>
      OBVIOUS
    <3>2. i \in 1..5 /\ i <= Score[r]
      BY <1>2
    <3>3. QED BY <3>1, <3>2 DEF Stars
  <2>3. Stars(S) \subseteq Stars(S \cup {r})
    BY DEF Stars
  <2>4. QED BY <2>1, <2>2, <2>3
<1>4. Stars(S) \cap more = {}
  BY DEF Stars
<1>5. IsFiniteSet(Stars(S))
  <2>1. IsFiniteSet(1..5)
    <3>1. 1 \in Int /\ 5 \in Int
      OBVIOUS
    <3>2. QED BY <3>1, FS_Interval
  <2>2. IsFiniteSet(S \X (1..5))
    BY <1>1, <2>1, FS_Product
  <2>3. Stars(S) \in SUBSET (S \X (1..5))
    BY DEF Stars
  <2>4. QED BY <2>2, <2>3, FS_Subset
<1>6. IsFiniteSet(more) /\ Cardinality(more) = Score[r]
  <2>1. IsFiniteSet(1..Score[r]) /\ Cardinality(1..Score[r]) = Score[r]
    BY <1>2, FS_Interval
  <2>2. IsFiniteSet({r}) /\ Cardinality({r}) = 1
    BY FS_Singleton
  <2>3. IsFiniteSet(more) /\ Cardinality(more) = 1 * Cardinality(1..Score[r])
    BY <2>1, <2>2, FS_Product
  <2>4. QED BY <1>2, <2>1, <2>3
<1> HIDE DEF more
<1>7. Cardinality(S) \in Nat /\ Cardinality(Stars(S)) \in Nat
  BY <1>1, <1>5, FS_CardinalityType
<1>8. Cardinality(Stars(S \cup {r})) = Cardinality(Stars(S)) + Cardinality(more) - Cardinality({})
  BY <1>3, <1>4, <1>5, <1>6, FS_Union
<1>9. Cardinality(S \cup {r}) = Cardinality(S) + 1
  BY <1>1, FS_AddElement
<1>10. Cardinality({}) = 0
  BY FS_EmptySet
<1>11. QED BY <1>2, <1>6, <1>7, <1>8, <1>9, <1>10

LEMMA InitRatingsInv == RatingsInit => RatingsInv
<1> SUFFICES ASSUME RatingsInit PROVE RatingsInv OBVIOUS
<1>1. RatingsTypeOK
  BY DEF RatingsInit, RatingsTypeOK, Total, Unrated
<1>2. RowsHeld
  BY DEF RatingsInit, RowsHeld
<1>3. \A p \in Rated : OfRatee(p) = {} /\ Stars(OfRatee(p)) = {}
  BY DEF RatingsInit, OfRatee, Stars
<1>4. TotalsAreTheRatings
  <2>1. Cardinality({}) = 0
    BY FS_EmptySet
  <2>2. \A p \in Rated : total[p].count = 0 /\ total[p].sum = 0
    BY DEF RatingsInit, Unrated
  <2>3. \A r, s \in rated : Twin(r, s) => r = s
    BY DEF RatingsInit
  <2>4. QED BY <1>3, <2>1, <2>2, <2>3 DEF TotalsAreTheRatings
<1>5. QED BY <1>1, <1>2, <1>4 DEF RatingsInv

(* A step that adds to nobody's totals.                                    *)
LEMMA TotalsSame ==
  ASSUME RatingsInv, UNCHANGED <<rated, total>> PROVE TotalsAreTheRatings'
<1>1. \A p \in Rated : OfRatee(p)' = OfRatee(p)
  BY DEF OfRatee
<1>2. QED BY <1>1 DEF RatingsInv, TotalsAreTheRatings, Stars, Twin

LEMMA RateCommitTotals ==
  ASSUME RatingsInv, NEW r \in Ratings, RateCommit(r) PROVE TotalsAreTheRatings'
<1> USE DEF RatingsInv, RatingsTypeOK
<1>1. /\ rating[r] = "added" /\ rated' = rated \cup {r} /\ r \notin rated
      /\ total' = [total EXCEPT ![RatingOf[r]] = adding[r]]
  BY DEF RateCommit, RowsHeld
<1>2. \A s \in rated : Twin(s, r) => s = r
  BY <1>1 DEF RowsHeld
<1>3. \A s, q \in rated' : Twin(s, q) => s = q
  BY <1>1, <1>2 DEF TotalsAreTheRatings, Twin
<1>4. ASSUME NEW p \in Rated
      PROVE  total'[p].count = Cardinality(OfRatee(p)') /\ total'[p].sum = Cardinality(Stars(OfRatee(p)'))
  <2>1. /\ total[p].count = Cardinality(OfRatee(p)) /\ total[p].sum = Cardinality(Stars(OfRatee(p)))
        /\ OfRatee(p) \in SUBSET Ratings
    BY DEF TotalsAreTheRatings, OfRatee
  <2>2. CASE p = RatingOf[r]
    <3>1. OfRatee(p)' = OfRatee(p) \cup {r} /\ r \notin OfRatee(p)
      BY <1>1, <2>2 DEF OfRatee
    <3>2. total'[p].count = total[p].count + 1 /\ total'[p].sum = total[p].sum + Score[r]
      BY <1>1, <2>2 DEF RowsHeld
    <3>3. QED BY <2>1, <3>1, <3>2, OneMoreRating
  <2>3. CASE p # RatingOf[r]
    <3>1. OfRatee(p)' = OfRatee(p) /\ total'[p] = total[p]
      BY <1>1, <2>3 DEF OfRatee
    <3>2. QED BY <2>1, <3>1
  <2>4. QED BY <2>2, <2>3
<1>5. \A p \in Rated : Stars(OfRatee(p))' = Stars(OfRatee(p)')
  BY DEF Stars
<1>6. QED BY <1>3, <1>4, <1>5 DEF TotalsAreTheRatings, Twin

LEMMA NextRatings ==
  ASSUME RatingsInv, [RatingsNext]_ratingVars PROVE RatingsInv'
<1> USE DEF RatingsInv, RatingsTypeOK
<1>1. ASSUME NEW r \in Ratings, RateFind(r) \/ RateFail(r) PROVE RatingsInv'
  <2>1. PICK s \in {"looked", "refused"} :
          rating' = [rating EXCEPT ![r] = s] /\ UNCHANGED <<rated, total, adding>>
    BY <1>1 DEF RateFind, RateFail, RatingGoes
  <2>2. r \notin rated
    BY <1>1 DEF RateFind, RateFail, RowsHeld
  <2>3. \A q \in Ratings : RateeHolders(q)' \subseteq RateeHolders(q)
    BY <2>1 DEF RateeHolders
  <2>4. RowsHeld'
    BY <2>1, <2>2, <2>3 DEF RowsHeld, RateeHolders, Twin
  <2>5. RatingsTypeOK'
    BY <2>1
  <2>6. QED BY <2>1, <2>4, <2>5, TotalsSame
<1>2. ASSUME NEW r \in Ratings, CreateOnce(r) PROVE RatingsInv'
  <2>1. /\ rating[r] = "looked" /\ PlaceHolders(r) = {} /\ UNCHANGED <<rated, total, adding>>
        /\ \/ rating' = [rating EXCEPT ![r] = "refused"]
           \/ rating' = [rating EXCEPT ![r] = "inserted"] /\ \A s \in rated : ~Twin(r, s)
    BY <1>2 DEF CreateOnce, RatingGoes
  <2>2. r \notin rated
    BY <2>1 DEF RowsHeld
  <2>3. \A q \in Ratings : RateeHolders(q)' \subseteq RateeHolders(q)
    BY <2>1 DEF RateeHolders
  <2>4. rating'[r] = "inserted" => \A s \in Ratings : Twin(r, s) => rating[s] \notin {"inserted", "added", "done"}
    BY <2>1 DEF PlaceHolders, RowsHeld
  <2>5. \A s, q \in Ratings : Twin(s, q) /\ {rating'[s], rating'[q]} \subseteq {"inserted", "added", "done"} => s = q
    BY <2>1, <2>4 DEF RowsHeld, Twin
  <2>6. RowsHeld'
    BY <2>1, <2>2, <2>3, <2>5 DEF RowsHeld, RateeHolders, Twin
  <2>7. RatingsTypeOK'
    BY <2>1
  <2>8. QED BY <2>1, <2>6, <2>7, TotalsSame
<1>3. ASSUME NEW r \in Ratings, RecordRating(r) PROVE RatingsInv'
  <2>1. /\ rating[r] = "inserted" /\ RateeHolders(r) = {} /\ UNCHANGED <<rated, total>>
        /\ rating' = [rating EXCEPT ![r] = "added"]
        /\ adding' = [adding EXCEPT ![r] = [sum |-> total[RatingOf[r]].sum + Score[r],
                                            count |-> total[RatingOf[r]].count + 1]]
    BY <1>3 DEF RecordRating
  <2>2. total[RatingOf[r]] \in Total /\ Score[r] \in Nat
    BY ScoreAssumption DEF Rated
  <2>3. RatingsTypeOK'
    BY <2>1, <2>2 DEF Total
  <2>4. RateeHolders(r)' = {r}
    BY <2>1 DEF RateeHolders
  <2>5. \A q \in Ratings \ {r} : rating[q] = "added" => RateeHolders(q)' = RateeHolders(q)
    BY <2>1 DEF RateeHolders
  <2>6. ASSUME NEW q \in Ratings, rating'[q] = "added"
        PROVE  /\ RateeHolders(q)' = {q}
               /\ adding'[q] = [sum |-> total'[RatingOf[q]].sum + Score[q],
                                count |-> total'[RatingOf[q]].count + 1]
    <3>1. CASE q = r
      BY <2>1, <2>4, <3>1
    <3>2. CASE q # r
      BY <2>1, <2>5, <2>6, <3>2 DEF RowsHeld
    <3>3. QED BY <3>1, <3>2
  <2>7. RowsHeld'
    BY <2>1, <2>6 DEF RowsHeld, Twin
  <2>8. QED BY <2>1, <2>3, <2>7, TotalsSame
<1>4. ASSUME NEW r \in Ratings, RateCommit(r) PROVE RatingsInv'
  <2>1. /\ rating[r] = "added" /\ rating' = [rating EXCEPT ![r] = "done"] /\ rated' = rated \cup {r}
        /\ total' = [total EXCEPT ![RatingOf[r]] = adding[r]] /\ UNCHANGED adding
    BY <1>4 DEF RateCommit
  <2>2. RatingsTypeOK'
    BY <2>1
  <2>3. \A q \in Ratings : rating'[q] = "added" => rating[q] = "added" /\ q # r
    BY <2>1
  <2>4. ASSUME NEW q \in Ratings, rating'[q] = "added"
        PROVE  RateeHolders(q)' = {q} /\ total'[RatingOf[q]] = total[RatingOf[q]]
    <3>1. RateeHolders(q) = {q}
      BY <2>3, <2>4 DEF RowsHeld
    <3>2. RatingOf[q] # RatingOf[r]
      BY <2>1, <2>3, <2>4, <3>1 DEF RateeHolders
    <3>3. QED BY <2>1, <2>4, <3>1, <3>2 DEF RateeHolders
  <2>5. RowsHeld'
    BY <2>1, <2>3, <2>4 DEF RowsHeld, Twin
  <2>6. QED BY <1>4, <2>2, <2>5, RateCommitTotals
<1>5. CASE UNCHANGED ratingVars
  BY <1>5, TotalsSame DEF ratingVars, RowsHeld, RateeHolders, Twin
<1>6. QED BY <1>1, <1>2, <1>3, <1>4, <1>5 DEF RatingsNext, rate_trip

LEMMA RatingsInvHolds == RatingsSpec => []RatingsInv
BY InitRatingsInv, NextRatings, PTL DEF RatingsSpec

(***************************************************************************)
(* Support tickets.                                                        *)
(***************************************************************************)

LEMMA TicketCounts ==
  ASSUME NEW y
  PROVE  /\ IsFiniteSet(TicketsOf(y)) /\ Cardinality(TicketsOf(y)) \in Nat
         /\ Cardinality(Raisers) \in Nat
         /\ Cardinality(TicketsOf(y)) <= Cardinality(Raisers)
         /\ \A r \in Raisers \ TicketsOf(y) :
              /\ Cardinality(TicketsOf(y) \cup {r}) = Cardinality(TicketsOf(y)) + 1
              /\ Cardinality(TicketsOf(y)) + 1 <= Cardinality(Raisers)
<1>1. TicketsOf(y) \in SUBSET Raisers /\ IsFiniteSet(Raisers)
  BY DeskAssumption DEF TicketsOf
<1>2. IsFiniteSet(TicketsOf(y)) /\ Cardinality(TicketsOf(y)) <= Cardinality(Raisers)
  BY <1>1, FS_Subset
<1>3. Cardinality(TicketsOf(y)) \in Nat /\ Cardinality(Raisers) \in Nat
  BY <1>1, <1>2, FS_CardinalityType
<1>4. ASSUME NEW r \in Raisers \ TicketsOf(y)
      PROVE  /\ Cardinality(TicketsOf(y) \cup {r}) = Cardinality(TicketsOf(y)) + 1
             /\ Cardinality(TicketsOf(y)) + 1 <= Cardinality(Raisers)
  <2>1. Cardinality(TicketsOf(y) \cup {r}) = Cardinality(TicketsOf(y)) + 1
    BY <1>2, FS_AddElement
  <2>2. TicketsOf(y) \cup {r} \in SUBSET Raisers
    BY <1>1
  <2>3. Cardinality(TicketsOf(y) \cup {r}) <= Cardinality(Raisers)
    BY <1>1, <2>2, FS_Subset
  <2>4. QED BY <2>1, <2>3
<1>5. QED BY <1>2, <1>3, <1>4

LEMMA InitDeskInv == DeskInit => DeskInv
<1> SUFFICES ASSUME DeskInit PROVE DeskInv OBVIOUS
<1>1. Cardinality(Raisers) \in Nat
  BY TicketCounts
<1>2. DeskTypeOK
  BY <1>1 DEF DeskInit, DeskTypeOK, TicketRow, Note, NoNote
<1>3. NumbersExplained /\ HandsExplained
  BY DEF DeskInit, NumbersExplained, HandsExplained
<1>4. \A y \in Years : TicketsOf(y) = {} /\ sequence[y] = 0
  BY DEF DeskInit, TicketsOf
<1>5. ReferencesGapFree
  <2>1. Cardinality({}) = 0
    BY FS_EmptySet
  <2>2. ASSUME NEW y \in Years PROVE {ticket[t].ref : t \in TicketsOf(y)} = 1..Cardinality(TicketsOf(y))
    <3>1. {ticket[t].ref : t \in TicketsOf(y)} = {} /\ 1..0 = {}
      BY <1>4
    <3>2. QED BY <1>4, <2>1, <3>1
  <2>3. QED BY <1>4, <2>2 DEF ReferencesGapFree
<1>6. AnsweredIsNotUnread
  BY DEF DeskInit, AnsweredIsNotUnread
<1>7. QED BY <1>2, <1>3, <1>5, <1>6 DEF DeskInv, DeskHolds

(* A step that files no ticket: the references stay, and so does the       *)
(* number of whoever holds one, if nobody joins them.                      *)
LEMMA NothingFiled ==
  ASSUME DeskInv, UNCHANGED sequence,
         \A t \in Raisers : /\ ticket'[t].ref = ticket[t].ref
                            /\ ticket'[t].status = "NONE" <=> ticket[t].status = "NONE"
  PROVE  ReferencesGapFree' /\ \A y : TicketsOf(y)' = TicketsOf(y)
<1>1. \A y : TicketsOf(y)' = TicketsOf(y)
  BY DEF TicketsOf
<1>2. ASSUME NEW y \in Years PROVE {ticket'[t].ref : t \in TicketsOf(y)} = {ticket[t].ref : t \in TicketsOf(y)}
  BY DEF TicketsOf
<1>3. QED BY <1>1, <1>2 DEF DeskInv, DeskHolds, ReferencesGapFree

(* A request that takes no number and files nothing.                       *)
LEMMA DeskSteps ==
  ASSUME DeskInv, NEW r \in Raisers \cup Hands, NEW s \in {"first", "failed"},
         Step(r, s), desk[r] # "done", UNCHANGED <<noted, sequence, ticket, thread>>
  PROVE  DeskInv'
<1> USE DEF DeskInv, DeskTypeOK
<1>1. /\ desk' = [desk EXCEPT ![r] = s] /\ UNCHANGED <<noted, sequence, ticket, thread>>
  BY DEF Step
<1>2. DeskTypeOK'
  BY <1>1
<1>3. ReferencesGapFree' /\ \A y : TicketsOf(y)' = TicketsOf(y)
  BY <1>1, NothingFiled
<1>4. \A q \in Raisers : desk'[q] = "numbered" =>
        desk[q] = "numbered" /\ SequenceHolders(YearOf[q])' = SequenceHolders(YearOf[q]) \ {r} /\ q # r
  BY <1>1 DEF SequenceHolders
<1>5. NumbersExplained'
  BY <1>1, <1>3, <1>4 DEF NumbersExplained
<1>6. HandsExplained'
  BY <1>1 DEF HandsExplained
<1>7. AnsweredIsNotUnread'
  BY <1>1 DEF DeskHolds, AnsweredIsNotUnread
<1>8. QED BY <1>2, <1>3, <1>5, <1>6, <1>7 DEF DeskHolds

(* A request that takes the number it finds.                               *)
LEMMA TakesNumber ==
  ASSUME DeskInv, NEW r \in Raisers, NumberInsert(r) \/ NumberNext(r)
  PROVE  DeskInv'
<1> USE DEF DeskInv, DeskTypeOK
<1> DEFINE n == Cardinality(TicketsOf(YearOf[r])) + 1
<1>1. YearOf[r] \in Years
  BY DeskAssumption
<1>2. /\ desk[r] \in {"new", "first"} /\ SequenceHolders(YearOf[r]) = {}
      /\ desk' = [desk EXCEPT ![r] = "numbered"] /\ UNCHANGED <<sequence, ticket, thread>>
  BY DEF NumberInsert, NumberNext, Step
<1>3. r \in Raisers \ TicketsOf(YearOf[r])
  BY <1>2 DEF NumbersExplained, TicketsOf
<1>4. n \in 0..Cardinality(Raisers)
  <2>1. /\ Cardinality(TicketsOf(YearOf[r])) \in Nat /\ Cardinality(Raisers) \in Nat
        /\ Cardinality(TicketsOf(YearOf[r])) + 1 <= Cardinality(Raisers)
    BY <1>3, TicketCounts
  <2>2. QED BY <2>1
<1>5. noted' = [noted EXCEPT ![r].number = n]
  <2>1. /\ Cardinality({}) = 0
        /\ sequence[YearOf[r]] = IF TicketsOf(YearOf[r]) = {} THEN 0 ELSE n
    BY <1>1, FS_EmptySet DEF DeskHolds, ReferencesGapFree
  <2>2. CASE NumberInsert(r)
    <3>1. TicketsOf(YearOf[r]) = {}
      BY <1>4, <2>1, <2>2, TicketCounts DEF NumberInsert
    <3>2. n = 1
      BY <2>1, <3>1
    <3>3. QED BY <2>2, <3>2 DEF NumberInsert
  <2>3. CASE NumberNext(r)
    BY <2>1, <2>3 DEF NumberNext
  <2>4. QED BY <2>2, <2>3
<1> HIDE DEF n
<1>6. DeskTypeOK'
  <2>1. noted' \in [Raisers \cup Hands -> Note]
    BY <1>4, <1>5 DEF Note
  <2>2. QED BY <1>2, <2>1
<1>7. ReferencesGapFree' /\ \A y : TicketsOf(y)' = TicketsOf(y)
  BY <1>2, NothingFiled
<1>8. ASSUME NEW q \in Raisers, desk'[q] = "numbered"
      PROVE  /\ SequenceHolders(YearOf[q])' = {q}
             /\ noted'[q].number = Cardinality(TicketsOf(YearOf[q])) + 1
  <2>1. CASE q = r
    <3>1. SequenceHolders(YearOf[r])' = {r}
      BY <1>2 DEF SequenceHolders
    <3>2. noted'[r].number = n
      BY <1>5 DEF Note
    <3>3. QED BY <2>1, <3>1, <3>2 DEF n
  <2>2. CASE q # r
    <3>1. desk[q] = "numbered" /\ YearOf[q] # YearOf[r]
      BY <1>2, <1>8, <2>2 DEF SequenceHolders
    <3>2. SequenceHolders(YearOf[q])' = SequenceHolders(YearOf[q]) /\ noted'[q] = noted[q]
      BY <1>2, <1>5, <2>2, <3>1 DEF SequenceHolders
    <3>3. QED BY <3>1, <3>2 DEF NumbersExplained
  <2>3. QED BY <2>1, <2>2
<1>9. NumbersExplained'
  BY <1>2, <1>7, <1>8 DEF NumbersExplained
<1>10. \A h \in Hands : h # r
  BY DeskAssumption
<1>11. HandsExplained'
  BY <1>2, <1>5, <1>10 DEF HandsExplained
<1>12. AnsweredIsNotUnread'
  BY <1>2 DEF DeskHolds, AnsweredIsNotUnread
<1>13. QED BY <1>6, <1>7, <1>9, <1>11, <1>12 DEF DeskHolds

(* A ticket filed under the year's next number.                            *)
LEMMA TicketFiled ==
  ASSUME DeskInv, NEW r \in Raisers, RaiseTicket(r) PROVE DeskInv'
<1> USE DEF DeskInv, DeskTypeOK
<1> DEFINE y == YearOf[r]  n == Cardinality(TicketsOf(y)) + 1
<1>1. y \in Years
  BY DeskAssumption
<1>2. /\ desk[r] = "numbered" /\ desk' = [desk EXCEPT ![r] = "done"] /\ UNCHANGED noted
      /\ noted[r].number = n /\ SequenceHolders(y) = {r} /\ ticket[r].status = "NONE"
  BY DEF RaiseTicket, Step, NumbersExplained
<1>3. /\ sequence' = [sequence EXCEPT ![y] = n + 1]
      /\ ticket' = [ticket EXCEPT ![r] = [status |-> "OPEN", ref |-> n]]
      /\ thread' = [thread EXCEPT ![r] = {<<"reporter", r>>}]
  BY <1>2 DEF RaiseTicket
<1>4. r \in Raisers \ TicketsOf(y)
  BY <1>2 DEF TicketsOf
<1>5. /\ n \in 1..Cardinality(Raisers) /\ Cardinality(Raisers) \in Nat
      /\ Cardinality(TicketsOf(y) \cup {r}) = n
  BY <1>4, TicketCounts
<1>6. /\ TicketsOf(y)' = TicketsOf(y) \cup {r}
      /\ \A z \in Years \ {y} : TicketsOf(z)' = TicketsOf(z)
  BY <1>3, <1>4 DEF TicketsOf
<1>7. DeskTypeOK'
  <2>1. n + 1 \in 0..(Cardinality(Raisers) + 1)
    BY <1>5
  <2>2. [status |-> "OPEN", ref |-> n] \in TicketRow
    BY <1>5 DEF TicketRow, TicketStatus
  <2>3. {<<"reporter", r>>} \in SUBSET (Voices \X (Raisers \cup Hands))
    BY DEF Voices
  <2>4. QED BY <1>2, <1>3, <2>1, <2>2, <2>3
<1>8. ASSUME NEW z \in Years
      PROVE  /\ {ticket'[t].ref : t \in TicketsOf(z)'} = 1..Cardinality(TicketsOf(z)')
             /\ sequence'[z] = IF TicketsOf(z)' = {} THEN 0 ELSE Cardinality(TicketsOf(z)') + 1
  <2>1. {ticket[t].ref : t \in TicketsOf(z)} = 1..Cardinality(TicketsOf(z))
    BY DEF DeskHolds, ReferencesGapFree
  <2>2. \A t \in TicketsOf(z) : t # r \/ z # y
    BY <1>4
  <2>3. \A t \in TicketsOf(z) : t \in Raisers /\ t # r
    BY <1>2 DEF TicketsOf
  <2>4. \A t \in TicketsOf(z) : ticket'[t] = ticket[t]
    BY <1>3, <2>3
  <2>5. CASE z = y
    <3>1. ticket'[r].ref = n
      BY <1>3
    <3>2. {ticket'[t].ref : t \in TicketsOf(y) \cup {r}} = {ticket[t].ref : t \in TicketsOf(y)} \cup {n}
      BY <2>4, <2>5, <3>1
    <3>3. (1..Cardinality(TicketsOf(y))) \cup {n} = 1..n
      BY TicketCounts
    <3>4. sequence'[y] = n + 1
      BY <1>1, <1>3
    <3>5. QED BY <1>5, <1>6, <2>1, <2>5, <3>2, <3>3, <3>4
  <2>6. CASE z # y
    <3>1. sequence'[z] = sequence[z] /\ TicketsOf(z)' = TicketsOf(z)
      BY <1>3, <1>6, <2>6
    <3>2. {ticket'[t].ref : t \in TicketsOf(z)} = {ticket[t].ref : t \in TicketsOf(z)}
      BY <2>4
    <3>3. QED BY <2>1, <3>1, <3>2 DEF DeskHolds, ReferencesGapFree
  <2>7. QED BY <2>5, <2>6
<1>9. ReferencesGapFree'
  BY <1>8 DEF ReferencesGapFree
<1>10. ASSUME NEW q \in Raisers, desk'[q] = "numbered"
       PROVE  /\ SequenceHolders(YearOf[q])' = {q}
              /\ noted'[q].number = Cardinality(TicketsOf(YearOf[q])') + 1
  <2>1. desk[q] = "numbered" /\ q # r
    BY <1>2, <1>10
  <2>2. YearOf[q] # y /\ YearOf[q] \in Years
    BY <1>2, <2>1, DeskAssumption DEF SequenceHolders
  <2>3. SequenceHolders(YearOf[q])' = SequenceHolders(YearOf[q])
    BY <1>2, <2>2 DEF SequenceHolders
  <2>4. QED BY <1>2, <1>6, <2>1, <2>2, <2>3 DEF NumbersExplained
<1>11. NumbersExplained'
  BY <1>2, <1>3, <1>10 DEF NumbersExplained
<1>12. HandsExplained'
  <2>1. \A h \in Hands : h # r
    BY DeskAssumption
  <2>2. ASSUME NEW h \in Hands, desk'[h] = "read"
        PROVE  desk[h] = "read" /\ noted'[h] = noted[h] /\ ticket'[noted[h].ticket] = ticket[noted[h].ticket]
    <3>1. desk[h] = "read"
      BY <1>2, <2>1, <2>2
    <3>2. noted[h].ticket \in Raisers /\ noted[h].ticket # r
      BY <1>2, <3>1 DEF HandsExplained
    <3>3. QED BY <1>2, <1>3, <3>1, <3>2
  <2>3. QED BY <2>2 DEF HandsExplained
<1>13. AnsweredIsNotUnread'
  BY <1>3 DEF DeskHolds, AnsweredIsNotUnread
<1>14. QED BY <1>7, <1>9, <1>11, <1>12, <1>13 DEF DeskHolds

(* Replies and decisions: what they read, and what they write.             *)
LEMMA HandReads ==
  ASSUME DeskInv, NEW h \in Hands, ReplyRead(h) \/ DecideRead(h) PROVE DeskInv'
<1> USE DEF DeskInv, DeskTypeOK
<1>1. /\ desk[h] = "new" /\ desk' = [desk EXCEPT ![h] = "read"] /\ UNCHANGED <<sequence, ticket, thread>>
  BY DEF ReplyRead, DecideRead, Step
<1>2. PICK n \in Note :
        /\ noted' = [noted EXCEPT ![h] = n]
        /\ n.ticket \in Raisers /\ ticket[n.ticket].status # "NONE"
        /\ n.seen = ticket[n.ticket].status
        /\ n.decided # n.seen => n.decided \notin {"OPEN", "NONE"}
        /\ n.voice = "staff" => n.decided # "OPEN"
  <2>1. Cardinality(Raisers) \in Nat
    BY TicketCounts
  <2>2. CASE ReplyRead(h)
    <3>1. PICK t \in Raisers, voice \in Voices :
            /\ ticket[t].status \notin {"NONE", "CLOSED"}
            /\ noted' = [noted EXCEPT ![h] =
                 [ticket |-> t, number |-> 0, seen |-> ticket[t].status, voice |-> voice,
                  decided |-> AfterReply(ticket[t].status, voice)]]
      BY <2>2 DEF ReplyRead
    <3>2. ticket[t].status \in TicketStatus
      BY <3>1 DEF TicketRow
    <3>3. /\ AfterReply(ticket[t].status, voice) \in TicketStatus
          /\ AfterReply(ticket[t].status, voice) # ticket[t].status
               => AfterReply(ticket[t].status, voice) = "IN_PROGRESS"
          /\ voice = "staff" => AfterReply(ticket[t].status, voice) # "OPEN"
      BY <3>2 DEF AfterReply, TicketStatus
    <3> DEFINE m == [ticket |-> t, number |-> 0, seen |-> ticket[t].status, voice |-> voice,
                     decided |-> AfterReply(ticket[t].status, voice)]
    <3>4. m \in Note
      BY <2>1, <3>2, <3>3 DEF Note
    <3>5. /\ noted' = [noted EXCEPT ![h] = m] /\ m.ticket = t /\ m.seen = ticket[t].status
          /\ m.voice = voice /\ m.decided = AfterReply(ticket[t].status, voice)
      BY <3>1
    <3> HIDE DEF m
    <3>6. QED BY <3>1, <3>3, <3>4, <3>5
  <2>3. CASE DecideRead(h)
    <3>1. PICK t \in Raisers, target \in TicketStatus \ {"OPEN"} :
            /\ ticket[t].status # "NONE"
            /\ noted' = [noted EXCEPT ![h] =
                 [ticket |-> t, number |-> 0, seen |-> ticket[t].status, voice |-> "none",
                  decided |-> target]]
      BY <2>3 DEF DecideRead
    <3>2. ticket[t].status \in TicketStatus
      BY <3>1 DEF TicketRow
    <3> DEFINE m == [ticket |-> t, number |-> 0, seen |-> ticket[t].status, voice |-> "none",
                     decided |-> target]
    <3>3. m \in Note
      BY <2>1, <3>1, <3>2 DEF Note
    <3>4. /\ noted' = [noted EXCEPT ![h] = m] /\ m.ticket = t /\ m.seen = ticket[t].status
          /\ m.voice = "none" /\ m.decided \notin {"OPEN", "NONE"}
      BY <3>1 DEF TicketStatus
    <3> HIDE DEF m
    <3>5. QED BY <3>1, <3>3, <3>4
  <2>4. QED BY <2>2, <2>3
<1>3. DeskTypeOK'
  BY <1>1, <1>2
<1>4. ReferencesGapFree' /\ \A y : TicketsOf(y)' = TicketsOf(y)
  BY <1>1, NothingFiled
<1>5. \A r \in Raisers : r # h
  BY DeskAssumption
<1>6. \A y : SequenceHolders(y)' = SequenceHolders(y)
  BY <1>1, <1>5 DEF SequenceHolders
<1>7. NumbersExplained'
  BY <1>1, <1>2, <1>4, <1>5, <1>6 DEF NumbersExplained
<1>8. HandsExplained'
  BY <1>1, <1>2 DEF HandsExplained
<1>9. AnsweredIsNotUnread'
  BY <1>1 DEF DeskHolds, AnsweredIsNotUnread
<1>10. QED BY <1>3, <1>4, <1>7, <1>8, <1>9 DEF DeskHolds

LEMMA HandWrites ==
  ASSUME DeskInv, NEW h \in Hands, HandCommit(h) PROVE DeskInv'
<1> USE DEF DeskInv, DeskTypeOK
<1> DEFINE n == noted[h]
<1>1. /\ desk[h] = "read" /\ desk' = [desk EXCEPT ![h] = "done"] /\ UNCHANGED <<noted, sequence>>
  BY DEF HandCommit, Step
<1>2. /\ n \in Note /\ n.ticket \in Raisers /\ ticket[n.ticket].status # "NONE"
      /\ n.seen # "OPEN" => ticket[n.ticket].status # "OPEN"
      /\ n.decided # n.seen => n.decided \notin {"OPEN", "NONE"}
      /\ n.voice = "staff" => n.decided # "OPEN"
  BY <1>1 DEF HandsExplained
<1>3. /\ ticket' = IF n.decided = n.seen THEN ticket ELSE [ticket EXCEPT ![n.ticket].status = n.decided]
      /\ thread' = IF n.voice = "none" THEN thread
                   ELSE [thread EXCEPT ![n.ticket] = @ \cup {<<n.voice, h>>}]
  BY DEF HandCommit
<1>4. \A t \in Raisers : /\ ticket'[t].ref = ticket[t].ref
                         /\ ticket'[t].status = "NONE" <=> ticket[t].status = "NONE"
                         /\ ticket'[t].status = "OPEN" => ticket[t].status = "OPEN"
  BY <1>2, <1>3 DEF TicketRow
<1>5. DeskTypeOK'
  <2>1. ticket' \in [Raisers -> TicketRow]
    <3>1. n.decided \in {"NONE"} \cup TicketStatus
      BY <1>2 DEF Note
    <3>2. [ticket[n.ticket] EXCEPT !.status = n.decided] \in TicketRow
      BY <1>2, <3>1 DEF TicketRow
    <3>3. QED BY <1>2, <1>3, <3>2
  <2>2. thread' \in [Raisers -> SUBSET (Voices \X (Raisers \cup Hands))]
    <3>1. CASE n.voice = "none"
      BY <1>3, <3>1
    <3>2. CASE n.voice # "none"
      <4>1. <<n.voice, h>> \in Voices \X (Raisers \cup Hands)
        BY <1>2, <3>2 DEF Note
      <4>2. thread' = [thread EXCEPT ![n.ticket] = @ \cup {<<n.voice, h>>}]
        BY <1>3, <3>2
      <4>3. thread[n.ticket] \cup {<<n.voice, h>>} \in SUBSET (Voices \X (Raisers \cup Hands))
        BY <1>2, <4>1
      <4>4. QED BY <4>2, <4>3
    <3>3. QED BY <3>1, <3>2
  <2>3. QED BY <1>1, <2>1, <2>2
<1>6. ReferencesGapFree' /\ \A y : TicketsOf(y)' = TicketsOf(y)
  BY <1>1, <1>4, NothingFiled
<1>7. \A r \in Raisers : r # h
  BY DeskAssumption
<1>8. \A y : SequenceHolders(y)' = SequenceHolders(y)
  BY <1>1, <1>7 DEF SequenceHolders
<1>9. NumbersExplained'
  BY <1>1, <1>4, <1>6, <1>7, <1>8 DEF NumbersExplained
<1>10. HandsExplained'
  BY <1>1, <1>4 DEF HandsExplained
<1>11. ASSUME NEW t \in Raisers, ticket'[t].status = "OPEN", NEW m \in thread'[t] PROVE m[1] # "staff"
  <2>1. ticket[t].status = "OPEN" /\ \A k \in thread[t] : k[1] # "staff"
    BY <1>4, <1>11 DEF DeskHolds, AnsweredIsNotUnread
  <2>2. CASE m \in thread[t]
    BY <2>1, <2>2
  <2>3. CASE m \notin thread[t]
    <3>1. t = n.ticket /\ m = <<n.voice, h>>
      BY <1>2, <1>3, <2>3
    <3>2. n.seen = "OPEN"
      BY <1>2, <2>1, <3>1
    <3>3. n.decided = "OPEN"
      <4>1. CASE n.decided = n.seen
        BY <3>2, <4>1
      <4>2. CASE n.decided # n.seen
        BY <1>2, <1>3, <1>11, <3>1, <4>2
      <4>3. QED BY <4>1, <4>2
    <3>4. n.voice # "staff"
      BY <1>2, <3>3
    <3>5. QED BY <3>1, <3>4
  <2>4. QED BY <2>2, <2>3
<1>12. AnsweredIsNotUnread'
  BY <1>11 DEF AnsweredIsNotUnread
<1>13. QED BY <1>5, <1>6, <1>9, <1>10, <1>12 DEF DeskHolds

LEMMA NextDesk == ASSUME DeskInv, [DeskNext]_deskVars PROVE DeskInv'
<1>1. ASSUME NEW r \in Raisers, NumberFirst(r) \/ NumberTaken(r) \/ RaiseFails(r) PROVE DeskInv'
  BY <1>1, DeskSteps DEF NumberFirst, NumberTaken, RaiseFails, DeskFails
<1>2. ASSUME NEW h \in Hands, HandFails(h) PROVE DeskInv'
  BY <1>2, DeskSteps DEF HandFails, DeskFails
<1>3. CASE UNCHANGED deskVars
  <2>1. ReferencesGapFree' /\ \A y : TicketsOf(y)' = TicketsOf(y)
    BY <1>3, NothingFiled DEF deskVars
  <2>2. DeskTypeOK' /\ AnsweredIsNotUnread' /\ HandsExplained'
    BY <1>3 DEF DeskInv, DeskTypeOK, DeskHolds, AnsweredIsNotUnread, HandsExplained, deskVars
  <2>3. NumbersExplained'
    BY <1>3, <2>1 DEF DeskInv, NumbersExplained, SequenceHolders, deskVars
  <2>4. QED BY <2>1, <2>2, <2>3 DEF DeskInv, DeskHolds
<1>4. QED BY <1>1, <1>2, <1>3, TakesNumber, TicketFiled, HandReads, HandWrites
          DEF DeskNext, raise_ticket, reply, decide

LEMMA DeskInvHolds == DeskSpec => []DeskInv
BY InitDeskInv, NextDesk, PTL DEF DeskSpec

(* Type correctness of the two.                                            *)
THEOREM AftercareTypes == AftercareSpec => [](DeskTypeOK /\ RatingsTypeOK)
<1>1. DeskInv /\ RatingsInv => DeskTypeOK /\ RatingsTypeOK
  BY DEF DeskInv, RatingsInv
<1>2. QED BY <1>1, DeskInvHolds, RatingsInvHolds, PTL DEF AftercareSpec

(* numbers.py, domain/support.py and rate_trip.py: for any number of       *)
(* requests, references are 1 to n in their year whichever requests fail   *)
(* with a number in their hands, no ticket staff have answered is shown as *)
(* unread, and the totals of whoever was rated are the ratings on file.    *)
THEOREM AftercareIsKept == AftercareSpec => []AftercareHolds
<1>1. DeskInv /\ RatingsInv => AftercareHolds
  BY DEF DeskInv, RatingsInv, AftercareHolds
<1>2. QED BY <1>1, DeskInvHolds, RatingsInvHolds, PTL DEF AftercareSpec

(***************************************************************************)
(* Places.                                                                 *)
(***************************************************************************)

LEMMA InitPlacesInv == PlacesInit => PlacesInv
BY DEF PlacesInit, PlacesInv, PlacesTypeOK, RowsAreReports, UnfoundCameSince, OneRowPerPlace,
       NoReport

(* Side by side is symmetric. *)
LEMMA SideBySide == \A p, q \in Place : SamePlace(p.spot, q.spot) => SamePlace(q.spot, p.spot)
<1>1. \A p \in Place : p.spot \in Int
  BY PlacesAssumption DEF Place
<1>2. QED BY <1>1 DEF SamePlace

(* A look that finds nothing says that nothing is near. *)
LEMMA NothingNear ==
  ASSUME PlacesTypeOK, NEW name \in Names, NEW spot \in Spots, same_place(name, spot) = {}
  PROVE  Near(name, spot) = {}
<1>1. \A p \in Near(name, spot) : p.spot \in Int /\ p.spot - spot \in -1..1
  BY PlacesAssumption DEF Near, SamePlace, PlacesTypeOK, Place
<1>2. spot \in Int
  BY PlacesAssumption
<1>3. \A p \in Near(name, spot) : Apart(p.spot, spot) \in {0, 1}
  BY <1>1, <1>2 DEF Apart
<1>4. CASE \E p \in Near(name, spot) : Apart(p.spot, spot) = 0
  BY <1>3, <1>4 DEF same_place, Nearest
<1>5. CASE \A p \in Near(name, spot) : Apart(p.spot, spot) = 1
  BY <1>5 DEF same_place, Nearest
<1>6. QED BY <1>3, <1>4, <1>5

(* Replacing a row by another version of it, with its name and spot or     *)
(* under a name that is written down, leaves one row per place.            *)
LEMMA RowReplaced ==
  ASSUME PlacesInv, NEW p \in places, NEW new \in Place,
         new.by = p.by, new.spot = p.spot, new.name = p.name \/ new.name \in renamed',
         places' = (places \ {p}) \cup {new}, renamed \subseteq renamed',
         UNCHANGED meanwhile,
         \A q \in places : report'[q.by] = Over,
         \A r \in Reports : report'[r].step = "write" => report'[r] = report[r]
  PROVE  RowsAreReports' /\ UnfoundCameSince' /\ OneRowPerPlace'
<1> USE DEF PlacesInv, PlacesTypeOK
<1>1. \A q, o \in places : q.by = o.by => q = o
  BY DEF RowsAreReports
<1>2. RowsAreReports'
  <2>1. \A q \in places' : report'[q.by] = Over
    BY <1>1
  <2>2. \A q, o \in places' : q.by = o.by => q = o
    BY <1>1
  <2>3. \A q, r \in Reports : q # r /\ report'[q].step = "write" /\ report'[r].step = "write"
                              => q \in meanwhile'[r] \/ r \in meanwhile'[q]
    BY DEF RowsAreReports, Overlapped
  <2>4. QED BY <2>1, <2>2, <2>3 DEF RowsAreReports, Overlapped
<1>3. \A q \in places : q.name = p.name /\ (SamePlace(q.spot, p.spot) \/ SamePlace(p.spot, q.spot)) =>
        q = p \/ Overlapped(p.by, q.by) \/ q.name \in renamed
  BY DEF OneRowPerPlace, Overlapped
<1>4. \A q, r : Overlapped(q, r)' <=> Overlapped(q, r)
  BY DEF Overlapped
<1>5. ASSUME NEW q \in places', NEW o \in places', q.name = o.name, SamePlace(q.spot, o.spot)
      PROVE  q = o \/ Overlapped(q.by, o.by)' \/ q.name \in renamed'
  <2>1. CASE q \in places /\ o \in places
    BY <1>4, <1>5, <2>1 DEF OneRowPerPlace
  <2>2. CASE q = new /\ o \in places \ {p}
    BY <1>3, <1>4, <1>5, <2>2
  <2>3. CASE o = new /\ q \in places \ {p}
    <3>1. q = p \/ Overlapped(p.by, q.by) \/ q.name \in renamed \/ q.name \in renamed'
      BY <1>3, <1>5, <2>3
    <3>2. QED BY <1>4, <2>3, <3>1 DEF Overlapped
  <2>4. QED BY <1>5, <2>1, <2>2, <2>3
<1>6. OneRowPerPlace'
  BY <1>5 DEF OneRowPerPlace, Overlapped
<1>7. ASSUME NEW r \in Reports, report'[r].step = "write", report'[r].found = {},
             NEW q \in places', q.name = report'[r].name, SamePlace(q.spot, report'[r].spot)
      PROVE  (q.by \in meanwhile'[r] \/ r \in meanwhile'[q.by]) \/ q.name \in renamed'
  <2>1. report[r] = report'[r]
    BY <1>7
  <2>2. CASE q \in places
    BY <1>7, <2>1, <2>2 DEF UnfoundCameSince, Near, Overlapped
  <2>3. CASE q = new
    BY <1>7, <2>1, <2>3 DEF UnfoundCameSince, Near, Overlapped
  <2>4. QED BY <2>2, <2>3
<1>8. UnfoundCameSince'
  BY <1>7 DEF UnfoundCameSince, Near, Overlapped
<1>9. QED BY <1>2, <1>6, <1>8

LEMMA ReportLooks ==
  ASSUME PlacesInv, NEW r \in Reports, ReportLook(r) PROVE PlacesInv'
<1> USE DEF PlacesInv, PlacesTypeOK
<1>1. /\ report[r].step = "idle" /\ report[r] # Over /\ UNCHANGED <<places, decider, renamed>>
      /\ meanwhile' = [meanwhile EXCEPT ![r] = {q \in Reports : report[q].step = "write"}]
  BY DEF ReportLook, Over
<1>2. PICK name \in Names, spot \in Spots :
        report' = [report EXCEPT ![r] =
          [step |-> "write", name |-> name, spot |-> spot, found |-> same_place(name, spot)]]
  BY DEF ReportLook
<1>3. same_place(name, spot) \in SUBSET Place
  BY DEF same_place, Nearest, Near
<1>4. PlacesTypeOK'
  BY <1>1, <1>2, <1>3
<1>5. \A p \in places : p.by # r
  BY <1>1 DEF RowsAreReports
<1>6. \A q, o \in Reports : q # r /\ o # r => (Overlapped(q, o)' <=> Overlapped(q, o))
  BY <1>1 DEF Overlapped
<1>7. RowsAreReports'
  <2>1. \A p \in places : report'[p.by] = Over
    BY <1>2, <1>5 DEF RowsAreReports, Place
  <2>2. ASSUME NEW q \in Reports, NEW o \in Reports, q # o,
               report'[q].step = "write", report'[o].step = "write"
        PROVE  q \in meanwhile'[o] \/ o \in meanwhile'[q]
    <3>1. CASE q # r /\ o # r
      BY <1>1, <1>2, <2>2, <3>1 DEF RowsAreReports, Overlapped
    <3>2. CASE q = r \/ o = r
      BY <1>1, <1>2, <2>2, <3>2
    <3>3. QED BY <3>1, <3>2
  <2>3. QED BY <1>1, <2>1, <2>2 DEF RowsAreReports, Overlapped
<1>8. OneRowPerPlace'
  BY <1>1, <1>5, <1>6 DEF OneRowPerPlace, Place
<1>9. ASSUME NEW q \in Reports, report'[q].step = "write", report'[q].found = {},
             NEW p \in places, p.name = report'[q].name, SamePlace(p.spot, report'[q].spot)
      PROVE  (p.by \in meanwhile'[q] \/ q \in meanwhile'[p.by]) \/ p.name \in renamed
  <2>1. CASE q = r
    <3>1. same_place(name, spot) = {} /\ p \in Near(name, spot)
      BY <1>2, <1>9, <2>1 DEF Near
    <3>2. QED BY <3>1, NothingNear
  <2>2. CASE q # r
    <3>1. report[q] = report'[q] /\ p \in Near(report[q].name, report[q].spot)
      BY <1>2, <1>9, <2>2 DEF Near
    <3>2. Overlapped(p.by, q) \/ p.name \in renamed
      BY <1>9, <3>1 DEF UnfoundCameSince
    <3>3. p.by \in Reports /\ p.by # r
      BY <1>5 DEF Place
    <3>4. QED BY <1>1, <2>2, <3>2, <3>3 DEF Overlapped
  <2>3. QED BY <2>1, <2>2
<1>10. UnfoundCameSince'
  BY <1>1, <1>9 DEF UnfoundCameSince, Near, Overlapped
<1>11. QED BY <1>4, <1>7, <1>8, <1>10

LEMMA ReportWrites ==
  ASSUME PlacesInv, NEW r \in Reports, ReportWrite(r) PROVE PlacesInv'
<1> USE DEF PlacesInv, PlacesTypeOK
<1>1. /\ report[r].step = "write" /\ report' = [report EXCEPT ![r] = Over]
      /\ UNCHANGED <<decider, meanwhile, renamed>>
      /\ report[r] \in [step : {"write"}, name : Names, spot : Spots, found : SUBSET Place]
  BY DEF ReportWrite, NoReport, Over
<1>2. \A p \in places : p.by # r /\ report'[p.by] = Over
  BY <1>1 DEF RowsAreReports, Place, Over
<1>3. \A q \in Reports : report'[q].step = "write" => q # r /\ report'[q] = report[q]
  BY <1>1 DEF Over
<1>4. CASE report[r].found = {}
  <2>1. places' = places \cup {NewPlace(r)}
    BY <1>4 DEF ReportWrite
  <2>2. /\ NewPlace(r) \in Place /\ NewPlace(r).by = r
        /\ NewPlace(r).name = report[r].name /\ NewPlace(r).spot = report[r].spot
    BY <1>1 DEF NewPlace, Place
  <2> DEFINE new == NewPlace(r)
  <2> HIDE DEF new
  <2>3. PlacesTypeOK'
    BY <1>1, <2>1, <2>2 DEF new
  <2>4. RowsAreReports'
    <3>1. /\ \A p \in places' : report'[p.by] = Over
          /\ \A p, q \in places' : p.by = q.by => p = q
      BY <1>1, <1>2, <2>1, <2>2 DEF RowsAreReports
    <3>2. \A q, o \in Reports : q # o /\ report'[q].step = "write" /\ report'[o].step = "write"
                                => q \in meanwhile'[o] \/ o \in meanwhile'[q]
      BY <1>1, <1>3 DEF RowsAreReports, Overlapped
    <3>3. QED BY <3>1, <3>2 DEF RowsAreReports, Overlapped
  <2>5. \A p \in places : p.name = report[r].name /\ SamePlace(p.spot, report[r].spot) =>
          Overlapped(p.by, r) \/ p.name \in renamed
    BY <1>1, <1>4 DEF UnfoundCameSince, Near
  <2>6. \A p \in places : SamePlace(new.spot, p.spot) => SamePlace(p.spot, new.spot)
    BY <2>2, SideBySide DEF new
  <2>7. ASSUME NEW q \in places', NEW o \in places', q.name = o.name, SamePlace(q.spot, o.spot)
        PROVE  q = o \/ (q.by \in meanwhile'[o.by] \/ o.by \in meanwhile'[q.by]) \/ q.name \in renamed'
    <3>1. CASE q \in places /\ o \in places
      BY <1>1, <2>7, <3>1 DEF OneRowPerPlace, Overlapped
    <3>2. CASE q = new /\ o \in places
      BY <1>1, <2>2, <2>5, <2>6, <2>7, <3>2 DEF Overlapped, new
    <3>3. CASE o = new /\ q \in places
      BY <1>1, <2>2, <2>5, <2>7, <3>3 DEF Overlapped, new
    <3>4. QED BY <2>1, <2>7, <3>1, <3>2, <3>3 DEF new
  <2>8. OneRowPerPlace'
    BY <2>7 DEF OneRowPerPlace, Overlapped
  <2>9. ASSUME NEW q \in Reports, report'[q].step = "write", report'[q].found = {},
               NEW p \in places', p.name = report'[q].name, SamePlace(p.spot, report'[q].spot)
        PROVE  (p.by \in meanwhile'[q] \/ q \in meanwhile'[p.by]) \/ p.name \in renamed'
    <3>1. q # r /\ report[q] = report'[q]
      BY <1>3, <2>9
    <3>2. CASE p \in places
      BY <1>1, <2>9, <3>1, <3>2 DEF UnfoundCameSince, Near, Overlapped
    <3>3. CASE p = new
      BY <1>1, <2>2, <2>9, <3>1, <3>3 DEF RowsAreReports, Overlapped, new
    <3>4. QED BY <2>1, <2>9, <3>2, <3>3 DEF new
  <2>10. UnfoundCameSince'
    BY <2>9 DEF UnfoundCameSince, Near, Overlapped
  <2>11. QED BY <2>3, <2>4, <2>8, <2>10
<1>5. CASE report[r].found # {}
  <2>1. PICK seen \in report[r].found, p \in places :
          /\ p.by = seen.by
          /\ places' = IF seen.status = "REJECTED" THEN places
                       ELSE (places \ {p}) \cup {[p EXCEPT !.reports = seen.reports + 1]}
    BY <1>5 DEF ReportWrite
  <2>2. seen \in Place /\ p \in Place
    BY <1>1, <2>1
  <2> DEFINE new == [p EXCEPT !.reports = seen.reports + 1]
  <2>3. new \in Place /\ new.by = p.by /\ new.name = p.name /\ new.spot = p.spot
    BY <2>2 DEF Place
  <2>4. places' = places \/ places' = (places \ {p}) \cup {new}
    BY <2>1
  <2> HIDE DEF new
  <2>5. PlacesTypeOK'
    BY <1>1, <2>3, <2>4
  <2>6. CASE places' = places
    <3>1. RowsAreReports'
      BY <1>1, <1>2, <1>3, <2>6 DEF RowsAreReports, Overlapped
    <3>2. UnfoundCameSince'
      BY <1>1, <1>3, <2>6 DEF UnfoundCameSince, Near, Overlapped
    <3>3. OneRowPerPlace'
      BY <1>1, <2>6 DEF OneRowPerPlace, Overlapped
    <3>4. QED BY <2>5, <3>1, <3>2, <3>3
  <2>7. CASE places' = (places \ {p}) \cup {new}
    BY <1>1, <1>2, <1>3, <2>3, <2>5, <2>7, RowReplaced
  <2>8. QED BY <2>4, <2>6, <2>7
<1>6. QED BY <1>4, <1>5

LEMMA DeciderWrites ==
  ASSUME PlacesInv, NEW d \in Deciders, DeciderWrite(d) PROVE PlacesInv'
<1> USE DEF PlacesInv, PlacesTypeOK
<1>1. /\ decider[d].step = "write" /\ decider' = [decider EXCEPT ![d] = Over]
      /\ UNCHANGED <<report, meanwhile>>
      /\ decider[d] \in [step : {"write"}, row : Place, status : {"APPROVED", "REJECTED"},
                         rename : Names \cup {NoRename}]
  BY DEF DeciderWrite, NoReport, Over
<1>2. PICK p \in places :
        /\ places' = (places \ {p}) \cup {Decided(d, p)}
        /\ renamed' = IF Decided(d, p).name = p.name THEN renamed
                      ELSE renamed \cup {Decided(d, p).name}
  BY DEF DeciderWrite
<1>3. Decided(d, p) \in Place /\ Decided(d, p).by = p.by /\ Decided(d, p).spot = p.spot
  BY <1>1 DEF Decided, Place
<1>4. PlacesTypeOK'
  BY <1>1, <1>2, <1>3 DEF Place
<1>5. \A q \in places : report'[q.by] = Over
  BY <1>1 DEF RowsAreReports
<1>6. /\ \A r \in Reports : report'[r].step = "write" => report'[r] = report[r]
      /\ Decided(d, p).name = p.name \/ Decided(d, p).name \in renamed'
      /\ renamed \subseteq renamed' /\ UNCHANGED meanwhile
  BY <1>1, <1>2
<1>7. QED BY <1>2, <1>3, <1>4, <1>5, <1>6, RowReplaced

LEMMA NextPlaces == ASSUME PlacesInv, [PlacesNext]_placesVars PROVE PlacesInv'
<1> USE DEF PlacesInv, PlacesTypeOK
<1>1. ASSUME UNCHANGED <<places, report, meanwhile, renamed>>
      PROVE  RowsAreReports' /\ UnfoundCameSince' /\ OneRowPerPlace'
  BY <1>1 DEF RowsAreReports, UnfoundCameSince, Near, OneRowPerPlace, Overlapped
<1>2. ASSUME NEW d \in Deciders, DeciderRead(d) PROVE PlacesInv'
  <2>1. UNCHANGED <<places, report, meanwhile, renamed>>
    BY <1>2 DEF DeciderRead
  <2>2. PICK p \in places, status \in {"APPROVED", "REJECTED"}, rename \in Names \cup {NoRename} :
          decider' = [decider EXCEPT ![d] =
            IF p.status = status /\ rename = NoRename THEN Over
            ELSE [step |-> "write", row |-> p, status |-> status, rename |-> rename]]
    BY <1>2 DEF DeciderRead
  <2>3. PlacesTypeOK'
    BY <2>1, <2>2
  <2>4. QED BY <1>1, <2>1, <2>3
<1>3. CASE UNCHANGED placesVars
  BY <1>1, <1>3 DEF placesVars
<1>4. QED
  BY <1>2, <1>3, ReportLooks, ReportWrites, DeciderWrites DEF PlacesNext, name_place, decide_place

LEMMA PlacesInvHolds == PlacesSpec => []PlacesInv
BY InitPlacesInv, NextPlaces, PTL DEF PlacesSpec

(***************************************************************************)
(* Villages.                                                               *)
(***************************************************************************)

LEMMA LeastNot ==
  ASSUME NEW S \in SUBSET Nat, S # {} PROVE \E m \in S : \A k \in S : ~(k < m)
<1> DEFINE R == OpToRel(<, Nat)
<1>1. IsWellFoundedOn(R, Nat)
  BY NatLessThanWellFounded
<1>2. \A k, m \in Nat : k < m => <<k, m>> \in R
  BY DEF OpToRel
<1> HIDE DEF R
<1>3. \E m \in S : \A k \in S : ~(<<k, m>> \in R)
  BY <1>1, WFMin
<1>4. QED BY <1>2, <1>3, Zenon

LEMMA LeastNatural ==
  ASSUME NEW S \in SUBSET Nat, S # {} PROVE \E m \in S : \A k \in S : m <= k
<1>1. \E m \in S : \A k \in S : ~(k < m)
  BY LeastNot
<1>2. QED BY <1>1

(* A subset without a greatest element, one with as few elements as can    *)
(* be, would have one more than a subset with one.                         *)
LEMMA GreatestOfFinite ==
  ASSUME NEW S \in SUBSET Int, IsFiniteSet(S), S # {} PROVE \E m \in S : \A k \in S : k <= m
<1> DEFINE Bad == {U \in SUBSET S : U # {} /\ ~\E m \in U : \A k \in U : k <= m}
           Sizes == {Cardinality(U) : U \in Bad}
<1> SUFFICES ASSUME S \in Bad PROVE FALSE
  OBVIOUS
<1>1. \A U \in SUBSET S : IsFiniteSet(U) /\ Cardinality(U) \in Nat
  BY FS_Subset, FS_CardinalityType
<1>2. Sizes \in SUBSET Nat /\ Sizes # {}
  BY <1>1
<1>3. PICK n \in Sizes : \A k \in Sizes : n <= k
  BY <1>2, LeastNatural
<1>4. PICK U \in Bad : Cardinality(U) = n
  BY <1>3
<1>5. PICK x \in U : TRUE
  BY <1>4
<1> DEFINE V == U \ {x}
<1>6. V # {}
  BY <1>4, <1>5
<1>7. Cardinality(V) = n - 1 /\ n \in Nat
  <2>1. IsFiniteSet(U)
    BY <1>1, <1>4
  <2>2. QED BY <1>1, <1>4, <1>5, <2>1, FS_RemoveElement
<1>8. V \notin Bad
  <2>1. V \in Bad => Cardinality(V) \in Sizes
    OBVIOUS
  <2>2. ~(n <= Cardinality(V))
    BY <1>7
  <2>3. QED BY <1>3, <2>1, <2>2
<1>9. PICK y \in V : \A k \in V : k <= y
  BY <1>4, <1>6, <1>8
<1>10. x \in Int /\ y \in Int /\ x \in U /\ y \in U
  BY <1>4, <1>5, <1>9
<1>11. CASE x <= y
  <2>1. \A k \in U : k <= y
    BY <1>9, <1>11
  <2>2. QED BY <1>4, <1>10, <2>1
<1>12. CASE ~(x <= y)
  <2>1. \A k \in U : k \in Int
    BY <1>4
  <2>2. \A k \in U : k <= x
    BY <1>9, <1>10, <1>12, <2>1
  <2>3. QED BY <1>4, <1>10, <2>2
<1>13. QED BY <1>11, <1>12

LEMMA CodesFinite ==
  ASSUME NEW V \in SUBSET VillageRow, IsFiniteSet(V)
  PROVE  Codes(V) \in SUBSET Nat /\ IsFiniteSet(Codes(V))
<1>1. Codes(V) \in SUBSET Nat
  BY DEF Codes, VillageRow
<1> DEFINE f == [v \in V |-> v.code]
<1>2. f \in Surjection(V, Codes(V))
  BY DEF Surjection, Codes
<1>3. QED BY <1>1, <1>2, FS_Surjection

LEMMA InitVillagesInv == VillagesInit => VillagesInv
<1> SUFFICES ASSUME VillagesInit PROVE VillagesInv OBVIOUS
<1>1. IsFiniteSet({})
  BY FS_EmptySet
<1>2. VillagesTypeOK
  BY <1>1 DEF VillagesInit, VillagesTypeOK, ClickRow, NotOpened, NoPin, OnTheMap
<1>3. CommitsExplained /\ PinsExplained
  BY DEF VillagesInit, CommitsExplained, CommitExplained, BesideEachOther, PinsExplained,
         NotOpened, NoPin
<1>4. ImportedWhole /\ OnlyACrossingLeavesAStation
  BY DEF VillagesInit, ImportedWhole, WholeIn, Imported, BesideEachOther, NotOpened,
         OnlyACrossingLeavesAStation
<1>5. QED BY <1>2, <1>3, <1>4 DEF VillagesInv

LEMMA NextRowLeft ==
  ASSUME VillagesInv, NEW c \in Clicks, RowsLeft(c) # {}
  PROVE  NextRow(c) \in RowsLeft(c) /\ NextRow(c) \in Nat
<1> DEFINE S == IF click[c].fresh # {} THEN click[c].fresh ELSE click[c].accepted
<1>1. S \in SUBSET Nat /\ S # {} /\ S \subseteq RowsLeft(c)
  BY DEF VillagesInv, VillagesTypeOK, ClickRow, RowsLeft
<1>2. \E m \in S : \A k \in S : m <= k
  BY <1>1, LeastNatural
<1>3. Min(S) \in S
  BY <1>2 DEF Min
<1>4. QED BY <1>1, <1>3 DEF NextRow

(* What a step of one commit that imports nothing leaves to be shown of it. *)
LEMMA CommitMoves ==
  ASSUME VillagesInv, NEW c \in Clicks, UNCHANGED <<job, villages, pin, strayed>>,
         NEW row \in ClickRow,
         IsFiniteSet(row.made), click' = [click EXCEPT ![c] = row], CommitExplained(c, Clicked[c])',
         click[c].step # "done", row.step # "done",
         BesideEachOther({"number", "rows", "done"})'
  PROVE  VillagesInv'
<1> USE DEF VillagesInv, VillagesTypeOK, ClickRow
<1>1. PinsExplained' /\ OnlyACrossingLeavesAStation'
  BY DEF PinsExplained, OnlyACrossingLeavesAStation, Codes
<1>6. ImportedWhole'
  <2>1. \A d \in Clicks : click'[d].step = "done" <=> click[d].step = "done"
    OBVIOUS
  <2>2. \A d \in Clicks : Imported(d)' = Imported(d)
    BY DEF Imported
  <2>3. ASSUME NEW d \in Clicks PROVE WholeIn(d)'
    <3>1. WholeIn(d) /\ Imported(d)' = Imported(d) /\ job' = job
      BY <2>2 DEF ImportedWhole
    <3>2. click'[d].step = "done" <=> click[d].step = "done"
      BY <2>1
    <3>3. QED BY <3>1, <3>2 DEF WholeIn
  <2>4. BesideEachOther({"done"})'
    BY DEF BesideEachOther
  <2>5. \A k \in Jobs : job'[k].status = "COMMITTED" =>
          \E d \in Clicks : Clicked[d] = k /\ click'[d].step = "done"
    BY <2>1 DEF ImportedWhole
  <2>6. QED BY <2>3, <2>4, <2>5 DEF ImportedWhole
<1>2. VillagesTypeOK'
  OBVIOUS
<1>3. ASSUME NEW d \in Clicks PROVE CommitExplained(d, Clicked[d])'
  <2>1. CASE d = c
    BY <2>1
  <2>2. CASE d # c
    <3>1. CommitExplained(d, Clicked[d]) /\ click'[d] = click[d]
      BY <2>2 DEF CommitsExplained
    <3>2. QED BY <3>1 DEF CommitExplained, RowsLeft
  <2>3. QED BY <2>1, <2>2
<1>4. CommitsExplained'
  BY <1>3 DEF CommitsExplained, RowsOf
<1>5. QED BY <1>1, <1>2, <1>4, <1>6

(* Who ran beside whom when a commit takes another step, or is refused.    *)
LEMMA BesideStays ==
  ASSUME VillagesInv, NEW c \in Clicks, NEW row \in ClickRow, click' = [click EXCEPT ![c] = row],
         \/ row.step \notin {"number", "rows", "done"}
         \/ row.beside = click[c].beside /\ click[c].step \in {"number", "rows"}
  PROVE  BesideEachOther({"number", "rows", "done"})'
BY DEF VillagesInv, VillagesTypeOK, CommitsExplained, BesideEachOther

LEMMA CommitRefused ==
  ASSUME VillagesInv, NEW c \in Clicks, UNCHANGED <<job, villages, pin, strayed>>,
         click[c].step = "rows", click' = [click EXCEPT ![c] = AfterTaken(@)]
  PROVE  VillagesInv'
<1> DEFINE row == [NotOpened EXCEPT !.step = "refused"]
<1>1. /\ row \in ClickRow
      /\ row.step = "refused" /\ row.made = {}
  BY DEF NotOpened, ClickRow
<1>2. click' = [click EXCEPT ![c] = row]
  BY DEF AfterTaken
<1> HIDE DEF row
<1>3. click'[c] = row
  BY <1>2 DEF VillagesInv, VillagesTypeOK
<1>4. CommitExplained(c, Clicked[c])'
  BY <1>1, <1>3 DEF CommitExplained
<1>5. IsFiniteSet(row.made)
  BY <1>1, FS_EmptySet
<1>6. BesideEachOther({"number", "rows", "done"})'
  BY <1>1, <1>2, BesideStays
<1>7. row.step # "done"
  BY <1>1
<1>8. QED BY <1>1, <1>2, <1>4, <1>5, <1>6, <1>7, CommitMoves

(* The row of a commit that opens.                                         *)
LEMMA OpenedRow ==
  ASSUME NEW F, NEW A, NEW B
  PROVE  /\ Opened(F, A, B).step = "number" /\ Opened(F, A, B).made = {}
         /\ Opened(F, A, B).fresh = F /\ Opened(F, A, B).accepted = A /\ Opened(F, A, B).beside = B
BY DEF Opened, NotOpened

(* A commit that opens: it is refused, or it takes the rows of its job.    *)
LEMMA CommitOpens ==
  ASSUME VillagesInv, NEW c \in Clicks, CommitOpen(c) PROVE VillagesInv'
<1> DEFINE j == Clicked[c]
<1>1. /\ UNCHANGED <<job, villages, pin, strayed>> /\ j \in Jobs /\ click[c].step = "closed"
      /\ click[c] \in ClickRow /\ IsFiniteSet(click[c].made) /\ click \in [Clicks -> ClickRow]
  BY VillagesAssumption DEF CommitOpen, VillagesInv, VillagesTypeOK
<1>2. CASE click' = [click EXCEPT ![c].step = "refused"]
  <2> DEFINE row == [click[c] EXCEPT !.step = "refused"]
  <2>1. /\ row \in ClickRow /\ row.step = "refused" /\ IsFiniteSet(row.made)
        /\ click' = [click EXCEPT ![c] = row]
    BY <1>1, <1>2 DEF ClickRow
  <2> HIDE DEF row
  <2>2. click'[c] = row
    BY <1>1, <2>1
  <2>3. CommitExplained(c, j)'
    BY <2>1, <2>2 DEF CommitExplained
  <2>4. BesideEachOther({"number", "rows", "done"})'
    BY <2>1, BesideStays
  <2>5. click[c].step # "done" /\ row.step # "done"
    BY <1>1, <2>1
  <2>6. QED BY <1>1, <2>1, <2>3, <2>4, <2>5, CommitMoves
<1>3. CASE ~(click' = [click EXCEPT ![c].step = "refused"])
  <2>1. PICK accepted \in SUBSET job[j].flagged :
          click' = [click EXCEPT ![c] = Opened(job[j].create, accepted, RunsBeside(c))]
    BY <1>3 DEF CommitOpen
  <2>2. job[j].status = "PREVIEWED"
    BY <1>3 DEF CommitOpen
  <2>3. /\ job[j].create \in SUBSET Nat /\ accepted \in SUBSET Nat
        /\ RunsBeside(c) \in SUBSET Clicks
    BY <1>1, <2>1 DEF VillagesInv, VillagesTypeOK, RunsBeside
  <2> DEFINE row == Opened(job[j].create, accepted, RunsBeside(c))
  <2>4. /\ row \in ClickRow /\ row.step = "number" /\ row.made = {}
        /\ row.fresh = job[j].create /\ row.accepted = accepted /\ row.beside = RunsBeside(c)
    <3>1. row \in ClickRow
      BY <2>3 DEF Opened, NotOpened, ClickRow
    <3>2. QED BY <3>1, OpenedRow
  <2>5. click' = [click EXCEPT ![c] = row]
    BY <2>1
  <2> HIDE DEF row
  <2>6. click'[c] = row
    BY <1>1, <2>5
  <2>7. CommitExplained(c, j)'
    BY <1>1, <2>1, <2>2, <2>4, <2>6 DEF CommitExplained, RowsLeft
  <2>8. ASSUME NEW f \in Clicks \ {c}, Clicked[f] = j, click[f].step \in {"number", "rows", "done"}
        PROVE  f \in RunsBeside(c)
    <3>1. click[f].step # "done"
      BY <2>2, <2>8 DEF VillagesInv, ImportedWhole, WholeIn
    <3>2. QED BY <2>8, <3>1 DEF RunsBeside
  <2>9. ASSUME NEW d \in Clicks, NEW e \in Clicks, d # e, Clicked[d] = Clicked[e],
               click'[d].step \in {"number", "rows", "done"},
               click'[e].step \in {"number", "rows", "done"}
        PROVE  d \in click'[e].beside \/ e \in click'[d].beside
    <3>1. \A f \in Clicks \ {c} : click'[f] = click[f]
      BY <1>1, <2>5
    <3>2. CASE d = c
      BY <2>4, <2>6, <2>8, <2>9, <3>1, <3>2
    <3>3. CASE e = c
      BY <2>4, <2>6, <2>8, <2>9, <3>1, <3>3
    <3>4. CASE d # c /\ e # c
      BY <2>9, <3>1, <3>4 DEF VillagesInv, CommitsExplained, BesideEachOther
    <3>5. QED BY <3>2, <3>3, <3>4
  <2>10. BesideEachOther({"number", "rows", "done"})'
    BY <2>9 DEF BesideEachOther
  <2>11. click[c].step # "done" /\ row.step # "done" /\ IsFiniteSet(row.made)
    BY <1>1, <2>4, FS_EmptySet
  <2>12. QED BY <1>1, <2>4, <2>5, <2>7, <2>10, <2>11, CommitMoves
<1>4. QED BY <1>2, <1>3

(* A commit that begins to number, or is failed out of a ring.             *)
LEMMA CommitsBegin ==
  ASSUME VillagesInv, NEW c \in Clicks, NextCodes(c) \/ BreakRing(c)
  PROVE  VillagesInv'
<1> USE DEF VillagesInv, VillagesTypeOK, ClickRow
<1> DEFINE j == Clicked[c]
<1>1. UNCHANGED <<job, villages, pin, strayed>> /\ j \in Jobs
  BY VillagesAssumption DEF NextCodes, BreakRing
<1>3. CASE NextCodes(c)
  <2> DEFINE last == Max(Codes(villages) \cup {0})
  <2>1. Codes(villages) \cup {0} \in SUBSET Nat /\ IsFiniteSet(Codes(villages) \cup {0})
    <3>1. Codes(villages) \in SUBSET Nat /\ IsFiniteSet(Codes(villages))
      BY CodesFinite
    <3>2. IsFiniteSet(Codes(villages) \cup {0})
      BY <3>1, FS_AddElement
    <3>3. QED BY <3>1, <3>2
  <2>2. Codes(villages) \cup {0} \in SUBSET Int /\ Codes(villages) \cup {0} # {}
    BY <2>1
  <2>3. \E m \in Codes(villages) \cup {0} : \A k \in Codes(villages) \cup {0} : k <= m
    BY <2>1, <2>2, GreatestOfFinite
  <2>4. \E m \in Codes(villages) \cup {0} : \A k \in Codes(villages) \cup {0} : m >= k
    BY <2>2, <2>3
  <2>5. last \in Nat
    BY <2>1, <2>4 DEF Max
  <2> HIDE DEF last
  <2> DEFINE row == [click[c] EXCEPT !.step = "rows", !.last = last]
  <2>14. click[c] \in ClickRow
    OBVIOUS
  <2>6. click' = [click EXCEPT ![c].step = "rows", ![c].last = last] /\ click[c].step = "number"
    BY <1>3 DEF NextCodes, last
  <2>7. /\ row \in ClickRow
        /\ row.fresh = click[c].fresh /\ row.accepted = click[c].accepted /\ row.made = click[c].made
        /\ row.beside = click[c].beside /\ row.step = "rows"
    BY <2>5, <2>14
  <2>11. click' = [click EXCEPT ![c] = row] /\ row.step = "rows"
    BY <2>6, <2>14
  <2> HIDE DEF row
  <2>8. CommitExplained(c, j)
    BY DEF CommitsExplained
  <2>9. CommitExplained(c, j)'
    BY <1>1, <2>6, <2>7, <2>8, <2>11 DEF CommitExplained, RowsLeft
  <2>10. BesideEachOther({"number", "rows", "done"})'
    BY <2>6, <2>7, <2>11, BesideStays
  <2>12. click[c].step # "done" /\ row.step # "done" /\ IsFiniteSet(row.made)
    BY <2>6, <2>7, <2>11
  <2>13. QED BY <1>1, <2>7, <2>9, <2>10, <2>11, <2>12, CommitMoves
<1>4. CASE BreakRing(c)
  <2>1. click[c].step = "rows" /\ click' = [click EXCEPT ![c] = AfterTaken(@)]
    BY <1>4 DEF BreakRing, Ring
  <2>2. QED BY <1>1, <2>1, CommitRefused
<1>5. QED BY <1>3, <1>4

LEMMA VillageMade ==
  ASSUME VillagesInv, NEW c \in Clicks, CreateVillage(c) PROVE VillagesInv'
<1> USE DEF VillagesInv, VillagesTypeOK, ClickRow
<1> DEFINE j == Clicked[c]
           i == NextRow(c)
           new == [code |-> RowCode(c), name |-> File[j][i].name, by |-> c, row |-> i,
                   at |-> NoPoint, station |-> NoPoint]
           last == IF File[j][i].code = NoCode THEN click[c].last + 1 ELSE click[c].last
<1>1. /\ click[c].step = "rows" /\ RowsLeft(c) # {} /\ UNCHANGED <<job, villages, pin, strayed>>
      /\ j \in Jobs /\ click[c] \in ClickRow
  BY VillagesAssumption DEF CreateVillage
<1>2. CASE CodeTaken(c)
  <2>1. click' = [click EXCEPT ![c] = AfterTaken(@)]
    BY <1>2 DEF CreateVillage
  <2>2. QED BY <1>1, <2>1, CommitRefused
<1>3. CASE ~CodeTaken(c)
  <2>1. click' = [click EXCEPT ![c].fresh = @ \ {i}, ![c].accepted = @ \ {i},
                               ![c].made = @ \cup {new}, ![c].last = last]
    BY <1>3 DEF CreateVillage
  <2>2. i \in RowsLeft(c) /\ i \in Nat
    BY <1>1, NextRowLeft
  <2>3. CommitExplained(c, j)
    BY DEF CommitsExplained
  <2>4. i \in RowsOf(j)
    BY <1>1, <2>2, <2>3 DEF CommitsExplained, CommitExplained
  <2>5. File[j][i].code \in (Nat \ {0}) \cup {NoCode} /\ File[j][i].name \in FileNames
    BY <1>1, <2>4, VillagesAssumption DEF RowsOf, FileNames
  <2>6. last \in Nat /\ RowCode(c) \in Nat
    BY <1>1, <2>5 DEF RowCode
  <2>7. new \in VillageRow /\ new.row = i /\ new.by = c /\ new.station = new.at
    BY <1>1, <2>2, <2>5, <2>6 DEF VillageRow, OnTheMap
  <2> HIDE DEF new, last
  <2> DEFINE row == [click[c] EXCEPT !.fresh = @ \ {i}, !.accepted = @ \ {i},
                                     !.made = @ \cup {new}, !.last = last]
  <2>8. row \in ClickRow
    BY <1>1, <2>6, <2>7
  <2>9. /\ row.step = "rows" /\ row.fresh = click[c].fresh \ {i} /\ row.accepted = click[c].accepted \ {i}
        /\ row.made = click[c].made \cup {new} /\ row.beside = click[c].beside
    BY <1>1
  <2>10. click' = [click EXCEPT ![c] = row]
    BY <1>1, <2>1
  <2> HIDE DEF row
  <2>11. IsFiniteSet(row.made)
    <3>1. IsFiniteSet(click[c].made)
      OBVIOUS
    <3>2. IsFiniteSet(click[c].made \cup {new})
      BY <3>1, FS_AddElement
    <3>3. QED BY <2>9, <3>2
  <2>12. click'[c] = row
    BY <2>10
  <2>13. RowsLeft(c)' = RowsLeft(c) \ {i}
    BY <2>9, <2>12 DEF RowsLeft
  <2>14. {v.row : v \in row.made} = {v.row : v \in click[c].made} \cup {i}
    BY <2>7, <2>9
  <2>15. CommitExplained(c, j)'
    <3>1. /\ job[j].create \subseteq RowsLeft(c)' \cup {v.row : v \in row.made}
          /\ RowsLeft(c)' \cup {v.row : v \in row.made} \subseteq job[j].create \cup job[j].flagged
      <4>1. RowsLeft(c)' \cup {v.row : v \in row.made} = RowsLeft(c) \cup {v.row : v \in click[c].made}
        BY <2>2, <2>13, <2>14
      <4>2. QED BY <1>1, <2>3, <4>1 DEF CommitExplained
    <3>2. /\ \A v \in row.made : v.by = c /\ v.station = v.at /\ v.row \notin RowsLeft(c)'
          /\ \A v, w \in row.made : v.row = w.row => v = w
      BY <1>1, <2>2, <2>3, <2>7, <2>9, <2>13 DEF CommitExplained
    <3>3. QED BY <1>1, <2>3, <2>12, <3>1, <3>2 DEF CommitExplained
  <2>16. BesideEachOther({"number", "rows", "done"})'
    BY <1>1, <2>8, <2>9, <2>10, BesideStays
  <2>17. click[c].step # "done" /\ row.step # "done"
    BY <1>1, <2>9
  <2>18. QED BY <1>1, <2>8, <2>10, <2>11, <2>15, <2>16, <2>17, CommitMoves
<1>4. QED BY <1>2, <1>3

(* A file goes in: every row of it, and only rows of it.                   *)
LEMMA FileImported ==
  ASSUME VillagesInv, NEW c \in Clicks, CommitImport(c) PROVE VillagesInv'
<1> USE DEF VillagesInv, VillagesTypeOK, ClickRow
<1> DEFINE j == Clicked[c]  made == click[c].made
<1>1. /\ click[c].step = "rows" /\ RowsLeft(c) = {} /\ villages' = villages \cup made
      /\ job' = [job EXCEPT ![j].status = "COMMITTED"]
      /\ click' = [click EXCEPT ![c] = [NotOpened EXCEPT !.step = "done", !.beside = click[c].beside]]
      /\ UNCHANGED <<pin, strayed>> /\ j \in Jobs
  BY VillagesAssumption DEF CommitImport
<1> DEFINE row == [NotOpened EXCEPT !.step = "done", !.beside = click[c].beside]
<1>11. row \in ClickRow /\ row.step = "done" /\ row.made = {} /\ row.beside = click[c].beside
  BY DEF NotOpened
<1>12. click' = [click EXCEPT ![c] = row]
  BY <1>1
<1> HIDE DEF row
<1>2. /\ job[j].status # "NONE" /\ job[j].create \subseteq {v.row : v \in made}
      /\ {v.row : v \in made} \subseteq job[j].create \cup job[j].flagged
      /\ \A v \in made : v.by = c /\ v.station = v.at
      /\ \A v, w \in made : v.row = w.row => v = w
  <2>1. CommitExplained(c, j)
    BY DEF CommitsExplained
  <2>2. QED BY <1>1, <2>1 DEF CommitExplained
<1>3. /\ \A k \in Jobs : /\ job'[k].create = job[k].create /\ job'[k].flagged = job[k].flagged
                         /\ job'[k].status = IF k = j THEN "COMMITTED" ELSE job[k].status
  BY <1>1
<1>4. VillagesTypeOK'
  <2>1. IsFiniteSet(villages')
    BY <1>1, FS_Union
  <2>3. \A d \in Clicks : IsFiniteSet(click'[d].made)
    BY <1>11, <1>12, FS_EmptySet
  <2>4. job' \in [Jobs -> [status : {"NONE", "PREVIEWED", "COMMITTED"},
                          create : SUBSET Nat, flagged : SUBSET Nat]]
    <3> DEFINE JobRow == [status : {"NONE", "PREVIEWED", "COMMITTED"},
                          create : SUBSET Nat, flagged : SUBSET Nat]
               closed == [job[j] EXCEPT !.status = "COMMITTED"]
    <3>1. job \in [Jobs -> JobRow] /\ j \in Jobs
      BY <1>1
    <3>2. closed \in JobRow
      <4>1. job[j] \in JobRow
        <5> HIDE DEF JobRow
        <5>1. QED BY <3>1
      <4>2. QED BY <4>1
    <3>3. job' = [job EXCEPT ![j] = closed]
      BY <1>1
    <3> HIDE DEF JobRow, closed
    <3>4. job' \in [Jobs -> JobRow]
      BY <3>1, <3>2, <3>3
    <3>5. QED BY <3>4 DEF JobRow
  <2>5. click' \in [Clicks -> ClickRow]
    BY <1>11, <1>12
  <2>6. QED BY <1>1, <2>1, <2>3, <2>4, <2>5
<1>13. BesideEachOther({"number", "rows", "done"})'
  BY <1>1, <1>11, <1>12, BesideStays
<1>5. CommitsExplained'
  <2>1. ASSUME NEW d \in Clicks PROVE CommitExplained(d, Clicked[d])'
    <3>1. CASE d = c
      BY <1>11, <1>12, <3>1 DEF CommitExplained
    <3>2. CASE d # c
      <4>1. click'[d] = click[d] /\ CommitExplained(d, Clicked[d]) /\ Clicked[d] \in Jobs
        BY <1>12, <3>2, VillagesAssumption DEF CommitsExplained
      <4>2. QED BY <1>3, <4>1 DEF CommitExplained, RowsLeft
    <3>3. QED BY <3>1, <3>2
  <2>2. QED BY <1>3, <1>13, <2>1 DEF CommitsExplained, RowsOf
<1>6. PinsExplained'
  BY <1>1 DEF PinsExplained, Codes
<1>7. ASSUME NEW d \in Clicks PROVE WholeIn(d)'
  <2>1. CASE d = c
    <3>1. Imported(c)' = made
      BY <1>1, <1>2 DEF ImportedWhole, WholeIn, Imported
    <3>2. job'[j].status = "COMMITTED" /\ click'[c].step = "done"
      BY <1>1, <1>3, <1>11, <1>12
    <3>3. QED BY <1>1, <1>2, <1>3, <2>1, <3>1, <3>2 DEF WholeIn
  <2>2. CASE d # c
    <3>1. Imported(d)' = Imported(d)
      BY <1>1, <1>2, <2>2 DEF Imported
    <3>3. click'[d] = click[d] /\ WholeIn(d) /\ Clicked[d] \in Jobs
      BY <1>12, <2>2, VillagesAssumption DEF ImportedWhole
    <3>2. QED BY <1>3, <3>1, <3>3 DEF WholeIn
  <2>3. QED BY <2>1, <2>2
<1>8. ImportedWhole'
  <2>1. BesideEachOther({"done"})'
    BY <1>13 DEF BesideEachOther
  <2>2. \A d \in Clicks : click[d].step = "done" => click'[d].step = "done"
    BY <1>11, <1>12
  <2>3. click'[c].step = "done"
    BY <1>11, <1>12
  <2>4. \A k \in Jobs : job'[k].status = "COMMITTED" =>
          \E d \in Clicks : Clicked[d] = k /\ click'[d].step = "done"
    BY <1>3, <2>2, <2>3 DEF ImportedWhole
  <2>5. QED BY <1>7, <2>1, <2>4 DEF ImportedWhole
<1>9. OnlyACrossingLeavesAStation'
  BY <1>1, <1>2 DEF OnlyACrossingLeavesAStation
<1>10. QED BY <1>4, <1>5, <1>6, <1>8, <1>9

LEMMA FilePreviewed ==
  ASSUME VillagesInv, NEW j \in Jobs, Preview(j) PROVE VillagesInv'
<1> USE DEF VillagesInv, VillagesTypeOK, ClickRow
<1>1. /\ job[j].status = "NONE" /\ UNCHANGED <<click, villages, pin, strayed>>
      /\ job' = [job EXCEPT ![j] = [status |-> "PREVIEWED", flagged |-> Flagged(j),
                                    create |-> RowsOf(j) \ Flagged(j)]]
  BY DEF Preview
<1>2. Flagged(j) \subseteq RowsOf(j) /\ RowsOf(j) \subseteq Nat
  BY DEF Flagged, RowsOf
<1>3. VillagesTypeOK'
  <2>1. Flagged(j) \in SUBSET Nat /\ RowsOf(j) \ Flagged(j) \in SUBSET Nat
    BY <1>2
  <2>2. job' \in [Jobs -> [status : {"NONE", "PREVIEWED", "COMMITTED"},
                          create : SUBSET Nat, flagged : SUBSET Nat]]
    BY <1>1, <2>1
  <2>3. QED BY <1>1, <2>2
<1>4. \A k \in Jobs \ {j} : job'[k] = job[k]
  BY <1>1
<1>5. CommitsExplained'
  <2>1. \A c \in Clicks : click[c].step \in {"number", "rows"} => Clicked[c] \in Jobs \ {j}
    BY <1>1, VillagesAssumption DEF CommitsExplained, CommitExplained
  <2>2. \A c \in Clicks : CommitExplained(c, Clicked[c])'
    BY <1>1, <1>4, <2>1 DEF CommitsExplained, CommitExplained, RowsLeft
  <2>3. \A k \in Jobs : job'[k].create \cup job'[k].flagged \subseteq RowsOf(k)
    BY <1>1, <1>2 DEF CommitsExplained
  <2>4. BesideEachOther({"number", "rows", "done"})'
    BY <1>1 DEF CommitsExplained, BesideEachOther
  <2>5. QED BY <2>2, <2>3, <2>4 DEF CommitsExplained, RowsOf
<1>6. ImportedWhole'
  <2>1. \A c \in Clicks : click[c].step = "done" => Clicked[c] \in Jobs \ {j}
    BY <1>1, VillagesAssumption DEF ImportedWhole, WholeIn
  <2>2. \A c \in Clicks : WholeIn(c)'
    BY <1>1, <1>4, <2>1 DEF ImportedWhole, WholeIn, Imported
  <2>3. BesideEachOther({"done"})'
    BY <1>1 DEF ImportedWhole, BesideEachOther
  <2>4. \A k \in Jobs : job'[k].status = "COMMITTED" => k # j /\ job[k].status = "COMMITTED"
    BY <1>1, <1>4
  <2>5. QED BY <1>1, <2>2, <2>3, <2>4 DEF ImportedWhole
<1>7. PinsExplained' /\ OnlyACrossingLeavesAStation'
  BY <1>1 DEF PinsExplained, Codes, OnlyACrossingLeavesAStation
<1>8. QED BY <1>3, <1>5, <1>6, <1>7

LEMMA VillagePlaced ==
  ASSUME VillagesInv, NEW p \in Pins, PlaceCommit(p) PROVE VillagesInv'
<1> USE DEF VillagesInv, VillagesTypeOK
<1> DEFINE v == VillageAt(pin[p].code)
<1>1. /\ pin[p].step = "write" /\ villages' = (villages \ {v}) \cup {Moved(p, v)}
      /\ pin' = [pin EXCEPT ![p] = [NoPin EXCEPT !.step = "done"]]
      /\ UNCHANGED <<job, click, strayed>>
  BY DEF PlaceCommit
<1>2. v \in villages /\ v.code = pin[p].code /\ v \in VillageRow
  <2>1. \E w \in villages : w.code = pin[p].code
    BY <1>1 DEF PinsExplained, Codes
  <2>2. QED BY <2>1 DEF VillageAt
<1> DEFINE new == Moved(p, v)
<1>3. /\ new \in VillageRow /\ new.code = v.code /\ new.by = v.by /\ new.row = v.row
      /\ new.at = IF pin[p].to = pin[p].was THEN v.at ELSE pin[p].to
      /\ new.station = IF ~pin[p].follows \/ pin[p].to = pin[p].had THEN v.station ELSE pin[p].to
  BY <1>2 DEF Moved, VillageRow
<1>4. villages' = (villages \ {v}) \cup {new}
  BY <1>1
<1> HIDE DEF v, new
<1>5. VillagesTypeOK'
  <2>1. IsFiniteSet(villages')
    <3>1. IsFiniteSet(villages \ {v})
      BY FS_RemoveElement
    <3>2. QED BY <1>4, <3>1, FS_AddElement
  <2>2. pin' \in [Pins -> [step : {"idle", "stations", "write", "done"}, code : Nat, was : OnTheMap,
                          to : OnTheMap, had : OnTheMap, follows : BOOLEAN]]
    BY <1>1 DEF NoPin, OnTheMap
  <2>3. QED BY <1>1, <1>3, <1>4, <2>1, <2>2
<1>6. CommitsExplained'
  BY <1>1 DEF CommitsExplained, CommitExplained, BesideEachOther, RowsLeft, RowsOf
<1>7. Codes(villages)' = Codes(villages)
  BY <1>2, <1>3, <1>4 DEF Codes
<1>8. PinsExplained'
  <2>1. \A q \in Pins \ {p} : pin'[q] = pin[q]
    BY <1>1
  <2>2. pin'[p].step = "done"
    BY <1>1 DEF NoPin
  <2>3. QED BY <1>1, <1>7, <2>1, <2>2 DEF PinsExplained, Codes
<1>9. ASSUME NEW c \in Clicks PROVE WholeIn(c)'
  <2>1. WholeIn(c)
    BY DEF ImportedWhole
  <2>2. /\ {w.row : w \in Imported(c)'} = {w.row : w \in Imported(c)}
        /\ Imported(c)' = {} <=> Imported(c) = {}
    BY <1>2, <1>3, <1>4 DEF Imported
  <2>3. (\A x, w \in Imported(c) : x.row = w.row => x = w) =>
          \A x, w \in Imported(c)' : x.row = w.row => x = w
    BY <1>2, <1>3, <1>4 DEF Imported
  <2>4. QED BY <1>1, <2>1, <2>2, <2>3 DEF WholeIn
<1>10. ImportedWhole'
  BY <1>1, <1>9 DEF ImportedWhole, BesideEachOther
<1>11. OnlyACrossingLeavesAStation'
  <2>1. v.code \notin strayed => v.station = v.at /\ pin[p].follows /\ pin[p].had = pin[p].was
    BY <1>1, <1>2 DEF OnlyACrossingLeavesAStation, PinsExplained
  <2>2. v.code \notin strayed => new.station = new.at
    BY <1>3, <2>1
  <2>3. QED BY <1>1, <1>3, <1>4, <2>2 DEF OnlyACrossingLeavesAStation
<1>12. QED BY <1>5, <1>6, <1>8, <1>10, <1>11

LEMMA PinsMove ==
  ASSUME VillagesInv, NEW p \in Pins, PlaceRead(p) \/ PlaceStations(p) PROVE VillagesInv'
<1> USE DEF VillagesInv, VillagesTypeOK
<1>1. UNCHANGED <<job, click, villages>> /\ strayed \subseteq strayed'
  BY DEF PlaceRead, PlaceStations
<1>2. CommitsExplained' /\ ImportedWhole' /\ OnlyACrossingLeavesAStation'
  <2>1. CommitsExplained'
    BY <1>1 DEF CommitsExplained, CommitExplained, BesideEachOther, RowsLeft, RowsOf
  <2>2. ImportedWhole'
    BY <1>1 DEF ImportedWhole, WholeIn, Imported, BesideEachOther
  <2>3. OnlyACrossingLeavesAStation'
    BY <1>1 DEF OnlyACrossingLeavesAStation
  <2>4. QED BY <2>1, <2>2, <2>3
<1>3. CASE PlaceRead(p)
  <2>1. PICK v \in villages, to \in Points \cup {NoPoint} :
          pin' = [pin EXCEPT ![p] = [NoPin EXCEPT !.step = "stations", !.code = v.code,
                                                  !.was = v.at, !.to = to]]
    BY <1>3 DEF PlaceRead
  <2> DEFINE new == [NoPin EXCEPT !.step = "stations", !.code = v.code, !.was = v.at, !.to = to]
  <2>2. v.code \in Nat /\ v.at \in OnTheMap /\ v.code \in Codes(villages) /\ to \in OnTheMap
    BY DEF VillageRow, Codes, OnTheMap
  <2>3. /\ new \in [step : {"idle", "stations", "write", "done"}, code : Nat, was : OnTheMap,
                    to : OnTheMap, had : OnTheMap, follows : BOOLEAN]
        /\ new.step = "stations" /\ new.code \in Codes(villages)
    BY <2>2 DEF NoPin, OnTheMap
  <2>4. pin' = [pin EXCEPT ![p] = new] /\ UNCHANGED strayed
    BY <1>3, <2>1 DEF PlaceRead
  <2> HIDE DEF new
  <2>5. PinsExplained'
    BY <1>1, <2>3, <2>4 DEF PinsExplained, Codes
  <2>6. VillagesTypeOK'
    BY <1>1, <2>3, <2>4
  <2>7. QED BY <1>2, <2>5, <2>6
<1>4. CASE PlaceStations(p)
  <2> DEFINE v == VillageAt(pin[p].code)
             new == [pin[p] EXCEPT !.step = "write", !.had = v.station,
                       !.follows = (pin[p].to = NoPoint) \/ station_follows(v.station, pin[p].was)]
  <2>1. /\ pin[p].step = "stations" /\ pin' = [pin EXCEPT ![p] = new]
        /\ strayed' = IF v.at = pin[p].was THEN strayed ELSE strayed \cup {pin[p].code}
    BY <1>4 DEF PlaceStations
  <2>2. v \in villages /\ v.code = pin[p].code /\ v \in VillageRow /\ pin[p].code \in Codes(villages)
    <3>1. pin[p].code \in Codes(villages)
      BY <2>1 DEF PinsExplained
    <3>2. \E w \in villages : w.code = pin[p].code
      BY <3>1 DEF Codes
    <3>3. QED BY <3>1, <3>2 DEF VillageAt
  <2>3. v.station \in OnTheMap
    BY <2>2 DEF VillageRow
  <2>4. /\ new \in [step : {"idle", "stations", "write", "done"}, code : Nat, was : OnTheMap,
                    to : OnTheMap, had : OnTheMap, follows : BOOLEAN]
        /\ new.step = "write" /\ new.code = pin[p].code /\ new.had = v.station /\ new.was = pin[p].was
        /\ v.station = pin[p].was => new.follows
    BY <2>3 DEF station_follows
  <2> HIDE DEF v, new
  <2>5. pin[p].code \notin strayed' => new.follows /\ new.had = new.was
    BY <2>1, <2>2, <2>4 DEF OnlyACrossingLeavesAStation
  <2>6. PinsExplained'
    BY <1>1, <2>1, <2>2, <2>4, <2>5 DEF PinsExplained, Codes
  <2>7. VillagesTypeOK'
    BY <1>1, <2>1, <2>4
  <2>8. QED BY <1>2, <2>6, <2>7
<1>5. QED BY <1>3, <1>4

LEMMA NextVillages == ASSUME VillagesInv, [VillagesNext]_villagesVars PROVE VillagesInv'
<1>1. CASE UNCHANGED villagesVars
  <2>1. UNCHANGED <<job, click, villages, pin, strayed>>
    BY <1>1 DEF villagesVars
  <2>2. VillagesTypeOK' /\ PinsExplained' /\ OnlyACrossingLeavesAStation'
    BY <2>1 DEF VillagesInv, VillagesTypeOK, PinsExplained, Codes, OnlyACrossingLeavesAStation
  <2>3. CommitsExplained'
    BY <2>1 DEF VillagesInv, CommitsExplained, CommitExplained, BesideEachOther, RowsLeft, RowsOf
  <2>4. ImportedWhole'
    BY <2>1 DEF VillagesInv, ImportedWhole, WholeIn, Imported, BesideEachOther
  <2>5. QED BY <2>2, <2>3, <2>4 DEF VillagesInv
<1>2. QED BY <1>1, FilePreviewed, CommitOpens, CommitsBegin, VillageMade, FileImported, PinsMove, VillagePlaced
          DEF VillagesNext, commit_village_import, place_village

LEMMA VillagesInvHolds == VillagesSpec => []VillagesInv
BY InitVillagesInv, NextVillages, PTL DEF VillagesSpec

(***************************************************************************)
(* Routes and their stops.                                                 *)
(***************************************************************************)

LEMMA InitRoutesInv == RoutesInit => RoutesInv
<1> SUFFICES ASSUME RoutesInit PROVE RoutesInv OBVIOUS
<1> USE DEF RoutesInit, SeedRule, AtRest
<1>1. /\ AtRest \in Generation /\ AtRest.made = {} /\ AtRest.at \in 1..Len(Scope)
  BY RoutesAssumption DEF Generation
<1>2. /\ rules = {SeedRule} /\ SeedRule \in Rule /\ SeedRule.id = 0 /\ SeedRule.from = 0
      /\ SeedRule.until = NoEnd /\ SeedRule.price = SeedPrice
  BY RoutesAssumption DEF Rule
<1>3. /\ set \in Seq(Change) /\ Len(set) = 1 /\ set[1] = [day |-> 0, price |-> SeedPrice]
  BY RoutesAssumption DEF Change
<1> HIDE DEF SeedRule, AtRest
<1>4. RoutesTypeOK
  <2>1. IsFiniteSet(rules)
    BY <1>2, FS_Singleton
  <2>2. pricer \in [Pricers -> [step : {"idle", "write", "done"}, day : 0..LastDay, rule : Rule]]
    BY <1>2, RoutesAssumption
  <2>3. QED BY <1>1, <1>2, <1>3, <2>1, <2>2, RoutesAssumption DEF RoutesTypeOK
<1>5. GenerationsExplained /\ StopsAreOneGeneration
  BY <1>1 DEF GenerationsExplained, StopsAreOneGeneration
<1>6. RulesExplained
  <2>1. \A d \in 0..LastDay : SeedRule \in InForce(d)
    BY <1>2 DEF InForce
  <2>2. QED BY <1>2, <1>3, <2>1 DEF RulesExplained
<1>7. PricersExplained
  BY DEF PricersExplained
<1>8. QED BY <1>4, <1>5, <1>6, <1>7 DEF RoutesInv

LEMMA PricesSame ==
  ASSUME RoutesInv, UNCHANGED <<rules, pricer, set>> PROVE RulesExplained' /\ PricersExplained'
BY DEF RoutesInv, RulesExplained, PricersExplained, InForce

LEMMA StopsSame ==
  ASSUME RoutesInv, UNCHANGED <<stops, routed, generator>>
  PROVE  GenerationsExplained' /\ StopsAreOneGeneration'
BY DEF RoutesInv, GenerationsExplained, StopsAreOneGeneration

(* What a step of one generation leaves to be shown of it.                 *)
LEMMA GenerationMoves ==
  ASSUME RoutesInv, NEW g \in Generators, NEW row \in Generation,
         UNCHANGED <<stops, routed, rules, pricer, today, set>>,
         generator' = [generator EXCEPT ![g] = row],
         row.step \in {"look", "list", "create", "drop"} => row.at \in 1..Len(Scope),
         \A h \in Generators \ {g} : row.made \cap generator[h].made = {},
         \A s \in row.made : stops[s] \subseteq row.dropped
  PROVE  RoutesInv'
<1> USE DEF RoutesInv, RoutesTypeOK
<1>1. RoutesTypeOK'
  OBVIOUS
<1>2. \A h \in Generators : generator'[h] = IF h = g THEN row ELSE generator[h]
  OBVIOUS
<1>3. GenerationsExplained'
  BY <1>2 DEF GenerationsExplained
<1>4. StopsAreOneGeneration'
  BY DEF StopsAreOneGeneration
<1>5. QED BY <1>1, <1>3, <1>4, PricesSame

LEMMA NextStations ==
  ASSUME RoutesInv, NEW g \in Generators, FindRoute(g) \/ ListStops(g) PROVE RoutesInv'
<1> USE DEF RoutesInv, RoutesTypeOK, Generation
<1>1. /\ generator[g].step \in {"look", "list"} /\ generator[g] \in Generation
      /\ UNCHANGED <<stops, routed, rules, pricer, today, set>>
  BY DEF FindRoute, ListStops
<1>2. /\ generator[g].at \in 1..Len(Scope)
      /\ \A h \in Generators \ {g} : generator[g].made \cap generator[h].made = {}
      /\ \A s \in generator[g].made : stops[s] \subseteq generator[g].dropped
  BY <1>1 DEF GenerationsExplained
<1>3. Station(g) \in Stations
  BY <1>2 DEF Station, Stations
<1>4. CASE FindRoute(g)
  <2> DEFINE row == [generator[g] EXCEPT !.step = IF Station(g) \in routed THEN "list" ELSE "create"]
  <2>1. /\ row \in Generation /\ row.made = generator[g].made /\ row.dropped = generator[g].dropped
        /\ row.at = generator[g].at
    BY <1>1
  <2>2. generator' = [generator EXCEPT ![g] = row]
    BY <1>4 DEF FindRoute
  <2>3. /\ row.step \in {"look", "list", "create", "drop"} => row.at \in 1..Len(Scope)
        /\ \A h \in Generators \ {g} : row.made \cap generator[h].made = {}
        /\ \A s \in row.made : stops[s] \subseteq row.dropped
    BY <1>2, <2>1
  <2> HIDE DEF row, RoutesInv, RoutesTypeOK, Generation
  <2>4. QED BY <1>1, <2>1, <2>2, <2>3, GenerationMoves
<1>5. CASE ListStops(g)
  <2> DEFINE found == stops[Station(g)]
             row == [generator[g] EXCEPT !.step = "drop", !.found = found]
  <2>1. found \in SUBSET Stop
    BY <1>3
  <2>2. generator' = [generator EXCEPT ![g].step = "drop", ![g].found = found]
    BY <1>5 DEF ListStops
  <2> HIDE DEF found
  <2>3. /\ row \in Generation /\ row.made = generator[g].made /\ row.dropped = generator[g].dropped
        /\ row.at = generator[g].at
    BY <1>1, <2>1
  <2>4. generator' = [generator EXCEPT ![g] = row]
    BY <2>2
  <2>5. /\ row.step \in {"look", "list", "create", "drop"} => row.at \in 1..Len(Scope)
        /\ \A h \in Generators \ {g} : row.made \cap generator[h].made = {}
        /\ \A s \in row.made : stops[s] \subseteq row.dropped
    BY <1>2, <2>3
  <2> HIDE DEF row, RoutesInv, RoutesTypeOK, Generation
  <2>6. QED BY <1>1, <2>3, <2>4, <2>5, GenerationMoves
<1>6. QED BY <1>4, <1>5

LEMMA GenerationFails ==
  ASSUME RoutesInv, NEW g \in Generators, UNCHANGED <<stops, routed, rules, pricer, today, set>>,
         generator' = [generator EXCEPT ![g] = RolledBack]
  PROVE  RoutesInv'
<1>1. RolledBack \in Generation /\ RolledBack.step = "failed" /\ RolledBack.made = {}
  BY RoutesAssumption DEF RolledBack, AtRest, Generation
<1>2. QED BY <1>1, GenerationMoves

LEMMA AfterAStation ==
  ASSUME NEW row \in Generation, row.at \in 1..Len(Scope), NEW s \in Stations
  PROVE  /\ AfterStation(row, s) \in Generation
         /\ AfterStation(row, s).made = row.made \cup {s}
         /\ AfterStation(row, s).dropped = row.dropped
         /\ AfterStation(row, s).step \in {"look", "list", "create", "drop"}
              => AfterStation(row, s).at \in 1..Len(Scope)
<1>1. row.at + 1 \in 1..(Len(Scope) + 1) /\ (row.at # Len(Scope) => row.at + 1 \in 1..Len(Scope))
  BY RoutesAssumption
<1>2. QED BY <1>1 DEF AfterStation, Generation

LEMMA RouteMade ==
  ASSUME RoutesInv, NEW g \in Generators, CreateRoute(g) \/ RebuildStops(g) PROVE RoutesInv'
<1> USE DEF RoutesInv, RoutesTypeOK
<1> DEFINE s == Station(g)
<1>1. /\ generator[g].step \in {"create", "drop"} /\ generator[g] \in Generation
      /\ UNCHANGED <<stops, routed, rules, pricer, today, set>> /\ RouteHolders(g) = {}
  BY DEF CreateRoute, RebuildStops
<1>2. /\ generator[g].at \in 1..Len(Scope)
      /\ \A h \in Generators \ {g} : generator[g].made \cap generator[h].made = {}
      /\ \A r \in generator[g].made : stops[r] \subseteq generator[g].dropped
  BY <1>1 DEF GenerationsExplained
<1>3. s \in Stations
  BY <1>2 DEF Station, Stations
<1>4. \A h \in Generators \ {g} : (generator[g].made \cup {s}) \cap generator[h].made = {}
  BY <1>1, <1>2 DEF RouteHolders
<1>5. CASE CreateRoute(g) /\ s \notin routed
  <2> DEFINE row == AfterStation(generator[g], s)
  <2>1. generator' = [generator EXCEPT ![g] = row]
    BY <1>5 DEF CreateRoute
  <2>2. stops[s] = {}
    BY <1>3, <1>5 DEF StopsAreOneGeneration
  <2>3. /\ row \in Generation /\ row.made = generator[g].made \cup {s} /\ row.dropped = generator[g].dropped
        /\ row.step \in {"look", "list", "create", "drop"} => row.at \in 1..Len(Scope)
    BY <1>1, <1>2, <1>3, AfterAStation
  <2> HIDE DEF row
  <2>4. /\ \A h \in Generators \ {g} : row.made \cap generator[h].made = {}
        /\ \A r \in row.made : stops[r] \subseteq row.dropped
    BY <1>2, <1>4, <2>2, <2>3
  <2> HIDE DEF s, RoutesInv, RoutesTypeOK
  <2>5. QED BY <1>1, <2>1, <2>3, <2>4, GenerationMoves
<1>6. CASE RebuildStops(g) /\ StillThere(g) = {}
  <2> DEFINE after == AfterStation(generator[g], s)
             row == Cleared(generator[g], s)
  <2>1. generator' = [generator EXCEPT ![g] = row]
    BY <1>6 DEF RebuildStops
  <2>2. stops[s] \subseteq generator[g].found /\ generator[g].found \subseteq Stop
    BY <1>1, <1>6 DEF StillThere, Generation
  <2>3. /\ after \in Generation /\ after.made = generator[g].made \cup {s}
        /\ after.dropped = generator[g].dropped
        /\ after.step \in {"look", "list", "create", "drop"} => after.at \in 1..Len(Scope)
    BY <1>1, <1>2, <1>3, AfterAStation
  <2>4. /\ row \in Generation /\ row.made = after.made
        /\ row.dropped = after.dropped \cup generator[g].found
        /\ row.step = after.step /\ row.at = after.at
    <3>1. row = [after EXCEPT !.dropped = @ \cup generator[g].found]
      BY DEF Cleared
    <3> HIDE DEF after, row
    <3>2. QED BY <2>2, <2>3, <3>1 DEF Generation
  <2> HIDE DEF after
  <2> HIDE DEF row
  <2>5. /\ \A h \in Generators \ {g} : row.made \cap generator[h].made = {}
        /\ \A r \in row.made : stops[r] \subseteq row.dropped
        /\ row.step \in {"look", "list", "create", "drop"} => row.at \in 1..Len(Scope)
    BY <1>2, <1>4, <2>2, <2>3, <2>4
  <2> HIDE DEF s, RoutesInv, RoutesTypeOK
  <2>6. QED BY <1>1, <2>1, <2>4, <2>5, GenerationMoves
<1>7. CASE generator' = [generator EXCEPT ![g] = RolledBack]
  BY <1>1, <1>7, GenerationFails
<1>8. QED BY <1>5, <1>6, <1>7 DEF CreateRoute, RebuildStops

LEMMA RoutesCommitted ==
  ASSUME RoutesInv, NEW g \in Generators, GenerateCommit(g) PROVE RoutesInv'
<1> USE DEF RoutesInv, RoutesTypeOK
<1> DEFINE made == generator[g].made  rest == [AtRest EXCEPT !.step = "done"]
<1>1. /\ stops' = [s \in Stations |-> IF s \in made THEN (stops[s] \ generator[g].dropped) \cup StopsBy(g)
                                      ELSE stops[s]]
      /\ routed' = routed \cup made /\ generator' = [generator EXCEPT ![g] = rest]
      /\ UNCHANGED <<rules, pricer, today, set>>
  BY DEF GenerateCommit
<1>2. rest \in Generation /\ rest.step = "done" /\ rest.made = {}
  BY RoutesAssumption DEF AtRest, Generation
<1>3. /\ made \subseteq Stations /\ generator[g].dropped \subseteq Stop
      /\ \A s \in made : stops[s] \subseteq generator[g].dropped
      /\ \A h \in Generators \ {g} : made \cap generator[h].made = {}
  BY DEF GenerationsExplained, Generation
<1> HIDE DEF made, rest
<1>4. \A s \in Stations : stops'[s] = IF s \in made THEN StopsBy(g) ELSE stops[s]
  BY <1>1, <1>3
<1>5. StopsBy(g) \in SUBSET Stop
  BY DEF StopsBy, Stop
<1>6. RoutesTypeOK'
  <2>1. stops' \in [Stations -> SUBSET Stop]
    BY <1>1, <1>5
  <2>2. QED BY <1>1, <1>2, <1>3, <2>1
<1>7. StopsAreOneGeneration'
  BY <1>1, <1>4 DEF StopsAreOneGeneration, StopsBy
<1>8. \A h \in Generators : generator'[h] = IF h = g THEN rest ELSE generator[h]
  BY <1>1
<1>9. GenerationsExplained'
  <2>1. ASSUME NEW h \in Generators, NEW s \in generator'[h].made PROVE stops'[s] \subseteq generator'[h].dropped
    <3>1. h # g /\ s \in generator[h].made /\ s \in Stations /\ s \notin made
      BY <1>2, <1>3, <1>8, <2>1 DEF Generation
    <3>2. QED BY <1>4, <1>8, <3>1 DEF GenerationsExplained
  <2>2. QED BY <1>2, <1>8, <2>1 DEF GenerationsExplained
<1>10. QED BY <1>1, <1>6, <1>7, <1>9, PricesSame

(***************************************************************************)
(* Prices.                                                                 *)
(***************************************************************************)

LEMMA FareReads ==
  ASSUME RoutesInv, NEW p \in Pricers, FareRead(p) PROVE RoutesInv'
<1> USE DEF RoutesInv, RoutesTypeOK
<1>1. PICK r \in MostRecent({x \in rules : x.from <= today}) :
        pricer' = [pricer EXCEPT ![p] = [step |-> "write", day |-> today, rule |-> r]]
  BY DEF FareRead
<1>2. UNCHANGED <<stops, routed, generator, rules, today, set>>
  BY DEF FareRead
<1>3. r \in rules /\ r.from <= today
  BY DEF MostRecent
<1>4. RoutesTypeOK'
  <2>1. pricer' \in [Pricers -> [step : {"idle", "write", "done"}, day : 0..LastDay, rule : Rule]]
    BY <1>1, <1>3
  <2>2. QED BY <1>2, <2>1
<1>5. PricersExplained'
  <2>1. \A q \in Pricers \ {p} : pricer'[q] = pricer[q]
    BY <1>1
  <2>2. pricer'[p].rule = r /\ pricer'[p].day = today
    BY <1>1
  <2>3. QED BY <1>2, <1>3, <2>1, <2>2 DEF PricersExplained
<1>6. RulesExplained'
  BY <1>2 DEF RulesExplained, InForce
<1>7. QED BY <1>2, <1>4, <1>5, <1>6, StopsSame

(* A change closes the rule it read and opens the next from the same day:  *)
(* every day one of them stood in for is still one of theirs.              *)
LEMMA FareWrites ==
  ASSUME RoutesInv, NEW p \in Pricers, FareWrite(p) PROVE RoutesInv'
<1> USE DEF RoutesInv, RoutesTypeOK
<1> DEFINE day == pricer[p].day  old == CHOOSE r \in rules : r.id = pricer[p].rule.id
           closed == [old EXCEPT !.until = day]
<1>1. /\ pricer[p].step = "write" /\ pricer' = [pricer EXCEPT ![p].step = "done"]
      /\ UNCHANGED <<stops, routed, generator, today>>
  BY DEF FareWrite
<1>2. PICK price \in Prices :
        /\ rules' = (rules \ {old})
                    \cup {closed, [id |-> Len(set), from |-> day, until |-> NoEnd, price |-> price]}
        /\ set' = Append(set, [day |-> day, price |-> price])
  BY DEF FareWrite
<1>3. day \in 0..LastDay /\ day \in Nat
  BY RoutesAssumption
<1>4. old \in rules /\ old.from <= day /\ old \in Rule
  <2>1. PICK r \in rules : r.id = pricer[p].rule.id /\ r.from <= day
    BY <1>1 DEF PricersExplained
  <2>2. old \in rules /\ old.id = r.id
    BY <2>1
  <2>3. old = r
    BY <2>2 DEF RulesExplained
  <2>4. QED BY <2>1, <2>3
<1> DEFINE new == [id |-> Len(set), from |-> day, until |-> NoEnd, price |-> price]
           change == [day |-> day, price |-> price]
<1>5. /\ closed \in Rule /\ closed.id = old.id /\ closed.from = old.from
      /\ closed.until = day /\ closed.price = old.price
  BY <1>3, <1>4 DEF Rule
<1>6. /\ new \in Rule /\ new.id = Len(set) /\ new.from = day /\ new.until = NoEnd /\ new.price = price
      /\ change \in Change /\ change = [day |-> new.from, price |-> new.price]
  BY <1>3 DEF Rule, Change
<1>7. rules' = (rules \ {old}) \cup {closed, new} /\ set' = Append(set, change)
  BY <1>2
<1> HIDE DEF day, old, closed, new, change
<1>8. /\ Len(set) \in Nat /\ Len(set') = Len(set) + 1 /\ set'[Len(set) + 1] = change
      /\ \A i \in 1..Len(set) : set'[i] = set[i]
  BY <1>6, <1>7
<1>9. RoutesTypeOK'
  <2>1. IsFiniteSet(rules')
    <3>1. IsFiniteSet(rules \ {old})
      BY FS_RemoveElement
    <3>2. IsFiniteSet((rules \ {old}) \cup {closed})
      BY <3>1, FS_AddElement
    <3>3. IsFiniteSet(((rules \ {old}) \cup {closed}) \cup {new})
      BY <3>2, FS_AddElement
    <3>4. QED BY <1>7, <3>3
  <2>2. set' \in Seq(Change) /\ rules' \subseteq Rule
    BY <1>5, <1>6, <1>7
  <2>3. QED BY <1>1, <2>1, <2>2
<1>10. \A r \in rules : r \in Rule /\ r.id \in Nat /\ r.id + 1 \in 1..Len(set) /\ r.id # Len(set)
  <2>1. ASSUME NEW r \in rules
        PROVE  r \in Rule /\ r.id \in Nat /\ r.id + 1 \in 1..Len(set) /\ r.id # Len(set)
    <3>1. r \in Rule /\ r.id \in Nat
      BY DEF Rule
    <3>2. r.id + 1 \in 1..Len(set)
      BY DEF RulesExplained
    <3>3. QED BY <1>8, <3>1, <3>2
  <2>2. QED BY <2>1
<1>11. \A r \in rules \ {old} : r.id # old.id
  BY <1>4 DEF RulesExplained
<1>12. ASSUME NEW r \in rules'
       PROVE  r.id + 1 \in 1..Len(set') /\ set'[r.id + 1] = [day |-> r.from, price |-> r.price]
  <2>1. CASE r \in rules \ {old}
    <3>1. r.id + 1 \in 1..Len(set) /\ set[r.id + 1] = [day |-> r.from, price |-> r.price]
      BY <2>1 DEF RulesExplained
    <3>2. QED BY <1>8, <3>1
  <2>2. CASE r = closed
    <3>1. old.id + 1 \in 1..Len(set) /\ set[old.id + 1] = [day |-> old.from, price |-> old.price]
      BY <1>4 DEF RulesExplained
    <3>2. QED BY <1>5, <1>8, <2>2, <3>1
  <2>3. CASE r = new
    BY <1>6, <1>8, <2>3
  <2>4. QED BY <1>7, <2>1, <2>2, <2>3
<1>13. ASSUME NEW r \in rules', NEW q \in rules', r.id = q.id PROVE r = q
  <2>1. ASSUME NEW x \in rules', NEW y \in rules \ {old}, x.id = y.id PROVE x = y
    BY <1>4, <1>5, <1>6, <1>7, <1>10, <1>11, <2>1 DEF RulesExplained
  <2>2. closed.id # new.id
    BY <1>4, <1>5, <1>6, <1>10
  <2>3. QED BY <1>7, <1>13, <2>1, <2>2
<1>14. ASSUME NEW i \in 1..Len(set') PROVE \E r \in rules' : r.id + 1 = i
  <2>1. CASE i = Len(set) + 1
    BY <1>6, <1>7, <2>1
  <2>2. CASE i \in 1..Len(set)
    <3>1. PICK r \in rules : r.id + 1 = i
      BY <2>2 DEF RulesExplained
    <3>2. QED BY <1>5, <1>7, <3>1
  <2>3. QED BY <1>8, <2>1, <2>2
<1>15. ASSUME NEW r \in rules', r.until # NoEnd
       PROVE  r.from <= r.until /\ \E q \in rules' : q.id # r.id /\ q.from = r.until
  <2>1. CASE r = closed
    BY <1>4, <1>5, <1>6, <1>7, <1>10, <2>1
  <2>2. CASE r \in rules
    <3>1. r.from <= r.until /\ \E q \in rules : q.id # r.id /\ q.from = r.until
      BY <1>15, <2>2 DEF RulesExplained
    <3>2. \A q \in rules : \E s \in rules' : s.id = q.id /\ s.from = q.from
      BY <1>5, <1>7
    <3>3. QED BY <3>1, <3>2
  <2>3. QED BY <1>6, <1>7, <1>15, <2>1, <2>2
<1>16. ASSUME NEW d \in 0..LastDay PROVE InForce(d)' # {}
  <2>1. CASE day <= d
    <3>1. new \in InForce(d)'
      BY <1>6, <1>7, <2>1 DEF InForce
    <3>2. QED BY <3>1
  <2>2. CASE d < day
    <3>1. PICK r \in rules : r.from <= d /\ (r.until = NoEnd \/ r.until >= d)
      BY DEF RulesExplained, InForce
    <3>2. CASE r = old
      <4>1. closed \in InForce(d)'
        BY <1>3, <1>5, <1>7, <2>2, <3>1, <3>2, RoutesAssumption DEF InForce
      <4>2. QED BY <4>1
    <3>3. CASE r # old
      <4>1. r \in InForce(d)'
        BY <1>7, <3>1, <3>3 DEF InForce
      <4>2. QED BY <4>1
    <3>4. QED BY <3>2, <3>3
  <2>3. QED BY <1>3, <2>1, <2>2, RoutesAssumption
<1>17. RulesExplained'
  BY <1>12, <1>13, <1>14, <1>15, <1>16 DEF RulesExplained
<1>18. PricersExplained'
  <2>1. \A q \in Pricers \ {p} : pricer'[q] = pricer[q]
    BY <1>1
  <2>2. pricer'[p].step = "done"
    BY <1>1
  <2>3. \A r \in rules : \E s \in rules' : s.id = r.id /\ s.from = r.from
    BY <1>5, <1>7
  <2>4. QED BY <2>1, <2>2, <2>3 DEF PricersExplained
<1>19. QED BY <1>1, <1>9, <1>17, <1>18, StopsSame

LEMMA NextRoutes == ASSUME RoutesInv, [RoutesNext]_routesVars PROVE RoutesInv'
<1>1. CASE UNCHANGED routesVars
  <2>1. RoutesTypeOK'
    BY <1>1 DEF RoutesInv, RoutesTypeOK, routesVars
  <2>2. QED BY <1>1, <2>1, StopsSame, PricesSame DEF RoutesInv, routesVars
<1>2. CASE Tomorrow
  <2>1. RoutesTypeOK'
    BY <1>2, RoutesAssumption DEF Tomorrow, RoutesInv, RoutesTypeOK
  <2>2. QED BY <1>2, <2>1, StopsSame, PricesSame DEF RoutesInv, Tomorrow
<1>3. QED BY <1>1, <1>2, NextStations, RouteMade, RoutesCommitted, FareReads, FareWrites
          DEF RoutesNext, generate_routes, set_route_fare

LEMMA RoutesInvHolds == RoutesSpec => []RoutesInv
BY InitRoutesInv, NextRoutes, PTL DEF RoutesSpec

(* Among finitely many rules one took effect last.                         *)
LEMMA OneIsNewest ==
  ASSUME NEW S \in SUBSET Rule, IsFiniteSet(S), S # {} PROVE MostRecent(S) # {}
<1> DEFINE days == {r.from : r \in S}  f == [r \in S |-> r.from]
<1>1. \A r \in S : r.from \in Int
  BY RoutesAssumption DEF Rule
<1>2. days \in SUBSET Int /\ days # {}
  BY <1>1
<1>3. IsFiniteSet(days)
  <2>1. f \in Surjection(S, days)
    BY DEF Surjection
  <2>2. QED BY <2>1, FS_Surjection
<1> HIDE DEF days
<1>4. PICK m \in days : \A k \in days : k <= m
  BY <1>2, <1>3, GreatestOfFinite
<1>5. QED BY <1>4 DEF days, MostRecent

LEMMA PricesStay == ASSUME RoutesInv PROVE PriceNeverVanishes
<1> USE DEF RoutesInv, RoutesTypeOK
<1> SUFFICES ASSUME NEW d \in 0..today PROVE Quoted(d) # {}
  BY DEF PriceNeverVanishes
<1>1. d \in 0..LastDay
  BY RoutesAssumption
<1>2. InForce(d) \in SUBSET Rule /\ InForce(d) # {}
  BY <1>1 DEF RulesExplained, InForce
<1>3. IsFiniteSet(InForce(d))
  BY FS_Subset DEF InForce
<1>4. find_rule(d) # {}
  BY <1>2, <1>3, OneIsNewest DEF find_rule
<1>5. PICK r \in find_rule(d) : TRUE
  BY <1>4
<1>6. r.price \in Quoted(d)
  BY DEF Quoted
<1>7. QED BY <1>6

(* With one change a day the newest rule that has begun is still open on   *)
(* the day, or whatever closed it would have begun with it: it is the only *)
(* one quoted, and the last one set.                                       *)
LEMMA OneChangeIsExact == ASSUME RoutesInv PROVE OneChangeADayIsExact
<1>1. SUFFICES ASSUME \A i, k \in 1..Len(set) : set[i].day = set[k].day => i = k,
                      NEW d \in 0..today
               PROVE  Quoted(d) = {LastSetBy(d).price}
  BY DEF OneChangeADayIsExact
<1>2. /\ rules \subseteq Rule /\ IsFiniteSet(rules) /\ set \in Seq(Change) /\ RulesExplained
      /\ d \in 0..LastDay /\ d \in Int
  BY RoutesAssumption DEF RoutesInv, RoutesTypeOK
<1>3. InForce(d) # {}
  BY <1>2 DEF RulesExplained
<1>4. PICK r \in rules : r.from <= d /\ \A q \in rules : q.from <= d => q.from <= r.from
  <2> DEFINE begun == {q \in rules : q.from <= d}
  <2>1. begun \in SUBSET Rule /\ begun # {}
    BY <1>2, <1>3 DEF InForce
  <2>2. IsFiniteSet(begun)
    BY <1>2, FS_Subset
  <2>3. MostRecent(begun) # {}
    BY <2>1, <2>2, OneIsNewest
  <2>4. QED BY <2>3 DEF MostRecent
<1>5. \A q \in rules : /\ q \in Rule /\ q.from \in Int /\ q.id \in Nat /\ q.id + 1 \in 1..Len(set)
                       /\ set[q.id + 1].day = q.from /\ set[q.id + 1].price = q.price
  <2>1. ASSUME NEW q \in rules
        PROVE  /\ q \in Rule /\ q.from \in Int /\ q.id \in Nat /\ q.id + 1 \in 1..Len(set)
               /\ set[q.id + 1].day = q.from /\ set[q.id + 1].price = q.price
    <3>1. q \in Rule /\ q.from \in Int /\ q.id \in Nat
      BY <1>2, RoutesAssumption DEF Rule
    <3>2. q.id + 1 \in 1..Len(set) /\ set[q.id + 1] = [day |-> q.from, price |-> q.price]
      BY <1>2 DEF RulesExplained
    <3>3. QED BY <3>1, <3>2
  <2>2. QED BY <2>1
<1>6. ASSUME NEW q \in rules, NEW w \in rules, q.from = w.from PROVE q = w
  <2>1. q.id + 1 = w.id + 1
    <3>1. q.id + 1 \in 1..Len(set) /\ w.id + 1 \in 1..Len(set)
          /\ set[q.id + 1].day = set[w.id + 1].day
      BY <1>5, <1>6
    <3>2. QED BY <1>1, <3>1
  <2>2. q.id \in Nat /\ w.id \in Nat
    BY <1>5
  <2>3. q.id = w.id
    BY <2>1, <2>2
  <2>4. QED BY <1>2, <2>3 DEF RulesExplained
<1>7. r.from \in Int /\ \A q \in rules : q.from \in Int
  BY <1>5
<1>8. r \in InForce(d)
  <2>1. CASE r.until # NoEnd /\ ~(r.until >= d)
    <3>1. r.from <= r.until /\ \E q \in rules : q.id # r.id /\ q.from = r.until
      BY <1>2, <2>1 DEF RulesExplained
    <3>2. PICK q \in rules : q.id # r.id /\ q.from = r.until
      BY <3>1
    <3>3. q.from \in Int /\ q.from <= d /\ r.from <= q.from
      BY <1>2, <1>7, <2>1, <3>1, <3>2
    <3>4. q.from <= r.from
      BY <1>4, <3>3
    <3>5. q.from = r.from
      BY <1>7, <3>3, <3>4
    <3>6. QED BY <1>6, <3>2, <3>5
  <2>2. QED BY <1>4, <2>1 DEF InForce
<1>9. find_rule(d) = {r}
  <2>1. \A q \in InForce(d) : q \in rules /\ q.from <= r.from
    BY <1>4 DEF InForce
  <2>2. r \in find_rule(d)
    BY <1>8, <2>1 DEF find_rule, MostRecent
  <2>3. ASSUME NEW q \in find_rule(d) PROVE q = r
    <3>1. q \in InForce(d) /\ r.from <= q.from
      BY <1>8, <2>3 DEF find_rule, MostRecent
    <3>2. q \in rules /\ q.from = r.from
      BY <1>7, <2>1, <3>1
    <3>3. QED BY <1>6, <3>2
  <2>4. QED BY <2>2, <2>3
<1> DEFINE last == set[r.id + 1]
<1>10. last \in Changes /\ last.day = r.from /\ last.price = r.price
  BY <1>5 DEF Changes
<1> HIDE DEF last
<1>11. ASSUME NEW e \in Changes, e.day <= d PROVE e.day <= last.day
  <2>1. PICK i \in 1..Len(set) : e = set[i]
    BY <1>11 DEF Changes
  <2>2. PICK q \in rules : q.id + 1 = i
    BY <1>2 DEF RulesExplained
  <2>3. q.from = e.day
    BY <1>5, <2>1, <2>2
  <2>4. QED BY <1>4, <1>10, <1>11, <2>3
<1>12. ASSUME NEW e \in Changes, NEW c \in Changes PROVE e.day \in Int /\ (e.day = c.day => e = c)
  <2>1. PICK i \in 1..Len(set) : e = set[i]
    BY <1>12 DEF Changes
  <2>2. PICK k \in 1..Len(set) : c = set[k]
    BY <1>12 DEF Changes
  <2>3. e \in Change
    BY <1>2, <2>1
  <2>4. QED BY <1>1, <2>1, <2>2, <2>3, RoutesAssumption DEF Change
<1>13. LastSetBy(d) = last
  <2>1. last.day <= d
    BY <1>4, <1>10
  <2>2. ASSUME NEW c \in Changes, c.day <= d, \A e \in Changes : e.day <= d => e.day <= c.day
        PROVE  c = last
    <3>1. last.day <= c.day /\ c.day <= last.day
      BY <1>10, <1>11, <2>1, <2>2
    <3>2. QED BY <1>10, <1>12, <3>1
  <2>3. QED BY <1>10, <1>11, <2>1, <2>2 DEF LastSetBy
<1>14. QED BY <1>9, <1>10, <1>13 DEF Quoted

(* Every import, pin, generation, price and report keeps its rows in       *)
(* their types (Villages, Routes and Places together).                     *)
THEOREM GeographyTypes == GeographySpec => [](VillagesTypeOK /\ RoutesTypeOK /\ PlacesTypeOK)
<1>1. VillagesInv /\ RoutesInv /\ PlacesInv => VillagesTypeOK /\ RoutesTypeOK /\ PlacesTypeOK
  BY DEF VillagesInv, RoutesInv, PlacesInv
<1>2. QED BY <1>1, VillagesInvHolds, RoutesInvHolds, PlacesInvHolds, PTL DEF GeographySpec

(* import_villages.py: for any number of files, operators and clicks, the  *)
(* rows a file has brought come from whole commits of it, one row for each *)
(* line a commit accepted, and a second commit is one that ran beside the  *)
(* first.                                                                  *)
THEOREM FilesImportedWhole == VillagesSpec => []ImportedWhole
<1>1. VillagesInv => ImportedWhole
  BY DEF VillagesInv
<1>2. QED BY <1>1, VillagesInvHolds, PTL

(* place_village: for any number of operators the station stands where its *)
(* village was last pinned, unless two pins of it crossed.                 *)
THEOREM StationsFollow == VillagesSpec => []OnlyACrossingLeavesAStation
<1>1. VillagesInv => OnlyACrossingLeavesAStation
  BY DEF VillagesInv
<1>2. QED BY <1>1, VillagesInvHolds, PTL

(* generate_routes.py: for any number of generations, the live stops of a  *)
(* route are those one of them wrote.                                      *)
THEOREM StopsOfOneGeneration == RoutesSpec => []StopsAreOneGeneration
<1>1. RoutesInv => StopsAreOneGeneration
  BY DEF RoutesInv
<1>2. QED BY <1>1, RoutesInvHolds, PTL

(* fares: for any number of prices and days, a leg that has a price keeps  *)
(* one, and quotes the last set when no day saw two.                       *)
THEOREM PricesHoldAlways == RoutesSpec => []PricesHold
<1>1. RoutesInv => PricesHold
  BY PricesStay, OneChangeIsExact DEF RoutesInv, PricesHold
<1>2. QED BY <1>1, RoutesInvHolds, PTL

(* report_place: for any number of reports and deciders, one live row      *)
(* stands for a place unless the two reports overlapped or a name changed. *)
THEOREM OneRowStands == PlacesSpec => []OneRowPerPlace
<1>1. PlacesInv => OneRowPerPlace
  BY DEF PlacesInv
<1>2. QED BY <1>1, PlacesInvHolds, PTL
=============================================================================
