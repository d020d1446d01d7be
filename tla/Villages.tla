------------------------------ MODULE Villages ------------------------------
(***************************************************************************)
(* One district's villages: the spreadsheet import in two steps (preview,  *)
(* then commit, import_villages.py) and the operator's pin on the map      *)
(* (admin.place_village).  Neither locks the job row or the village row it *)
(* reads; only the unique index on villages.code makes two of them wait.   *)
(* A row of a file is a name and, when the file gives one, its code; a     *)
(* village carries one station, created with it.                           *)
(***************************************************************************)
EXTENDS Integers, Sequences, FiniteSetsExt

CONSTANTS Jobs,      \* previews an operator makes
          File,      \* the rows of each: sequences of [name, code]
          Clicks,    \* calls of commit
          Clicked,   \* the job each call names
          Pins,      \* calls of place_village
          Points,    \* places on the map, more than a kilometre apart
          NoPoint,   \* a village nobody has placed
          NoCode     \* a row that leaves its code to the import

ASSUME VillagesAssumption ==
  /\ Clicked \in [Clicks -> Jobs]
  /\ NoPoint \notin Points
  /\ NoCode \notin Nat \ {0}
  /\ \A j \in Jobs : \A i \in 1..Len(File[j]) : File[j][i].code \in (Nat \ {0}) \cup {NoCode}

VARIABLES job,       \* import_jobs: status and the report the preview stored
          click,     \* the running commits
          villages,  \* the committed rows of villages, with their station
          pin,       \* the running placements
          strayed    \* codes whose placements crossed (history)

villagesVars == <<job, click, villages, pin, strayed>>

Codes(rows) == {r.code : r \in rows}
VillageAt(code) == CHOOSE v \in villages : v.code = code
RowsOf(j) == 1..Len(File[j])
NotOpened == [step |-> "closed", fresh |-> {}, accepted |-> {}, last |-> 0, made |-> {},
              beside |-> {}]
NoPin == [step |-> "idle", code |-> 0, was |-> NoPoint, to |-> NoPoint,
          had |-> NoPoint, follows |-> FALSE]

FileNames  == UNION {{File[j][i].name : i \in RowsOf(j)} : j \in Jobs}
OnTheMap   == Points \cup {NoPoint}
VillageRow == [code : Nat, name : FileNames, by : Clicks, row : Nat,
               at : OnTheMap, station : OnTheMap]
ClickRow   == [step : {"closed", "number", "rows", "done", "refused"}, last : Nat,
               fresh : SUBSET Nat, accepted : SUBSET Nat, made : SUBSET VillageRow,
               beside : SUBSET Clicks]   \* those of its job it ran beside (history)

VillagesTypeOK ==
  /\ job \in [Jobs -> [status : {"NONE", "PREVIEWED", "COMMITTED"},
                       create : SUBSET Nat, flagged : SUBSET Nat]]
  /\ click \in [Clicks -> ClickRow]
  /\ villages \subseteq VillageRow /\ strayed \subseteq Nat
  /\ IsFiniteSet(villages) /\ \A c \in Clicks : IsFiniteSet(click[c].made)
  /\ pin \in [Pins -> [step : {"idle", "stations", "write", "done"}, code : Nat, was : OnTheMap,
                       to : OnTheMap, had : OnTheMap, follows : BOOLEAN]]

VillagesInit ==
  /\ job = [j \in Jobs |-> [status |-> "NONE", create |-> {}, flagged |-> {}]]
  /\ click = [c \in Clicks |-> NotOpened]
  /\ villages = {}
  /\ pin = [p \in Pins |-> NoPin]
  /\ strayed = {}

-----------------------------------------------------------------------------
\* A row is flagged when a stored village or an earlier row has its name.
Flagged(j) == {i \in RowsOf(j) : \/ \E v \in villages : v.name = File[j][i].name
                                 \/ \E k \in 1..i - 1 : File[j][k].name = File[j][i].name}

Preview(j) ==
  /\ job[j].status = "NONE"
  /\ job' = [job EXCEPT ![j] = [status |-> "PREVIEWED", flagged |-> Flagged(j),
                                create |-> RowsOf(j) \ Flagged(j)]]
  /\ UNCHANGED <<click, villages, pin, strayed>>

\* The rows the preview called new, then the flagged ones somebody accepted,
\* each in the order of the file.
RowsLeft(c) == click[c].fresh \cup click[c].accepted
NextRow(c)  == Min(IF click[c].fresh # {} THEN click[c].fresh ELSE click[c].accepted)

RunsBeside(c) == {d \in Clicks \ {c} : /\ Clicked[d] = Clicked[c]
                                       /\ click[d].step \in {"number", "rows"}}
Opened(fresh, accepted, beside) ==
  [NotOpened EXCEPT !.step = "number", !.fresh = fresh, !.accepted = accepted, !.beside = beside]

CommitOpen(c) ==
  LET j == Clicked[c] IN
  /\ click[c].step = "closed"
  /\ \/ /\ job[j].status = "COMMITTED"
        /\ click' = [click EXCEPT ![c].step = "refused"]
     \/ /\ job[j].status = "PREVIEWED"
        /\ \E accepted \in SUBSET job[j].flagged :
             click' = [click EXCEPT ![c] = Opened(job[j].create, accepted, RunsBeside(c))]
  /\ UNCHANGED <<job, villages, pin, strayed>>

\* Each district's numbering is continued from the rows committed by now.
NextCodes(c) ==
  /\ click[c].step = "number"
  /\ click' = [click EXCEPT ![c].step = "rows", ![c].last = Max(Codes(villages) \cup {0})]
  /\ UNCHANGED <<job, villages, pin, strayed>>

RowCode(c) == LET row == File[Clicked[c]][NextRow(c)]
              IN IF row.code = NoCode THEN click[c].last + 1 ELSE row.code
CodeTaken(c) == RowCode(c) \in Codes(villages \cup click[c].made)
CodeHolders(c) == {d \in Clicks \ {c} : /\ click[d].step = "rows"
                                        /\ RowCode(c) \in Codes(click[d].made)}

\* A taken code refuses the whole file: the check says VILLAGE_CODE_TAKEN, or
\* the index does after the wait, and the transaction rolls back.
KeepsWhatItHas(row) == [row EXCEPT !.fresh = {}, !.accepted = {}]   \* a fault
AfterTaken(row)     == [NotOpened EXCEPT !.step = "refused"]

CreateVillage(c) ==
  LET i == NextRow(c)
      row == File[Clicked[c]][i]
      new == [code |-> RowCode(c), name |-> row.name, by |-> c, row |-> i,
              at |-> NoPoint, station |-> NoPoint]
  IN /\ click[c].step = "rows" /\ RowsLeft(c) # {}
     /\ IF CodeTaken(c)
        THEN click' = [click EXCEPT ![c] = AfterTaken(@)]
        ELSE /\ CodeHolders(c) = {}
             /\ click' = [click EXCEPT ![c].fresh = @ \ {i}, ![c].accepted = @ \ {i},
                            ![c].made = @ \cup {new},
                            ![c].last = IF row.code = NoCode THEN @ + 1 ELSE @]
     /\ UNCHANGED <<job, villages, pin, strayed>>

\* Clicks that wait for each other's codes in a ring: PostgreSQL fails one.
Ring(S) == /\ \A c \in S : /\ click[c].step = "rows" /\ RowsLeft(c) # {}
                           /\ ~CodeTaken(c) /\ CodeHolders(c) \cap S # {}
           /\ \A d \in S : \E c \in S : d \in CodeHolders(c)
BreakRing(c) ==
  /\ \E S \in SUBSET Clicks : c \in S /\ Ring(S)
  /\ click' = [click EXCEPT ![c] = AfterTaken(@)]
  /\ UNCHANGED <<job, villages, pin, strayed>>

\* The job row is written by its id alone: nothing re-reads its status.
CommitImport(c) ==
  /\ click[c].step = "rows" /\ RowsLeft(c) = {}
  /\ villages' = villages \cup click[c].made
  /\ job' = [job EXCEPT ![Clicked[c]].status = "COMMITTED"]
  /\ click' = [click EXCEPT ![c] = [NotOpened EXCEPT !.step = "done", !.beside = click[c].beside]]
  /\ UNCHANGED <<pin, strayed>>

-----------------------------------------------------------------------------
\* A station follows its village when it stood with it, or stood nowhere.
StationStays(station, was) == station = NoPoint   \* a fault: ... only if nowhere
station_follows(station, was) == station = NoPoint \/ station = was

PlaceRead(p) ==
  /\ pin[p].step = "idle"
  /\ \E v \in villages, to \in Points \cup {NoPoint} :
       pin' = [pin EXCEPT ![p] = [NoPin EXCEPT !.step = "stations", !.code = v.code,
                                               !.was = v.at, !.to = to]]
  /\ UNCHANGED <<job, click, villages, strayed>>

PlaceStations(p) ==
  LET v == VillageAt(pin[p].code) IN
  /\ pin[p].step = "stations"
  /\ pin' = [pin EXCEPT ![p] = [@ EXCEPT !.step = "write", !.had = v.station,
                !.follows = (pin[p].to = NoPoint) \/ station_follows(v.station, pin[p].was)]]
  /\ strayed' = IF v.at = pin[p].was THEN strayed ELSE strayed \cup {pin[p].code}
  /\ UNCHANGED <<job, click, villages>>

\* The session writes a column only when it differs from what it loaded.
Moved(p, v) ==
  [v EXCEPT !.at = IF pin[p].to = pin[p].was THEN @ ELSE pin[p].to,
            !.station = IF ~pin[p].follows \/ pin[p].to = pin[p].had THEN @ ELSE pin[p].to]
PlaceCommit(p) ==
  LET v == VillageAt(pin[p].code) IN
  /\ pin[p].step = "write"
  /\ villages' = (villages \ {v}) \cup {Moved(p, v)}
  /\ pin' = [pin EXCEPT ![p] = [NoPin EXCEPT !.step = "done"]]
  /\ UNCHANGED <<job, click, strayed>>

commit_village_import(c) == \/ CommitOpen(c) \/ NextCodes(c) \/ CreateVillage(c)
                            \/ BreakRing(c) \/ CommitImport(c)
place_village(p)         == PlaceRead(p) \/ PlaceStations(p) \/ PlaceCommit(p)

VillagesNext ==
  \/ \E j \in Jobs : Preview(j)
  \/ \E c \in Clicks : commit_village_import(c)
  \/ \E p \in Pins : place_village(p)

VillagesSpec == VillagesInit /\ [][VillagesNext]_villagesVars

-----------------------------------------------------------------------------
\* A file goes in whole or not at all: a call of commit that ended has made one
\* village of every row its preview called new, none twice, and none of a row
\* the preview did not know; another has made none (CommitVillageImport:
\* "Refuse rather than create a subset").  And a second call is refused, unless
\* it ran beside the first.
Imported(c) == {v \in villages : v.by = c}
WholeIn(c) ==
  LET rows == {v.row : v \in Imported(c)} IN
  IF click[c].step = "done"
  THEN /\ job[Clicked[c]].status = "COMMITTED"
       /\ job[Clicked[c]].create \subseteq rows
       /\ rows \subseteq job[Clicked[c]].create \cup job[Clicked[c]].flagged
       /\ \A v, w \in Imported(c) : v.row = w.row => v = w
  ELSE Imported(c) = {}
BesideEachOther(steps) ==
  \A c, d \in Clicks : /\ c # d /\ Clicked[c] = Clicked[d]
                       /\ click[c].step \in steps /\ click[d].step \in steps
                       => c \in click[d].beside \/ d \in click[c].beside
ImportedWhole ==
  /\ \A c \in Clicks : WholeIn(c)
  /\ BesideEachOther({"done"})
  /\ \A j \in Jobs : job[j].status = "COMMITTED" =>
       \E c \in Clicks : Clicked[c] = j /\ click[c].step = "done"

\* imports.py:205-206: a second commit "is refused rather than repeated -- an
\* operator who clicks twice on a slow connection must not import everything
\* twice".
EachRowImportedOnce ==
  \A v, w \in villages : Clicked[v.by] = Clicked[w.by] /\ v.row = w.row => v = w

\* Where no two placements of a village crossed, its station stands with it:
\* the geofence and the ETA read the station (admin.place_village).
OnlyACrossingLeavesAStation ==
  \A v \in villages : v.code \notin strayed => v.station = v.at

(* Why it is so: what the proofs in Office_proofs carry from step to step. *)

\* Between its rows to come and its rows made, a commit has every row its
\* preview called new once, and none the preview did not know; the commits of
\* one job that opened were in flight together.
CommitExplained(c, j) ==
  LET rows == RowsLeft(c) \cup {v.row : v \in click[c].made} IN
  click[c].step \in {"number", "rows"} =>
    /\ job[j].status # "NONE"
    /\ job[j].create \subseteq rows /\ rows \subseteq job[j].create \cup job[j].flagged
    /\ \A v \in click[c].made : v.by = c /\ v.station = v.at /\ v.row \notin RowsLeft(c)
    /\ \A v, w \in click[c].made : v.row = w.row => v = w
CommitsExplained ==
  /\ \A j \in Jobs : job[j].create \cup job[j].flagged \subseteq RowsOf(j)
  /\ \A c \in Clicks : CommitExplained(c, Clicked[c])
  /\ BesideEachOther({"number", "rows", "done"})

\* A placement that has read the station of a village nobody moved meanwhile
\* found the two in one place.
PinsExplained ==
  \A p \in Pins :
    /\ pin[p].step \in {"stations", "write"} => pin[p].code \in Codes(villages)
    /\ pin[p].step = "write" /\ pin[p].code \notin strayed => pin[p].follows /\ pin[p].had = pin[p].was

\* The inductive invariant.
VillagesInv == /\ VillagesTypeOK /\ CommitsExplained /\ PinsExplained
               /\ ImportedWhole /\ OnlyACrossingLeavesAStation
=============================================================================
