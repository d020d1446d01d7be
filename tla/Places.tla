------------------------------- MODULE Places -------------------------------
(***************************************************************************)
(* The names passengers give to where they stand (report_place.py) and     *)
(* what staff decide about them (geography._decide).  A report reads, then *)
(* inserts or adds one to a count, with nothing locked and no unique index *)
(* on a name; staff decide on an unlocked row.  Spots are points of a road *)
(* and two of them are one place when they are next to each other.         *)
(***************************************************************************)
EXTENDS Integers

CONSTANTS Reports,   \* calls of POST /places
          Names,     \* keys of the names typed or renamed to
          Spots,     \* where they are typed, in steps of SAME_PLACE_WITHIN_M
          Deciders,  \* calls of approve or reject
          NoRename   \* an approval, or a rejection, without a name

CONSTANT VillageNear(_, _)   \* a known village of the name, unplaced or close enough

ASSUME PlacesAssumption == Spots \subseteq Int /\ NoRename \notin Names

Place == [by : Reports, name : Names, spot : Spots, reports : Nat,
          status : {"PENDING", "APPROVED", "REJECTED"}]

VARIABLES places,     \* committed rows of places
          report,     \* the running reports
          decider,    \* the running decisions
          meanwhile,  \* for each report, those running when it looked (history)
          renamed     \* the names staff gave to rows (history)

placesVars == <<places, report, decider, meanwhile, renamed>>

NoReport == [step |-> "idle"]
Over     == [step |-> "done"]

PlacesTypeOK ==
  /\ places \subseteq Place
  /\ report \in [Reports -> {NoReport, Over} \cup
                  [step : {"write"}, name : Names, spot : Spots, found : SUBSET Place]]
  /\ decider \in [Deciders -> {NoReport, Over} \cup
                   [step : {"write"}, row : Place, status : {"APPROVED", "REJECTED"},
                    rename : Names \cup {NoRename}]]
  /\ meanwhile \in [Reports -> SUBSET Reports] /\ renamed \subseteq Names

SamePlace(a, b) == a - b \in -1..1
Apart(a, b) == IF a < b THEN b - a ELSE a - b

PlacesInit ==
  /\ places = {}
  /\ report = [r \in Reports |-> NoReport]
  /\ decider = [d \in Deciders |-> NoReport]
  /\ meanwhile = [r \in Reports |-> {}] /\ renamed = {}

-----------------------------------------------------------------------------
Near(name, spot) == {p \in places : p.name = name /\ SamePlace(p.spot, spot)}
\* Any status, nearest first; two as near may come in either order.
Nearest(S, spot) == {p \in S : \A q \in S : Apart(p.spot, spot) <= Apart(q.spot, spot)}
same_live_place(name, spot) ==   \* a fault: passes over what staff turned down
  Nearest({p \in Near(name, spot) : p.status # "REJECTED"}, spot)
same_place(name, spot) == Nearest(Near(name, spot), spot)

ReportLook(r) ==
  /\ report[r].step = "idle"
  /\ \E name \in Names, spot \in Spots :
       report' = [report EXCEPT ![r] =
         [step |-> "write", name |-> name, spot |-> spot, found |-> same_place(name, spot)]]
  /\ meanwhile' = [meanwhile EXCEPT ![r] = {q \in Reports : report[q].step = "write"}]
  /\ UNCHANGED <<places, decider, renamed>>

NewPlace(r) ==
  [by |-> r, name |-> report[r].name, spot |-> report[r].spot, reports |-> 1,
   status |-> IF VillageNear(report[r].name, report[r].spot) THEN "APPROVED" ELSE "PENDING"]

\* A name staff turned down is refused; a known one gains a report, written
\* from the count that was read; an unknown one becomes a row.
ReportWrite(r) ==
  /\ report[r].step = "write"
  /\ IF report[r].found = {}
     THEN places' = places \cup {NewPlace(r)}
     ELSE \E seen \in report[r].found, p \in places :
            /\ p.by = seen.by
            /\ places' = IF seen.status = "REJECTED" THEN places
                         ELSE (places \ {p}) \cup {[p EXCEPT !.reports = seen.reports + 1]}
  /\ report' = [report EXCEPT ![r] = Over]
  /\ UNCHANGED <<decider, meanwhile, renamed>>

DeciderRead(d) ==
  /\ decider[d].step = "idle"
  /\ \E p \in places, status \in {"APPROVED", "REJECTED"}, rename \in Names \cup {NoRename} :
       /\ rename # NoRename => status = "APPROVED"
       /\ decider' = [decider EXCEPT ![d] =
            IF p.status = status /\ rename = NoRename THEN Over
            ELSE [step |-> "write", row |-> p, status |-> status, rename |-> rename]]
  /\ UNCHANGED <<places, report, meanwhile, renamed>>

\* Only the columns that differ from what was read are written.
Decided(d, p) ==
  LET w == decider[d] IN
  [p EXCEPT !.status = IF w.status = w.row.status THEN @ ELSE w.status,
            !.name = IF w.rename \in {NoRename, w.row.name} THEN @ ELSE w.rename]
DeciderWrite(d) ==
  /\ decider[d].step = "write"
  /\ \E p \in places :
       /\ p.by = decider[d].row.by
       /\ places' = (places \ {p}) \cup {Decided(d, p)}
       /\ renamed' = IF Decided(d, p).name = p.name THEN renamed
                     ELSE renamed \cup {Decided(d, p).name}
  /\ decider' = [decider EXCEPT ![d] = Over]
  /\ UNCHANGED <<report, meanwhile>>

name_place(r)   == ReportLook(r) \/ ReportWrite(r)
decide_place(d) == DeciderRead(d) \/ DeciderWrite(d)

PlacesNext == \/ \E r \in Reports : name_place(r)
              \/ \E d \in Deciders : decide_place(d)

PlacesSpec == PlacesInit /\ [][PlacesNext]_placesVars

-----------------------------------------------------------------------------
\* "One row per place, not per report", and a name staff turned down is
\* refused, as "a fresh PENDING row would put the same name back in front of
\* them": two rows of one name stand side by side only where their reports
\* overlapped, or staff gave a row that name (report_place.py, Place).
Overlapped(q, r) == q \in meanwhile[r] \/ r \in meanwhile[q]
OneRowPerPlace ==
  \A p, q \in places : p.name = q.name /\ SamePlace(p.spot, q.spot)
                       => p = q \/ Overlapped(p.by, q.by) \/ p.name \in renamed

(* Why it is so: what the proofs in Office_proofs carry from step to step. *)

\* A row is some finished report's, and no other row is; of two reports at
\* work each other's side is written down.
RowsAreReports ==
  /\ \A p \in places : report[p.by] = Over
  /\ \A p, q \in places : p.by = q.by => p = q
  /\ \A q, r \in Reports : q # r /\ report[q].step = "write" /\ report[r].step = "write"
                            => Overlapped(q, r)

\* A place a report did not find, and that is there now, came while it ran.
UnfoundCameSince ==
  \A r \in Reports : report[r].step = "write" /\ report[r].found = {} =>
    \A p \in Near(report[r].name, report[r].spot) :
      Overlapped(p.by, r) \/ p.name \in renamed

\* The inductive invariant.
PlacesInv == PlacesTypeOK /\ RowsAreReports /\ UnfoundCameSince /\ OneRowPerPlace
=============================================================================
