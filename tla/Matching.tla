------------------------------ MODULE Matching ------------------------------
(***************************************************************************)
(* What agreeing a ride promises: a request waits, then is matched with    *)
(* one driver or closed, for good; a driver is engaged for one journey at  *)
(* a time, one agreed with a passenger or one taken from the timetable.    *)
(* Hiring implements it.                                                   *)
(***************************************************************************)
CONSTANTS Requests, Drivers, NoDriver

VARIABLES
  phase,    \* of each request: "new", "waiting", "matched" or "closed"
  partner,  \* the driver each matched request is matched with
  engaged   \* the drivers who have a journey ahead of them or under way

Init == /\ phase = [r \in Requests |-> "new"]
        /\ partner = [r \in Requests |-> NoDriver]
        /\ engaged = {}

(* A request is made; those of the passenger's that have run out are       *)
(* closed in the same step.                                                *)
Ask(r) ==
  /\ phase[r] = "new"
  /\ \E old \in SUBSET {q \in Requests : phase[q] = "waiting"} :
       phase' = [[q \in Requests |-> IF q \in old THEN "closed" ELSE phase[q]]
                  EXCEPT ![r] = "waiting"]
  /\ UNCHANGED <<partner, engaged>>

Match(r, d) ==
  /\ phase[r] = "waiting"
  /\ d \notin engaged
  /\ phase' = [phase EXCEPT ![r] = "matched"]
  /\ partner' = [partner EXCEPT ![r] = d]
  /\ engaged' = engaged \cup {d}

Close(r) ==
  /\ phase[r] = "waiting"
  /\ phase' = [phase EXCEPT ![r] = "closed"]
  /\ UNCHANGED <<partner, engaged>>

Engage(d) ==
  /\ d \notin engaged
  /\ engaged' = engaged \cup {d}
  /\ UNCHANGED <<phase, partner>>

Finish(d) ==
  /\ engaged' = engaged \ {d}
  /\ UNCHANGED <<phase, partner>>

Next == \/ \E r \in Requests : Ask(r) \/ Close(r) \/ \E d \in Drivers : Match(r, d)
        \/ \E d \in Drivers : Engage(d) \/ Finish(d)

Spec == Init /\ [][Next]_<<phase, partner, engaged>>
=============================================================================
