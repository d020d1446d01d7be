--------------------------- MODULE BoardingCodes ---------------------------
(***************************************************************************)
(* The codes a driver may try against one trip: the attempt counter and    *)
(* its lockout (TripRepository.reserve_boarding_attempt and                 *)
(* refund_boarding_attempt, VerifyPassenger, deps.boarding_attempt_reserver).*)
(*                                                                         *)
(* An attempt is spent in a transaction of its own before the code is      *)
(* compared, and given back in the request's own transaction when the code *)
(* was right.  So the counter moves in two transactions of one request,    *)
(* and other requests' attempts fall between them.                         *)
(***************************************************************************)
EXTENDS Naturals, FiniteSets

CONSTANTS Tries,        \* requests that present a code
          MaxCodes,     \* booking.verification_max_attempts
          MaxPeriods    \* bound: how many lockouts are served

ASSUME CodesAssumption  == MaxCodes \in Nat \ {0} /\ MaxPeriods \in Nat
ASSUME TriesAssumption  == IsFiniteSet(Tries)

VARIABLES
  try,       \* how far each request is
  failures,  \* trips.boarding_failures
  lockout,   \* trips.boarding_locked_until: not set, ahead, or past
  period,    \* lockouts served so far (history, bounded)
  spentIn    \* the period in which each request spent its attempt (history)

codesVars == <<try, failures, lockout, period, spentIn>>

TryStages == {"new", "paid", "holding", "boarded", "wrong", "lost", "locked"}

CodesTypeOK ==
  /\ try \in [Tries -> TryStages]
  /\ failures \in 0..Cardinality(Tries)
  /\ lockout \in {"unset", "ahead", "past"}
  /\ period \in 0..MaxPeriods
  /\ spentIn \in [Tries -> 0..MaxPeriods]

CodesInit ==
  /\ try = [v \in Tries |-> "new"]
  /\ failures = 0 /\ lockout = "unset" /\ period = 0
  /\ spentIn = [v \in Tries |-> 0]

\* The trip row, held for the boarding or for a departure.
TripHeldBy == {v \in Tries : try[v] = "holding"}

TryGoes(v, s) == try' = [try EXCEPT ![v] = s]

\* The conditional UPDATE, in its own transaction: it waits for the trip.
AttemptNumber   == IF lockout = "past" THEN 1 ELSE failures + 1
LockoutAfter(n) == IF n >= MaxCodes THEN "ahead" ELSE "unset"

Reserve(v) ==
  /\ try[v] = "new" /\ TripHeldBy = {}
  /\ lockout # "ahead"
  /\ failures' = AttemptNumber
  /\ lockout' = LockoutAfter(AttemptNumber)
  /\ spentIn' = [spentIn EXCEPT ![v] = period]
  /\ TryGoes(v, "paid")
  /\ UNCHANGED period

RefuseLocked(v) ==
  /\ try[v] = "new" /\ TripHeldBy = {}
  /\ lockout = "ahead"
  /\ TryGoes(v, "locked")
  /\ UNCHANGED <<failures, lockout, period, spentIn>>

\* hold_for_boarding and lock_by_verification_code: the code is right, the
\* booking and the trip are held.
HoldForBoarding(v) ==
  /\ try[v] = "paid" /\ TripHeldBy = {}
  /\ TryGoes(v, "holding")
  /\ UNCHANGED <<failures, lockout, period, spentIn>>

\* Wrong code: refused and rolled back, but for the attempt.
WrongCode(v) ==
  /\ try[v] = "paid" /\ TripHeldBy = {}
  /\ TryGoes(v, "wrong")
  /\ UNCHANGED <<failures, lockout, period, spentIn>>

\* refund_boarding_attempt and the commit.
KeptLockout   == lockout                                        \* a fault
LockoutKept   == IF failures - 1 < MaxCodes THEN "unset" ELSE lockout
BoardCommit(v) ==
  /\ try[v] = "holding"
  /\ failures' = IF failures = 0 THEN 0 ELSE failures - 1
  /\ lockout' = LockoutKept
  /\ TryGoes(v, "boarded")
  /\ UNCHANGED <<period, spentIn>>

\* The request fails after its code was found right.
BoardFail(v) ==
  /\ try[v] \in {"paid", "holding"}
  /\ TryGoes(v, "lost")
  /\ UNCHANGED <<failures, lockout, period, spentIn>>

\* The lockout passes: it is longer than any request takes.
LockoutServed ==
  /\ lockout = "ahead" /\ period < MaxPeriods
  /\ \A v \in Tries : try[v] \notin {"paid", "holding"}
  /\ lockout' = "past"
  /\ period' = period + 1
  /\ UNCHANGED <<try, failures, spentIn>>

verify_passenger(v) == \/ Reserve(v) \/ RefuseLocked(v) \/ HoldForBoarding(v) \/ WrongCode(v)
                       \/ BoardCommit(v) \/ BoardFail(v)

CodesNext == LockoutServed \/ \E v \in Tries : verify_passenger(v)

CodesSpec == CodesInit /\ [][CodesNext]_codesVars

-----------------------------------------------------------------------------
\* What the counter should say: the attempts of this period that were not
\* given back.
Counted == {v \in Tries : try[v] \in {"paid", "holding", "wrong", "lost"} /\ spentIn[v] = period}

\* reserve_boarding_attempt: "max_attempts codes per lockout period, never
\* more, however many requests arrive at once".
CodesAreRationedPerLockout ==
  \A q \in 0..MaxPeriods :
    Cardinality({v \in Tries : try[v] \in {"paid", "holding", "wrong"} /\ spentIn[v] = q}) <= MaxCodes

\* "Only wrong codes count".
LockedByWrongCodesOnly ==
  /\ lockout # "past" => failures = Cardinality(Counted)
  /\ lockout = "ahead" <=> Cardinality(Counted) >= MaxCodes

\* No lockout period sees more wrong codes than max_attempts, those still
\* being compared included; and the trip is locked exactly when the attempts
\* that count are that many, so a right code neither locks a trip nor leaves
\* it locked, in whatever order it and the wrong ones are counted.
CodesHold == CodesAreRationedPerLockout /\ LockedByWrongCodesOnly

\* Why it is so: nobody is between paying and the answer while a lockout is
\* served, so what is given back was paid in this period, and the count
\* starts again from nothing.
PeriodsExplained ==
  /\ \A v \in Tries : spentIn[v] <= period
  /\ \A v \in Tries : try[v] \in {"paid", "holding"} => spentIn[v] = period
  /\ lockout = "past" => Counted = {}
  /\ Cardinality(Counted) <= MaxCodes

\* The inductive invariant: Requests_proofs proves it.
CodesInv == CodesTypeOK /\ PeriodsExplained /\ CodesHold
=============================================================================
