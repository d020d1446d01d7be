-------------------------- MODULE Requests_proofs --------------------------
(***************************************************************************)
(* Theorems about the boarding codes a driver may try (BoardingCodes) and  *)
(* the retries of a request (Retries), for any number of requests,         *)
(* and about the schema's history (Migrations).                            *)
(***************************************************************************)
EXTENDS BoardingCodes, Retries, Migrations, FiniteSetTheorems, TLAPS

(***************************************************************************)
(* The attempts that count.                                                *)
(***************************************************************************)

(* The attempts that count are finitely many, and no more than there are.  *)
LEMMA CountedFinite ==
  /\ IsFiniteSet(Counted) /\ Cardinality(Counted) \in Nat
  /\ Cardinality(Counted) <= Cardinality(Tries)
  /\ Cardinality(Tries) \in Nat
<1>1. Counted \subseteq Tries
  BY DEF Counted
<1>2. QED BY <1>1, TriesAssumption, FS_Subset, FS_CardinalityType

(* One more attempt counts.                                                *)
LEMMA CountsOneMore ==
  ASSUME NEW v \in Tries, v \notin Counted, Counted' = Counted \cup {v}
  PROVE  Cardinality(Counted') = Cardinality(Counted) + 1
BY CountedFinite, FS_AddElement

(* One attempt less counts.                                                *)
LEMMA CountsOneLess ==
  ASSUME NEW v \in Tries, v \in Counted, Counted' = Counted \ {v}
  PROVE  Cardinality(Counted') = Cardinality(Counted) - 1
BY CountedFinite, FS_RemoveElement

(* No attempt counts exactly when their number is 0.                       *)
LEMMA NobodyCounted == Counted = {} <=> Cardinality(Counted) = 0
BY CountedFinite, FS_EmptySet

(* The attempts of a period that are still being compared, or were wrong.  *)
TriedIn(q) == {v \in Tries : try[v] \in {"paid", "holding", "wrong"} /\ spentIn[v] = q}

(* No period before it gets another attempt, and the one under way stays   *)
(* within what counts.                                                     *)
LEMMA RationKept ==
  ASSUME CodesInv, period' = period,
         Cardinality(Counted') <= MaxCodes, CodesTypeOK',
         \A v \in Tries : \/ try'[v] = try[v] /\ spentIn'[v] = spentIn[v]
                          \/ try'[v] \in {"wrong", "holding"} /\ try[v] \in {"paid", "holding"}
                               /\ spentIn'[v] = spentIn[v]
                          \/ try'[v] \in {"boarded", "lost", "locked"}
                          \/ spentIn'[v] = period
  PROVE  CodesAreRationedPerLockout'
<1>1. SUFFICES ASSUME NEW q \in 0..MaxPeriods
               PROVE  Cardinality(TriedIn(q)') <= MaxCodes
  BY DEF CodesAreRationedPerLockout, TriedIn
<1>2. Cardinality(Counted') \in Nat /\ MaxCodes \in Nat
  <2>1. Counted' \subseteq Tries BY DEF Counted
  <2>2. QED BY <2>1, TriesAssumption, CodesAssumption, FS_Subset, FS_CardinalityType
<1>3. CASE q = period
  <2>1. TriedIn(q)' \subseteq Counted'
    BY <1>3 DEF TriedIn, Counted
  <2>2. IsFiniteSet(Counted')
    <3>1. Counted' \subseteq Tries BY DEF Counted
    <3>2. QED BY <3>1, TriesAssumption, FS_Subset
  <2>3. Cardinality(TriedIn(q)') <= Cardinality(Counted') /\ Cardinality(TriedIn(q)') \in Nat
    BY <2>1, <2>2, FS_Subset, FS_CardinalityType
  <2>4. QED BY <1>2, <2>3
<1>4. CASE q # period
  <2>1. TriedIn(q)' \subseteq TriedIn(q)
    BY <1>4 DEF TriedIn
  <2>2. IsFiniteSet(TriedIn(q))
    <3>1. TriedIn(q) \subseteq Tries BY DEF TriedIn
    <3>2. QED BY <3>1, TriesAssumption, FS_Subset
  <2>3. /\ Cardinality(TriedIn(q)') <= Cardinality(TriedIn(q))
        /\ Cardinality(TriedIn(q)') \in Nat /\ Cardinality(TriedIn(q)) \in Nat
    BY <2>1, <2>2, FS_Subset, FS_CardinalityType
  <2>4. Cardinality(TriedIn(q)) <= MaxCodes
    BY DEF CodesInv, CodesHold, CodesAreRationedPerLockout, TriedIn
  <2>5. QED BY <1>2, <2>3, <2>4
<1>5. QED BY <1>3, <1>4

LEMMA InitCodesInv == CodesInit => CodesInv
<1> SUFFICES ASSUME CodesInit PROVE CodesInv OBVIOUS
<1>1. Counted = {} /\ \A q : TriedIn(q) = {}
  BY DEF CodesInit, Counted, TriedIn
<1>2. Cardinality(Counted) = 0 /\ \A q : Cardinality(TriedIn(q)) = 0
  BY <1>1, FS_EmptySet
<1>3. CodesTypeOK
  BY CountedFinite, CodesAssumption DEF CodesInit, CodesTypeOK, TryStages
<1>4. PeriodsExplained
  BY <1>1, <1>2, CodesAssumption DEF CodesInit, PeriodsExplained
<1>5. CodesAreRationedPerLockout
  <2>1. SUFFICES ASSUME NEW q \in 0..MaxPeriods PROVE Cardinality(TriedIn(q)) <= MaxCodes
    BY DEF CodesAreRationedPerLockout, TriedIn
  <2>2. QED BY <1>2, CodesAssumption
<1>6. LockedByWrongCodesOnly
  BY <1>2, CodesAssumption DEF CodesInit, LockedByWrongCodesOnly
<1>7. QED BY <1>3, <1>4, <1>5, <1>6 DEF CodesInv, CodesHold

(* An attempt is paid for: it counts, and is the first of its period when  *)
(* a lockout was served.                                                   *)
LEMMA ReserveCodesInv ==
  ASSUME CodesInv, NEW v \in Tries, Reserve(v) PROVE CodesInv'
<1> USE DEF CodesInv, CodesHold
<1>1. /\ try[v] = "new" /\ lockout # "ahead" /\ period' = period
      /\ try'[v] = "paid" /\ spentIn'[v] = period
      /\ \A w \in Tries \ {v} : try'[w] = try[w] /\ spentIn'[w] = spentIn[w]
      /\ failures' = AttemptNumber /\ lockout' = LockoutAfter(AttemptNumber)
  BY DEF Reserve, TryGoes, CodesTypeOK
<1>2. v \notin Counted /\ Counted' = Counted \cup {v}
  BY <1>1 DEF Counted
<1>3. Cardinality(Counted') = Cardinality(Counted) + 1
  BY <1>2, CountsOneMore
<1>4. AttemptNumber = Cardinality(Counted') /\ Cardinality(Counted') <= MaxCodes
  <2>1. CASE lockout = "past"
    <3>1. Cardinality(Counted) = 0
      BY <2>1, NobodyCounted DEF PeriodsExplained
    <3>2. QED BY <1>3, <2>1, <3>1, CodesAssumption DEF AttemptNumber
  <2>2. CASE lockout = "unset"
    <3>1. failures = Cardinality(Counted) /\ ~(Cardinality(Counted) >= MaxCodes)
      BY <2>2 DEF LockedByWrongCodesOnly
    <3>2. QED BY <1>3, <2>2, <3>1, CountedFinite, CodesAssumption DEF AttemptNumber
  <2>3. QED BY <1>1, <2>1, <2>2 DEF CodesTypeOK
<1>5. Cardinality(Counted') <= Cardinality(Tries) /\ Cardinality(Tries) \in Nat
  <2>1. Counted' \subseteq Tries BY DEF Counted
  <2>2. QED BY <2>1, TriesAssumption, FS_Subset, FS_CardinalityType
<1>6. CodesTypeOK'
  BY <1>1, <1>3, <1>4, <1>5, CountedFinite
     DEF CodesTypeOK, Reserve, TryGoes, TryStages, LockoutAfter
<1>7. LockedByWrongCodesOnly'
  BY <1>1, <1>3, <1>4, CountedFinite, CodesAssumption DEF LockedByWrongCodesOnly, LockoutAfter
<1>8. PeriodsExplained'
  BY <1>1, <1>4, CodesAssumption DEF PeriodsExplained, LockoutAfter, CodesTypeOK
<1>9. CodesAreRationedPerLockout'
  BY <1>1, <1>4, <1>6, RationKept
<1>10. QED BY <1>6, <1>7, <1>8, <1>9

(* A right code gives its attempt back: one less counts, fewer than lock.  *)
LEMMA BoardCodesInv ==
  ASSUME CodesInv, NEW v \in Tries, BoardCommit(v) PROVE CodesInv'
<1> USE DEF CodesInv, CodesHold
<1>1. /\ try[v] = "holding" /\ try'[v] = "boarded" /\ period' = period /\ spentIn' = spentIn
      /\ \A w \in Tries \ {v} : try'[w] = try[w]
      /\ failures' = (IF failures = 0 THEN 0 ELSE failures - 1) /\ lockout' = LockoutKept
  BY DEF BoardCommit, TryGoes, CodesTypeOK
<1>2. v \in Counted /\ Counted' = Counted \ {v}
  BY <1>1 DEF Counted, PeriodsExplained
<1>3. Cardinality(Counted') = Cardinality(Counted) - 1
  BY <1>2, CountsOneLess
<1>4. /\ failures = Cardinality(Counted) /\ failures >= 1 /\ failures <= MaxCodes
      /\ failures \in Nat /\ Cardinality(Tries) \in Nat /\ failures <= Cardinality(Tries)
  <2>1. lockout # "past"
    BY <1>2 DEF PeriodsExplained
  <2>2. Cardinality(Counted) # 0
    BY <1>2, NobodyCounted
  <2>3. QED BY <2>1, <2>2, CountedFinite DEF LockedByWrongCodesOnly, PeriodsExplained
<1>5. failures' = Cardinality(Counted') /\ lockout' = "unset" /\ failures' < MaxCodes
  BY <1>1, <1>3, <1>4, CodesAssumption DEF LockoutKept
<1>6. CodesTypeOK'
  BY <1>1, <1>3, <1>4, <1>5 DEF CodesTypeOK, BoardCommit, TryGoes, TryStages
<1>7. LockedByWrongCodesOnly'
  BY <1>5, CodesAssumption, <1>6 DEF LockedByWrongCodesOnly, CodesTypeOK
<1>8. PeriodsExplained'
  BY <1>1, <1>5, <1>4, <1>6, CodesAssumption DEF PeriodsExplained, CodesTypeOK
<1>9. CodesAreRationedPerLockout'
  BY <1>1, <1>5, <1>4, <1>6, CodesAssumption, RationKept
<1>10. QED BY <1>6, <1>7, <1>8, <1>9

(* The steps that neither spend an attempt nor give one back.              *)
LEMMA OtherCodesInv ==
  ASSUME CodesInv, NEW v \in Tries,
         RefuseLocked(v) \/ HoldForBoarding(v) \/ WrongCode(v) \/ BoardFail(v)
  PROVE  CodesInv'
<1> USE DEF CodesInv, CodesHold
<1>1. /\ UNCHANGED <<failures, lockout, period, spentIn>>
      /\ \A w \in Tries \ {v} : try'[w] = try[w]
      /\ \/ try[v] = "new" /\ try'[v] = "locked"
         \/ try[v] \in {"paid", "holding"} /\ try'[v] \in {"holding", "wrong", "lost"}
  BY DEF RefuseLocked, HoldForBoarding, WrongCode, BoardFail, TryGoes, CodesTypeOK
<1>2. Counted' = Counted
  BY <1>1 DEF Counted
<1>3. CodesTypeOK'
  BY <1>1 DEF RefuseLocked, HoldForBoarding, WrongCode, BoardFail, TryGoes, CodesTypeOK, TryStages
<1>4. LockedByWrongCodesOnly'
  BY <1>1, <1>2 DEF LockedByWrongCodesOnly
<1>5. PeriodsExplained'
  BY <1>1, <1>2 DEF PeriodsExplained
<1>6. CodesAreRationedPerLockout'
  BY <1>1, <1>3, <1>5, RationKept DEF PeriodsExplained
<1>7. QED BY <1>3, <1>4, <1>5, <1>6

(* A lockout is served: nobody's attempt is in the new period.             *)
LEMMA ServedCodesInv ==
  ASSUME CodesInv, LockoutServed PROVE CodesInv'
<1> USE DEF CodesInv, CodesHold
<1>1. /\ UNCHANGED <<try, failures, spentIn>> /\ lockout' = "past" /\ period' = period + 1
      /\ period \in 0..MaxPeriods /\ period < MaxPeriods
      /\ \A v \in Tries : spentIn[v] \in Nat /\ spentIn[v] <= period
      /\ \A v \in Tries : try[v] \notin {"paid", "holding"}
  BY DEF LockoutServed, CodesTypeOK, PeriodsExplained
<1>2. Counted' = {}
  BY <1>1 DEF Counted
<1>3. Cardinality(Counted') = 0
  BY <1>2, FS_EmptySet
<1>4. CodesTypeOK'
  BY <1>1, CodesAssumption DEF CodesTypeOK
<1>5. LockedByWrongCodesOnly'
  BY <1>1, <1>3, CodesAssumption DEF LockedByWrongCodesOnly
<1>6. PeriodsExplained'
  BY <1>1, <1>2, <1>3, CodesAssumption DEF PeriodsExplained
<1>7. CodesAreRationedPerLockout'
  BY <1>1 DEF CodesAreRationedPerLockout
<1>8. QED BY <1>4, <1>5, <1>6, <1>7

LEMMA NextCodesInv == CodesInv /\ [CodesNext]_codesVars => CodesInv'
<1> SUFFICES ASSUME CodesInv, [CodesNext]_codesVars PROVE CodesInv' OBVIOUS
<1>1. CASE CodesNext
  BY <1>1, ReserveCodesInv, BoardCodesInv, OtherCodesInv, ServedCodesInv
     DEF CodesNext, verify_passenger
<1>2. CASE UNCHANGED codesVars
  BY <1>2 DEF codesVars, CodesInv, CodesHold, CodesTypeOK, PeriodsExplained, Counted,
              CodesAreRationedPerLockout, LockedByWrongCodesOnly
<1>3. QED BY <1>1, <1>2

(* No lockout period sees more wrong codes than the limit, and the trip is *)
(* locked exactly when that many attempts count                            *)
(* (TripRepository.reserve_boarding_attempt, refund_boarding_attempt), for *)
(* any number of requests, limit and number of lockouts.                   *)
THEOREM BoardingCodesHold == CodesSpec => []CodesHold
<1>1. CodesSpec => []CodesInv
  BY InitCodesInv, NextCodesInv, PTL DEF CodesSpec
<1>2. CodesInv => CodesHold
  BY DEF CodesInv
<1>3. QED BY <1>1, <1>2, PTL
(***************************************************************************)
(* The retries of a request.                                               *)
(***************************************************************************)

(* What is taken of a target stays taken.                                  *)
LEMMA TakenGrows ==
  ASSUME RetriesTypeOK, RetriesTypeOK', kept \subseteq kept', NEW a \in Arrivals
  PROVE  /\ Taken(a) \subseteq Taken(a)'
         /\ Cardinality(Taken(a)) \in Nat /\ Cardinality(Taken(a)') \in Nat
         /\ Cardinality(Taken(a)) <= Cardinality(Taken(a)')
<1>1. Taken(a) \subseteq Taken(a)' /\ Taken(a)' \subseteq Arrivals
  BY DEF Taken, RetriesTypeOK
<1>2. IsFiniteSet(Taken(a)')
  BY <1>1, RoomAssumption, FS_Subset
<1>3. QED BY <1>1, <1>2, FS_Subset, FS_CardinalityType

LEMMA InitKeysInv == RetriesInit => KeysInv
<1> SUFFICES ASSUME RetriesInit PROVE KeysInv OBVIOUS
<1>1. RetriesTypeOK
  BY DEF RetriesInit, RetriesTypeOK, Stages
<1>2. RetriesInv
  BY <1>1, NoArrivalAssumption, ArrivalKeyAssumption DEF RetriesInit, RetriesInv
<1>3. RoomExplained /\ NobodyRefusedTheirOwn
  BY DEF RetriesInit, RoomExplained, NobodyRefusedTheirOwn
<1>4. QED BY <1>2, <1>3 DEF KeysInv

(* What a step of one arrival leaves of the others.                        *)
LEMMA OneArrivalMoves ==
  ASSUME KeysInv, NEW a \in Arrivals,
         \/ Look(a) \/ Handle(a) \/ AfterConflict(a) \/ Flush(a) \/ AfterBeaten(a)
         \/ RetryCommit(a) \/ RetryFail(a)
  PROVE  /\ RetriesTypeOK'
         /\ \A b \in Arrivals \ {a} : stage'[b] = stage[b] /\ answer'[b] = answer[b]
         /\ stage[a] \notin {"answered", "refused", "reused", "failed"}
         /\ a \notin kept /\ kept \subseteq kept'
         /\ answer'[a] # NoArrival <=> stage'[a] = "answered"
<1>1. RetriesTypeOK /\ stage[a] \in Stages
  BY DEF KeysInv, RetriesInv, RetriesTypeOK
<1>2. /\ stage[a] \notin {"answered", "refused", "reused", "failed"}
      /\ kept \subseteq kept'
      /\ \A b \in Arrivals \ {a} : stage'[b] = stage[b] /\ answer'[b] = answer[b]
  BY <1>1 DEF Look, Handle, AfterConflict, Flush, AfterBeaten, WinnersAnswer, RetryCommit, RetryFail,
              Becomes, Gets, RetriesTypeOK
<1>3. a \notin kept /\ answer[a] = NoArrival
  BY <1>2 DEF KeysInv, RetriesInv, RetriesTypeOK
<1>4. stored[ArrivalKey[a]] \in Arrivals \cup {NoArrival}
  BY <1>1, ArrivalKeyAssumption DEF RetriesTypeOK
<1>5. RetriesTypeOK'
  BY <1>1, <1>4, ArrivalKeyAssumption
     DEF Look, Handle, AfterConflict, Flush, AfterBeaten, WinnersAnswer, RetryCommit, RetryFail,
         Becomes, Gets, Found, Matches, RetriesTypeOK, Stages
<1>6. answer'[a] # NoArrival <=> stage'[a] = "answered"
  BY <1>1, <1>3, NoArrivalAssumption
     DEF Look, Handle, AfterConflict, Flush, AfterBeaten, WinnersAnswer, RetryCommit, RetryFail,
         Becomes, Gets, Matches, RetriesTypeOK
<1>7. QED BY <1>2, <1>3, <1>5, <1>6

(* The commit: the key is its own, and the target had room for it.         *)
LEMMA RetryCommitKeysInv ==
  ASSUME KeysInv, NEW a \in Arrivals, RetryCommit(a) PROVE KeysInv'
<1> USE DEF KeysInv
<1> DEFINE k == ArrivalKey[a]
<1>1. /\ RetriesTypeOK' /\ RetriesTypeOK
      /\ \A b \in Arrivals \ {a} : stage'[b] = stage[b] /\ answer'[b] = answer[b]
      /\ answer'[a] # NoArrival <=> stage'[a] = "answered"
  BY OneArrivalMoves DEF RetriesInv
<1>2. /\ stage[a] = "flushed" /\ stage'[a] = "answered" /\ kept' = kept \cup {a}
      /\ k \in UserKeys /\ stored[k] = NoArrival /\ stored'[k] = a
      /\ \A l \in UserKeys \ {k} : stored'[l] = stored[l]
  BY <1>1, ArrivalKeyAssumption DEF RetryCommit, Gets, RetriesInv, RetriesTypeOK, Found
<1>3. \A b \in Arrivals : ArrivalKey[b] \in UserKeys
  BY ArrivalKeyAssumption
<1>4. \A b \in Arrivals \ {a} : ArrivalKey[b] = k => stage[b] # "flushed" /\ b \notin kept
  BY <1>2, NoArrivalAssumption DEF RetriesInv, KeyHolders, Found
<1>5. RetriesInv'
  <2>1. \A l \in UserKeys : stored'[l] # NoArrival => stored'[l] \in kept' /\ ArrivalKey[stored'[l]] = l
    BY <1>2 DEF RetriesInv
  <2>2. ASSUME NEW b \in Arrivals
        PROVE  /\ b \in kept' => stage'[b] = "answered" /\ Found(b)' = b
               /\ answer'[b] # NoArrival <=> stage'[b] = "answered"
               /\ stage'[b] = "flushed" => Found(b)' = NoArrival
               /\ stage'[b] = "beaten" => Found(b)' # NoArrival
               /\ \A c \in Arrivals : stage'[b] = "flushed" /\ c \in KeyHolders(b)' => b = c
    <3>1. CASE b = a
      BY <1>1, <1>2, <3>1 DEF Found
    <3>2. CASE b # a
      BY <1>1, <1>2, <1>3, <1>4, <3>2, NoArrivalAssumption DEF Found, RetriesInv, KeyHolders
    <3>3. QED BY <3>1, <3>2
  <2>3. QED BY <1>1, <2>1, <2>2 DEF RetriesInv
<1>6. RoomExplained'
  <2>1. SUFFICES ASSUME NEW b \in Arrivals, NEW c \in Arrivals, Target[b] = Target[c]
                 PROVE  /\ b # c => ~(stage'[b] \in {"worked", "flushed"} /\ stage'[c] \in {"worked", "flushed"})
                        /\ stage'[b] \in {"worked", "flushed"} => Cardinality(Taken(b)') < Room
                        /\ stage'[b] \in {"conflict", "refused"} => Cardinality(Taken(b)') >= Room
    BY DEF RoomExplained
  <2>2. b # c => ~(stage'[b] \in {"worked", "flushed"} /\ stage'[c] \in {"worked", "flushed"})
    BY <1>1, <1>2, <2>1 DEF RoomExplained
  <2>3. stage'[b] \in {"worked", "flushed"} => Cardinality(Taken(b)') < Room
    <3>1. SUFFICES ASSUME stage'[b] \in {"worked", "flushed"} PROVE Cardinality(Taken(b)') < Room
      OBVIOUS
    <3>2. b # a /\ stage[b] \in {"worked", "flushed"} /\ Target[b] # Target[a]
      BY <1>1, <1>2, <3>1 DEF RoomExplained
    <3>3. Taken(b)' = Taken(b)
      BY <1>2, <3>2 DEF Taken
    <3>4. QED BY <3>2, <3>3 DEF RoomExplained
  <2>4. stage'[b] \in {"conflict", "refused"} => Cardinality(Taken(b)') >= Room
    <3>1. stage'[b] \in {"conflict", "refused"} => Cardinality(Taken(b)) >= Room
      BY <1>1, <1>2 DEF RoomExplained
    <3>2. QED BY <1>1, <1>2, <3>1, TakenGrows, RoomAssumption
  <2>5. QED BY <2>2, <2>3, <2>4
<1>7. NobodyRefusedTheirOwn'
  <2>1. SUFFICES ASSUME NEW b \in Arrivals, stage'[b] = "refused",
                        ArrivalKey[a] = ArrivalKey[b], Digest[a] = Digest[b]
                 PROVE  FALSE
    BY <1>1, <1>2 DEF NobodyRefusedTheirOwn
  <2>2. Target[a] = Target[b] /\ stage[b] = "refused"
    BY <1>1, <1>2, <2>1, DigestAssumption
  <2>3. Taken(a) = Taken(b)
    BY <2>2 DEF Taken
  <2>4. Cardinality(Taken(a)) < Room /\ Cardinality(Taken(b)) >= Room
    BY <1>2, <2>2 DEF RoomExplained
  <2>5. Cardinality(Taken(a)) \in Nat
    BY <1>1, <1>2, TakenGrows
  <2>6. QED BY <2>3, <2>4, <2>5, RoomAssumption
<1>8. QED BY <1>5, <1>6, <1>7

(* The other steps keep the rows; who is refused found its target full     *)
(* and no answer of its own.                                               *)
LEMMA OtherKeysInv ==
  ASSUME KeysInv, NEW a \in Arrivals,
         \/ Look(a) \/ Handle(a) \/ AfterConflict(a) \/ Flush(a) \/ AfterBeaten(a) \/ RetryFail(a)
  PROVE  KeysInv'
<1> USE DEF KeysInv
<1>1. /\ RetriesTypeOK' /\ RetriesTypeOK
      /\ \A b \in Arrivals \ {a} : stage'[b] = stage[b] /\ answer'[b] = answer[b]
      /\ answer'[a] # NoArrival <=> stage'[a] = "answered"
      /\ a \notin kept
  BY OneArrivalMoves DEF RetriesInv
<1>2. UNCHANGED <<stored, kept>>
  BY DEF Look, Handle, AfterConflict, Flush, AfterBeaten, WinnersAnswer, RetryFail, Becomes
<1>3. /\ stage'[a] = "flushed" => /\ stage[a] = "worked" /\ Found(a) = NoArrival
                                  /\ KeyHolders(a) = {}
      /\ stage'[a] = "beaten" => Found(a) # NoArrival
      /\ stage'[a] = "worked" => /\ TargetHolders(a) = {}
                                 /\ Cardinality(Taken(a)) < Room
      /\ stage'[a] = "conflict" => ~(Cardinality(Taken(a)) < Room)
      /\ stage'[a] = "refused" => stage[a] = "conflict" /\ ~Matches(a)
  BY <1>1 DEF Look, Handle, AfterConflict, Flush, AfterBeaten, WinnersAnswer, RetryFail, Becomes, Gets,
              RetriesTypeOK
<1>4. \A b : Found(b)' = Found(b) /\ Taken(b)' = Taken(b)
  BY <1>2 DEF Found, Taken
<1>5. RetriesInv'
  <2>1. \A b \in Arrivals \ {a} : \A c \in Arrivals :
          stage'[b] = "flushed" /\ c \in KeyHolders(b)' => b = c
    BY <1>1, <1>3 DEF RetriesInv, KeyHolders
  <2>2. \A c \in Arrivals : stage'[a] = "flushed" /\ c \in KeyHolders(a)' => a = c
    BY <1>1, <1>3 DEF KeyHolders
  <2>3. \A b \in Arrivals :
          /\ b \in kept' => stage'[b] = "answered" /\ Found(b)' = b
          /\ answer'[b] # NoArrival <=> stage'[b] = "answered"
          /\ stage'[b] = "flushed" => Found(b)' = NoArrival
          /\ stage'[b] = "beaten" => Found(b)' # NoArrival
    BY <1>1, <1>2, <1>3, <1>4 DEF RetriesInv
  <2>4. QED BY <1>1, <1>2, <2>1, <2>2, <2>3 DEF RetriesInv
<1>6. RoomExplained'
  <2>1. Cardinality(Taken(a)) \in Nat
    BY <1>1, <1>2, TakenGrows
  <2>2. SUFFICES ASSUME NEW b \in Arrivals, NEW c \in Arrivals, Target[b] = Target[c]
                 PROVE  /\ b # c => ~(stage'[b] \in {"worked", "flushed"} /\ stage'[c] \in {"worked", "flushed"})
                        /\ stage'[b] \in {"worked", "flushed"} => Cardinality(Taken(b)) < Room
                        /\ stage'[b] \in {"conflict", "refused"} => Cardinality(Taken(b)) >= Room
    BY <1>4 DEF RoomExplained
  <2>3. b # c => ~(stage'[b] \in {"worked", "flushed"} /\ stage'[c] \in {"worked", "flushed"})
    BY <1>1, <1>3, <2>2 DEF RoomExplained, TargetHolders
  <2>4. stage'[b] \in {"worked", "flushed"} => Cardinality(Taken(b)) < Room
    BY <1>1, <1>3 DEF RoomExplained
  <2>5. stage'[b] \in {"conflict", "refused"} => Cardinality(Taken(b)) >= Room
    BY <1>1, <1>3, <2>1, RoomAssumption DEF RoomExplained
  <2>6. QED BY <2>3, <2>4, <2>5
<1>7. NobodyRefusedTheirOwn'
  <2>1. ~Matches(a) => \A b \in kept : ~(ArrivalKey[b] = ArrivalKey[a] /\ Digest[b] = Digest[a])
    BY <1>1, NoArrivalAssumption DEF RetriesInv, RetriesTypeOK, Matches, Found
  <2>2. QED BY <1>1, <1>2, <1>3, <2>1 DEF NobodyRefusedTheirOwn
<1>8. QED BY <1>5, <1>6, <1>7

LEMMA NextKeysInv == KeysInv /\ [RetriesNext]_retryVars => KeysInv'
<1> SUFFICES ASSUME KeysInv, [RetriesNext]_retryVars PROVE KeysInv' OBVIOUS
<1>1. CASE RetriesNext
  BY <1>1, RetryCommitKeysInv, OtherKeysInv DEF RetriesNext
<1>2. CASE UNCHANGED retryVars
  BY <1>2 DEF retryVars, KeysInv, RetriesInv, RetriesTypeOK, Found, KeyHolders, RoomExplained, Taken,
              NobodyRefusedTheirOwn
<1>3. QED BY <1>1, <1>2

LEMMA KeysInvHolds == RetriesSpec => []KeysInv
BY InitKeysInv, NextKeysInv, PTL DEF RetriesSpec

(* Every step does a request's work for the first time, repeats its        *)
(* answer, or tells nobody anything.                                       *)
LEMMA NextOnce ==
  ASSUME KeysInv, [RetriesNext]_retryVars
  PROVE  Once!Next \/ UNCHANGED <<stored, answer>>
<1>1. ASSUME NEW a \in Arrivals, RetryCommit(a) PROVE Once!Work(a)
  <2>1. stage[a] = "flushed" /\ stored[ArrivalKey[a]] = NoArrival /\ answer[a] = NoArrival
    BY <1>1 DEF RetryCommit, KeysInv, RetriesInv, Found
  <2>2. QED BY <1>1, <2>1 DEF RetryCommit, Gets, Once!Work
<1>2. ASSUME NEW a \in Arrivals, stage[a] # "answered", Matches(a), Gets(a, Found(a)),
             UNCHANGED <<stored, kept>>
      PROVE  Once!Repeat(a)
  <2>1. answer[a] = NoArrival
    BY <1>2 DEF KeysInv, RetriesInv
  <2>2. QED BY <1>2, <2>1 DEF Matches, Found, Gets, Once!Repeat
<1>3. QED
  BY <1>1, <1>2 DEF RetriesNext, Look, Handle, AfterConflict, Flush, AfterBeaten, WinnersAnswer,
                    RetryFail, Becomes, retryVars, Once!Next

(* A request arriving any number of times under one key is done at most    *)
(* once, every answer given under the key is that one's (AtMostOnce), and  *)
(* nobody is refused what their own request has just got                   *)
(* (ui/api/idempotency.py).                                                *)
THEOREM RetriesHold == RetriesSpec => KeysHold
<1>1. RetriesInit => Once!Init
  BY DEF RetriesInit, Once!Init
<1>2. KeysInv /\ [RetriesNext]_retryVars => [Once!Next]_(Once!vars)
  BY NextOnce DEF Once!vars
<1>3. KeysInv => NobodyRefusedTheirOwn
  BY DEF KeysInv
<1>4. QED BY <1>1, <1>2, <1>3, KeysInvHolds, PTL DEF RetriesSpec, KeysHold, Once!Spec

(***************************************************************************)
(* The schema's history.                                                   *)
(***************************************************************************)

\* A step that turns no row into another kind and makes no rule the database
\* does not check itself.
Plain(step) ==
  step.does # "turn" /\ (step.does = "add_rule" => \A r \in step.of : r[1] # "code")

\* And on the way up none drops a table.
PlainUp(step) == Plain(step) /\ step.does # "drop"

\* The rows a step turns, and into what, where it is not plain.
Turned(x, old, new) == x.does = "turn" /\ x.of[1] = old /\ x.of[2] = new

(* What the kinds of step are.                                             *)
LEMMA StepsPlainUp ==
  ASSUME NEW t, NEW x, NEW y
  PROVE
  /\ PlainUp(Create(t, x, y)) /\ PlainUp(AddColumns(t, x)) /\ PlainUp(DropColumns(t, x))
  /\ PlainUp(DropRule(t, x)) /\ PlainUp(AddRef(t, x)) /\ PlainUp(DropRef(t, x))
  /\ PlainUp(StopAt(t, x)) /\ PlainUp(AddRule(t, Unique(x))) /\ PlainUp(AddRule(t, NotNull(x)))
  /\ PlainUp(AddRule(t, Check(x)))
BY DEF PlainUp, Plain, Create, Drop, AddColumns, DropColumns, AddRule, DropRule, AddRef, DropRef, Turn, StopAt, Unique, NotNull, Check

(* The same without the claim about dropping, and for a table dropped.     *)
LEMMA StepsPlain ==
  ASSUME NEW t, NEW x, NEW y
  PROVE
  /\ Plain(Drop(t)) /\ Plain(Create(t, x, y)) /\ Plain(AddColumns(t, x))
  /\ Plain(DropColumns(t, x)) /\ Plain(DropRule(t, x)) /\ Plain(AddRef(t, x))
  /\ Plain(DropRef(t, x)) /\ Plain(StopAt(t, x)) /\ Plain(AddRule(t, Unique(x)))
  /\ Plain(AddRule(t, NotNull(x))) /\ Plain(AddRule(t, Check(x)))
BY DEF Plain, Create, Drop, AddColumns, DropColumns, AddRule, DropRule, AddRef, DropRef, Turn, StopAt, Unique, NotNull, Check

(* The ways up are plain but for the two that turn rows.                   *)
LEMMA WaysUp ==
  ASSUME NEW i \in 1..19
  PROVE  /\ Len(Upgrades[i]) \in Nat
         /\ i \notin {7, 19} => \A j \in 1..Len(Upgrades[i]) : PlainUp(Upgrades[i][j])
<1> DEFINE Good(s) == Len(s) \in Nat /\ \A j \in 1..Len(s) : PlainUp(s[j])
<1>1. Good(FirstUp) BY StepsPlainUp DEF FirstUp
<1>2. Good(StopsUp) BY StepsPlainUp DEF StopsUp
<1>3. Good(PlateUp) BY StepsPlainUp DEF PlateUp
<1>4. Good(DirectionUp) BY StepsPlainUp DEF DirectionUp
<1>5. Good(LiveStopsUp) BY StepsPlainUp DEF LiveStopsUp
<1>6. Good(FaresUp) BY StepsPlainUp DEF FaresUp
<1>7. Len(PermitUp) \in Nat BY DEF PermitUp
<1>8. Good(ReturnUp) BY StepsPlainUp DEF ReturnUp
<1>9. Good(SplitUp) BY StepsPlainUp DEF SplitUp
<1>10. Good(NegotiatedUp) BY StepsPlainUp DEF NegotiatedUp
<1>11. Good(StandingUp) BY StepsPlainUp DEF StandingUp
<1>12. Good(CrashesUp) BY StepsPlainUp DEF CrashesUp
<1>13. Good(EmailUp) BY StepsPlainUp DEF EmailUp
<1>14. Good(KeyUp) BY StepsPlainUp DEF KeyUp
<1>15. Good(NoNumberUp) BY StepsPlainUp DEF NoNumberUp
<1>16. Good(LaunchesUp) BY StepsPlainUp DEF LaunchesUp
<1>17. Good(PlacesUp) BY StepsPlainUp DEF PlacesUp
<1>18. Good(AttemptsUp) BY StepsPlainUp DEF AttemptsUp
<1>19. Len(OneOpenUp) \in Nat BY DEF OneOpenUp
<1>20. Upgrades[1] = FirstUp BY DEF Upgrades
<1>21. Upgrades[2] = StopsUp BY DEF Upgrades
<1>22. Upgrades[3] = PlateUp BY DEF Upgrades
<1>23. Upgrades[4] = DirectionUp BY DEF Upgrades
<1>24. Upgrades[5] = LiveStopsUp BY DEF Upgrades
<1>25. Upgrades[6] = FaresUp BY DEF Upgrades
<1>26. Upgrades[7] = PermitUp BY DEF Upgrades
<1>27. Upgrades[8] = ReturnUp BY DEF Upgrades
<1>28. Upgrades[9] = SplitUp BY DEF Upgrades
<1>29. Upgrades[10] = NegotiatedUp BY DEF Upgrades
<1>30. Upgrades[11] = StandingUp BY DEF Upgrades
<1>31. Upgrades[12] = CrashesUp BY DEF Upgrades
<1>32. Upgrades[13] = EmailUp BY DEF Upgrades
<1>33. Upgrades[14] = KeyUp BY DEF Upgrades
<1>34. Upgrades[15] = NoNumberUp BY DEF Upgrades
<1>35. Upgrades[16] = LaunchesUp BY DEF Upgrades
<1>36. Upgrades[17] = PlacesUp BY DEF Upgrades
<1>37. Upgrades[18] = AttemptsUp BY DEF Upgrades
<1>38. Upgrades[19] = OneOpenUp BY DEF Upgrades
<1>39. \/ i = 1 \/ i = 2 \/ i = 3 \/ i = 4 \/ i = 5 \/ i = 6 \/ i = 7 \/ i = 8 \/ i = 9
       \/ i = 10 \/ i = 11 \/ i = 12 \/ i = 13 \/ i = 14 \/ i = 15 \/ i = 16 \/ i = 17
       \/ i = 18 \/ i = 19
  OBVIOUS
<1> HIDE DEF Good
<1>40. Len(Upgrades[i]) \in Nat /\ (i \in {7, 19} \/ Good(Upgrades[i]))
  <2>1. \A s : Good(s) => Len(s) \in Nat BY DEF Good
  <2>2. QED BY <1>1, <1>2, <1>3, <1>4, <1>5, <1>6, <1>7, <1>8, <1>9, <1>10, <1>11, <1>12,
       <1>13, <1>14, <1>15, <1>16, <1>17, <1>18, <1>19, <1>20, <1>21, <1>22, <1>23,
       <1>24, <1>25, <1>26, <1>27, <1>28, <1>29, <1>30, <1>31, <1>32, <1>33, <1>34,
       <1>35, <1>36, <1>37, <1>38, <1>39, <2>1, Zenon
<1>41. QED BY <1>40 DEF Good

(* So are the ways down.                                                   *)
LEMMA WaysDown ==
  ASSUME NEW i \in 1..19
  PROVE  /\ Len(Downgrades[i]) \in Nat
         /\ i \notin {6, 7} => \A j \in 1..Len(Downgrades[i]) : Plain(Downgrades[i][j])
<1> DEFINE Good(s) == Len(s) \in Nat /\ \A j \in 1..Len(s) : Plain(s[j])
<1>1. Good(FirstDown) BY StepsPlain DEF FirstDown
<1>2. Good(StopsDown) BY StepsPlain DEF StopsDown
<1>3. Good(PlateDown) BY StepsPlain DEF PlateDown
<1>4. Good(DirectionDown) BY StepsPlain DEF DirectionDown
<1>5. Good(LiveStopsDown) BY StepsPlain DEF LiveStopsDown
<1>6. Len(FaresDown) \in Nat BY DEF FaresDown
<1>7. Len(PermitDown) \in Nat BY DEF PermitDown
<1>8. Good(ReturnDown) BY StepsPlain DEF ReturnDown
<1>9. Good(SplitDown) BY StepsPlain DEF SplitDown
<1>10. Good(NegotiatedDown) BY StepsPlain DEF NegotiatedDown
<1>11. Good(StandingDown) BY StepsPlain DEF StandingDown
<1>12. Good(CrashesDown) BY StepsPlain DEF CrashesDown
<1>13. Good(EmailDown) BY StepsPlain DEF EmailDown
<1>14. Good(KeyDown) BY StepsPlain DEF KeyDown
<1>15. Good(NoNumberDown) BY StepsPlain DEF NoNumberDown
<1>16. Good(LaunchesDown) BY StepsPlain DEF LaunchesDown
<1>17. Good(PlacesDown) BY StepsPlain DEF PlacesDown
<1>18. Good(AttemptsDown) BY StepsPlain DEF AttemptsDown
<1>19. Good(OneOpenDown) BY StepsPlain DEF OneOpenDown
<1>20. Downgrades[1] = FirstDown BY DEF Downgrades
<1>21. Downgrades[2] = StopsDown BY DEF Downgrades
<1>22. Downgrades[3] = PlateDown BY DEF Downgrades
<1>23. Downgrades[4] = DirectionDown BY DEF Downgrades
<1>24. Downgrades[5] = LiveStopsDown BY DEF Downgrades
<1>25. Downgrades[6] = FaresDown BY DEF Downgrades
<1>26. Downgrades[7] = PermitDown BY DEF Downgrades
<1>27. Downgrades[8] = ReturnDown BY DEF Downgrades
<1>28. Downgrades[9] = SplitDown BY DEF Downgrades
<1>29. Downgrades[10] = NegotiatedDown BY DEF Downgrades
<1>30. Downgrades[11] = StandingDown BY DEF Downgrades
<1>31. Downgrades[12] = CrashesDown BY DEF Downgrades
<1>32. Downgrades[13] = EmailDown BY DEF Downgrades
<1>33. Downgrades[14] = KeyDown BY DEF Downgrades
<1>34. Downgrades[15] = NoNumberDown BY DEF Downgrades
<1>35. Downgrades[16] = LaunchesDown BY DEF Downgrades
<1>36. Downgrades[17] = PlacesDown BY DEF Downgrades
<1>37. Downgrades[18] = AttemptsDown BY DEF Downgrades
<1>38. Downgrades[19] = OneOpenDown BY DEF Downgrades
<1>39. \/ i = 1 \/ i = 2 \/ i = 3 \/ i = 4 \/ i = 5 \/ i = 6 \/ i = 7 \/ i = 8 \/ i = 9
       \/ i = 10 \/ i = 11 \/ i = 12 \/ i = 13 \/ i = 14 \/ i = 15 \/ i = 16 \/ i = 17
       \/ i = 18 \/ i = 19
  OBVIOUS
<1> HIDE DEF Good
<1>40. Len(Downgrades[i]) \in Nat /\ (i \in {6, 7} \/ Good(Downgrades[i]))
  <2>1. \A s : Good(s) => Len(s) \in Nat BY DEF Good
  <2>2. QED BY <1>1, <1>2, <1>3, <1>4, <1>5, <1>6, <1>7, <1>8, <1>9, <1>10, <1>11, <1>12,
       <1>13, <1>14, <1>15, <1>16, <1>17, <1>18, <1>19, <1>20, <1>21, <1>22, <1>23,
       <1>24, <1>25, <1>26, <1>27, <1>28, <1>29, <1>30, <1>31, <1>32, <1>33, <1>34,
       <1>35, <1>36, <1>37, <1>38, <1>39, <2>1, Zenon
<1>41. QED BY <1>40 DEF Good

(* The step a command is about to take is plain, or one of the six that turn
   rows or promise what only the use cases keep.                           *)
LEMMA NextStep ==
  ASSUME MigrationsTypeOK, command.doing # "none", ~Arrived, command.done < Len(Steps),
         NEW step, step = Steps[command.done + 1]
  PROVE  /\ Len(Steps) \in Nat
         /\ \/ Plain(step) /\ (command.doing = "up" => step.does # "drop")
            \/ /\ command.doing = "up" /\ command.revision = 6 /\ command.done = 1
               /\ Turned(step, {"driversPermit"}, {"carsPermit"})
            \/ /\ command.doing = "up" /\ command.revision = 6 /\ command.done = 2
               /\ Turned(step, {"bareCar"}, {})
            \/ /\ command.doing = "up" /\ command.revision = 6 /\ command.done = 3
               /\ step = AddRule("vehicles", Coded("active_has_its_permit"))
            \/ /\ command.doing = "up" /\ Turned(step, {"staleTwins"}, {})
            \/ /\ command.doing = "down" /\ command.revision = 6 /\ command.done = 3
               /\ Turned(step, {"asked"}, {"unpriced"}) /\ step.table = "ride_requests"
            \/ /\ command.doing = "down" /\ Turned(step, {"carsPermit"}, {"driversPermit"})
               /\ step.table = "driver_documents"
<1>1. Newest = 19
  BY DEF Newest, Upgrades
<1>0. command.doing = "up" => command.revision + 1 \in 1..19
  <2>1. /\ command.revision \in 0..19 /\ command.to \in 0..19
        /\ command.revision # command.to
        /\ command.doing = "up" => command.revision <= command.to
    BY <1>1 DEF MigrationsTypeOK, Arrived
  <2>2. \A a, b \in 0..19 : a # b /\ a <= b => a + 1 \in 1..19
    OBVIOUS
  <2>3. QED BY <2>1, <2>2, Zenon
<1>2. command.done + 1 \in 1..Len(Steps) /\ Len(Steps) \in Nat
      /\ command.doing \in {"up", "down"} /\ command.done \in Nat
  <2>1. CASE command.doing = "up"
    <3>1. command.revision + 1 \in 1..19
      BY <1>0, <2>1
    <3>2. Len(Upgrades[command.revision + 1]) \in Nat
      BY <3>1, WaysUp
    <3>3. QED BY <2>1, <3>2 DEF MigrationsTypeOK, Steps
  <2>2. CASE command.doing = "down"
    <3>1. command.revision \in 1..19
      BY <1>1, <2>2 DEF MigrationsTypeOK, Arrived
    <3>2. Len(Downgrades[command.revision]) \in Nat
      BY <3>1, WaysDown
    <3>3. QED BY <2>2, <3>2 DEF MigrationsTypeOK, Steps
  <2>3. QED BY <2>1, <2>2 DEF MigrationsTypeOK
<1>3. CASE command.doing = "up" /\ command.revision \notin {6, 18}
  <2>1. command.revision + 1 \in 1..19 /\ command.revision + 1 \notin {7, 19}
    BY <1>0, <1>3 DEF MigrationsTypeOK
  <2>2. Steps = Upgrades[command.revision + 1]
    BY <1>3 DEF Steps
  <2>3. PlainUp(step)
    BY <1>2, <2>1, <2>2, WaysUp
  <2>4. QED BY <1>2, <2>3 DEF PlainUp
<1>4. CASE command.doing = "down" /\ command.revision \notin {6, 7}
  <2>1. command.revision \in 1..19
    BY <1>1, <1>4 DEF MigrationsTypeOK, Arrived
  <2>2. Steps = Downgrades[command.revision]
    BY <1>4 DEF Steps
  <2>3. Plain(step)
    BY <1>2, <1>4, <2>1, <2>2, WaysDown
  <2>4. QED BY <1>2, <1>4, <2>3
<1>5. CASE command.doing = "up" /\ command.revision = 6
  <2>1. Steps = PermitUp
    BY <1>5 DEF Steps, Upgrades
  <2>2. /\ Len(PermitUp) = 4
        /\ PermitUp[1] = Create("vehicle_documents", {"vehicles"}, {})
        /\ PermitUp[2] = Turn("driver_documents", {"driversPermit"}, {"carsPermit"})
        /\ PermitUp[3] = Turn("vehicles", {"bareCar"}, {})
        /\ PermitUp[4] = AddRule("vehicles", Coded("active_has_its_permit"))
    BY DEF PermitUp
  <2>3. command.done = 0 \/ command.done = 1 \/ command.done = 2 \/ command.done = 3
    BY <1>2, <2>1, <2>2
  <2>4. PlainUp(Create("vehicle_documents", {"vehicles"}, {}))
    BY StepsPlainUp
  <2>5. Turned(PermitUp[2], {"driversPermit"}, {"carsPermit"}) /\ Turned(PermitUp[3], {"bareCar"}, {})
    BY <2>2 DEF Turned, Turn
  <2>6. CASE command.done = 0
    BY <1>2, <2>1, <2>2, <2>4, <2>6 DEF PlainUp
  <2>7. CASE command.done = 1
    BY <1>2, <1>5, <2>1, <2>5, <2>7
  <2>8. CASE command.done = 2
    BY <1>2, <1>5, <2>1, <2>5, <2>8
  <2>9. CASE command.done = 3
    BY <1>2, <1>5, <2>1, <2>2, <2>9
  <2>10. QED BY <2>3, <2>6, <2>7, <2>8, <2>9
<1>6. CASE command.doing = "up" /\ command.revision = 18
  <2>1. Steps = OneOpenUp
    BY <1>6 DEF Steps, Upgrades
  <2>2. /\ Len(OneOpenUp) = 3 /\ OneOpenUp[1] = Turn("ride_requests", {"staleTwins"}, {})
        /\ OneOpenUp[2] = StopAt("ride_requests", {"liveTwins"})
        /\ OneOpenUp[3] = AddRule("ride_requests", Unique("passenger_id__open"))
    BY DEF OneOpenUp
  <2>3. command.done = 0 \/ command.done = 1 \/ command.done = 2
    BY <1>2, <2>1, <2>2
  <2>4. PlainUp(OneOpenUp[2]) /\ PlainUp(OneOpenUp[3])
    BY <2>2, StepsPlainUp
  <2>5. Turned(OneOpenUp[1], {"staleTwins"}, {})
    BY <2>2 DEF Turned, Turn
  <2>6. step = OneOpenUp[1] \/ PlainUp(step)
    BY <2>1, <2>3, <2>4
  <2>7. QED BY <1>2, <1>6, <2>5, <2>6 DEF PlainUp
<1>7. CASE command.doing = "down" /\ command.revision = 6
  <2>1. Steps = FaresDown
    BY <1>7 DEF Steps, Downgrades
  <2>2. /\ Len(FaresDown) = 4 /\ FaresDown[1] = Drop("fare_offers")
        /\ FaresDown[2] = DropRule("ride_requests", Check("offer_positive"))
        /\ FaresDown[3] = DropColumns("ride_requests", AskingColumns)
        /\ FaresDown[4] = Turn("ride_requests", {"asked"}, {"unpriced"})
    BY DEF FaresDown
  <2>3. command.done = 0 \/ command.done = 1 \/ command.done = 2 \/ command.done = 3
    BY <1>2, <2>1, <2>2
  <2>4. Plain(FaresDown[1]) /\ Plain(FaresDown[2]) /\ Plain(FaresDown[3])
    BY <2>2, StepsPlain
  <2>5. Turned(FaresDown[4], {"asked"}, {"unpriced"}) /\ FaresDown[4].table = "ride_requests"
    BY <2>2 DEF Turned, Turn
  <2>6. (command.done = 3 /\ step = FaresDown[4]) \/ Plain(step)
    BY <2>1, <2>3, <2>4
  <2>7. QED BY <1>2, <1>7, <2>5, <2>6
<1>8. CASE command.doing = "down" /\ command.revision = 7
  <2>1. Steps = PermitDown
    BY <1>8 DEF Steps, Downgrades
  <2>2. /\ Len(PermitDown) = 3
        /\ PermitDown[1] = Turn("driver_documents", {"carsPermit"}, {"driversPermit"})
        /\ PermitDown[2] = DropRule("vehicles", Coded("active_has_its_permit"))
        /\ PermitDown[3] = Drop("vehicle_documents")
    BY DEF PermitDown
  <2>3. command.done = 0 \/ command.done = 1 \/ command.done = 2
    BY <1>2, <2>1, <2>2
  <2>4. Plain(PermitDown[2]) /\ Plain(PermitDown[3])
    BY <2>2, StepsPlain
  <2>5. Turned(PermitDown[1], {"carsPermit"}, {"driversPermit"}) /\ PermitDown[1].table = "driver_documents"
    BY <2>2 DEF Turned, Turn
  <2>6. step = PermitDown[1] \/ Plain(step)
    BY <2>1, <2>3, <2>4
  <2>7. QED BY <1>2, <1>8, <2>5, <2>6
<1>9. QED BY <1>2, <1>3, <1>4, <1>5, <1>6, <1>7, <1>8

(* Every rule against a kind of row is a rule of that row's table.         *)
LEMMA AgainstItsTable ==
  ASSUME NEW k \in Kinds
  PROVE  /\ \A p \in Against(k) : p[1] = KindTable[k]
         /\ \A t, r : <<t, r>> \in Against(k) /\ r[1] = "code" =>
              k = "bareCar" /\ t = "vehicles" /\ r = Coded("active_has_its_permit")
<1>1. k \in {"samePlates", "bareCar", "deadStop", "asked", "unpriced", "liveTwins", "staleTwins",
             "noRoute", "noPhone", "sharedKey", "driversPermit", "carsPermit"}
  BY DEF Kinds, KindTable
<1> USE DEF Against, KindTable, Unique, NotNull, Check, Coded
<1>2. CASE k = "samePlates" BY <1>2
<1>3. CASE k = "bareCar" BY <1>3
<1>4. CASE k = "deadStop" BY <1>4
<1>5. CASE k = "unpriced" BY <1>5
<1>6. CASE k = "liveTwins" BY <1>6
<1>7. CASE k = "staleTwins" BY <1>7
<1>8. CASE k = "noRoute" BY <1>8
<1>9. CASE k = "noPhone" BY <1>9
<1>10. CASE k = "sharedKey" BY <1>10
<1>11. CASE k \in {"asked", "driversPermit", "carsPermit"} BY <1>11
<1>12. QED
  BY <1>1, <1>2, <1>3, <1>4, <1>5, <1>6, <1>7, <1>8, <1>9, <1>10, <1>11

(* A step's effect is on a schema, and where it changes the tables or adds a
   rule it has locked the table.                                           *)
LEMMA SchemaStep ==
  ASSUME NEW step, NEW s, IsSchema(s)
  PROVE  /\ IsSchema(After(step, s))
         /\ \A t \in s.tables : t \in After(step, s).tables \cup Locks(step)
         /\ \A p \in After(step, s).rules : p \in s.rules \/ p[1] \in Locks(step)
<1> USE DEF IsSchema, InTable
<1>1. CASE step.does = "create"
  BY <1>1 DEF After, Locks
<1>2. CASE step.does = "drop"
  BY <1>2 DEF After, Locks
<1>3. CASE step.does = "add_columns"
  BY <1>3 DEF After, Locks
<1>4. CASE step.does = "drop_columns"
  BY <1>4 DEF After, Locks
<1>5. CASE step.does = "add_rule"
  BY <1>5 DEF After, Locks
<1>6. CASE step.does = "drop_rule"
  BY <1>6 DEF After, Locks
<1>7. CASE step.does = "add_ref"
  BY <1>7 DEF After, Locks
<1>8. CASE step.does = "drop_ref"
  BY <1>8 DEF After, Locks
<1>9. CASE step.does \notin {"create", "drop", "add_columns", "drop_columns", "add_rule",
                             "drop_rule", "add_ref", "drop_ref"}
  <2>1. After(step, s) = s
    BY <1>9 DEF After
  <2>2. QED BY <2>1
<1>10. QED BY <1>1, <1>2, <1>3, <1>4, <1>5, <1>6, <1>7, <1>8, <1>9

(* A plain step that applies keeps rows and schema fitting.                *)
LEMMA PlainFits ==
  ASSUME NEW step, NEW s, NEW kinds \in SUBSET Kinds, IsSchema(s), Fits(s, kinds), Plain(step),
         Applies(step, s, kinds)
  PROVE  /\ Fits(After(step, s), TurnedRows(step, kinds))
         /\ TurnedRows(step, kinds) \subseteq kinds
         /\ step.does # "drop" => TurnedRows(step, kinds) = kinds
<1> DEFINE t == step.table
<1>0. \A k \in kinds : \A p \in Against(k) : p[1] = KindTable[k]
  BY AgainstItsTable
<1>1. CASE step.does = "create"
  <2>1. TurnedRows(step, kinds) = kinds
    BY <1>1 DEF TurnedRows
  <2>2. /\ After(step, s).tables = s.tables \cup {t}
        /\ After(step, s).refs = s.refs \cup InTable(t, step.refs)
        /\ After(step, s).rules = s.rules \cup InTable(t, step.of)
    BY <1>1 DEF After
  <2>3. t \notin s.tables /\ step.refs \subseteq s.tables \cup {t}
    BY <1>1 DEF Applies
  <2>4. QED BY <1>0, <1>1, <2>1, <2>2, <2>3 DEF Fits, InTable
<1>2. CASE step.does = "drop"
  <2>1. TurnedRows(step, kinds) = {k \in kinds : KindTable[k] # t}
    BY <1>2 DEF TurnedRows
  <2>2. /\ After(step, s).tables = s.tables \ {t}
        /\ After(step, s).refs = {p \in s.refs : p[1] # t}
        /\ After(step, s).rules = {p \in s.rules : p[1] # t}
    BY <1>2 DEF After
  <2>3. \A u \in s.tables \ {t} : <<u, t>> \notin s.refs
    BY <1>2 DEF Applies
  <2>4. QED BY <1>2, <2>1, <2>2, <2>3 DEF Fits
<1>3. CASE step.does = "add_rule"
  <2>1. TurnedRows(step, kinds) = kinds
    BY <1>3 DEF TurnedRows
  <2>2. /\ After(step, s).tables = s.tables /\ After(step, s).refs = s.refs
        /\ After(step, s).rules = s.rules \cup InTable(t, step.of)
    BY <1>3 DEF After, IsSchema
  <2>3. \A r \in step.of : \A k \in kinds : <<t, r>> \notin Against(k)
    <3>1. \A r \in step.of : r[1] # "code"
      BY <1>3 DEF Plain
    <3>2. \A r \in step.of : r[1] # "code" => \A k \in kinds : <<t, r>> \notin Against(k)
      BY <1>3 DEF Applies
    <3>3. QED BY <3>1, <3>2
  <2>4. QED BY <1>3, <2>1, <2>2, <2>3 DEF Fits, InTable
<1>4. CASE step.does = "add_ref"
  <2>1. TurnedRows(step, kinds) = kinds
    BY <1>4 DEF TurnedRows
  <2>2. /\ After(step, s).tables = s.tables /\ After(step, s).rules = s.rules
        /\ After(step, s).refs = s.refs \cup InTable(t, step.refs)
    BY <1>4 DEF After, IsSchema
  <2>3. {t} \cup step.refs \subseteq s.tables
    BY <1>4 DEF Applies
  <2>4. QED BY <1>4, <2>1, <2>2, <2>3 DEF Fits, InTable
<1>5. CASE step.does \notin {"create", "drop", "add_rule", "add_ref"}
  <2>1. TurnedRows(step, kinds) = kinds
    BY <1>5 DEF TurnedRows, Plain
  <2>2. /\ After(step, s).tables = s.tables /\ After(step, s).refs \subseteq s.refs
        /\ After(step, s).rules \subseteq s.rules
    <3>1. CASE step.does = "add_columns"
      BY <3>1 DEF After, IsSchema
    <3>2. CASE step.does = "drop_columns"
      BY <3>2 DEF After, IsSchema
    <3>3. CASE step.does = "drop_rule"
      BY <3>3 DEF After, IsSchema
    <3>4. CASE step.does = "drop_ref"
      BY <3>4 DEF After, IsSchema
    <3>5. CASE step.does \notin {"add_columns", "drop_columns", "drop_rule", "drop_ref"}
      <4>1. After(step, s) = s
        BY <1>5, <3>5 DEF After
      <4>2. QED BY <4>1
    <3>6. QED BY <3>1, <3>2, <3>3, <3>4, <3>5
  <2>3. QED BY <1>5, <2>1, <2>2 DEF Fits
<1>6. QED BY <1>1, <1>2, <1>3, <1>4, <1>5

(* So does a turn whose new rows fit.                                      *)
LEMMA TurnFits ==
  ASSUME NEW step, NEW s, NEW kinds \in SUBSET Kinds, NEW old, NEW new, IsSchema(s),
         Fits(s, kinds), Fits(s, new), Turned(step, old, new)
  PROVE  /\ Fits(After(step, s), TurnedRows(step, kinds)) /\ After(step, s) = s
         /\ TurnedRows(step, kinds) = IF old \cap kinds # {} THEN (kinds \ old) \cup new ELSE kinds
<1>1. After(step, s) = s
  BY DEF Turned, After
<1>2. TurnedRows(step, kinds) = IF old \cap kinds # {} THEN (kinds \ old) \cup new ELSE kinds
  BY DEF Turned, TurnedRows
<1>3. QED BY <1>1, <1>2 DEF Fits

(* And the promise the use cases keep, once no row breaks it.              *)
LEMMA PromiseFits ==
  ASSUME NEW step, NEW s, NEW kinds \in SUBSET Kinds, IsSchema(s), Fits(s, kinds),
         step = AddRule("vehicles", Coded("active_has_its_permit")), "bareCar" \notin kinds
  PROVE  /\ Fits(After(step, s), TurnedRows(step, kinds))
         /\ TurnedRows(step, kinds) = kinds
<1> DEFINE promise == <<"vehicles", Coded("active_has_its_permit")>>
<1>1. step.does = "add_rule" /\ step.table = "vehicles"
      /\ step.of = {Coded("active_has_its_permit")}
  BY DEF AddRule
<1>2. TurnedRows(step, kinds) = kinds
  BY <1>1 DEF TurnedRows
<1>3. /\ After(step, s).tables = s.tables /\ After(step, s).refs = s.refs
      /\ After(step, s).rules = s.rules \cup {promise}
  BY <1>1 DEF After, IsSchema, InTable
<1>4. Coded("active_has_its_permit")[1] = "code"
  BY DEF Coded
<1>5. \A k \in kinds : promise \notin Against(k)
  BY <1>4, AgainstItsTable
<1>6. QED BY <1>2, <1>3, <1>5 DEF Fits

(* How a command's step changes it.                                        *)
LEMMA CommandRuns ==
  ASSUME MigrationsTypeOK, RunStep, NEW step, step = Steps[command.done + 1]
  PROVE  /\ command.doing # "none" /\ ~Arrived /\ command.done < Len(Steps)
         /\ Applies(step, command.schema, Seen)
         /\ command'.doing = command.doing /\ command'.to = command.to
         /\ command'.revision = command.revision /\ command'.done = command.done + 1
         /\ command'.schema = After(step, command.schema)
         /\ Seen' = TurnedRows(step, Seen)
         /\ command'.locked = command.locked \cup Locks(step)
         /\ UNCHANGED <<schema, revision, rows>>
         /\ command' = [doing |-> command'.doing, to |-> command'.to,
                        revision |-> command'.revision, done |-> command'.done,
                        schema |-> command'.schema, gone |-> command'.gone,
                        came |-> command'.came, locked |-> command'.locked]
<1> DEFINE kinds == TurnedRows(step, Seen)  made == After(step, command.schema)
           free == command.locked \cup Locks(step)
<1>1. /\ command.doing # "none" /\ ~Arrived /\ command.done < Len(Steps)
      /\ Applies(step, command.schema, Seen)
      /\ command' = [command EXCEPT !.done = command.done + 1, !.schema = made,
                       !.gone = rows \ kinds, !.came = kinds \ rows, !.locked = free]
      /\ UNCHANGED <<schema, revision, rows>>
  BY DEF RunStep
<1> HIDE DEF kinds, made, free
<1>2. command = [doing |-> command.doing, to |-> command.to, revision |-> command.revision,
                 done |-> command.done, schema |-> command.schema, gone |-> command.gone,
                 came |-> command.came, locked |-> command.locked]
  BY DEF MigrationsTypeOK
<1>3. /\ command'.doing = command.doing /\ command'.to = command.to
      /\ command'.revision = command.revision /\ command'.done = command.done + 1
      /\ command'.schema = made /\ command'.gone = rows \ kinds /\ command'.came = kinds \ rows
      /\ command'.locked = free
      /\ command' = [doing |-> command'.doing, to |-> command'.to,
                     revision |-> command'.revision, done |-> command'.done,
                     schema |-> command'.schema, gone |-> command'.gone,
                     came |-> command'.came, locked |-> command'.locked]
  BY <1>1, <1>2
<1>4. Seen' = (rows \ (rows \ kinds)) \cup (kinds \ rows)
  BY <1>1, <1>3 DEF Seen
<1>5. Seen' = kinds
  BY <1>4
<1>6. QED BY <1>1, <1>3, <1>5 DEF kinds, made, free

(* A step leaves what it makes of the schema and the rows fitting, and no
   permit is lost on the way up.                                           *)
LEMMA RunKeepsFits ==
  ASSUME MigrationsInv, RunStep
  PROVE  Fits(command'.schema, Seen') /\ Seen' \subseteq Kinds /\ PermitsUnderWay'
<1> DEFINE step == Steps[command.done + 1]
<1>1. MigrationsTypeOK /\ command.doing # "none" /\ Fits(command.schema, Seen)
      /\ IsSchema(command.schema) /\ Seen \in SUBSET Kinds
  BY DEF MigrationsInv, MigrationsTypeOK, RunStep
<1>2. /\ ~Arrived /\ command.done < Len(Steps)
      /\ Applies(step, command.schema, Seen)
      /\ command'.doing = command.doing /\ command'.schema = After(step, command.schema)
      /\ Seen' = TurnedRows(step, Seen) /\ rows' = rows
  BY <1>1, CommandRuns
<1>3. PermitsUnderWay /\ PermitMoves /\ FaresReturn
  BY DEF MigrationsInv
<1> HIDE DEF step
<1>4. CASE Plain(step) /\ (command.doing = "up" => step.does # "drop")
  <2>1. /\ Fits(After(step, command.schema), TurnedRows(step, Seen))
        /\ TurnedRows(step, Seen) \subseteq Seen
        /\ step.does # "drop" => TurnedRows(step, Seen) = Seen
    BY <1>1, <1>2, <1>4, PlainFits
  <2>2. QED BY <1>1, <1>2, <1>3, <1>4, <2>1 DEF PermitsUnderWay
<1>5. /\ "unpriced" \in Kinds /\ KindTable["unpriced"] = "ride_requests"
      /\ Against("unpriced") = {<<"ride_requests", Check("offer_positive")>>}
      /\ "carsPermit" \in Kinds /\ KindTable["carsPermit"] = "vehicle_documents"
      /\ Against("carsPermit") = {}
      /\ "driversPermit" \in Kinds /\ KindTable["driversPermit"] = "driver_documents"
      /\ Against("driversPermit") = {}
  BY DEF Kinds, KindTable, Against
<1>6. ASSUME NEW old, NEW new, Turned(step, old, new), new \subseteq Kinds,
             \A k \in new : /\ KindTable[k] \in command.schema.tables
                            /\ Against(k) \cap command.schema.rules = {},
             command.doing = "up" => old \cap Permits = {} \/ new \cap Permits # {}
      PROVE  Fits(command'.schema, Seen') /\ Seen' \subseteq Kinds /\ PermitsUnderWay'
  <2>1. /\ Fits(After(step, command.schema), TurnedRows(step, Seen))
        /\ TurnedRows(step, Seen) = IF old \cap Seen # {} THEN (Seen \ old) \cup new ELSE Seen
    <3>1. Fits(command.schema, new)
      BY <1>1, <1>6 DEF Fits
    <3>2. Turned(step, old, new)
      BY <1>6
    <3>3. QED BY <1>1, <3>1, <3>2, TurnFits
  <2>2. QED BY <1>1, <1>2, <1>3, <1>6, <2>1 DEF PermitsUnderWay
<1>7. step.does = "turn" => step.table \in command.schema.tables
  BY <1>2 DEF Applies
<1>8. CASE /\ command.doing = "up" /\ command.revision = 6 /\ command.done = 1
           /\ Turned(step, {"driversPermit"}, {"carsPermit"})
  <2>1. "vehicle_documents" \in command.schema.tables
    BY <1>3, <1>8 DEF PermitMoves
  <2>2. QED BY <1>5, <1>6, <1>8, <2>1 DEF Permits
<1>9. CASE command.doing = "up" /\ Turned(step, {"bareCar"}, {})
  BY <1>6, <1>9 DEF Permits
<1>10. CASE command.doing = "up" /\ Turned(step, {"staleTwins"}, {})
  BY <1>6, <1>10 DEF Permits
<1>11. CASE /\ command.doing = "up" /\ command.revision = 6 /\ command.done = 3
            /\ step = AddRule("vehicles", Coded("active_has_its_permit"))
  <2>1. "bareCar" \notin Seen
    BY <1>3, <1>11 DEF PermitMoves
  <2>2. /\ Fits(After(step, command.schema), TurnedRows(step, Seen))
        /\ TurnedRows(step, Seen) = Seen
    BY <1>1, <1>11, <2>1, PromiseFits
  <2>3. QED BY <1>1, <1>2, <1>3, <2>2 DEF PermitsUnderWay
<1>12. CASE /\ command.doing = "down" /\ command.revision = 6 /\ command.done = 3
            /\ Turned(step, {"asked"}, {"unpriced"}) /\ step.table = "ride_requests"
  <2>1. <<"ride_requests", Check("offer_positive")>> \notin command.schema.rules
    BY <1>3, <1>12 DEF FaresReturn
  <2>2. "ride_requests" \in command.schema.tables
    BY <1>7, <1>12 DEF Turned
  <2>3. QED BY <1>5, <1>6, <1>12, <2>1, <2>2
<1>13. CASE /\ command.doing = "down" /\ Turned(step, {"carsPermit"}, {"driversPermit"})
            /\ step.table = "driver_documents"
  <2>1. "driver_documents" \in command.schema.tables
    BY <1>7, <1>13 DEF Turned
  <2>2. QED BY <1>5, <1>6, <1>13, <2>1
<1>14. QED
  BY <1>1, <1>2, <1>4, <1>8, <1>9, <1>10, <1>11, <1>12, <1>13, NextStep DEF step

(* The permits' own revision locks the cars first, and lets no car without
   one through.                                                            *)
LEMMA RunKeepsPermits ==
  ASSUME MigrationsInv, RunStep
  PROVE  PermitMoves'
<1> DEFINE step == Steps[command.done + 1]
<1>1. MigrationsTypeOK /\ PermitMoves /\ command.done \in Nat
  BY DEF MigrationsInv, MigrationsTypeOK
<1>2. /\ command.done < Len(Steps) /\ command'.doing = command.doing
      /\ command'.revision = command.revision /\ command'.done = command.done + 1
      /\ command'.schema = After(step, command.schema) /\ Seen' = TurnedRows(step, Seen)
      /\ command'.locked = command.locked \cup Locks(step)
  BY <1>1, CommandRuns
<1>3. SUFFICES ASSUME command.doing = "up", command.revision = 6
               PROVE  /\ "vehicles" \in command'.locked
                      /\ "vehicle_documents" \in command'.schema.tables
                      /\ command'.done > 2 => "bareCar" \notin Seen'
  BY <1>2 DEF PermitMoves
<1>4. Steps = PermitUp
  BY <1>3 DEF Steps, Upgrades
<1>5. /\ Len(PermitUp) = 4
      /\ PermitUp[1] = Create("vehicle_documents", {"vehicles"}, {})
      /\ PermitUp[2] = Turn("driver_documents", {"driversPermit"}, {"carsPermit"})
      /\ PermitUp[3] = Turn("vehicles", {"bareCar"}, {})
      /\ PermitUp[4] = AddRule("vehicles", Coded("active_has_its_permit"))
  BY DEF PermitUp
<1>6. command.done = 0 \/ command.done = 1 \/ command.done = 2 \/ command.done = 3
  BY <1>1, <1>2, <1>4, <1>5
<1>7. CASE command.done = 0
  <2>1. step = Create("vehicle_documents", {"vehicles"}, {})
    BY <1>4, <1>5, <1>7
  <2>2. /\ step.does = "create" /\ step.table = "vehicle_documents" /\ step.refs = {"vehicles"}
    BY <2>1 DEF Create
  <2> HIDE DEF step
  <2>3. Locks(step) = {"vehicle_documents", "vehicles"}
    BY <2>2 DEF Locks
  <2>4. After(step, command.schema).tables = command.schema.tables \cup {"vehicle_documents"}
    BY <2>2 DEF After
  <2>5. QED BY <1>2, <1>7, <2>3, <2>4
<1>8. ASSUME command.done > 0
      PROVE  /\ "vehicles" \in command.locked /\ "vehicle_documents" \in command.schema.tables
             /\ command.done > 2 => "bareCar" \notin Seen
  BY <1>1, <1>3, <1>8 DEF PermitMoves
<1>9. CASE command.done = 1
  <2>1. Turned(step, {"driversPermit"}, {"carsPermit"})
    BY <1>4, <1>5, <1>9 DEF Turned, Turn
  <2> HIDE DEF step
  <2>2. After(step, command.schema) = command.schema
    BY <2>1 DEF Turned, After
  <2>3. QED BY <1>2, <1>8, <1>9, <2>2
<1>10. CASE command.done = 2
  <2>1. Turned(step, {"bareCar"}, {})
    BY <1>4, <1>5, <1>10 DEF Turned, Turn
  <2> HIDE DEF step
  <2>2. After(step, command.schema) = command.schema
    BY <2>1 DEF Turned, After
  <2>3. "bareCar" \notin TurnedRows(step, Seen)
    BY <2>1 DEF Turned, TurnedRows
  <2>4. QED BY <1>2, <1>8, <1>10, <2>2, <2>3
<1>11. CASE command.done = 3
  <2>1. step.does = "add_rule"
    BY <1>4, <1>5, <1>11 DEF AddRule
  <2>2. IsSchema(command.schema)
    BY <1>1 DEF MigrationsTypeOK
  <2> HIDE DEF step
  <2>3. After(step, command.schema).tables = command.schema.tables
    BY <2>1, <2>2 DEF After, IsSchema
  <2>4. TurnedRows(step, Seen) = Seen
    BY <2>1 DEF TurnedRows
  <2>5. QED BY <1>2, <1>8, <1>11, <2>3, <2>4
<1>12. QED BY <1>6, <1>7, <1>9, <1>10, <1>11

(* The fares' way down has dropped the check before it takes the asking
   price away.                                                             *)
LEMMA RunKeepsFares ==
  ASSUME MigrationsInv, RunStep
  PROVE  FaresReturn'
<1> DEFINE step == Steps[command.done + 1]
           check == <<"ride_requests", Check("offer_positive")>>
<1>1. MigrationsTypeOK /\ FaresReturn /\ command.done \in Nat /\ IsSchema(command.schema)
  BY DEF MigrationsInv, MigrationsTypeOK
<1>2. /\ command'.doing = command.doing /\ command'.revision = command.revision
      /\ command'.done = command.done + 1 /\ command'.schema = After(step, command.schema)
  BY <1>1, CommandRuns
<1>3. SUFFICES ASSUME command.doing = "down", command.revision = 6, command'.done \in {2, 3}
               PROVE  check \notin After(step, command.schema).rules
  BY <1>2 DEF FaresReturn
<1>4. Steps = FaresDown
  BY <1>3 DEF Steps, Downgrades
<1>5. /\ FaresDown[2] = DropRule("ride_requests", Check("offer_positive"))
      /\ FaresDown[3] = DropColumns("ride_requests", AskingColumns)
  BY DEF FaresDown
<1>6. command.done = 1 \/ command.done = 2
  BY <1>1, <1>2, <1>3
<1>7. CASE command.done = 1
  <2>1. /\ step.does = "drop_rule" /\ step.table = "ride_requests"
        /\ step.of = {Check("offer_positive")}
    BY <1>4, <1>5, <1>7 DEF DropRule
  <2> HIDE DEF step
  <2>2. After(step, command.schema).rules = command.schema.rules \ {check}
    BY <1>1, <2>1 DEF After, IsSchema, InTable
  <2>3. QED BY <2>2
<1>8. CASE command.done = 2
  <2>1. step.does = "drop_columns"
    BY <1>4, <1>5, <1>8 DEF DropColumns
  <2> HIDE DEF step
  <2>2. After(step, command.schema).rules = command.schema.rules
    BY <1>1, <2>1 DEF After, IsSchema
  <2>3. check \notin command.schema.rules
    BY <1>1, <1>3, <1>8 DEF FaresReturn
  <2>4. QED BY <2>2, <2>3
<1>9. QED BY <1>6, <1>7, <1>8

(* A step of a command.                                                    *)
LEMMA RunKeeps ==
  ASSUME MigrationsInv, RunStep
  PROVE  MigrationsInv'
<1> DEFINE step == Steps[command.done + 1]
<1>1. MigrationsTypeOK /\ command.doing # "none" /\ IsSchema(command.schema) /\ RowsFitTheSchema
      /\ ChangesAreLocked /\ command.done \in Nat
  BY DEF MigrationsInv, MigrationsTypeOK, RunStep
<1>2. /\ command'.doing = command.doing /\ command'.to = command.to
      /\ command'.revision = command.revision /\ command'.done = command.done + 1
      /\ command'.schema = After(step, command.schema)
      /\ command'.locked = command.locked \cup Locks(step)
      /\ UNCHANGED <<schema, revision, rows>>
      /\ command' = [doing |-> command'.doing, to |-> command'.to,
                     revision |-> command'.revision, done |-> command'.done,
                     schema |-> command'.schema, gone |-> command'.gone,
                     came |-> command'.came, locked |-> command'.locked]
  BY <1>1, CommandRuns
<1>3. Fits(command'.schema, Seen') /\ Seen' \subseteq Kinds /\ PermitsUnderWay'
  BY RunKeepsFits
<1>4. /\ IsSchema(command'.schema)
      /\ \A t \in command.schema.tables : t \in command'.schema.tables \cup Locks(step)
      /\ \A p \in command'.schema.rules : p \in command.schema.rules \/ p[1] \in Locks(step)
  BY <1>1, <1>2, SchemaStep
<1>5. ChangesAreLocked'
  BY <1>1, <1>2, <1>4 DEF ChangesAreLocked
<1>6. RowsFitTheSchema'
  BY <1>1, <1>2 DEF RowsFitTheSchema, ReferencesResolve, RowsHaveTables, RulesHoldOnRows
<1>7. MigrationsTypeOK'
  <2>1. /\ IsSchema(schema) /\ revision \in 0..Newest /\ rows \subseteq Kinds
        /\ command.doing \in {"none", "up", "down"}
        /\ command.revision \in 0..Newest /\ command.to \in 0..Newest
        /\ command.doing = "up" => command.revision <= command.to
        /\ command.doing = "down" => command.revision >= command.to
    BY <1>1 DEF MigrationsTypeOK
  <2>2. IsSchema(schema)' /\ Newest' = Newest /\ IsSchema(command.schema)'
    BY <1>2, <1>4, <2>1 DEF IsSchema
  <2>3. command'.done \in Nat
    BY <1>1, <1>2
  <2> HIDE DEF step
  <2>4. QED BY <1>2, <1>3, <2>1, <2>2, <2>3 DEF MigrationsTypeOK
<1>8. Fits(command.schema, Seen)'
  BY <1>3 DEF Fits
<1>9. QED
  BY <1>1, <1>2, <1>3, <1>5, <1>6, <1>7, <1>8, RunKeepsPermits, RunKeepsFares DEF MigrationsInv

(* A command is given, between two revisions, ended or undone.             *)
LEMMA CommandsKeep ==
  ASSUME MigrationsInv, Upgrade \/ Downgrade \/ NextRevision \/ Commit \/ GiveUp
  PROVE  MigrationsInv'
<1> USE DEF MigrationsInv
<1>1. Newest = 19
  BY DEF Newest, Upgrades
<1>2. /\ IsSchema(schema) /\ IsSchema(command.schema) /\ revision \in 0..19 /\ rows \subseteq Kinds
      /\ command = [doing |-> command.doing, to |-> command.to, revision |-> command.revision,
                    done |-> command.done, schema |-> command.schema, gone |-> command.gone,
                    came |-> command.came, locked |-> command.locked]
      /\ command.doing \in {"none", "up", "down"} /\ command.done \in Nat
      /\ command.revision \in 0..19 /\ command.to \in 0..19
      /\ command.doing = "up" => command.revision <= command.to
      /\ command.doing = "down" => command.revision >= command.to
      /\ Seen \subseteq Kinds
  BY <1>1 DEF MigrationsTypeOK
<1>3. IsSchema(Empty)
  BY DEF IsSchema, Empty
<1>4. ASSUME NEW doing \in {"up", "down"}, NEW to \in 0..19, Begin(doing, to),
             IF doing = "up" THEN revision <= to ELSE revision >= to
      PROVE  MigrationsInv'
  <2>1. /\ UNCHANGED <<schema, revision, rows>>
        /\ command' = [doing |-> doing, to |-> to, revision |-> revision, done |-> 0,
                       schema |-> schema, gone |-> {}, came |-> {}, locked |-> {}]
    BY <1>4 DEF Begin, Idle
  <2>2. Seen' = rows
    BY <2>1 DEF Seen
  <2>3. MigrationsTypeOK'
    BY <1>1, <1>2, <1>4, <2>1, <2>2 DEF MigrationsTypeOK, IsSchema
  <2>4. RowsFitTheSchema' /\ Fits(command.schema, Seen)' /\ ChangesAreLocked'
    BY <2>1, <2>2 DEF RowsFitTheSchema, ReferencesResolve, RowsHaveTables, RulesHoldOnRows, Fits,
                      ChangesAreLocked
  <2>5. PermitMoves' /\ FaresReturn' /\ PermitsUnderWay'
    BY <2>1, <2>2 DEF PermitMoves, FaresReturn, PermitsUnderWay
  <2>6. QED BY <1>4, <2>1, <2>3, <2>4, <2>5
<1>5. CASE Upgrade
  <2>1. PICK to \in {revision + 1, Newest} : Begin("up", to)
    BY <1>5 DEF Upgrade
  <2>2. to \in 0..19 /\ revision <= to
    BY <1>1, <1>2, <1>5, <2>1 DEF Upgrade
  <2>3. QED BY <1>4, <2>1, <2>2
<1>6. CASE Downgrade
  <2>1. Begin("down", revision - 1) /\ revision - 1 \in 0..19 /\ revision >= revision - 1
    BY <1>2, <1>6 DEF Downgrade
  <2>2. QED BY <1>4, <2>1
<1>7. CASE NextRevision
  <2> DEFINE on == IF command.doing = "up" THEN command.revision + 1 ELSE command.revision - 1
  <2>1. /\ command' = [command EXCEPT !.done = 0, !.revision = on]
        /\ UNCHANGED <<schema, revision, rows>> /\ command.doing # "none"
        /\ command.revision # command.to
    BY <1>7 DEF NextRevision, Arrived
  <2>2. /\ on \in 0..19
        /\ command.doing = "up" => on <= command.to
        /\ command.doing = "down" => on >= command.to
    BY <1>2, <2>1
  <2> HIDE DEF on
  <2>3. /\ command'.doing = command.doing /\ command'.to = command.to /\ command'.revision = on
        /\ command'.done = 0 /\ command'.schema = command.schema
        /\ command'.gone = command.gone /\ command'.came = command.came
        /\ command'.locked = command.locked
        /\ command' = [doing |-> command'.doing, to |-> command'.to,
                       revision |-> command'.revision, done |-> command'.done,
                       schema |-> command'.schema, gone |-> command'.gone,
                       came |-> command'.came, locked |-> command'.locked]
    BY <1>2, <2>1
  <2>4. Seen' = Seen
    BY <2>1, <2>3 DEF Seen
  <2>5. MigrationsTypeOK'
    BY <1>1, <1>2, <2>1, <2>2, <2>3, <2>4 DEF MigrationsTypeOK, IsSchema
  <2>6. RowsFitTheSchema' /\ Fits(command.schema, Seen)' /\ ChangesAreLocked'
    BY <2>1, <2>3, <2>4
       DEF RowsFitTheSchema, ReferencesResolve, RowsHaveTables, RulesHoldOnRows, Fits,
           ChangesAreLocked
  <2>7. PermitMoves' /\ FaresReturn' /\ PermitsUnderWay'
    BY <2>1, <2>3, <2>4 DEF PermitMoves, FaresReturn, PermitsUnderWay
  <2>8. QED BY <2>1, <2>3, <2>5, <2>6, <2>7
<1>8. CASE Commit
  <2>1. /\ command.doing # "none" /\ schema' = command.schema /\ revision' = command.to
        /\ rows' = Seen /\ command' = Idle
    BY <1>8 DEF Commit
  <2>2. Seen' = Seen
    BY <2>1 DEF Seen, Idle
  <2>3. MigrationsTypeOK'
    BY <1>1, <1>2, <1>3, <2>1, <2>2 DEF MigrationsTypeOK, IsSchema, Idle
  <2>4. RowsFitTheSchema'
    BY <2>1 DEF RowsFitTheSchema, ReferencesResolve, RowsHaveTables, RulesHoldOnRows, Fits
  <2>5. command'.doing = "none"
    BY <2>1 DEF Idle
  <2>6. QED BY <2>1, <2>3, <2>4, <2>5 DEF PermitMoves, FaresReturn, PermitsUnderWay, Idle
<1>9. CASE GiveUp
  <2>1. UNCHANGED <<schema, revision, rows>> /\ command' = Idle
    BY <1>9 DEF GiveUp
  <2>2. Seen' = rows
    BY <2>1 DEF Seen, Idle
  <2>3. MigrationsTypeOK'
    BY <1>1, <1>2, <1>3, <2>1, <2>2 DEF MigrationsTypeOK, IsSchema, Idle
  <2>4. RowsFitTheSchema'
    BY <2>1 DEF RowsFitTheSchema, ReferencesResolve, RowsHaveTables, RulesHoldOnRows
  <2>5. command'.doing = "none"
    BY <2>1 DEF Idle
  <2>6. QED BY <2>1, <2>3, <2>4, <2>5 DEF PermitMoves, FaresReturn, PermitsUnderWay, Idle
<1>10. QED BY <1>5, <1>6, <1>7, <1>8, <1>9

(* The service writes a row: its table is unlocked, so what the command has
   made of the schema has the table, and no rule there but the committed ones. *)
LEMMA WritesKeep ==
  ASSUME MigrationsInv, NEW k \in Kinds, ServiceWrites(k)
  PROVE  MigrationsInv'
<1> DEFINE left == command.gone \ {k}
<1>1. /\ KindTable[k] \in schema.tables \ command.locked /\ Against(k) \cap schema.rules = {}
      /\ rows' = rows \cup {k} /\ command' = [command EXCEPT !.gone = left]
      /\ UNCHANGED <<schema, revision>>
  BY DEF ServiceWrites, Writable
<1>2. /\ MigrationsTypeOK /\ RowsFitTheSchema
      /\ command = [doing |-> command.doing, to |-> command.to, revision |-> command.revision,
                    done |-> command.done, schema |-> command.schema, gone |-> command.gone,
                    came |-> command.came, locked |-> command.locked]
  BY DEF MigrationsInv, MigrationsTypeOK
<1> HIDE DEF left
<1>3. /\ command'.doing = command.doing /\ command'.to = command.to
      /\ command'.revision = command.revision /\ command'.done = command.done
      /\ command'.schema = command.schema /\ command'.gone = left
      /\ command'.came = command.came /\ command'.locked = command.locked
      /\ command' = [doing |-> command'.doing, to |-> command'.to,
                     revision |-> command'.revision, done |-> command'.done,
                     schema |-> command'.schema, gone |-> command'.gone,
                     came |-> command'.came, locked |-> command'.locked]
  BY <1>1, <1>2
<1>4. Seen' = Seen \cup {k}
  BY <1>1, <1>3 DEF Seen, left
<1>5. MigrationsTypeOK'
  BY <1>1, <1>2, <1>3, <1>4 DEF MigrationsTypeOK, IsSchema, Newest
<1>6. RowsFitTheSchema'
  BY <1>1, <1>2 DEF RowsFitTheSchema, ReferencesResolve, RowsHaveTables, RulesHoldOnRows
<1>7. command'.doing = "none" => command' = Idle
  <2>1. SUFFICES ASSUME command.doing = "none" PROVE command' = Idle
    BY <1>3
  <2>2. command = Idle
    BY <2>1 DEF MigrationsInv
  <2>3. left = command.gone
    BY <2>2 DEF left, Idle
  <2>4. QED BY <1>2, <1>3, <2>2, <2>3
<1>8. ASSUME command.doing # "none"
      PROVE  Fits(command.schema, Seen)' /\ ChangesAreLocked'
  <2>1. Fits(command.schema, Seen) /\ ChangesAreLocked
    BY <1>8 DEF MigrationsInv
  <2>2. KindTable[k] \in command.schema.tables
    BY <1>1, <2>1 DEF ChangesAreLocked
  <2>3. \A p \in Against(k) : p \notin command.schema.rules
    BY <1>1, <2>1, AgainstItsTable DEF ChangesAreLocked
  <2>4. QED BY <1>1, <1>3, <1>4, <2>1, <2>2, <2>3 DEF Fits, ChangesAreLocked
<1>9. PermitMoves'
  <2>1. k = "bareCar" => KindTable[k] = "vehicles"
    BY DEF KindTable
  <2>2. PermitMoves
    BY DEF MigrationsInv
  <2>3. QED BY <1>1, <1>3, <1>4, <2>1, <2>2 DEF PermitMoves
<1>10. FaresReturn' /\ PermitsUnderWay'
  BY <1>1, <1>3, <1>4 DEF MigrationsInv, FaresReturn, PermitsUnderWay
<1>11. QED BY <1>3, <1>5, <1>6, <1>7, <1>8, <1>9, <1>10 DEF MigrationsInv

(* A second request passes its deadline: a row like the one it was.        *)
LEMMA DeadlineKeeps ==
  ASSUME MigrationsInv, DeadlinePasses
  PROVE  MigrationsInv'
<1> DEFINE left == IF "liveTwins" \in command.gone THEN command.gone \cup {"staleTwins"}
                   ELSE command.gone \ {"staleTwins"}
<1>1. /\ "liveTwins" \in rows /\ rows' = (rows \ {"liveTwins"}) \cup {"staleTwins"}
      /\ command' = [command EXCEPT !.gone = left] /\ UNCHANGED <<schema, revision>>
  BY DEF DeadlinePasses
<1>2. /\ MigrationsTypeOK /\ RowsFitTheSchema
      /\ command = [doing |-> command.doing, to |-> command.to, revision |-> command.revision,
                    done |-> command.done, schema |-> command.schema, gone |-> command.gone,
                    came |-> command.came, locked |-> command.locked]
  BY DEF MigrationsInv, MigrationsTypeOK
<1>3. left = IF "liveTwins" \in command.gone THEN command.gone \cup {"staleTwins"}
             ELSE command.gone \ {"staleTwins"}
  OBVIOUS
<1> HIDE DEF left
<1>4. /\ command'.doing = command.doing /\ command'.to = command.to
      /\ command'.revision = command.revision /\ command'.done = command.done
      /\ command'.schema = command.schema /\ command'.gone = left
      /\ command'.came = command.came /\ command'.locked = command.locked
      /\ command' = [doing |-> command'.doing, to |-> command'.to,
                     revision |-> command'.revision, done |-> command'.done,
                     schema |-> command'.schema, gone |-> command'.gone,
                     came |-> command'.came, locked |-> command'.locked]
  BY <1>1, <1>2
<1>5. /\ "staleTwins" \in Kinds /\ KindTable["staleTwins"] = KindTable["liveTwins"]
      /\ Against("staleTwins") = Against("liveTwins")
  BY DEF Kinds, KindTable, Against
<1>6. /\ Seen' \subseteq Seen \cup {"staleTwins"}
      /\ "staleTwins" \in Seen' => "staleTwins" \in Seen \/ "liveTwins" \in Seen
      /\ Seen' \cap Permits = Seen \cap Permits /\ rows' \cap Permits = rows \cap Permits
  BY <1>1, <1>3, <1>4 DEF Seen, Permits
<1>7. MigrationsTypeOK'
  BY <1>1, <1>2, <1>4, <1>5, <1>6 DEF MigrationsTypeOK, IsSchema, Newest
<1>8. RowsFitTheSchema'
  BY <1>1, <1>2, <1>5 DEF RowsFitTheSchema, ReferencesResolve, RowsHaveTables, RulesHoldOnRows
<1>9. command'.doing = "none" => command' = Idle
  <2>1. SUFFICES ASSUME command.doing = "none" PROVE command' = Idle
    BY <1>4
  <2>2. command = Idle
    BY <2>1 DEF MigrationsInv
  <2>3. left = command.gone
    BY <1>3, <2>2 DEF Idle
  <2>4. QED BY <1>2, <1>4, <2>2, <2>3
<1>10. ASSUME command.doing # "none"
       PROVE  Fits(command.schema, Seen)' /\ ChangesAreLocked'
  <2>1. Fits(command.schema, Seen) /\ ChangesAreLocked
    BY <1>10 DEF MigrationsInv
  <2>2. QED BY <1>1, <1>4, <1>5, <1>6, <2>1 DEF Fits, ChangesAreLocked
<1>11. PermitMoves' /\ FaresReturn' /\ PermitsUnderWay'
  BY <1>1, <1>4, <1>6 DEF MigrationsInv, PermitMoves, FaresReturn, PermitsUnderWay
<1>12. QED BY <1>4, <1>7, <1>8, <1>9, <1>10, <1>11 DEF MigrationsInv

(* In the migrations' initial state nothing is there.                      *)
LEMMA MigrationsStart == MigrationsInit => MigrationsInv
<1>1. SUFFICES ASSUME MigrationsInit PROVE MigrationsInv
  OBVIOUS
<1>2. Newest = 19
  BY DEF Newest, Upgrades
<1> USE DEF MigrationsInit, Idle, Empty
<1>3. Seen = {}
  BY <1>1 DEF Seen
<1>4. MigrationsTypeOK
  BY <1>1, <1>2, <1>3 DEF MigrationsTypeOK, IsSchema
<1>5. RowsFitTheSchema
  BY <1>1 DEF RowsFitTheSchema, ReferencesResolve, RowsHaveTables, RulesHoldOnRows
<1>6. command.doing = "none" /\ command = Idle
  BY <1>1
<1>7. QED
  BY <1>4, <1>5, <1>6 DEF MigrationsInv, PermitMoves, FaresReturn, PermitsUnderWay

(* Every step of the migrations keeps what they rest on.                   *)
LEMMA MigrationsKeep == MigrationsInv /\ [MigrationsNext]_migrationVars => MigrationsInv'
<1>1. SUFFICES ASSUME MigrationsInv, [MigrationsNext]_migrationVars PROVE MigrationsInv'
  OBVIOUS
<1>2. CASE UNCHANGED migrationVars
  BY <1>1, <1>2
     DEF migrationVars, MigrationsInv, MigrationsTypeOK, IsSchema, RowsFitTheSchema,
         ReferencesResolve, RowsHaveTables, RulesHoldOnRows, Fits, ChangesAreLocked, PermitMoves,
         FaresReturn, PermitsUnderWay, Seen, Idle, Newest
<1>3. CASE MigrationsNext
  BY <1>1, <1>3, RunKeeps, CommandsKeep, WritesKeep, DeadlineKeeps DEF MigrationsNext
<1>4. QED BY <1>1, <1>2, <1>3

(* Over any history of commands, failed ones and cut off ones among them, and
   whatever the service writes beside them, every table a table refers to is
   there, every row is in a table, and none breaks a rule in force
   (migrations/versions, migrations/env.py).                               *)
THEOREM RowsAlwaysFit == MigrationsSpec => []RowsFitTheSchema
<1>1. MigrationsInv => RowsFitTheSchema
  BY DEF MigrationsInv
<1>2. QED BY <1>1, MigrationsStart, MigrationsKeep, PTL DEF MigrationsSpec

(* No upgrade loses a permit that was sent (a1c73f9e2b40).                 *)
THEOREM NoPermitIsLost == MigrationsSpec => PermitsAreKept
<1>1. MigrationsInv /\ MigrationsNext => PermitSurvives
  <2>1. SUFFICES ASSUME MigrationsInv, MigrationsNext, rows \cap Permits # {},
                        command.doing # "down"
                 PROVE  rows' \cap Permits # {}
    BY DEF PermitSurvives
  <2>2. CASE Upgrade \/ Downgrade \/ RunStep \/ NextRevision \/ GiveUp
    BY <2>1, <2>2 DEF Upgrade, Downgrade, Begin, RunStep, NextRevision, GiveUp
  <2>3. CASE Commit
    <3>1. command.doing = "up" /\ rows' = Seen
      BY <2>1, <2>3 DEF Commit, MigrationsInv, MigrationsTypeOK
    <3>2. QED BY <2>1, <3>1 DEF MigrationsInv, PermitsUnderWay
  <2>4. CASE \E k \in Kinds : ServiceWrites(k)
    BY <2>1, <2>4 DEF ServiceWrites
  <2>5. CASE DeadlinePasses
    BY <2>1, <2>5 DEF DeadlinePasses, Permits
  <2>6. QED BY <2>1, <2>2, <2>3, <2>4, <2>5 DEF MigrationsNext
<1>2. MigrationsInv /\ [MigrationsNext]_migrationVars => [PermitSurvives]_migrationVars
  BY <1>1
<1>3. QED BY <1>2, MigrationsStart, MigrationsKeep, PTL DEF MigrationsSpec, PermitsAreKept
=============================================================================
