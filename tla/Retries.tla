------------------------------ MODULE Retries ------------------------------
(***************************************************************************)
(* A retry racing its original (ui/api/idempotency.py, repositories/ops,   *)
(* and the four routes it wraps).  An arrival looks its key up, runs the   *)
(* handler, which holds the rows it is about and may find that there is    *)
(* nothing left to take, and stores its answer in the same transaction.    *)
(* Two arrivals of one request may both miss and both run.                 *)
(***************************************************************************)
EXTENDS Naturals, FiniteSets

CONSTANTS Arrivals,  \* the arrivals of requests, retries included
          UserKeys,  \* (user, key, endpoint)
          NoArrival,
          ArrivalKey,
          Digest,    \* body and path, as request_digest sums them up
          Target,    \* what the handler locks and takes from
          Room       \* how often a target can be taken

ASSUME ArrivalKeyAssumption == ArrivalKey \in [Arrivals -> UserKeys]
ASSUME NoArrivalAssumption  == NoArrival \notin Arrivals
ASSUME RoomAssumption       == IsFiniteSet(Arrivals) /\ Room \in Nat
\* What a request is about is in its body or its path.
ASSUME DigestAssumption ==
  \A a, b \in Arrivals : Digest[a] = Digest[b] => Target[a] = Target[b]

VARIABLES
  stage,    \* how far each arrival is
  stored,   \* idempotency_keys: the arrival whose answer is kept
  kept,     \* the arrivals whose work was committed
  answer    \* whose answer each arrival was given

retryVars == <<stage, stored, kept, answer>>

Stages == {"new", "running", "worked", "flushed", "conflict", "beaten",
           "answered", "refused", "reused", "failed"}

RetriesTypeOK ==
  /\ stage \in [Arrivals -> Stages]
  /\ stored \in [UserKeys -> Arrivals \cup {NoArrival}]
  /\ kept \subseteq Arrivals
  /\ answer \in [Arrivals -> Arrivals \cup {NoArrival}]

RetriesInit ==
  /\ stage = [a \in Arrivals |-> "new"]
  /\ stored = [k \in UserKeys |-> NoArrival]
  /\ kept = {}
  /\ answer = [a \in Arrivals |-> NoArrival]

\* The answer stored under the key of a, and whether it answers a.
Found(a)   == stored[ArrivalKey[a]]
Matches(a) == Found(a) # NoArrival /\ Digest[Found(a)] = Digest[a]

\* The rows the handler holds, until the transaction ends.
TargetHolders(a) == {b \in Arrivals : Target[b] = Target[a] /\ stage[b] \in {"worked", "flushed"}}

\* uq_idempotency_user_key_endpoint: an insert waits for a twin's.
KeyHolders(a) == {b \in Arrivals : ArrivalKey[b] = ArrivalKey[a] /\ stage[b] = "flushed"}

Taken(a) == {b \in kept : Target[b] = Target[a]}

Gets(a, whose) ==
  /\ stage' = [stage EXCEPT ![a] = "answered"]
  /\ answer' = [answer EXCEPT ![a] = whose]

Becomes(a, s) == stage' = [stage EXCEPT ![a] = s] /\ UNCHANGED <<stored, kept, answer>>

\* store.find, before anything else happens.
Look(a) ==
  /\ stage[a] = "new"
  /\ \/ Matches(a) /\ Gets(a, Found(a)) /\ UNCHANGED <<stored, kept>>
     \/ Found(a) # NoArrival /\ ~Matches(a) /\ Becomes(a, "reused")
     \/ Found(a) = NoArrival /\ Becomes(a, "running")

\* The handler, once the rows it is about are free: it does its work, or
\* finds nothing left and raises ConflictError, which rolls everything back.
Handle(a) ==
  /\ stage[a] = "running" /\ TargetHolders(a) = {}
  /\ IF Cardinality(Taken(a)) < Room THEN Becomes(a, "worked") ELSE Becomes(a, "conflict")

\* ... after which a twin's answer is looked for.
AfterConflict(a) ==
  /\ stage[a] = "conflict"
  /\ \/ Matches(a) /\ Gets(a, Found(a)) /\ UNCHANGED <<stored, kept>>
     \/ ~Matches(a) /\ Becomes(a, "refused")

\* remember and flush: the unique constraint lets one twin through.
Flush(a) ==
  /\ stage[a] = "worked" /\ KeyHolders(a) = {}
  /\ IF Found(a) = NoArrival THEN Becomes(a, "flushed") ELSE Becomes(a, "beaten")

\* The loser's transaction is gone; the winner's answer, if it is its own.
LosersAnswer(a)  == Gets(a, a) /\ UNCHANGED <<stored, kept>>    \* a fault
WinnersAnswer(a) == Gets(a, Found(a)) /\ UNCHANGED <<stored, kept>>
AfterBeaten(a) ==
  /\ stage[a] = "beaten"
  /\ \/ Matches(a) /\ WinnersAnswer(a)
     \/ ~Matches(a) /\ Becomes(a, "failed")

\* The request's one commit: the work and the stored answer.
RetryCommit(a) ==
  /\ stage[a] = "flushed"
  /\ stored' = [stored EXCEPT ![ArrivalKey[a]] = a]
  /\ kept' = kept \cup {a}
  /\ Gets(a, a)

\* Any other error, or the connection, ends it with nothing kept.
RetryFail(a) == stage[a] \in {"running", "worked", "flushed"} /\ Becomes(a, "failed")

RetriesNext == \E a \in Arrivals :
  \/ Look(a) \/ Handle(a) \/ AfterConflict(a) \/ Flush(a) \/ AfterBeaten(a)
  \/ RetryCommit(a) \/ RetryFail(a)

RetriesSpec == RetriesInit /\ [][RetriesNext]_retryVars

-----------------------------------------------------------------------------
\* The rows agree with the stages, and a key's insert has one holder.
RetriesInv ==
  /\ RetriesTypeOK
  /\ \A k \in UserKeys : stored[k] # NoArrival => stored[k] \in kept /\ ArrivalKey[stored[k]] = k
  /\ \A a \in Arrivals :
       /\ a \in kept => stage[a] = "answered" /\ Found(a) = a
       /\ answer[a] # NoArrival <=> stage[a] = "answered"
       /\ stage[a] = "flushed" => Found(a) = NoArrival
       /\ stage[a] = "beaten" => Found(a) # NoArrival
       /\ \A b \in Arrivals : stage[a] = "flushed" /\ b \in KeyHolders(a) => a = b

\* idempotency.py:86-97: nobody is refused what their own request, arriving
\* a moment earlier, has already got.
NobodyRefusedTheirOwn ==
  \A a \in Arrivals : stage[a] = "refused" =>
    \A b \in kept : ~(ArrivalKey[b] = ArrivalKey[a] /\ Digest[b] = Digest[a])

\* Why it is so: a target has one holder, who found room in it, and whoever
\* found none was told so when nobody held it.
RoomExplained ==
  \A a, b \in Arrivals : Target[a] = Target[b] =>
    /\ a # b => ~(stage[a] \in {"worked", "flushed"} /\ stage[b] \in {"worked", "flushed"})
    /\ stage[a] \in {"worked", "flushed"} => Cardinality(Taken(a)) < Room
    /\ stage[a] \in {"conflict", "refused"} => Cardinality(Taken(a)) >= Room

\* The inductive invariant: Requests_proofs proves it.
KeysInv == RetriesInv /\ RoomExplained /\ NobodyRefusedTheirOwn

\* The keys do what AtMostOnce says.
Once == INSTANCE AtMostOnce WITH Keys <- UserKeys, Attempts <- Arrivals, Nobody <- NoArrival,
                                 KeyOf <- ArrivalKey, Meant <- Digest,
                                 worked <- stored, told <- answer
ImplementsAtMostOnce == Once!Spec

\* Both: at most once, and never refused for having been done already.
KeysHold == Once!Spec /\ []NobodyRefusedTheirOwn
=============================================================================
