------------------------------- MODULE SignIn -------------------------------
(***************************************************************************)
(* Signing in and out: one-time codes, accounts, refresh tokens, and what  *)
(* ends them (application/use_cases/authenticate.py, delete_account.py,    *)
(* repositories identity and erasure, the users' part of routers/admin).   *)
(*                                                                         *)
(* Every request is one transaction, READ COMMITTED; two things are        *)
(* committed in a transaction of their own, so that the refusal that       *)
(* follows cannot take them back: the attempt a code is guessed with, and  *)
(* the end of every session after a replay.  A row that a transaction has  *)
(* written is locked until it ends; the holders are read off the pc.       *)
(***************************************************************************)
EXTENDS Naturals, FiniteSets

CONSTANTS Phones, Accounts, NoAccount, NoPhone,
          Codes,        \* requests for a code, each of which may create one
          Verifiers,    \* requests that present a code
          Refreshers,   \* requests that present a refresh token
          Enders,       \* requests that end sessions or switch an account
          Bookers,      \* requests that book a seat, seen from the account
          NoCode, NoToken,
          CodePhone,    \* the number a code is requested for
          VerifierPhone,\* the number a code is presented for
          EnderKinds,   \* which switches the enders may be
          MaxAttempts,  \* otp.max_attempts
          MaxPerWindow  \* otp.max_per_window

Sessions == Verifiers \cup Refreshers
Tokens   == Sessions          \* the token a request issues carries its name
Requests == Codes \cup Sessions \cup Enders \cup Bookers

ASSUME PhonesAssumption ==
  /\ CodePhone \in [Codes -> Phones]
  /\ VerifierPhone \in [Verifiers -> Phones]
  /\ NoPhone \notin Phones
ASSUME IdsAssumption ==
  /\ NoAccount \notin Accounts /\ NoCode \notin Codes /\ NoToken \notin Tokens
  /\ Codes \cap Sessions = {} /\ Codes \cap Enders = {} /\ Codes \cap Bookers = {}
  /\ Verifiers \cap Refreshers = {} /\ Sessions \cap Enders = {}
  /\ Sessions \cap Bookers = {} /\ Enders \cap Bookers = {}
ASSUME EnderKindsAssumption == EnderKinds \subseteq {"logout", "suspend", "reinstate", "delete"}
ASSUME LimitsAssumption == MaxAttempts \in Nat /\ MaxPerWindow \in Nat
ASSUME FiniteAssumption == IsFiniteSet(Codes)

VARIABLES
  pc,           \* how far each request is
  carry,        \* what each request has read or decided so far
  code,         \* otp_challenges
  account,      \* users
  token,        \* refresh_tokens
  reservation,  \* bookings, one for each booker
  met           \* for each ender, the requests that ran while it did (history)

signInVars == <<pc, carry, code, account, token, reservation, met>>

Statuses == {"NONE", "ACTIVE", "SUSPENDED", "DEACTIVATED"}

CodeRow    == [state : {"none", "open", "used", "gone"},
               age : {"recent", "aged", "expired"},
               attempts : 0..MaxAttempts,
               born : Nat]
AccountRow == [status : Statuses,
               phone : Phones \cup {NoPhone},
               offBy : Enders \cup {NoToken}]   \* who switched it off (history)
TokenRow   == [state : {"none", "live", "retired"},
               user : Accounts \cup {NoAccount},
               root : Verifiers \cup {NoToken}]  \* the sign-in it descends from
Carried    == [code : Codes \cup {NoCode},
               account : Accounts \cup {NoAccount},
               token : Tokens \cup {NoToken},
               number : 0..MaxAttempts,          \* the attempt it was given
               kind : {"logout", "suspend", "reinstate", "delete"},
               sweep : SUBSET Tokens,            \* the tokens its UPDATE is about
               codes : SUBSET Codes]             \* the codes its DELETE is about
Nothing    == [code |-> NoCode, account |-> NoAccount, token |-> NoToken,
               number |-> 0, kind |-> "logout", sweep |-> {}, codes |-> {}]

Phases == {"start", "counted", "found", "reserved", "consumed", "signed", "replay",
           "ending", "rotated", "read", "locked", "erased", "sweeping", "swept",
           "done", "refused"}
Over(r)     == pc[r] \in {"done", "refused"}
InFlight(r) == pc[r] # "start" /\ ~Over(r)

SignInTypeOK ==
  /\ pc \in [Requests -> Phases]
  /\ carry \in [Requests -> Carried]
  /\ code \in [Codes -> CodeRow]
  /\ account \in [Accounts -> AccountRow]
  /\ token \in [Tokens -> TokenRow]
  /\ reservation \in [Bookers -> {"none", "active", "over"}]
  /\ met \in [Enders -> SUBSET Requests]

NoAccountRow == [status |-> "NONE", phone |-> NoPhone, offBy |-> NoToken]

\* Some numbers have an account already, some are new.
SignInInit ==
  /\ pc = [r \in Requests |-> "start"]
  /\ carry = [r \in Requests |-> Nothing]
  /\ code = [c \in Codes |-> [state |-> "none", age |-> "recent", attempts |-> 0, born |-> 0]]
  /\ token = [t \in Tokens |-> [state |-> "none", user |-> NoAccount, root |-> NoToken]]
  /\ reservation = [b \in Bookers |-> "none"]
  /\ met = [e \in Enders |-> {}]
  /\ account \in [Accounts -> {NoAccountRow} \cup
                    {[NoAccountRow EXCEPT !.status = "ACTIVE", !.phone = p] : p \in Phones}]
  /\ \A a, b \in Accounts : account[a].phone = account[b].phone
                              => a = b \/ account[a].phone = NoPhone

-----------------------------------------------------------------------------
(* Rows and locks.  A definition marked "a fault" is what its neighbour     *)
(* below would be with a plausible bug; nothing uses it.                   *)

\* find_active: unconsumed and unexpired, the newest of them.
ActiveCodes(p) == {c \in Codes : /\ CodePhone[c] = p
                                 /\ code[c].state = "open"
                                 /\ code[c].age # "expired"}
Newest(c) == \A d \in ActiveCodes(CodePhone[c]) : code[d].born <= code[c].born

\* count_recent, of the rows there are.
RecentCodes(p) == {c \in Codes : /\ CodePhone[c] = p
                                 /\ code[c].state \in {"open", "used"}
                                 /\ code[c].age = "recent"}

\* find_by_phone: an account its owner deleted has no number any more.
OwnersOf(p) == {a \in Accounts : account[a].phone = p}

LiveTokensOf(a) == {t \in Tokens : token[t].state = "live" /\ token[t].user = a}

NumbersNotLocked(p) == {}                                       \* a fault
PhoneLockHolders(p) == {c \in Codes : CodePhone[c] = p /\ pc[c] = "counted"}

Deleting(e) == carry[e].kind = "delete" /\ pc[e] \in {"locked", "erased", "sweeping", "swept"}

\* FOR UPDATE of the user row; the other writers of it take it at their commit.
SuspensionsHoldUsers(a) ==                                      \* a fault
  {e \in Enders : pc[e] \in {"sweeping", "swept"} /\ carry[e].account = a}
UserHolders(a)  == {e \in Enders : Deleting(e) /\ carry[e].account = a}
CodeHolders(c)  == {v \in Verifiers : pc[v] \in {"consumed", "signed"} /\ carry[v].code = c}
                     \cup {e \in Enders : Deleting(e) /\ c \in carry[e].codes}
TokenHolders(t) == {r \in Refreshers : pc[r] = "rotated" /\ carry[r].token = t}
                     \cup {e \in Enders : pc[e] = "swept" /\ t \in carry[e].sweep}
\* The unique constraint on the phone makes a second first sign-in wait.
NumberTakers(p) == {v \in Verifiers : /\ pc[v] = "signed" /\ VerifierPhone[v] = p
                                      /\ account[carry[v].account].status = "NONE"}

\* A request that reads account a is seen by the enders of a that are running.
Meets(r, a) ==
  met' = [e \in Enders |-> IF carry[e].account = a /\ InFlight(e)
                             THEN met[e] \cup {r} ELSE met[e]]

Goes(r, phase) == pc' = [pc EXCEPT ![r] = phase]

\* What a finished request had read is forgotten, but for the guess it made.
Forgets(r) == carry' = [carry EXCEPT ![r] = [Nothing EXCEPT !.code = carry[r].code,
                                                            !.number = carry[r].number]]

\* A request is refused, or fails before its commit: nothing it did is kept.
GivesUp(r) ==
  /\ Goes(r, "refused") /\ Forgets(r)
  /\ UNCHANGED <<code, account, token, reservation, met>>

-----------------------------------------------------------------------------
(* RequestOtp.                                                             *)

\* Under the number's advisory lock: count what was sent in the window.
AskCount(c) ==
  /\ pc[c] = "start"
  /\ PhoneLockHolders(CodePhone[c]) = {}
  /\ Cardinality(RecentCodes(CodePhone[c])) < MaxPerWindow
  /\ Goes(c, "counted")
  /\ UNCHANGED <<carry, code, account, token, reservation, met>>

\* Too many in the window.  (A number without a staff role asking for the
\* console is answered and gets nothing either.)
AskRefuse(c) ==
  /\ pc[c] = "start"
  /\ PhoneLockHolders(CodePhone[c]) = {}
  /\ Cardinality(RecentCodes(CodePhone[c])) >= MaxPerWindow
  /\ GivesUp(c)

AskCommit(c) ==
  /\ pc[c] = "counted"
  /\ code' = [code EXCEPT ![c] = [state |-> "open", age |-> "recent", attempts |-> 0,
                born |-> 1 + Cardinality({d \in Codes : code[d].state # "none"})]]
  /\ Goes(c, "done")
  /\ UNCHANGED <<carry, account, token, reservation, met>>

\* No carrier took the message: the exception rolls the challenge back.
AskFail(c) == pc[c] = "counted" /\ GivesUp(c)

\* Time: the rate window passes over a code, then its life ends.
CodeAges(c) ==
  /\ code[c].state \in {"open", "used"}
  /\ \/ code[c].age = "recent" /\ code' = [code EXCEPT ![c].age = "aged"]
     \/ /\ code[c].age = "aged" /\ code[c].state = "open"
        /\ code' = [code EXCEPT ![c].age = "expired"]
  /\ UNCHANGED <<pc, carry, account, token, reservation, met>>

-----------------------------------------------------------------------------
(* VerifyOtp.                                                              *)

\* The newest active challenge, read without a lock.
VerifyFind(v) ==
  /\ pc[v] = "start"
  /\ \E c \in ActiveCodes(VerifierPhone[v]) :
       /\ Newest(c)
       /\ carry' = [carry EXCEPT ![v].code = c]
  /\ Goes(v, "found")
  /\ UNCHANGED <<code, account, token, reservation, met>>

VerifyExpired(v) ==
  /\ pc[v] = "start" /\ ActiveCodes(VerifierPhone[v]) = {}
  /\ GivesUp(v)

\* reserve_attempt: one conditional UPDATE in a transaction of its own.
MayReserve(c) == code[c].state = "open" /\ code[c].attempts < MaxAttempts

VerifyReserveRolledBack(v) ==                                   \* a fault
  LET c == carry[v].code IN
  /\ pc[v] = "found" /\ CodeHolders(c) = {}
  /\ MayReserve(c)
  /\ carry' = [carry EXCEPT ![v].number = code[c].attempts + 1]
  /\ Goes(v, "reserved")
  /\ UNCHANGED <<code, account, token, reservation, met>>

VerifyReserve(v) ==
  LET c == carry[v].code IN
  /\ pc[v] = "found" /\ CodeHolders(c) = {}
  /\ MayReserve(c)
  /\ code' = [code EXCEPT ![c].attempts = @ + 1]
  /\ carry' = [carry EXCEPT ![v].number = code[c].attempts + 1]
  /\ Goes(v, "reserved")
  /\ UNCHANGED <<account, token, reservation, met>>

VerifyExhausted(v) ==
  /\ pc[v] = "found" /\ CodeHolders(carry[v].code) = {}
  /\ ~MayReserve(carry[v].code)
  /\ GivesUp(v)

\* The code is wrong: refused, and only the attempt is kept.
VerifyWrong(v) == pc[v] = "reserved" /\ GivesUp(v)

\* The code is right: consume it unless somebody has.
VerifyConsume(v) ==
  /\ pc[v] = "reserved" /\ CodeHolders(carry[v].code) = {}
  /\ code[carry[v].code].state = "open"
  /\ Goes(v, "consumed")
  /\ UNCHANGED <<carry, code, account, token, reservation, met>>

VerifyTwinWon(v) ==
  /\ pc[v] = "reserved" /\ CodeHolders(carry[v].code) = {}
  /\ code[carry[v].code].state # "open"
  /\ GivesUp(v)

\* The account of the number, read without a lock, if it is active.
VerifyKnown(v) ==
  /\ pc[v] = "consumed"
  /\ \E a \in OwnersOf(VerifierPhone[v]) :
       /\ account[a].status = "ACTIVE"
       /\ carry' = [carry EXCEPT ![v].account = a]
       /\ Meets(v, a)
  /\ Goes(v, "signed")
  /\ UNCHANGED <<code, account, token, reservation>>

VerifyOff(v) ==
  /\ pc[v] = "consumed"
  /\ \E a \in OwnersOf(VerifierPhone[v]) : account[a].status # "ACTIVE"
  /\ GivesUp(v)

\* create_or_find: a second first sign-in waits for the first, then finds it.
VerifyNew(v) ==
  /\ pc[v] = "consumed"
  /\ OwnersOf(VerifierPhone[v]) = {} /\ NumberTakers(VerifierPhone[v]) = {}
  /\ \E a \in Accounts :
       /\ account[a].status = "NONE"
       /\ \A w \in Verifiers : pc[w] = "signed" => carry[w].account # a
       /\ carry' = [carry EXCEPT ![v].account = a]
  /\ Goes(v, "signed")
  /\ UNCHANGED <<code, account, token, reservation, met>>

\* The commit: the code used, the account there, its first token live.
VerifySignIn(v) ==
  LET a == carry[v].account IN
  /\ pc[v] = "signed" /\ UserHolders(a) = {}
  /\ code' = [code EXCEPT ![carry[v].code].state = "used"]
  /\ account' = [account EXCEPT ![a] =
       IF account[a].status = "NONE"
         THEN [@ EXCEPT !.status = "ACTIVE", !.phone = VerifierPhone[v]] ELSE @]
  /\ token' = [token EXCEPT ![v] = [state |-> "live", user |-> a, root |-> v]]
  /\ Goes(v, "done")
  /\ UNCHANGED <<carry, reservation, met>>

VerifyFail(v) == pc[v] \in {"consumed", "signed"} /\ GivesUp(v)

-----------------------------------------------------------------------------
(* RefreshSession.                                                         *)

\* find_by_hash and the account, both unlocked.  A token that was retired is
\* a replay, whatever its age.
RefreshFindAnyAccount(r) ==                                     \* a fault
  /\ pc[r] = "start"
  /\ \E t \in Tokens :
       /\ token[t].state # "none"
       /\ carry' = [carry EXCEPT ![r].token = t, ![r].account = token[t].user]
       /\ Goes(r, IF token[t].state = "live" THEN "found" ELSE "replay")
       /\ Meets(r, token[t].user)
  /\ UNCHANGED <<code, account, token, reservation>>

RefreshFind(r) ==
  /\ pc[r] = "start"
  /\ \E t \in Tokens :
       /\ token[t].state # "none"
       /\ account[token[t].user].status = "ACTIVE"
       /\ carry' = [carry EXCEPT ![r].token = t, ![r].account = token[t].user]
       /\ Goes(r, IF token[t].state = "live" THEN "found" ELSE "replay")
       /\ Meets(r, token[t].user)
  /\ UNCHANGED <<code, account, token, reservation>>

RefreshOff(r) ==
  /\ pc[r] = "start"
  /\ \E t \in Tokens : token[t].state # "none" /\ account[token[t].user].status # "ACTIVE"
  /\ GivesUp(r)

\* The conditional UPDATE that retires the presented token.
RefreshRotateUnasked(r) ==                                      \* a fault
  /\ pc[r] = "found" /\ TokenHolders(carry[r].token) = {}
  /\ Goes(r, "rotated")
  /\ UNCHANGED <<carry, code, account, token, reservation, met>>

RefreshRotate(r) ==
  /\ pc[r] = "found" /\ TokenHolders(carry[r].token) = {}
  /\ Goes(r, IF token[carry[r].token].state = "live" THEN "rotated" ELSE "replay")
  /\ UNCHANGED <<carry, code, account, token, reservation, met>>

\* The commit: the successor goes in, pointing at its user.
RefreshCommit(r) ==
  LET t == carry[r].token IN
  /\ pc[r] = "rotated" /\ UserHolders(carry[r].account) = {}
  /\ token' = [token EXCEPT ![t].state = "retired",
                            ![r] = [state |-> "live", user |-> carry[r].account,
                                    root |-> token[t].root]]
  /\ Goes(r, "done")
  /\ UNCHANGED <<carry, code, account, reservation, met>>

\* Expired, or an error before the commit.
RefreshFail(r) == pc[r] \in {"found", "rotated"} /\ GivesUp(r)

\* A replay ends every session, in a transaction of its own: its UPDATE is
\* about the tokens there are when it starts, and waits for the locked ones.
ReplayLook(r) ==
  /\ pc[r] = "replay"
  /\ carry' = [carry EXCEPT ![r].sweep = LiveTokensOf(carry[r].account)]
  /\ Goes(r, "ending")
  /\ UNCHANGED <<code, account, token, reservation, met>>

Retired(S) == [t \in Tokens |-> IF t \in S THEN [token[t] EXCEPT !.state = "retired"]
                                           ELSE token[t]]

ReplayEnds(r) ==
  /\ pc[r] = "ending" /\ \A t \in carry[r].sweep : TokenHolders(t) = {}
  /\ token' = Retired(carry[r].sweep)
  /\ Goes(r, "refused") /\ Forgets(r)
  /\ UNCHANGED <<code, account, reservation, met>>

\* It could not be written: the presentation is refused all the same.
ReplayNotEnded(r) == pc[r] \in {"replay", "ending"} /\ GivesUp(r)

-----------------------------------------------------------------------------
(* Logging out everywhere, suspending, reinstating, deleting.              *)

MayEnd(kind, a) ==
  CASE kind = "reinstate" -> account[a].status = "SUSPENDED"
    [] kind = "delete"    -> /\ account[a].status = "ACTIVE"
                             /\ \A b \in Bookers : carry[b].account = a => reservation[b] # "active"
    [] OTHER              -> account[a].status = "ACTIVE"

\* The account (and, to delete it, its bookings), read without a lock.
EnderRead(e) ==
  /\ pc[e] = "start"
  /\ \E kind \in EnderKinds, a \in Accounts :
       /\ MayEnd(kind, a)
       /\ carry' = [carry EXCEPT ![e].kind = kind, ![e].account = a]
       /\ met' = [met EXCEPT ![e] = {r \in Requests : InFlight(r) /\ carry[r].account = a}]
  /\ Goes(e, "read")
  /\ UNCHANGED <<code, account, token, reservation>>

\* Not in that state, a staff account, a trip or a booking under way.
EnderRefuse(e) == pc[e] = "start" /\ GivesUp(e)

\* erase: the user row FOR UPDATE,
DeleteLock(e) ==
  /\ pc[e] = "read" /\ carry[e].kind = "delete"
  /\ UserHolders(carry[e].account) = {}
  /\ Goes(e, "locked")
  /\ UNCHANGED <<carry, code, account, token, reservation, met>>

\* then the number's codes, waiting for those a sign-in is using,
DeleteCodes(e) ==
  LET p == account[carry[e].account].phone
      S == {c \in Codes : CodePhone[c] = p /\ code[c].state \in {"open", "used"}}
  IN  /\ pc[e] = "locked"
      /\ \A c \in S : CodeHolders(c) = {}
      /\ carry' = [carry EXCEPT ![e].codes = S]
      /\ Goes(e, "erased")
      /\ UNCHANGED <<code, account, token, reservation, met>>

\* revoke_all_for_user: the tokens the statement's snapshot shows,
SweepLook(e) ==
  /\ \/ pc[e] = "erased"
     \/ pc[e] = "read" /\ carry[e].kind \in {"logout", "suspend"}
  /\ carry' = [carry EXCEPT ![e].sweep = LiveTokensOf(carry[e].account)]
  /\ Goes(e, "sweeping")
  /\ UNCHANGED <<code, account, token, reservation, met>>

\* of which those still live when their locks are free.
SweepHold(e) ==
  /\ pc[e] = "sweeping" /\ \A t \in carry[e].sweep : TokenHolders(t) = {}
  /\ carry' = [carry EXCEPT ![e].sweep = {t \in @ : token[t].state = "live"}]
  /\ Goes(e, "swept")
  /\ UNCHANGED <<code, account, token, reservation, met>>

\* The commit.  The status is the one decided on what was read.
Switched(e) ==
  CASE carry[e].kind = "suspend"   -> [account[carry[e].account] EXCEPT !.status = "SUSPENDED", !.offBy = e]
    [] carry[e].kind = "reinstate" -> [account[carry[e].account] EXCEPT !.status = "ACTIVE"]
    [] carry[e].kind = "delete"    -> [status |-> "DEACTIVATED", phone |-> NoPhone, offBy |-> e]
    [] OTHER                       -> account[carry[e].account]

EnderCommit(e) ==
  /\ \/ pc[e] = "swept"
     \/ pc[e] = "read" /\ carry[e].kind = "reinstate"
  /\ UserHolders(carry[e].account) \subseteq {e}
  /\ account' = [account EXCEPT ![carry[e].account] = Switched(e)]
  /\ token' = Retired(carry[e].sweep)
  /\ code' = [c \in Codes |-> IF c \in carry[e].codes THEN [code[c] EXCEPT !.state = "gone"]
                                                      ELSE code[c]]
  /\ Goes(e, "done") /\ Forgets(e)
  /\ UNCHANGED <<reservation, met>>

EnderFail(e) ==
  /\ InFlight(e)
  /\ Goes(e, "refused") /\ Forgets(e)
  /\ met' = [met EXCEPT ![e] = {}]
  /\ UNCHANGED <<code, account, token, reservation>>

-----------------------------------------------------------------------------
(* A booking, as far as its account is concerned.                          *)

\* current_actor: the account is read again on every request.
BookerRead(b) ==
  /\ pc[b] = "start"
  /\ \E a \in Accounts : /\ account[a].status = "ACTIVE"
                         /\ carry' = [carry EXCEPT ![b].account = a]
                         /\ Meets(b, a)
  /\ Goes(b, "read")
  /\ UNCHANGED <<code, account, token, reservation>>

\* The insert points at the user, and waits while the row is being erased.
BookerCommit(b) ==
  /\ pc[b] = "read" /\ UserHolders(carry[b].account) = {}
  /\ reservation' = [reservation EXCEPT ![b] = "active"]
  /\ Goes(b, "done")
  /\ UNCHANGED <<carry, code, account, token, met>>

BookerFail(b) == pc[b] = "read" /\ GivesUp(b)

BookingEnds(b) ==
  /\ reservation[b] = "active"
  /\ reservation' = [reservation EXCEPT ![b] = "over"]
  /\ UNCHANGED <<pc, carry, code, account, token, met>>

-----------------------------------------------------------------------------
AskNext(c)     == AskCount(c) \/ AskRefuse(c) \/ AskCommit(c) \/ AskFail(c) \/ CodeAges(c)
VerifyNext(v)  == \/ VerifyFind(v) \/ VerifyExpired(v) \/ VerifyReserve(v) \/ VerifyExhausted(v)
                  \/ VerifyWrong(v) \/ VerifyConsume(v) \/ VerifyTwinWon(v) \/ VerifyKnown(v)
                  \/ VerifyOff(v) \/ VerifyNew(v) \/ VerifySignIn(v) \/ VerifyFail(v)
RefreshNext(r) == \/ RefreshFind(r) \/ RefreshOff(r) \/ RefreshRotate(r) \/ RefreshCommit(r)
                  \/ RefreshFail(r) \/ ReplayLook(r) \/ ReplayEnds(r) \/ ReplayNotEnded(r)
EnderNext(e)   == \/ EnderRead(e) \/ EnderRefuse(e) \/ DeleteLock(e) \/ DeleteCodes(e)
                  \/ SweepLook(e) \/ SweepHold(e) \/ EnderCommit(e) \/ EnderFail(e)
BookerNext(b)  == BookerRead(b) \/ BookerCommit(b) \/ BookerFail(b) \/ BookingEnds(b)

SignInNext == \/ \E c \in Codes : AskNext(c)
        \/ \E v \in Verifiers : VerifyNext(v)
        \/ \E r \in Refreshers : RefreshNext(r)
        \/ \E e \in Enders : EnderNext(e)
        \/ \E b \in Bookers : BookerNext(b)

SignInSpec == SignInInit /\ [][SignInNext]_signInVars

-----------------------------------------------------------------------------
(* Properties.                                                             *)

\* The rows agree with what the requests have reached.
TokensExplained ==
  \A t \in Tokens :
    /\ token[t].state # "none" <=> pc[t] = "done"
    /\ token[t].state # "none" => /\ token[t].user = carry[t].account
                                  /\ token[t].user \in Accounts
                                  /\ token[t].root \in Verifiers
                                  /\ token[token[t].root].state # "none"
    /\ t \in Verifiers /\ token[t].state # "none" => token[t].root = t

CodesExplained ==
  /\ \A c \in Codes : code[c].state # "none" <=> pc[c] = "done"
  /\ \A v \in Verifiers :
       /\ pc[v] \in {"found", "reserved", "consumed", "signed", "done"} => carry[v].code \in Codes
       /\ carry[v].code \in Codes => code[carry[v].code].state # "none"
       /\ pc[v] \in {"consumed", "signed"} => code[carry[v].code].state = "open"
       /\ pc[v] = "done" => code[carry[v].code].state \in {"used", "gone"}
  /\ \A e \in Enders : \A c \in carry[e].codes :
       /\ code[c].state # "none"
       /\ \A v \in Verifiers : pc[v] \in {"consumed", "signed"} => carry[v].code # c

\* authenticate.py, "One code, one session": a code is behind one sign-in at
\* most, and a request past its consumption is the only one.
OneSessionPerCode ==
  \A v, w \in Verifiers :
    /\ pc[v] \in {"consumed", "signed", "done"} /\ pc[w] \in {"consumed", "signed", "done"}
    /\ carry[v].code = carry[w].code
    => v = w

\* identity.py, rotate: a sign-in has one usable refresh token at most, so a
\* copied one and its owner's cannot both go on refreshing.
OneUsableToken ==
  \A t, u \in Tokens :
    token[t].state = "live" /\ token[u].state = "live" /\ token[t].root = token[u].root => t = u

\* uq_users_phone: two first sign-ins at once end on one account.
OneAccountPerNumber ==
  \A a, b \in Accounts : account[a].phone = account[b].phone => a = b \/ account[a].phone = NoPhone

\* An account about to be created is about to be created once, and its
\* number has nobody yet.
AccountsExplained ==
  /\ \A a \in Accounts : account[a].status = "NONE" => account[a].phone = NoPhone
  /\ \A v \in Verifiers : pc[v] = "signed" =>
       /\ carry[v].account \in Accounts
       /\ account[carry[v].account].status = "NONE" =>
            /\ OwnersOf(VerifierPhone[v]) = {}
            /\ \A w \in Verifiers \ {v} : pc[w] = "signed" =>
                 /\ carry[w].account # carry[v].account
                 /\ account[carry[w].account].status = "NONE" => VerifierPhone[w] # VerifierPhone[v]

\* A token that is being exchanged is live, and nobody else is about it.
RotationsExplained ==
  /\ \A r \in Refreshers :
       /\ pc[r] \in {"found", "rotated"} =>
            /\ carry[r].token \in Tokens
            /\ token[carry[r].token].state # "none"
            /\ carry[r].account = token[carry[r].token].user
       /\ pc[r] = "rotated" =>
            /\ token[carry[r].token].state = "live"
            /\ \A q \in Refreshers \ {r} : pc[q] = "rotated" => carry[q].token # carry[r].token
            /\ \A e \in Enders : pc[e] = "swept" => carry[r].token \notin carry[e].sweep
  /\ \A r \in Refreshers \cup Enders : \A t \in carry[r].sweep : token[t].state # "none"

\* What a request that ends sessions is holding.
EndersExplained ==
  \A e \in Enders :
    /\ pc[e] \in {"read", "locked", "erased", "sweeping", "swept"} =>
         carry[e].account \in Accounts /\ account[carry[e].account].status # "NONE"
    /\ carry[e].codes # {} => Deleting(e)
    /\ pc[e] \in {"locked", "erased"} => carry[e].kind = "delete"
    /\ pc[e] \in {"start", "read", "locked", "erased"} => carry[e].sweep = {}

\* The attempts a code has counted are the guesses made at it.
GuessesExplained ==
  \A v \in Verifiers :
    /\ pc[v] \in {"start", "found"} => carry[v].number = 0
    /\ carry[v].number # 0 => /\ carry[v].code \in Codes
                              /\ carry[v].number <= code[carry[v].code].attempts

\* deps.otp_attempt_reserver: the guesses made at a code are numbered from 1
\* to the limit and no number is used twice, whatever was rolled back, so
\* there are never more guesses than otp.max_attempts.
EveryGuessIsPaidFor ==
  \A v \in Verifiers : carry[v].number # 0 =>
    /\ carry[v].number <= MaxAttempts
    /\ \A w \in Verifiers :
         carry[w].code = carry[v].code /\ carry[w].number = carry[v].number => w = v

\* OtpRepository.lock_phone: no more codes on record for a number within the
\* window than otp.max_per_window, however many ask at once.
CodesAreRationed == \A p \in Phones : Cardinality(RecentCodes(p)) <= MaxPerWindow

\* A request under the number's lock still has room for its code.
CountsStand ==
  /\ \A c \in Codes : pc[c] = "counted" => Cardinality(RecentCodes(CodePhone[c])) < MaxPerWindow
  /\ \A c, d \in Codes : pc[c] = "counted" /\ pc[d] = "counted" /\ CodePhone[c] = CodePhone[d] => c = d

\* What an account that was switched off still has, a usable token or (when
\* its owner closed it) a booking under way, was asked for by a request that
\* ran while the switch was being thrown: nothing that was there before is
\* left, and nothing begun afterwards is granted.
OnlyAnOverlapSurvives ==
  /\ \A t \in Tokens :
       LET a == account[token[t].user] IN
       token[t].state = "live" /\ a.status \in {"SUSPENDED", "DEACTIVATED"} => t \in met[a.offBy]
  /\ \A b \in Bookers :
       LET a == account[carry[b].account] IN
       reservation[b] = "active" /\ a.status = "DEACTIVATED" => b \in met[a.offBy]

\* Which requests have an account, and since when.
HoldingsExplained ==
  /\ \A v \in Verifiers : pc[v] \in {"start", "found", "reserved", "consumed"}
                            => carry[v].account = NoAccount
  /\ \A e \in Enders : pc[e] \in {"start", "read", "locked", "erased", "sweeping", "swept",
                                   "done", "refused"}
  /\ \A b \in Bookers : /\ pc[b] \in {"read", "done"} => carry[b].account \in Accounts
                        /\ reservation[b] # "none" => pc[b] = "done"

\* Whoever runs with an account has met those who are about to switch it off,
\* and the one who did.
SwitchedOff(a) == account[a].status \in {"SUSPENDED", "DEACTIVATED"}
OverlapsMet ==
  \A r \in Sessions \cup Bookers : InFlight(r) =>
    /\ \A e \in Enders : InFlight(e) /\ carry[e].account = carry[r].account => r \in met[e]
    /\ \A a \in Accounts : SwitchedOff(a) /\ carry[r].account = a => r \in met[account[a].offBy]

\* Who switched an account off is done with it; who is about to has met the
\* owner of each token that its UPDATE misses, and of each booking.
SwitchesExplained ==
  /\ \A a \in Accounts : SwitchedOff(a) =>
       account[a].offBy \in Enders /\ pc[account[a].offBy] = "done"
  /\ \A e \in Enders : pc[e] \in {"sweeping", "swept"} =>
       LiveTokensOf(carry[e].account) \subseteq carry[e].sweep \cup met[e]
  /\ \A e \in Enders, b \in Bookers :
       InFlight(e) /\ carry[e].kind = "delete" /\ reservation[b] = "active"
         /\ carry[b].account = carry[e].account => b \in met[e]

OverlapInv == HoldingsExplained /\ OverlapsMet /\ SwitchesExplained /\ OnlyAnOverlapSurvives

\* The inductive invariant: SignIn_proofs proves it.
SignInInv == /\ SignInTypeOK
             /\ TokensExplained /\ CodesExplained /\ AccountsExplained
             /\ RotationsExplained /\ EndersExplained /\ GuessesExplained /\ CountsStand
             /\ OneSessionPerCode /\ OneUsableToken /\ OneAccountPerNumber
             /\ OverlapInv

\* Who a request waits for.
AccountWaits(r) ==
  CASE r \in Verifiers /\ pc[r] = "reserved" -> CodeHolders(carry[r].code)
    [] r \in Verifiers /\ pc[r] = "signed"   -> UserHolders(carry[r].account)
    [] r \in Verifiers /\ pc[r] = "consumed" -> NumberTakers(VerifierPhone[r])
    [] r \in Refreshers /\ pc[r] = "found"   -> TokenHolders(carry[r].token)
    [] r \in Refreshers /\ pc[r] = "rotated" -> UserHolders(carry[r].account)
    [] r \in Refreshers /\ pc[r] = "ending"  -> UNION {TokenHolders(t) : t \in carry[r].sweep}
    [] r \in Enders /\ pc[r] = "read"        -> UserHolders(carry[r].account)
    [] r \in Enders /\ pc[r] = "locked"      ->
         UNION {CodeHolders(c) : c \in {d \in Codes : CodePhone[d] = account[carry[r].account].phone}}
    [] r \in Enders /\ pc[r] = "sweeping"    -> UNION {TokenHolders(t) : t \in carry[r].sweep}
    [] r \in Enders /\ pc[r] = "swept"       -> UserHolders(carry[r].account)
    [] OTHER -> {}

Waits(r) == AccountWaits(r) \ {r}

\* docs/adr/0012: requests that wait for each other in a cycle.  A deletion
\* takes the account first and its codes and tokens after it, all others the
\* reverse, so every cycle has a deletion in it; without one nobody waits for
\* ever.  (A set of requests is stuck when each waits for one of the set.)
Stuck(S) == S # {} /\ \A r \in S : Waits(r) \cap S # {}
OnlyDeletionDeadlocks ==
  \A S \in SUBSET {r \in Sessions \cup Enders : InFlight(r)} :
    Stuck(S) => \E e \in S \cap Enders : carry[e].kind = "delete"

\* Each sign-in's chain behaves as SignInChain says.
UsableTokens == [v \in Verifiers |-> {t \in Tokens : token[t].state = "live" /\ token[t].root = v}]
Issued == {t \in Tokens : token[t].state # "none"}
Chain == INSTANCE SignInChain WITH Chains <- Verifiers, live <- UsableTokens, issued <- Issued
ImplementsSignInChain == Chain!Spec

\* identity.py, User.suspend: "Only an ACTIVE account can move to SUSPENDED".
OnlyActiveIsSuspended ==
  [][\A a \in Accounts : account'[a].status = "SUSPENDED" /\ account[a].status # "SUSPENDED"
                           => account[a].status = "ACTIVE"]_signInVars
=============================================================================
