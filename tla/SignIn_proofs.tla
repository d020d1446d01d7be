---------------------------- MODULE SignIn_proofs ----------------------------
(***************************************************************************)
(* Theorems about SignIn, for any number of numbers, accounts, codes and   *)
(* requests of each kind.                                                  *)
(***************************************************************************)
EXTENDS SignIn, FiniteSetTheorems, TLAPS

(***************************************************************************)
(* Type correctness.                                                       *)
(***************************************************************************)

(* The initial state is well typed.                                        *)
LEMMA InitTypeOK == SignInInit => SignInTypeOK
<1> SUFFICES ASSUME SignInInit PROVE SignInTypeOK OBVIOUS
<1>1. Nothing \in Carried
  BY LimitsAssumption DEF Nothing, Carried
<1>2. account \in [Accounts -> AccountRow]
  <2>1. NoAccountRow \in AccountRow
    BY DEF NoAccountRow, AccountRow, Statuses
  <2>2. \A p \in Phones : [NoAccountRow EXCEPT !.status = "ACTIVE", !.phone = p] \in AccountRow
    BY DEF NoAccountRow, AccountRow, Statuses
  <2>3. account \in [Accounts -> {NoAccountRow} \cup
                       {[NoAccountRow EXCEPT !.status = "ACTIVE", !.phone = p] : p \in Phones}]
    BY DEF SignInInit
  <2>4. {NoAccountRow} \cup {[NoAccountRow EXCEPT !.status = "ACTIVE", !.phone = p] : p \in Phones}
          \subseteq AccountRow
    BY <2>1, <2>2
  <2>5. QED BY <2>3, <2>4
<1>3. code \in [Codes -> CodeRow] /\ token \in [Tokens -> TokenRow]
  <2>1. [state |-> "none", age |-> "recent", attempts |-> 0, born |-> 0] \in CodeRow
    BY LimitsAssumption DEF CodeRow
  <2>2. [state |-> "none", user |-> NoAccount, root |-> NoToken] \in TokenRow
    BY DEF TokenRow
  <2>3. QED BY <2>1, <2>2 DEF SignInInit
<1>4. pc \in [Requests -> Phases] /\ carry \in [Requests -> Carried]
  BY <1>1 DEF SignInInit, Phases
<1>5. reservation \in [Bookers -> {"none", "active", "over"}] /\ met \in [Enders -> SUBSET Requests]
  BY DEF SignInInit
<1>6. QED BY <1>2, <1>3, <1>4, <1>5 DEF SignInTypeOK

(* Giving up and starting or ending keep the shape of what they write.     *)
LEMMA GivesUpTyped ==
  ASSUME SignInTypeOK, NEW r \in Requests, GivesUp(r)
  PROVE  SignInTypeOK'
BY IdsAssumption DEF SignInTypeOK, GivesUp, Goes, Forgets, Nothing, Carried, Phases

LEMMA ForgetsTyped ==
  ASSUME SignInTypeOK, NEW r \in Requests, Forgets(r)
  PROVE  carry' \in [Requests -> Carried]
BY IdsAssumption DEF SignInTypeOK, Forgets, Nothing, Carried

LEMMA AccountCarried ==
  ASSUME NEW f \in [Requests -> Carried], NEW r \in Requests, NEW a \in Accounts
  PROVE  [f EXCEPT ![r].account = a] \in [Requests -> Carried]
BY DEF Carried

LEMMA MeetsTyped ==
  ASSUME SignInTypeOK, NEW r \in Requests, NEW a \in Accounts, Meets(r, a)
  PROVE  met' \in [Enders -> SUBSET Requests]
BY DEF SignInTypeOK, Meets

LEMMA RetiredTyped ==
  ASSUME SignInTypeOK, NEW S
  PROVE  Retired(S) \in [Tokens -> TokenRow]
BY DEF SignInTypeOK, Retired, TokenRow

(* So do the requests for a code,                                          *)
LEMMA AskTypeOK ==
  ASSUME SignInTypeOK, NEW c \in Codes, AskNext(c)
  PROVE  SignInTypeOK'
<1> c \in Requests BY DEF Requests
<1>1. CASE AskCount(c)
  BY <1>1 DEF AskCount, SignInTypeOK, Goes, Phases
<1>2. CASE AskRefuse(c)
  BY <1>2, GivesUpTyped DEF AskRefuse
<1>3. CASE AskCommit(c)
  <2>1. Cardinality({d \in Codes : code[d].state # "none"}) \in Nat
    BY FiniteAssumption, FS_Subset, FS_CardinalityType
  <2>2. code' \in [Codes -> CodeRow]
    BY <1>3, <2>1, LimitsAssumption DEF AskCommit, SignInTypeOK, CodeRow
  <2>3. QED BY <1>3, <2>2 DEF AskCommit, SignInTypeOK, Goes, Phases
<1>4. CASE AskFail(c)
  BY <1>4, GivesUpTyped DEF AskFail
<1>5. CASE CodeAges(c)
  BY <1>5 DEF CodeAges, SignInTypeOK, CodeRow
<1>6. QED BY <1>1, <1>2, <1>3, <1>4, <1>5 DEF AskNext

(* those who present one,                                                  *)
LEMMA VerifyTypeOK ==
  ASSUME SignInTypeOK, CodesExplained, NEW v \in Verifiers, VerifyNext(v)
  PROVE  SignInTypeOK'
<1> v \in Requests /\ v \in Tokens BY DEF Requests, Sessions, Tokens
<1>1. CASE VerifyFind(v)
  <2>1. carry' \in [Requests -> Carried]
    <3>1. PICK c \in Codes : carry' = [carry EXCEPT ![v].code = c]
      BY <1>1 DEF VerifyFind, ActiveCodes
    <3>2. QED BY <3>1 DEF SignInTypeOK, Carried
  <2>2. QED BY <1>1, <2>1 DEF VerifyFind, SignInTypeOK, Goes, Phases
<1>2. CASE VerifyReserve(v)
  <2>1. carry[v].code \in Codes /\ code[carry[v].code].attempts < MaxAttempts
    BY <1>2 DEF VerifyReserve, MayReserve, CodesExplained
  <2>2. code[carry[v].code].attempts + 1 \in 0..MaxAttempts
    BY <2>1, LimitsAssumption DEF SignInTypeOK, CodeRow
  <2>3. code' \in [Codes -> CodeRow]
    BY <1>2, <2>1, <2>2 DEF VerifyReserve, SignInTypeOK, CodeRow
  <2>4. carry' \in [Requests -> Carried]
    BY <1>2, <2>2 DEF VerifyReserve, SignInTypeOK, Carried
  <2>5. QED BY <1>2, <2>3, <2>4 DEF VerifyReserve, SignInTypeOK, Goes, Phases
<1>3. CASE VerifyConsume(v)
  BY <1>3 DEF VerifyConsume, SignInTypeOK, Goes, Phases
<1>4. CASE VerifyKnown(v)
  <2>1. PICK a \in Accounts : /\ carry' = [carry EXCEPT ![v].account = a] /\ Meets(v, a)
    BY <1>4 DEF VerifyKnown, OwnersOf
  <2>2. carry' \in [Requests -> Carried]
    BY <2>1 DEF SignInTypeOK, Carried
  <2>3. QED BY <1>4, <2>1, <2>2, MeetsTyped DEF VerifyKnown, SignInTypeOK, Goes, Phases
<1>5. CASE VerifyNew(v)
  <2>1. carry' \in [Requests -> Carried]
    BY <1>5 DEF VerifyNew, SignInTypeOK, Carried
  <2>2. QED BY <1>5, <2>1 DEF VerifyNew, SignInTypeOK, Goes, Phases
<1>6. CASE VerifySignIn(v)
  <2>1. code' \in [Codes -> CodeRow]
    BY <1>6 DEF VerifySignIn, SignInTypeOK, CodeRow
  <2>2. account' \in [Accounts -> AccountRow]
    BY <1>6, PhonesAssumption DEF VerifySignIn, SignInTypeOK, AccountRow, Statuses
  <2>3. carry[v].account \in Accounts \cup {NoAccount}
    BY DEF SignInTypeOK, Carried
  <2>4. token' \in [Tokens -> TokenRow]
    BY <1>6, <2>3 DEF VerifySignIn, SignInTypeOK, TokenRow
  <2>5. QED BY <1>6, <2>1, <2>2, <2>4 DEF VerifySignIn, SignInTypeOK, Goes, Phases
<1>7. QED
  BY <1>1, <1>2, <1>3, <1>4, <1>5, <1>6, GivesUpTyped
     DEF VerifyNext, VerifyExpired, VerifyExhausted, VerifyWrong, VerifyTwinWon, VerifyOff, VerifyFail

(* those who present a refresh token,                                      *)
LEMMA RefreshTypeOK ==
  ASSUME SignInTypeOK, RotationsExplained, TokensExplained, NEW r \in Refreshers, RefreshNext(r)
  PROVE  SignInTypeOK'
<1> r \in Requests /\ r \in Tokens BY DEF Requests, Sessions, Tokens
<1>1. CASE RefreshFind(r)
  <2>1. PICK t \in Tokens :
          /\ token[t].state # "none"
          /\ carry' = [carry EXCEPT ![r].token = t, ![r].account = token[t].user]
          /\ Goes(r, IF token[t].state = "live" THEN "found" ELSE "replay")
          /\ Meets(r, token[t].user)
    BY <1>1 DEF RefreshFind
  <2>2. token[t].user \in Accounts
    BY <2>1 DEF TokensExplained
  <2>3. carry' \in [Requests -> Carried]
    <3>1. [carry EXCEPT ![r].token = t] \in [Requests -> Carried]
      BY DEF SignInTypeOK, Carried
    <3>2. carry' = [[carry EXCEPT ![r].token = t] EXCEPT ![r].account = token[t].user]
      BY <2>1
    <3>3. QED BY <2>2, <3>1, <3>2, AccountCarried
  <2>4. pc' \in [Requests -> Phases]
    BY <2>1 DEF SignInTypeOK, Goes, Phases
  <2>5. QED BY <1>1, <2>1, <2>2, <2>3, <2>4, MeetsTyped DEF RefreshFind, SignInTypeOK
<1>2. CASE RefreshRotate(r)
  BY <1>2 DEF RefreshRotate, SignInTypeOK, Goes, Phases
<1>3. CASE RefreshCommit(r)
  <2>1. carry[r].token \in Tokens /\ carry[r].account \in Accounts \cup {NoAccount}
    BY <1>3 DEF RefreshCommit, RotationsExplained, SignInTypeOK, Carried
  <2>2. token' \in [Tokens -> TokenRow]
    BY <1>3, <2>1 DEF RefreshCommit, SignInTypeOK, TokenRow
  <2>3. QED BY <1>3, <2>2 DEF RefreshCommit, SignInTypeOK, Goes, Phases
<1>4. CASE ReplayLook(r)
  <2>1. carry' \in [Requests -> Carried]
    BY <1>4 DEF ReplayLook, LiveTokensOf, SignInTypeOK, Carried
  <2>2. QED BY <1>4, <2>1 DEF ReplayLook, SignInTypeOK, Goes, Phases
<1>5. CASE ReplayEnds(r)
  BY <1>5, ForgetsTyped, RetiredTyped DEF ReplayEnds, SignInTypeOK, Goes, Phases
<1>6. QED
  BY <1>1, <1>2, <1>3, <1>4, <1>5, GivesUpTyped
     DEF RefreshNext, RefreshOff, RefreshFail, ReplayNotEnded

(* those who end sessions or switch an account,                            *)
LEMMA EnderTypeOK ==
  ASSUME SignInTypeOK, EndersExplained, NEW e \in Enders, EnderNext(e)
  PROVE  SignInTypeOK'
<1> e \in Requests BY DEF Requests
<1>1. CASE EnderRead(e)
  <2>1. carry' \in [Requests -> Carried]
    <3>1. PICK kind \in EnderKinds, a \in Accounts :
            carry' = [carry EXCEPT ![e].kind = kind, ![e].account = a]
      BY <1>1 DEF EnderRead
    <3>2. [carry EXCEPT ![e].kind = kind] \in [Requests -> Carried]
      BY EnderKindsAssumption DEF SignInTypeOK, Carried
    <3>3. carry' = [[carry EXCEPT ![e].kind = kind] EXCEPT ![e].account = a]
      BY <3>1
    <3>4. QED BY <3>2, <3>3, AccountCarried
  <2>2. met' \in [Enders -> SUBSET Requests]
    BY <1>1 DEF EnderRead, SignInTypeOK
  <2>3. QED BY <1>1, <2>1, <2>2 DEF EnderRead, SignInTypeOK, Goes, Phases
<1>2. CASE DeleteLock(e)
  BY <1>2 DEF DeleteLock, SignInTypeOK, Goes, Phases
<1>3. CASE DeleteCodes(e)
  <2>1. carry' \in [Requests -> Carried]
    BY <1>3 DEF DeleteCodes, SignInTypeOK, Carried
  <2>2. QED BY <1>3, <2>1 DEF DeleteCodes, SignInTypeOK, Goes, Phases
<1>4. CASE SweepLook(e)
  <2>1. carry' \in [Requests -> Carried]
    BY <1>4 DEF SweepLook, LiveTokensOf, SignInTypeOK, Carried
  <2>2. QED BY <1>4, <2>1 DEF SweepLook, SignInTypeOK, Goes, Phases
<1>5. CASE SweepHold(e)
  <2>1. carry[e].sweep \subseteq Tokens
    BY DEF SignInTypeOK, Carried
  <2>2. carry' \in [Requests -> Carried]
    BY <1>5, <2>1 DEF SweepHold, SignInTypeOK, Carried
  <2>3. QED BY <1>5, <2>2 DEF SweepHold, SignInTypeOK, Goes, Phases
<1>6. CASE EnderCommit(e)
  <2>1. carry[e].account \in Accounts
    BY <1>6 DEF EnderCommit, EndersExplained
  <2>2. Switched(e) \in AccountRow
    BY <2>1 DEF Switched, SignInTypeOK, AccountRow, Statuses
  <2>3. account' \in [Accounts -> AccountRow]
    BY <1>6, <2>1, <2>2 DEF EnderCommit, SignInTypeOK
  <2>4. code' \in [Codes -> CodeRow]
    BY <1>6 DEF EnderCommit, SignInTypeOK, CodeRow
  <2>5. QED
    BY <1>6, <2>3, <2>4, ForgetsTyped, RetiredTyped DEF EnderCommit, SignInTypeOK, Goes, Phases
<1>7. CASE EnderFail(e)
  BY <1>7, ForgetsTyped DEF EnderFail, SignInTypeOK, Goes, Phases
<1>8. QED
  BY <1>1, <1>2, <1>3, <1>4, <1>5, <1>6, <1>7, GivesUpTyped DEF EnderNext, EnderRefuse

(* and those who book.                                                     *)
LEMMA BookerTypeOK ==
  ASSUME SignInTypeOK, NEW b \in Bookers, BookerNext(b)
  PROVE  SignInTypeOK'
<1> b \in Requests BY DEF Requests
<1>1. CASE BookerRead(b)
  <2>1. PICK a \in Accounts : /\ carry' = [carry EXCEPT ![b].account = a] /\ Meets(b, a)
    BY <1>1 DEF BookerRead
  <2>2. carry' \in [Requests -> Carried]
    BY <2>1 DEF SignInTypeOK, Carried
  <2>3. QED BY <1>1, <2>1, <2>2, MeetsTyped DEF BookerRead, SignInTypeOK, Goes, Phases
<1>2. CASE BookerCommit(b)
  BY <1>2 DEF BookerCommit, SignInTypeOK, Goes, Phases
<1>3. CASE BookingEnds(b)
  BY <1>3 DEF BookingEnds, SignInTypeOK
<1>4. QED BY <1>1, <1>2, <1>3, GivesUpTyped DEF BookerNext, BookerFail
(***************************************************************************)
(* What a step leaves alone.                                               *)
(***************************************************************************)

(* A step of r moves nobody else.                                          *)
Apart(r) == \A q \in Requests \ {r} : pc'[q] = pc[q] /\ carry'[q] = carry[q]

LEMMA GivesUpApart ==
  ASSUME SignInTypeOK, NEW r \in Requests, GivesUp(r)
  PROVE  /\ Apart(r) /\ pc'[r] = "refused"
         /\ carry'[r].code = carry[r].code /\ carry'[r].number = carry[r].number
         /\ carry'[r].sweep = {} /\ carry'[r].codes = {}
         /\ UNCHANGED <<code, account, token>>
BY DEF GivesUp, Goes, Forgets, Apart, SignInTypeOK, Carried, Nothing

LEMMA AskSteps ==
  ASSUME SignInTypeOK, NEW c \in Codes, AskNext(c)
  PROVE  /\ Apart(c) /\ UNCHANGED <<account, token>>
         /\ carry'[c].sweep = {} \/ carry'[c] = carry[c]
<1> c \in Requests BY DEF Requests
<1>1. CASE AskRefuse(c) \/ AskFail(c)
  BY <1>1, GivesUpApart DEF AskRefuse, AskFail
<1>2. CASE AskCount(c) \/ AskCommit(c) \/ CodeAges(c)
  BY <1>2 DEF AskCount, AskCommit, CodeAges, Goes, Apart, SignInTypeOK
<1>3. QED BY <1>1, <1>2 DEF AskNext

LEMMA VerifySteps ==
  ASSUME SignInTypeOK, NEW v \in Verifiers, VerifyNext(v)
  PROVE  /\ Apart(v) /\ pc[v] \notin {"done", "refused"}
         /\ \/ VerifySignIn(v)
            \/ UNCHANGED <<account, token>> /\ pc'[v] # "done"
<1> v \in Requests BY DEF Requests, Sessions
<1>1. CASE GivesUp(v) /\ pc[v] \notin {"done", "refused"}
  BY <1>1, GivesUpApart
<1>2. CASE VerifyFind(v)
  BY <1>2 DEF VerifyFind, Goes, Apart, SignInTypeOK
<1>3. CASE VerifyReserve(v) \/ VerifyConsume(v) \/ VerifySignIn(v)
  BY <1>3 DEF VerifyReserve, VerifyConsume, VerifySignIn, Goes, Apart, SignInTypeOK
<1>4. CASE VerifyKnown(v) \/ VerifyNew(v)
  BY <1>4 DEF VerifyKnown, VerifyNew, Goes, Apart, SignInTypeOK
<1>5. QED
  BY <1>1, <1>2, <1>3, <1>4
     DEF VerifyNext, VerifyExpired, VerifyExhausted, VerifyWrong, VerifyTwinWon, VerifyOff, VerifyFail

LEMMA RefreshSteps ==
  ASSUME SignInTypeOK, NEW r \in Refreshers, RefreshNext(r)
  PROVE  /\ Apart(r) /\ UNCHANGED <<code, account>>
         /\ pc[r] \notin {"done", "refused"}
         /\ \/ RefreshCommit(r)
            \/ ReplayEnds(r) /\ pc'[r] # "done"
            \/ UNCHANGED token /\ pc'[r] # "done"
<1> r \in Requests BY DEF Requests, Sessions
<1>1. CASE GivesUp(r) /\ pc[r] \notin {"done", "refused"}
  BY <1>1, GivesUpApart
<1>2. CASE RefreshFind(r)
  BY <1>2 DEF RefreshFind, Goes, Apart, SignInTypeOK
<1>3. CASE RefreshRotate(r) \/ RefreshCommit(r) \/ ReplayLook(r) \/ ReplayEnds(r)
  BY <1>3 DEF RefreshRotate, RefreshCommit, ReplayLook, ReplayEnds, Goes, Forgets, Apart, SignInTypeOK
<1>4. QED
  BY <1>1, <1>2, <1>3 DEF RefreshNext, RefreshOff, RefreshFail, ReplayNotEnded

LEMMA EnderSteps ==
  ASSUME SignInTypeOK, NEW e \in Enders, EnderNext(e)
  PROVE  /\ Apart(e)
         /\ EnderCommit(e) \/ UNCHANGED <<code, account, token>>
<1> e \in Requests BY DEF Requests
<1>1. CASE EnderRefuse(e)
  BY <1>1, GivesUpApart DEF EnderRefuse
<1>2. CASE EnderRead(e)
  BY <1>2 DEF EnderRead, Goes, Apart, SignInTypeOK
<1>3. CASE DeleteLock(e) \/ DeleteCodes(e) \/ SweepLook(e) \/ SweepHold(e)
  BY <1>3 DEF DeleteLock, DeleteCodes, SweepLook, SweepHold, Goes, Apart, SignInTypeOK
<1>4. CASE EnderCommit(e) \/ EnderFail(e)
  BY <1>4 DEF EnderCommit, EnderFail, Goes, Forgets, Apart, SignInTypeOK
<1>5. QED BY <1>1, <1>2, <1>3, <1>4 DEF EnderNext

LEMMA BookerSteps ==
  ASSUME SignInTypeOK, NEW b \in Bookers, BookerNext(b)
  PROVE  Apart(b) /\ UNCHANGED <<code, account, token>>
<1> b \in Requests BY DEF Requests
<1>1. CASE BookerFail(b)
  BY <1>1, GivesUpApart DEF BookerFail
<1>2. CASE BookerRead(b)
  BY <1>2 DEF BookerRead, Goes, Apart, SignInTypeOK
<1>3. CASE BookerCommit(b) \/ BookingEnds(b)
  BY <1>3 DEF BookerCommit, BookingEnds, Goes, Apart, SignInTypeOK
<1>4. QED BY <1>1, <1>2, <1>3 DEF BookerNext

(***************************************************************************)
(* The tokens: who has which, and that a chain has one usable token.       *)
(***************************************************************************)

LEMMA RetiredOnly ==
  ASSUME SignInTypeOK, NEW S, token' = Retired(S)
  PROVE  \A t \in Tokens :
           /\ token'[t].user = token[t].user /\ token'[t].root = token[t].root
           /\ token'[t].state = "live" => token[t].state = "live"
           /\ t \notin S => token'[t].state = token[t].state
           /\ token[t].state # "none" => token'[t].state # "none"
           /\ token[t].state = "none" /\ t \notin S => token'[t].state = "none"
BY DEF Retired, SignInTypeOK, TokenRow

LEMMA TokensStand ==
  ASSUME SignInTypeOK, TokensExplained, OneUsableToken, NEW r \in Requests, Apart(r),
         UNCHANGED token,
         r \in Tokens => pc[r] # "done" /\ pc'[r] # "done"
  PROVE  TokensExplained' /\ OneUsableToken'
BY DEF TokensExplained, OneUsableToken, Apart, Requests, Tokens

LEMMA TokensRetire ==
  ASSUME SignInTypeOK, TokensExplained, OneUsableToken, NEW r \in Requests, Apart(r),
         NEW S \in SUBSET Tokens, token' = Retired(S),
         \A t \in S : token[t].state # "none",
         r \in Tokens => pc[r] # "done" /\ pc'[r] # "done"
  PROVE  TokensExplained' /\ OneUsableToken'
<1>1. \A t \in Tokens :
           /\ token'[t].user = token[t].user /\ token'[t].root = token[t].root
           /\ token'[t].state = "live" => token[t].state = "live"
           /\ token'[t].state = "none" <=> token[t].state = "none"
  BY RetiredOnly
<1>2. OneUsableToken'
  BY <1>1 DEF OneUsableToken
<1>3. \A t \in Tokens : /\ pc'[t] = "done" <=> pc[t] = "done"
                        /\ pc[t] = "done" => carry'[t] = carry[t]
  BY DEF Apart, Requests, Tokens
<1>4. TokensExplained'
  BY <1>1, <1>3 DEF TokensExplained, Tokens, Sessions
<1>5. QED BY <1>2, <1>4

(* A sign-in's first token.                                                *)
LEMMA VerifyCommitTokens ==
  ASSUME SignInTypeOK, TokensExplained, OneUsableToken, AccountsExplained,
         NEW v \in Verifiers, VerifySignIn(v), Apart(v)
  PROVE  TokensExplained' /\ OneUsableToken'
<1> DEFINE a == carry[v].account
<1>1. /\ v \in Tokens /\ v \in Requests /\ a \in Accounts /\ token[v].state = "none"
      /\ \A t \in Tokens : token[t].state # "none" => token[t].root # v
  BY DEF VerifySignIn, AccountsExplained, TokensExplained, Requests, Sessions, Tokens
<1>2. /\ token' = [token EXCEPT ![v] = [state |-> "live", user |-> a, root |-> v]]
      /\ pc' = [pc EXCEPT ![v] = "done"] /\ carry' = carry
  BY DEF VerifySignIn, Goes
<1>3. OneUsableToken'
  BY <1>1, <1>2 DEF OneUsableToken, SignInTypeOK
<1>4. TokensExplained'
  BY <1>1, <1>2 DEF TokensExplained, SignInTypeOK, Requests, Tokens
<1>5. QED BY <1>3, <1>4

(* A successor takes its predecessor's place in the chain.                 *)
LEMMA RefreshCommitTokens ==
  ASSUME SignInTypeOK, TokensExplained, OneUsableToken, RotationsExplained,
         NEW r \in Refreshers, RefreshCommit(r)
  PROVE  TokensExplained' /\ OneUsableToken'
<1> DEFINE t == carry[r].token
<1>1. /\ r \in Tokens /\ r \in Requests /\ t \in Tokens /\ t # r
      /\ token[r].state = "none" /\ token[t].state = "live" /\ carry[r].account = token[t].user
      /\ r \notin Verifiers
  BY IdsAssumption DEF RefreshCommit, RotationsExplained, TokensExplained, Requests, Sessions, Tokens
<1>2. /\ \A u \in Tokens \ {t, r} : token'[u] = token[u]
      /\ token'[t].state = "retired"
      /\ token'[t].root = token[t].root /\ token'[t].user = token[t].user
      /\ token'[r] = [state |-> "live", user |-> carry[r].account, root |-> token[t].root]
  <2>1. token[t] \in TokenRow BY <1>1 DEF SignInTypeOK
  <2>2. QED BY <1>1, <2>1 DEF RefreshCommit, SignInTypeOK, TokenRow
<1>3. pc' = [pc EXCEPT ![r] = "done"] /\ carry' = carry
  BY DEF RefreshCommit, Goes
<1>4. OneUsableToken'
  BY <1>1, <1>2 DEF OneUsableToken
<1>5. TokensExplained'
  BY <1>1, <1>2, <1>3 DEF TokensExplained, SignInTypeOK, Requests, Sessions, Tokens
<1>6. QED BY <1>4, <1>5

(* Every step keeps the tokens explained and the chains single.            *)
LEMMA TokensKept ==
  ASSUME SignInTypeOK, TokensExplained, OneUsableToken, AccountsExplained, RotationsExplained,
         EndersExplained, SignInNext
  PROVE  TokensExplained' /\ OneUsableToken'
<1>1. ASSUME NEW c \in Codes, AskNext(c) PROVE TokensExplained' /\ OneUsableToken'
  <2>1. c \in Requests /\ c \notin Tokens
    BY IdsAssumption DEF Requests, Sessions, Tokens
  <2>2. QED BY <1>1, <2>1, AskSteps, TokensStand
<1>2. ASSUME NEW v \in Verifiers, VerifyNext(v) PROVE TokensExplained' /\ OneUsableToken'
  <2>1. v \in Requests BY DEF Requests, Sessions
  <2>2. QED BY <1>2, <2>1, VerifySteps, TokensStand, VerifyCommitTokens
<1>3. ASSUME NEW r \in Refreshers, RefreshNext(r) PROVE TokensExplained' /\ OneUsableToken'
  <2>1. r \in Requests BY DEF Requests, Sessions
  <2>2. CASE ReplayEnds(r) /\ pc'[r] # "done"
    <3>1. carry[r].sweep \subseteq Tokens /\ \A t \in carry[r].sweep : token[t].state # "none"
      BY <2>1 DEF RotationsExplained, SignInTypeOK, Carried
    <3>2. token' = Retired(carry[r].sweep)
      BY <2>2 DEF ReplayEnds
    <3>3. QED BY <1>3, <2>1, <2>2, <3>1, <3>2, RefreshSteps, TokensRetire
  <2>3. QED BY <1>3, <2>1, <2>2, RefreshSteps, TokensStand, RefreshCommitTokens
<1>4. ASSUME NEW e \in Enders, EnderNext(e) PROVE TokensExplained' /\ OneUsableToken'
  <2>1. e \in Requests /\ e \notin Tokens
    BY IdsAssumption DEF Requests, Sessions, Tokens
  <2>2. CASE EnderCommit(e)
    <3>1. carry[e].sweep \subseteq Tokens /\ \A t \in carry[e].sweep : token[t].state # "none"
      BY <2>1 DEF RotationsExplained, SignInTypeOK, Carried
    <3>2. token' = Retired(carry[e].sweep)
      BY <2>2 DEF EnderCommit
    <3>3. QED BY <1>4, <2>1, <3>1, <3>2, EnderSteps, TokensRetire
  <2>3. QED BY <1>4, <2>1, <2>2, EnderSteps, TokensStand
<1>5. ASSUME NEW b \in Bookers, BookerNext(b) PROVE TokensExplained' /\ OneUsableToken'
  <2>1. b \in Requests /\ b \notin Tokens
    BY IdsAssumption DEF Requests, Sessions, Tokens
  <2>2. QED BY <1>5, <2>1, BookerSteps, TokensStand
<1>6. QED BY <1>1, <1>2, <1>3, <1>4, <1>5 DEF SignInNext

(* What a refresh holds is unaffected by a step of somebody else that      *)
(* leaves live and issued tokens so, and sweeps none of those held.        *)
LEMMA RotationsStand ==
  ASSUME SignInTypeOK, RotationsExplained, NEW r \in Requests, Apart(r),
         r \notin Refreshers,
         \A t \in Tokens : /\ token'[t].user = token[t].user \/ token[t].state = "none"
                           /\ token[t].state # "none" => token'[t].state # "none",
         \A q \in Refreshers : pc[q] = "rotated" =>
           /\ token'[carry[q].token].state = token[carry[q].token].state
           /\ r \in Enders /\ pc'[r] = "swept" => carry[q].token \notin carry'[r].sweep,
         r \in Enders => \A t \in carry'[r].sweep : t \in Tokens /\ token[t].state # "none"
  PROVE  RotationsExplained'
<1>1. \A q \in Refreshers : pc'[q] = pc[q] /\ carry'[q] = carry[q]
  BY DEF Apart, Requests, Sessions
<1>2. \A e \in Enders \ {r} : pc'[e] = pc[e] /\ carry'[e] = carry[e]
  BY DEF Apart, Requests
<1>3. \A q \in Refreshers \cup Enders : carry[q].sweep \subseteq Tokens
  BY DEF SignInTypeOK, Carried, Requests, Sessions
<1>4. QED BY <1>1, <1>2, <1>3 DEF RotationsExplained

LEMMA RotationsSweep ==
  ASSUME SignInTypeOK, RotationsExplained, EndersExplained, NEW e \in Enders, EnderNext(e)
  PROVE  RotationsExplained'
<1>1. e \in Requests /\ e \notin Refreshers /\ e \notin Tokens /\ Apart(e)
  BY IdsAssumption, EnderSteps DEF Requests, Sessions, Tokens
<1>2. carry[e].sweep \subseteq Tokens /\ \A t \in carry[e].sweep : token[t].state # "none"
  BY <1>1 DEF RotationsExplained, SignInTypeOK, Carried
<1>3. ASSUME UNCHANGED token, carry'[e].sweep \subseteq carry[e].sweep \/ pc'[e] # "swept",
             \A t \in carry'[e].sweep : t \in Tokens /\ token[t].state # "none",
             \A q \in Refreshers : pc[q] = "rotated" /\ pc'[e] = "swept" => carry[q].token \notin carry'[e].sweep
      PROVE  RotationsExplained'
  BY <1>1, <1>3, RotationsStand
<1>4. CASE EnderRefuse(e)
  BY <1>1, <1>3, <1>4, GivesUpApart DEF EnderRefuse
<1>5. CASE EnderRead(e)
  <2>1. carry[e].sweep = {} /\ carry'[e].sweep = carry[e].sweep /\ pc'[e] = "read" /\ UNCHANGED token
    BY <1>1, <1>5 DEF EnderRead, EndersExplained, Goes, SignInTypeOK, Carried
  <2>2. QED BY <1>3, <2>1
<1>6. CASE DeleteLock(e) \/ DeleteCodes(e)
  <2>1. /\ carry'[e].sweep = carry[e].sweep /\ pc'[e] # "swept" /\ UNCHANGED token
    BY <1>1, <1>6 DEF DeleteLock, DeleteCodes, Goes, SignInTypeOK, Carried
  <2>2. QED BY <1>2, <1>3, <2>1
<1>7. CASE SweepLook(e)
  <2>1. /\ carry'[e].sweep = LiveTokensOf(carry[e].account) /\ pc'[e] = "sweeping" /\ UNCHANGED token
    BY <1>1, <1>7 DEF SweepLook, Goes, SignInTypeOK, Carried
  <2>2. QED BY <1>3, <2>1 DEF LiveTokensOf
<1>8. CASE SweepHold(e)
  <2>1. /\ carry'[e].sweep \subseteq carry[e].sweep /\ UNCHANGED token
        /\ \A t \in carry[e].sweep : TokenHolders(t) = {}
    BY <1>1, <1>8 DEF SweepHold, Goes, SignInTypeOK, Carried
  <2>2. \A q \in Refreshers : pc[q] = "rotated" => carry[q].token \notin carry[e].sweep
    BY <2>1 DEF TokenHolders
  <2>3. QED BY <1>2, <1>3, <2>1, <2>2
<1>9. CASE EnderFail(e)
  <2>1. carry'[e].sweep = {} /\ UNCHANGED token
    BY <1>1, <1>9 DEF EnderFail, Forgets, Nothing, SignInTypeOK, Carried
  <2>2. QED BY <1>3, <2>1
<1>10. CASE EnderCommit(e)
  <2>1. /\ token' = Retired(carry[e].sweep) /\ carry'[e].sweep = {}
        /\ pc[e] = "swept" \/ carry[e].sweep = {}
    BY <1>1, <1>10 DEF EnderCommit, EndersExplained, Forgets, Nothing, SignInTypeOK, Carried
  <2>2. \A q \in Refreshers : pc[q] = "rotated" => carry[q].token \in Tokens \ carry[e].sweep
    BY <2>1 DEF RotationsExplained
  <2>3. \A t \in Tokens : /\ token'[t].user = token[t].user
                          /\ token[t].state # "none" => token'[t].state # "none"
                          /\ t \notin carry[e].sweep => token'[t].state = token[t].state
    BY <2>1, RetiredOnly
  <2>4. QED BY <1>1, <2>1, <2>2, <2>3, RotationsStand
<1>11. QED BY <1>4, <1>5, <1>6, <1>7, <1>8, <1>9, <1>10 DEF EnderNext

LEMMA RotationsRefresh ==
  ASSUME SignInTypeOK, RotationsExplained, TokensExplained, NEW r \in Refreshers, RefreshNext(r)
  PROVE  RotationsExplained'
<1>1. /\ r \in Requests /\ r \in Tokens /\ r \notin Enders /\ Apart(r)
      /\ carry[r].sweep \subseteq Tokens
  BY IdsAssumption, RefreshSteps DEF Requests, Sessions, Tokens, SignInTypeOK, Carried
<1>2. /\ \A q \in Refreshers \ {r} : pc'[q] = pc[q] /\ carry'[q] = carry[q]
      /\ \A e \in Enders : pc'[e] = pc[e] /\ carry'[e] = carry[e]
      /\ \A q \in Refreshers \cup Enders : carry[q].sweep \subseteq Tokens
  BY <1>1 DEF Apart, Requests, Sessions, SignInTypeOK, Carried
<1>3. ASSUME pc'[r] \notin {"found", "rotated"}, UNCHANGED token,
             \A t \in carry'[r].sweep : t \in Tokens /\ token[t].state # "none"
      PROVE  RotationsExplained'
  BY <1>2, <1>3 DEF RotationsExplained
<1>4. CASE GivesUp(r)
  BY <1>1, <1>3, <1>4, GivesUpApart
<1>5. CASE RefreshFind(r)
  <2>1. PICK t \in Tokens :
          /\ token[t].state # "none"
          /\ carry' = [carry EXCEPT ![r].token = t, ![r].account = token[t].user]
          /\ Goes(r, IF token[t].state = "live" THEN "found" ELSE "replay")
    BY <1>5 DEF RefreshFind
  <2>2. /\ carry'[r].token = t /\ carry'[r].account = token[t].user /\ carry'[r].sweep = carry[r].sweep
        /\ pc'[r] # "rotated" /\ UNCHANGED token
    BY <1>1, <1>5, <2>1 DEF RefreshFind, Goes, SignInTypeOK, Carried
  <2>3. \A q \in Refreshers : pc'[q] \in {"found", "rotated"} =>
          /\ carry'[q].token \in Tokens
          /\ token[carry'[q].token].state # "none"
          /\ carry'[q].account = token[carry'[q].token].user
    BY <1>2, <2>1, <2>2 DEF RotationsExplained
  <2>4. \A q \in Refreshers : pc'[q] = "rotated" => q # r /\ pc[q] = "rotated"
    BY <1>2, <2>2
  <2>5. \A q \in Refreshers \cup Enders : carry'[q].sweep = carry[q].sweep
    BY <1>2, <2>2
  <2>6. QED BY <1>2, <2>2, <2>3, <2>4, <2>5 DEF RotationsExplained
<1>6. CASE RefreshRotate(r)
  <2>1. /\ carry' = carry /\ UNCHANGED token /\ pc[r] = "found" /\ TokenHolders(carry[r].token) = {}
        /\ pc'[r] = IF token[carry[r].token].state = "live" THEN "rotated" ELSE "replay"
    BY <1>1, <1>6 DEF RefreshRotate, Goes, SignInTypeOK
  <2>2. /\ \A q \in Refreshers : pc[q] = "rotated" => carry[q].token # carry[r].token
        /\ \A e \in Enders : pc[e] = "swept" => carry[r].token \notin carry[e].sweep
    BY <2>1 DEF TokenHolders
  <2>3. QED BY <1>2, <2>1, <2>2 DEF RotationsExplained
<1>7. CASE RefreshCommit(r)
  <2>1. /\ carry' = carry /\ pc'[r] = "done" /\ pc[r] = "rotated"
        /\ carry[r].token \in Tokens /\ token[r].state = "none" /\ carry[r].token # r
    BY <1>1, <1>7 DEF RefreshCommit, Goes, SignInTypeOK, RotationsExplained, TokensExplained
  <2>2. /\ \A u \in Tokens \ {carry[r].token, r} : token'[u] = token[u]
        /\ token'[carry[r].token].state = "retired"
        /\ token'[carry[r].token].user = token[carry[r].token].user
        /\ token'[r].state = "live"
    <3>1. token[carry[r].token] \in TokenRow BY <2>1 DEF SignInTypeOK
    <3>2. QED BY <1>1, <1>7, <2>1, <3>1 DEF RefreshCommit, SignInTypeOK, TokenRow
  <2>3. \A t \in Tokens : token[t].state # "none" =>
          token'[t].state # "none" /\ token'[t].user = token[t].user
    BY <2>1, <2>2
  <2>4. \A q \in Refreshers : pc'[q] \in {"found", "rotated"} =>
          /\ q # r /\ pc[q] = pc'[q] /\ carry[q].token \in Tokens
          /\ token'[carry[q].token].state # "none"
          /\ carry[q].account = token'[carry[q].token].user
    BY <1>2, <2>1, <2>3 DEF RotationsExplained
  <2>5. \A q \in Refreshers : pc'[q] = "rotated" => token'[carry[q].token].state = "live"
    BY <1>1, <2>1, <2>2, <2>4 DEF RotationsExplained
  <2>6. \A q \in Refreshers \cup Enders : \A t \in carry'[q].sweep : token'[t].state # "none"
    BY <1>2, <2>1, <2>3 DEF RotationsExplained
  <2>7. QED BY <1>2, <2>1, <2>4, <2>5, <2>6 DEF RotationsExplained
<1>8. CASE ReplayLook(r)
  <2>1. carry'[r].sweep = LiveTokensOf(carry[r].account) /\ pc'[r] = "ending" /\ UNCHANGED token
    BY <1>1, <1>8 DEF ReplayLook, Goes, SignInTypeOK, Carried
  <2>2. QED BY <1>3, <2>1 DEF LiveTokensOf
<1>9. CASE ReplayEnds(r)
  <2>1. /\ token' = Retired(carry[r].sweep) /\ carry'[r].sweep = {} /\ pc'[r] = "refused"
        /\ \A t \in carry[r].sweep : TokenHolders(t) = {}
    BY <1>1, <1>9 DEF ReplayEnds, Forgets, Goes, Nothing, SignInTypeOK, Carried
  <2>2. \A q \in Refreshers : pc[q] = "rotated" => carry[q].token \in Tokens \ carry[r].sweep
    BY <2>1 DEF TokenHolders, RotationsExplained
  <2>3. \A t \in Tokens : /\ token'[t].user = token[t].user
                          /\ token[t].state # "none" => token'[t].state # "none"
                          /\ t \notin carry[r].sweep => token'[t].state = token[t].state
    BY <2>1, RetiredOnly
  <2>4. QED BY <1>1, <1>2, <2>1, <2>2, <2>3 DEF RotationsExplained
<1>10. QED
  BY <1>4, <1>5, <1>6, <1>7, <1>8, <1>9 DEF RefreshNext, RefreshOff, RefreshFail, ReplayNotEnded

LEMMA RotationsKept ==
  ASSUME SignInTypeOK, RotationsExplained, TokensExplained, EndersExplained, SignInNext
  PROVE  RotationsExplained'
<1>1. ASSUME NEW c \in Codes, AskNext(c) PROVE RotationsExplained'
  <2>1. c \in Requests /\ c \notin Refreshers /\ c \notin Enders
    BY IdsAssumption DEF Requests, Sessions
  <2>2. QED BY <1>1, <2>1, AskSteps, RotationsStand
<1>2. ASSUME NEW v \in Verifiers, VerifyNext(v) PROVE RotationsExplained'
  <2>1. v \in Requests /\ v \notin Refreshers /\ v \notin Enders
    BY IdsAssumption DEF Requests, Sessions
  <2>2. CASE VerifySignIn(v)
    <3>1. v \in Tokens /\ token[v].state = "none" /\ \A t \in Tokens \ {v} : token'[t] = token[t]
      BY <2>2 DEF VerifySignIn, TokensExplained, Tokens, Sessions, SignInTypeOK
    <3>2. token'[v].state = "live"
      BY <2>2, <3>1 DEF VerifySignIn, SignInTypeOK
    <3>3. \A q \in Refreshers : pc[q] = "rotated" => carry[q].token \in Tokens \ {v}
      BY <3>1 DEF RotationsExplained
    <3>4. QED BY <1>2, <2>1, <3>1, <3>2, <3>3, VerifySteps, RotationsStand
  <2>3. QED BY <1>2, <2>1, <2>2, VerifySteps, RotationsStand
<1>3. ASSUME NEW b \in Bookers, BookerNext(b) PROVE RotationsExplained'
  <2>1. b \in Requests /\ b \notin Refreshers /\ b \notin Enders
    BY IdsAssumption DEF Requests, Sessions
  <2>2. QED BY <1>3, <2>1, BookerSteps, RotationsStand
<1>4. QED BY <1>1, <1>2, <1>3, RotationsRefresh, RotationsSweep DEF SignInNext

(***************************************************************************)
(* What a request that ends sessions holds, and the accounts.              *)
(***************************************************************************)

LEMMA AccountsStand ==
  ASSUME SignInTypeOK, NEW e \in Enders, EnderCommit(e), EndersExplained
  PROVE  /\ carry[e].account \in Accounts
         /\ \A a \in Accounts \ {carry[e].account} : account'[a] = account[a]
         /\ account[carry[e].account].status # "NONE"
         /\ account'[carry[e].account].status # "NONE"
         /\ account'[carry[e].account].phone \in {NoPhone, account[carry[e].account].phone}
<1>1. carry[e].account \in Accounts /\ account[carry[e].account].status # "NONE"
  BY DEF EnderCommit, EndersExplained
<1>2. account' = [account EXCEPT ![carry[e].account] = Switched(e)]
  BY DEF EnderCommit
<1>3. account[carry[e].account] \in AccountRow
  BY <1>1 DEF SignInTypeOK
<1>4. /\ Switched(e).status # "NONE"
      /\ Switched(e).phone \in {NoPhone, account[carry[e].account].phone}
  BY <1>1, <1>3 DEF Switched, AccountRow
<1>5. QED BY <1>1, <1>2, <1>4 DEF SignInTypeOK

(* No account goes back to not being one.                                  *)
LEMMA AccountsStay ==
  ASSUME SignInTypeOK, EndersExplained, SignInNext
  PROVE  \A a \in Accounts : account[a].status # "NONE" => account'[a].status # "NONE"
<1>1. ASSUME NEW v \in Verifiers, VerifySignIn(v)
      PROVE  \A a \in Accounts : account[a].status # "NONE" => account'[a].status # "NONE"
  BY <1>1 DEF VerifySignIn, SignInTypeOK
<1>2. ASSUME NEW e \in Enders, EnderCommit(e)
      PROVE  \A a \in Accounts : account[a].status # "NONE" => account'[a].status # "NONE"
  BY <1>2, AccountsStand
<1>3. QED
  BY <1>1, <1>2, AskSteps, VerifySteps, RefreshSteps, EnderSteps, BookerSteps DEF SignInNext

LEMMA EndersKept ==
  ASSUME SignInTypeOK, EndersExplained, SignInNext
  PROVE  EndersExplained'
<1>1. ASSUME NEW r \in Requests \ Enders, Apart(r) PROVE EndersExplained'
  <2>1. \A e \in Enders : pc'[e] = pc[e] /\ carry'[e] = carry[e]
    BY <1>1 DEF Apart, Requests
  <2>2. QED BY <2>1, AccountsStay DEF EndersExplained, Deleting
<1>2. ASSUME NEW e \in Enders, EnderNext(e) PROVE EndersExplained'
  <2>1. /\ e \in Requests
        /\ \A d \in Enders \ {e} : pc'[d] = pc[d] /\ carry'[d] = carry[d]
    BY <1>2, EnderSteps DEF Apart, Requests
  <2>2. SUFFICES
          /\ pc'[e] \in {"read", "locked", "erased", "sweeping", "swept"} =>
               carry'[e].account \in Accounts /\ account'[carry'[e].account].status # "NONE"
          /\ carry'[e].codes # {} => Deleting(e)'
          /\ pc'[e] \in {"locked", "erased"} => carry'[e].kind = "delete"
          /\ pc'[e] \in {"start", "read", "locked", "erased"} => carry'[e].sweep = {}
    BY <2>1, AccountsStay DEF EndersExplained, Deleting
  <2>3. CASE EnderRead(e)
    <3>1. PICK kind \in EnderKinds, a \in Accounts :
            /\ MayEnd(kind, a)
            /\ carry' = [carry EXCEPT ![e].kind = kind, ![e].account = a]
      BY <2>3 DEF EnderRead
    <3>2. account[a].status # "NONE"
      BY <3>1, EnderKindsAssumption DEF MayEnd
    <3>3. /\ carry'[e].account = a /\ carry'[e].codes = carry[e].codes
          /\ carry'[e].sweep = carry[e].sweep /\ pc[e] = "start" /\ UNCHANGED account
          /\ pc'[e] = "read"
      BY <2>1, <2>3, <3>1 DEF EnderRead, Goes, SignInTypeOK, Carried
    <3>4. QED BY <3>2, <3>3 DEF EndersExplained, Deleting
  <2>4. CASE DeleteLock(e)
    BY <2>1, <2>4 DEF DeleteLock, Goes, EndersExplained, Deleting, SignInTypeOK
  <2>5. CASE DeleteCodes(e)
    <3>1. /\ pc[e] = "locked" /\ pc'[e] = "erased" /\ UNCHANGED account
          /\ carry'[e].account = carry[e].account /\ carry'[e].sweep = carry[e].sweep
          /\ carry'[e].kind = carry[e].kind
      BY <2>1, <2>5 DEF DeleteCodes, Goes, SignInTypeOK, Carried
    <3>2. carry[e].kind = "delete"
      BY <3>1 DEF EndersExplained
    <3>3. QED BY <3>1, <3>2 DEF EndersExplained, Deleting
  <2>6. CASE SweepLook(e) \/ SweepHold(e)
    <3>1. /\ pc[e] \in {"erased", "read", "sweeping"} /\ pc'[e] \in {"sweeping", "swept"}
          /\ carry'[e].account = carry[e].account /\ carry'[e].codes = carry[e].codes
          /\ carry'[e].kind = carry[e].kind /\ UNCHANGED account
      BY <2>1, <2>6 DEF SweepLook, SweepHold, Goes, SignInTypeOK, Carried
    <3>2. QED BY <3>1 DEF EndersExplained, Deleting
  <2>7. CASE EnderCommit(e) \/ EnderFail(e)
    <3>1. pc'[e] \in {"done", "refused"} /\ Forgets(e)
      BY <2>1, <2>7 DEF EnderCommit, EnderFail, Goes, SignInTypeOK
    <3>2. carry'[e].codes = {}
      BY <2>1, <3>1 DEF Forgets, Nothing, SignInTypeOK, Carried
    <3>3. QED BY <3>1, <3>2
  <2>8. CASE EnderRefuse(e)
    BY <2>1, <2>8, GivesUpApart DEF EnderRefuse
  <2>9. QED
    BY <1>2, <2>3, <2>4, <2>5, <2>6, <2>7, <2>8 DEF EnderNext
<1>3. QED
  BY <1>1, <1>2, AskSteps, VerifySteps, RefreshSteps, BookerSteps, IdsAssumption
     DEF SignInNext, Requests, Sessions

LEMMA AccountsKept ==
  ASSUME SignInTypeOK, AccountsExplained, OneAccountPerNumber, EndersExplained, SignInNext
  PROVE  AccountsExplained' /\ OneAccountPerNumber'
<1> USE PhonesAssumption
<1>1. ASSUME NEW r \in Requests, Apart(r), UNCHANGED account,
             r \in Verifiers => pc'[r] # "signed" \/ (pc[r] = "signed" /\ carry'[r] = carry[r])
      PROVE  AccountsExplained' /\ OneAccountPerNumber'
  <2>1. \A w \in Verifiers : pc'[w] = "signed" => pc[w] = "signed" /\ carry'[w] = carry[w]
    BY <1>1 DEF Apart, Requests, Sessions
  <2>2. QED BY <1>1, <2>1 DEF AccountsExplained, OneAccountPerNumber, OwnersOf
<1>2. ASSUME NEW v \in Verifiers, VerifyNext(v) PROVE AccountsExplained' /\ OneAccountPerNumber'
  <2>1. /\ v \in Requests
        /\ \A w \in Verifiers \ {v} : pc'[w] = pc[w] /\ carry'[w] = carry[w]
    BY <1>2, VerifySteps DEF Apart, Requests, Sessions
  <2>2. CASE VerifyKnown(v)
    <3>1. PICK a \in OwnersOf(VerifierPhone[v]) :
            account[a].status = "ACTIVE" /\ carry' = [carry EXCEPT ![v].account = a]
      BY <2>2 DEF VerifyKnown
    <3>2. /\ a \in Accounts /\ carry'[v].account = a /\ pc'[v] = "signed" /\ UNCHANGED account
      BY <2>1, <2>2, <3>1 DEF VerifyKnown, OwnersOf, Goes, SignInTypeOK, Carried
    <3>3. QED
      BY <2>1, <3>1, <3>2 DEF AccountsExplained, OneAccountPerNumber, OwnersOf
  <2>3. CASE VerifyNew(v)
    <3>1. PICK a \in Accounts :
            /\ account[a].status = "NONE"
            /\ \A w \in Verifiers : pc[w] = "signed" => carry[w].account # a
            /\ carry' = [carry EXCEPT ![v].account = a]
      BY <2>3 DEF VerifyNew
    <3>2. /\ carry'[v].account = a /\ pc'[v] = "signed" /\ pc[v] = "consumed" /\ UNCHANGED account
          /\ OwnersOf(VerifierPhone[v]) = {}
          /\ \A w \in Verifiers \ {v} : pc[w] = "signed" /\ account[carry[w].account].status = "NONE"
                                           => VerifierPhone[w] # VerifierPhone[v]
      BY <2>1, <2>3, <3>1 DEF VerifyNew, NumberTakers, Goes, SignInTypeOK, Carried
    <3>3. OwnersOf(VerifierPhone[v])' = {}
      BY <3>2 DEF OwnersOf
    <3>4. QED
      BY <2>1, <3>1, <3>2, <3>3 DEF AccountsExplained, OneAccountPerNumber, OwnersOf
  <2>4. CASE VerifySignIn(v)
    <3> DEFINE a == carry[v].account
    <3>1. /\ carry' = carry /\ pc[v] = "signed" /\ pc'[v] = "done" /\ a \in Accounts
      BY <2>1, <2>4 DEF VerifySignIn, Goes, AccountsExplained, SignInTypeOK
    <3>2. CASE account[a].status # "NONE"
      <4>1. account' = account
        BY <2>4, <3>1, <3>2 DEF VerifySignIn, SignInTypeOK
      <4>2. QED BY <1>1, <2>1, <3>1, <4>1, <1>2, VerifySteps
    <3>3. CASE account[a].status = "NONE"
      <4>1. /\ account'[a].status = "ACTIVE" /\ account'[a].phone = VerifierPhone[v]
            /\ \A b \in Accounts \ {a} : account'[b] = account[b]
        BY <2>4, <3>1, <3>3 DEF VerifySignIn, SignInTypeOK, AccountRow
      <4>2. /\ \A b \in Accounts : account[b].phone # VerifierPhone[v]
            /\ \A w \in Verifiers \ {v} : pc[w] = "signed" =>
                 /\ carry[w].account # a
                 /\ account[carry[w].account].status = "NONE" => VerifierPhone[w] # VerifierPhone[v]
        BY <3>1, <3>3 DEF AccountsExplained, OwnersOf
      <4>3. OneAccountPerNumber'
        BY <4>1, <4>2 DEF OneAccountPerNumber
      <4>4. \A w \in Verifiers \ {v} : pc[w] = "signed" =>
              /\ carry[w].account \in Accounts
              /\ account'[carry[w].account] = account[carry[w].account]
        BY <4>1, <4>2 DEF AccountsExplained
      <4>5. \A w \in Verifiers \ {v} : pc[w] = "signed" /\ account[carry[w].account].status = "NONE"
               => OwnersOf(VerifierPhone[w])' = {}
        BY <4>1, <4>2 DEF AccountsExplained, OwnersOf
      <4>6. AccountsExplained'
        BY <2>1, <3>1, <4>1, <4>2, <4>4, <4>5 DEF AccountsExplained
      <4>7. QED BY <4>3, <4>6
    <3>4. QED BY <3>2, <3>3
  <2>5. CASE VerifyFind(v) \/ VerifyReserve(v) \/ VerifyConsume(v)
    <3>1. pc'[v] # "signed" /\ UNCHANGED account
      BY <2>1, <2>5 DEF VerifyFind, VerifyReserve, VerifyConsume, Goes, SignInTypeOK
    <3>2. QED BY <1>1, <1>2, <2>1, <3>1, VerifySteps
  <2>6. CASE GivesUp(v)
    BY <1>1, <2>1, <2>6, GivesUpApart
  <2>7. QED
    BY <1>2, <2>2, <2>3, <2>4, <2>5, <2>6
       DEF VerifyNext, VerifyExpired, VerifyExhausted, VerifyWrong, VerifyTwinWon, VerifyOff, VerifyFail
<1>3. ASSUME NEW e \in Enders, EnderNext(e) PROVE AccountsExplained' /\ OneAccountPerNumber'
  <2>1. e \in Requests /\ e \notin Verifiers /\ Apart(e)
    BY <1>3, EnderSteps, IdsAssumption DEF Requests, Sessions
  <2>2. CASE EnderCommit(e)
    <3>1. /\ carry[e].account \in Accounts
          /\ \A a \in Accounts \ {carry[e].account} : account'[a] = account[a]
          /\ account[carry[e].account].status # "NONE"
          /\ account'[carry[e].account].status # "NONE"
          /\ account'[carry[e].account].phone \in {NoPhone, account[carry[e].account].phone}
      BY <2>2, AccountsStand
    <3>2. \A w \in Verifiers : pc'[w] = pc[w] /\ carry'[w] = carry[w]
      BY <2>1 DEF Apart, Requests, Sessions
    <3>3. OneAccountPerNumber'
      BY <3>1 DEF OneAccountPerNumber
    <3>4. \A w \in Verifiers : OwnersOf(VerifierPhone[w]) = {} => OwnersOf(VerifierPhone[w])' = {}
      BY <3>1 DEF OwnersOf
    <3>5. \A a \in Accounts : account'[a].status = "NONE" <=> account[a].status = "NONE"
      BY <3>1
    <3>6. AccountsExplained'
      BY <3>1, <3>2, <3>4, <3>5 DEF AccountsExplained
    <3>7. QED BY <3>3, <3>6
  <2>3. QED BY <1>1, <1>3, <2>1, <2>2, EnderSteps
<1>4. QED
  BY <1>1, <1>2, <1>3, AskSteps, RefreshSteps, BookerSteps, IdsAssumption
     DEF SignInNext, Requests, Sessions

(***************************************************************************)
(* The codes: one session each, and every guess counted.                   *)
(***************************************************************************)

(* A code once sent stays on record, and in its state unless it is used,   *)
(* or removed with its number.                                             *)
LEMMA CodesStay ==
  ASSUME SignInTypeOK, CodesExplained, SignInNext
  PROVE  \A c \in Codes :
           /\ code[c].state # "none" => code'[c].state # "none"
           /\ code[c].state \in {"used", "gone"} => code'[c].state \in {"used", "gone"}
           /\ code[c].state # "none" => code'[c].attempts \in {code[c].attempts, code[c].attempts + 1}
<1> DEFINE Goal == \A c \in Codes :
           /\ code[c].state # "none" => code'[c].state # "none"
           /\ code[c].state \in {"used", "gone"} => code'[c].state \in {"used", "gone"}
           /\ code[c].state # "none" => code'[c].attempts \in {code[c].attempts, code[c].attempts + 1}
<1>0. \A c \in Codes : code[c].attempts \in Int
  BY LimitsAssumption DEF SignInTypeOK, CodeRow
<1>1. UNCHANGED code => Goal
  BY <1>0
<1>2. ASSUME NEW c \in Codes, AskNext(c) PROVE Goal
  <2>1. CASE AskCommit(c)
    <3>1. code[c].state = "none"
      BY <2>1 DEF AskCommit, CodesExplained
    <3>2. \A d \in Codes \ {c} : code'[d] = code[d]
      BY <2>1 DEF AskCommit, SignInTypeOK
    <3>3. QED BY <1>0, <3>1, <3>2
  <2>2. CASE CodeAges(c)
    <3>1. \A d \in Codes : code'[d].state = code[d].state /\ code'[d].attempts = code[d].attempts
      BY <2>2 DEF CodeAges, SignInTypeOK, CodeRow
    <3>2. QED BY <1>0, <3>1
  <2>3. QED
    BY <1>1, <1>2, <2>1, <2>2 DEF AskNext, AskCount, AskRefuse, AskFail, GivesUp
<1>3. ASSUME NEW v \in Verifiers, VerifyNext(v) PROVE Goal
  <2>1. CASE VerifyReserve(v)
    <3>1. carry[v].code \in Codes
      BY <2>1 DEF VerifyReserve, CodesExplained
    <3>2. \A d \in Codes : code'[d].state = code[d].state
                           /\ code'[d].attempts \in {code[d].attempts, code[d].attempts + 1}
      BY <2>1, <3>1 DEF VerifyReserve, SignInTypeOK, CodeRow
    <3>3. QED BY <1>0, <3>2
  <2>2. CASE VerifySignIn(v)
    <3>1. carry[v].code \in Codes
      BY <2>2 DEF VerifySignIn, CodesExplained
    <3>2. \A d \in Codes : code'[d].state \in {code[d].state, "used"}
                           /\ code'[d].attempts = code[d].attempts
      BY <2>2, <3>1 DEF VerifySignIn, SignInTypeOK, CodeRow
    <3>3. QED BY <1>0, <3>2
  <2>3. QED
    BY <1>1, <1>3, <2>1, <2>2
       DEF VerifyNext, VerifyFind, VerifyExpired, VerifyExhausted, VerifyWrong, VerifyConsume,
           VerifyTwinWon, VerifyKnown, VerifyOff, VerifyNew, VerifyFail, GivesUp
<1>4. ASSUME NEW e \in Enders, EnderCommit(e) PROVE Goal
  <2>1. code' = [c \in Codes |-> IF c \in carry[e].codes THEN [code[c] EXCEPT !.state = "gone"]
                                                          ELSE code[c]]
    BY <1>4 DEF EnderCommit
  <2>2. \A d \in Codes : /\ code'[d].attempts = code[d].attempts
                         /\ code'[d].state = IF d \in carry[e].codes THEN "gone" ELSE code[d].state
    BY <2>1 DEF SignInTypeOK, CodeRow
  <2>3. e \in Requests /\ \A c \in carry[e].codes : code[c].state # "none"
    BY DEF CodesExplained, Requests
  <2>4. QED BY <1>0, <2>2, <2>3
<1>5. QED
  BY <1>1, <1>2, <1>3, <1>4, RefreshSteps, EnderSteps, BookerSteps DEF SignInNext

(* The ways a request that presents a code can move.                       *)
Closes(v)   == pc'[v] = "refused" /\ UNCHANGED code
                 /\ carry'[v].code = carry[v].code /\ carry'[v].number = carry[v].number
Finds(v)    == /\ pc[v] = "start" /\ pc'[v] = "found" /\ UNCHANGED code
               /\ carry'[v].code \in Codes /\ code[carry'[v].code].state = "open"
               /\ carry'[v].number = carry[v].number
Spends(v)   == /\ pc[v] = "found" /\ pc'[v] = "reserved"
               /\ carry[v].code \in Codes /\ carry'[v].code = carry[v].code
               /\ code[carry[v].code].attempts < MaxAttempts
               /\ carry'[v].number = code[carry[v].code].attempts + 1
               /\ code'[carry[v].code].attempts = code[carry[v].code].attempts + 1
               /\ \A c \in Codes : code'[c].state = code[c].state
               /\ \A c \in Codes \ {carry[v].code} : code'[c] = code[c]
Consumes(v) == /\ pc[v] = "reserved" /\ pc'[v] = "consumed" /\ UNCHANGED code /\ carry'[v] = carry[v]
               /\ CodeHolders(carry[v].code) = {} /\ code[carry[v].code].state = "open"
Signs(v)    == /\ pc[v] = "consumed" /\ pc'[v] = "signed" /\ UNCHANGED code
               /\ carry'[v].code = carry[v].code /\ carry'[v].number = carry[v].number
Commits(v)  == /\ pc[v] = "signed" /\ pc'[v] = "done" /\ carry'[v] = carry[v]
               /\ carry[v].code \in Codes /\ code'[carry[v].code].state = "used"
               /\ code'[carry[v].code].attempts = code[carry[v].code].attempts
               /\ \A c \in Codes \ {carry[v].code} : code'[c] = code[c]

LEMMA VerifyMoves ==
  ASSUME SignInTypeOK, CodesExplained, NEW v \in Verifiers, VerifyNext(v)
  PROVE  \/ Closes(v) \/ Finds(v) \/ Spends(v)
         \/ Consumes(v) \/ Signs(v) \/ Commits(v)
<1>0. v \in Requests BY DEF Requests, Sessions
<1>1. CASE GivesUp(v)
  BY <1>0, <1>1, GivesUpApart DEF Closes
<1>2. CASE VerifyFind(v)
  <2>1. PICK c \in Codes : code[c].state = "open" /\ carry' = [carry EXCEPT ![v].code = c]
    BY <1>2 DEF VerifyFind, ActiveCodes
  <2>2. QED BY <1>0, <1>2, <2>1 DEF VerifyFind, Finds, Goes, SignInTypeOK, Carried
<1>3. CASE VerifyReserve(v)
  <2>1. carry[v].code \in Codes /\ code[carry[v].code].attempts < MaxAttempts
    BY <1>3 DEF VerifyReserve, MayReserve, CodesExplained
  <2>2. /\ pc[v] = "found" /\ pc'[v] = "reserved" /\ carry'[v].code = carry[v].code
        /\ carry'[v].number = code[carry[v].code].attempts + 1
    BY <1>0, <1>3 DEF VerifyReserve, Goes, SignInTypeOK, Carried
  <2>3. /\ code'[carry[v].code].attempts = code[carry[v].code].attempts + 1
        /\ \A c \in Codes : code'[c].state = code[c].state
        /\ \A c \in Codes \ {carry[v].code} : code'[c] = code[c]
    BY <1>3, <2>1 DEF VerifyReserve, SignInTypeOK, CodeRow
  <2>4. QED BY <2>1, <2>2, <2>3 DEF Spends
<1>4. CASE VerifyConsume(v)
  BY <1>0, <1>4 DEF VerifyConsume, Consumes, Goes, SignInTypeOK
<1>5. CASE VerifyKnown(v) \/ VerifyNew(v)
  BY <1>0, <1>5 DEF VerifyKnown, VerifyNew, Signs, Goes, SignInTypeOK, Carried
<1>6. CASE VerifySignIn(v)
  <2>1. carry[v].code \in Codes
    BY <1>6 DEF VerifySignIn, CodesExplained
  <2>2. /\ code'[carry[v].code].state = "used"
        /\ code'[carry[v].code].attempts = code[carry[v].code].attempts
        /\ \A c \in Codes \ {carry[v].code} : code'[c] = code[c]
    BY <1>6, <2>1 DEF VerifySignIn, SignInTypeOK, CodeRow
  <2>3. QED BY <1>0, <1>6, <2>1, <2>2 DEF VerifySignIn, Commits, Goes, SignInTypeOK
<1>7. QED
  BY <1>1, <1>2, <1>3, <1>4, <1>5, <1>6
     DEF VerifyNext, VerifyExpired, VerifyExhausted, VerifyWrong, VerifyTwinWon, VerifyOff, VerifyFail

(* A deletion's codes are those it found unheld, and it holds them.        *)
EnderCodes(e) == \/ carry'[e].codes = carry[e].codes /\ pc'[e] \notin {"done", "refused"}
                 \/ carry'[e].codes = {}
                 \/ /\ DeleteCodes(e) /\ pc'[e] = "erased" /\ carry'[e].kind = carry[e].kind
                    /\ \A c \in carry'[e].codes : /\ c \in Codes /\ code[c].state # "none"
                                                  /\ CodeHolders(c) = {}
LEMMA EnderMoves ==
  ASSUME SignInTypeOK, EndersExplained, NEW e \in Enders, EnderNext(e)
  PROVE  EnderCodes(e)
<1>0. e \in Requests BY DEF Requests
<1>1. CASE EnderRefuse(e)
  BY <1>0, <1>1, GivesUpApart DEF EnderRefuse, EnderCodes
<1>2. CASE EnderCommit(e) \/ EnderFail(e)
  <2>1. Forgets(e)
    BY <1>2 DEF EnderCommit, EnderFail
  <2>2. carry'[e].codes = {}
    BY <1>0, <2>1 DEF Forgets, Nothing, SignInTypeOK, Carried
  <2>3. QED BY <2>2 DEF EnderCodes
<1>3. CASE DeleteCodes(e)
  <2>1. /\ pc'[e] = "erased" /\ carry'[e].kind = carry[e].kind
        /\ \A c \in carry'[e].codes : /\ c \in Codes /\ code[c].state # "none"
                                      /\ CodeHolders(c) = {}
    BY <1>0, <1>3 DEF DeleteCodes, Goes, SignInTypeOK, Carried
  <2>2. QED BY <1>3, <2>1 DEF EnderCodes
<1>4. CASE EnderRead(e)
  <2>1. PICK kind \in EnderKinds, a \in Accounts :
          carry' = [carry EXCEPT ![e].kind = kind, ![e].account = a]
    BY <1>4 DEF EnderRead
  <2>2. carry'[e].codes = carry[e].codes /\ pc'[e] = "read"
    BY <1>0, <1>4, <2>1 DEF EnderRead, Goes, SignInTypeOK, Carried
  <2>3. QED BY <2>2 DEF EnderCodes
<1>5. CASE DeleteLock(e) \/ SweepLook(e) \/ SweepHold(e)
  <2>1. carry'[e].codes = carry[e].codes /\ pc'[e] \in {"locked", "sweeping", "swept"}
    BY <1>0, <1>5 DEF DeleteLock, SweepLook, SweepHold, Goes, SignInTypeOK, Carried
  <2>2. QED BY <2>1 DEF EnderCodes
<1>6. QED BY <1>1, <1>2, <1>3, <1>4, <1>5 DEF EnderNext

LEMMA CodesKept ==
  ASSUME SignInTypeOK, CodesExplained, OneSessionPerCode, EndersExplained, SignInNext
  PROVE  CodesExplained' /\ OneSessionPerCode'
<1> DEFINE Held(v) == pc[v] \in {"consumed", "signed"}
<1>1. ASSUME NEW r \in Requests \ Codes, Apart(r),
             \A c \in Codes : code'[c].state = "none" <=> code[c].state = "none"
      PROVE  \A c \in Codes : code'[c].state # "none" <=> pc'[c] = "done"
  BY <1>1 DEF CodesExplained, Apart, Requests
<1>2. ASSUME NEW r \in Requests \ (Codes \cup Verifiers \cup Enders), Apart(r), UNCHANGED code
      PROVE  CodesExplained' /\ OneSessionPerCode'
  <2>1. /\ \A v \in Verifiers \cup Enders : pc'[v] = pc[v] /\ carry'[v] = carry[v]
    BY <1>2 DEF Apart, Requests, Sessions
  <2>2. QED BY <1>1, <1>2, <2>1 DEF CodesExplained, OneSessionPerCode
<1>3. ASSUME NEW c \in Codes, AskNext(c) PROVE CodesExplained' /\ OneSessionPerCode'
  <2>1. /\ c \in Requests /\ \A q \in Requests \ {c} : pc'[q] = pc[q] /\ carry'[q] = carry[q]
    BY <1>3, AskSteps DEF Apart, Requests
  <2>2. \A v \in Verifiers \cup Enders : v # c /\ pc'[v] = pc[v] /\ carry'[v] = carry[v]
    BY <2>1, IdsAssumption DEF Requests, Sessions
  <2>3. \A d \in Codes : code'[d].state # "none" <=> pc'[d] = "done"
    <3>1. CASE AskCommit(c)
      BY <2>1, <3>1 DEF AskCommit, Goes, CodesExplained, SignInTypeOK, CodeRow, Requests
    <3>2. CASE CodeAges(c)
      BY <2>1, <3>2 DEF CodeAges, CodesExplained, SignInTypeOK, CodeRow
    <3>3. CASE AskCount(c) \/ AskRefuse(c) \/ AskFail(c)
      BY <2>1, <3>3 DEF AskCount, AskRefuse, AskFail, GivesUp, Goes, CodesExplained, SignInTypeOK, Requests
    <3>4. QED BY <1>3, <3>1, <3>2, <3>3 DEF AskNext
  <2>4. \A d \in Codes : code[d].state # "none" => code'[d].state = code[d].state
    <3>1. CASE AskCommit(c)
      BY <3>1 DEF AskCommit, CodesExplained, SignInTypeOK
    <3>2. CASE CodeAges(c)
      BY <3>2 DEF CodeAges, SignInTypeOK, CodeRow
    <3>3. QED
      BY <1>3, <3>1, <3>2 DEF AskNext, AskCount, AskRefuse, AskFail, GivesUp
  <2>5. \A e \in Enders : carry[e].codes \subseteq Codes
    BY DEF SignInTypeOK, Carried, Requests
  <2>6. QED BY <2>2, <2>3, <2>4, <2>5 DEF CodesExplained, OneSessionPerCode
<1>4. ASSUME NEW v \in Verifiers, VerifyNext(v) PROVE CodesExplained' /\ OneSessionPerCode'
  <2>1. /\ v \in Requests \ (Codes \cup Enders) /\ Apart(v)
        /\ \A w \in (Verifiers \cup Enders) \ {v} : pc'[w] = pc[w] /\ carry'[w] = carry[w]
        /\ \A e \in Enders : pc'[e] = pc[e] /\ carry'[e] = carry[e]
    BY <1>4, VerifySteps, IdsAssumption DEF Apart, Requests, Sessions
  <2>2. CASE Closes(v) \/ Finds(v) \/ Signs(v)
    BY <1>1, <2>1, <2>2 DEF Closes, Finds, Signs, CodesExplained, OneSessionPerCode
  <2>3. CASE Spends(v)
    <3>1. \A c \in Codes : code'[c].state = code[c].state
      BY <2>3 DEF Spends
    <3>2. \A c \in Codes : code'[c].state # "none" <=> pc'[c] = "done"
      BY <1>1, <2>1, <3>1
    <3>3. \A w \in Verifiers : carry'[w].code = carry[w].code
      BY <2>1, <2>3 DEF Spends
    <3>4. OneSessionPerCode'
      BY <2>1, <2>3, <3>3 DEF Spends, OneSessionPerCode
    <3>5. \A w \in Verifiers : pc'[w] # pc[w] => pc[w] = "found" /\ pc'[w] = "reserved"
      BY <2>1, <2>3 DEF Spends
    <3>6. \A e \in Enders : carry[e].codes \subseteq Codes
      BY DEF SignInTypeOK, Carried, Requests
    <3>7. QED BY <2>1, <3>1, <3>2, <3>3, <3>4, <3>5, <3>6 DEF CodesExplained
  <2>4. CASE Consumes(v)
    <3>1. \A w \in Verifiers : /\ pc[w] \in {"consumed", "signed"} => carry[w].code # carry[v].code
                               /\ pc[w] = "done" => carry[w].code # carry[v].code
      BY <2>4 DEF Consumes, CodeHolders, CodesExplained
    <3>2. \A e \in Enders : carry[v].code \notin carry[e].codes
      BY <2>4 DEF Consumes, CodeHolders, EndersExplained
    <3>3. QED BY <1>1, <2>1, <2>4, <3>1, <3>2 DEF Consumes, CodesExplained, OneSessionPerCode
  <2>5. CASE Commits(v)
    <3>1. \A w \in Verifiers \ {v} : pc[w] \in {"consumed", "signed", "done"} => carry[w].code # carry[v].code
      BY <2>5 DEF Commits, OneSessionPerCode
    <3>2. \A c \in Codes : code'[c].state = "none" <=> code[c].state = "none"
      BY <2>5 DEF Commits, CodesExplained
    <3>3. \A c \in Codes : code'[c].state # "none" <=> pc'[c] = "done"
      BY <1>1, <2>1, <3>2
    <3>4. \A w \in Verifiers : carry'[w] = carry[w]
      BY <2>1, <2>5 DEF Commits
    <3>5. /\ \A w \in Verifiers \ {v} : pc'[w] = pc[w]
          /\ pc[v] = "signed" /\ pc'[v] = "done" /\ code'[carry[v].code].state = "used"
          /\ \A c \in Codes \ {carry[v].code} : code'[c] = code[c]
      BY <2>1, <2>5 DEF Commits
    <3>6. \A w \in Verifiers :
            /\ pc'[w] \in {"found", "reserved", "consumed", "signed", "done"} => carry'[w].code \in Codes
            /\ carry'[w].code \in Codes => code'[carry'[w].code].state # "none"
            /\ pc'[w] \in {"consumed", "signed"} => code'[carry'[w].code].state = "open"
            /\ pc'[w] = "done" => code'[carry'[w].code].state \in {"used", "gone"}
      BY <3>1, <3>2, <3>4, <3>5 DEF CodesExplained
    <3>7. \A e \in Enders : carry'[e] = carry[e] /\ carry[e].codes \subseteq Codes
      BY <2>1 DEF SignInTypeOK, Carried, Requests
    <3>8. \A e \in Enders : \A c \in carry'[e].codes :
            /\ code'[c].state # "none"
            /\ \A w \in Verifiers : pc'[w] \in {"consumed", "signed"} => carry'[w].code # c
      BY <3>2, <3>4, <3>5, <3>7 DEF CodesExplained
    <3>9. OneSessionPerCode'
      BY <3>4, <3>5 DEF OneSessionPerCode
    <3>10. QED BY <3>3, <3>6, <3>8, <3>9 DEF CodesExplained
  <2>6. QED BY <1>4, <2>2, <2>3, <2>4, <2>5, VerifyMoves
<1>5. ASSUME NEW e \in Enders, EnderNext(e) PROVE CodesExplained' /\ OneSessionPerCode'
  <2>1. /\ e \in Requests \ (Codes \cup Verifiers) /\ Apart(e)
        /\ \A w \in Verifiers : pc'[w] = pc[w] /\ carry'[w] = carry[w]
        /\ \A d \in Enders \ {e} : pc'[d] = pc[d] /\ carry'[d] = carry[d]
        /\ \A d \in Enders : carry[d].codes \subseteq Codes
    BY <1>5, EnderSteps, IdsAssumption DEF Apart, Requests, Sessions, SignInTypeOK, Carried
  <2>2. CASE EnderCommit(e)
    <3>1. \A d \in Codes : code'[d].state = IF d \in carry[e].codes THEN "gone" ELSE code[d].state
      <4>1. code' = [c \in Codes |-> IF c \in carry[e].codes THEN [code[c] EXCEPT !.state = "gone"]
                                                              ELSE code[c]]
        BY <2>2 DEF EnderCommit
      <4>2. QED BY <4>1 DEF SignInTypeOK, CodeRow
    <3>2. carry'[e].codes = {}
      BY <2>1, <2>2 DEF EnderCommit, Forgets, Nothing, SignInTypeOK, Carried
    <3>3. \A c \in carry[e].codes : /\ code[c].state # "none"
                                    /\ \A v \in Verifiers : pc[v] \in {"consumed", "signed"} => carry[v].code # c
      BY DEF CodesExplained
    <3>4. QED BY <1>1, <2>1, <3>1, <3>2, <3>3 DEF CodesExplained, OneSessionPerCode
  <2>3. CASE UNCHANGED code
    <3>1. \A c \in carry'[e].codes :
            /\ code[c].state # "none"
            /\ \A v \in Verifiers : pc[v] \in {"consumed", "signed"} => carry[v].code # c
      BY <1>5, EnderMoves DEF EnderCodes, CodesExplained, CodeHolders
    <3>2. QED BY <1>1, <2>1, <2>3, <3>1 DEF CodesExplained, OneSessionPerCode
  <2>4. QED BY <1>5, <2>2, <2>3, EnderSteps
<1>6. ASSUME NEW r \in Refreshers \cup Bookers, RefreshNext(r) \/ BookerNext(r), Apart(r), UNCHANGED code
      PROVE  CodesExplained' /\ OneSessionPerCode'
  BY <1>2, <1>6, IdsAssumption DEF Requests, Sessions
<1>7. QED
  BY <1>3, <1>4, <1>5, <1>6, RefreshSteps, BookerSteps DEF SignInNext

(* Every guess has a number of its own.                                    *)
LEMMA GuessesKept ==
  ASSUME SignInTypeOK, CodesExplained, GuessesExplained, EveryGuessIsPaidFor, SignInNext
  PROVE  GuessesExplained' /\ EveryGuessIsPaidFor'
<1>0. \A v \in Verifiers : v \in Requests /\ carry[v].number \in Nat
  BY LimitsAssumption DEF SignInTypeOK, Carried, Requests, Sessions
<1>1. \A c \in Codes : /\ code[c].attempts \in Nat
                       /\ code[c].state # "none" =>
                            code'[c].attempts \in {code[c].attempts, code[c].attempts + 1}
  BY CodesStay, LimitsAssumption DEF SignInTypeOK, CodeRow
<1>2. \A w \in Verifiers : carry[w].number # 0 => carry[w].number <= code'[carry[w].code].attempts
  BY <1>0, <1>1 DEF GuessesExplained, CodesExplained
<1>3. ASSUME NEW r \in Requests \ Verifiers, Apart(r)
      PROVE  GuessesExplained' /\ EveryGuessIsPaidFor'
  <2>1. \A w \in Verifiers : pc'[w] = pc[w] /\ carry'[w] = carry[w]
    BY <1>3 DEF Apart, Requests, Sessions
  <2>2. QED BY <1>2, <2>1 DEF GuessesExplained, EveryGuessIsPaidFor
<1>4. ASSUME NEW v \in Verifiers, VerifyNext(v)
      PROVE  GuessesExplained' /\ EveryGuessIsPaidFor'
  <2>1. \A w \in Verifiers \ {v} : pc'[w] = pc[w] /\ carry'[w] = carry[w]
    BY <1>4, VerifySteps DEF Apart, Requests, Sessions
  <2>2. CASE Closes(v) \/ Consumes(v) \/ Signs(v) \/ Commits(v)
    <3>1. /\ carry'[v].code = carry[v].code /\ carry'[v].number = carry[v].number
          /\ pc'[v] \notin {"start", "found"}
      BY <2>2 DEF Closes, Consumes, Signs, Commits
    <3>2. QED BY <1>2, <2>1, <3>1 DEF GuessesExplained, EveryGuessIsPaidFor
  <2>3. CASE Finds(v)
    <3>1. carry'[v].number = 0 /\ pc'[v] = "found"
      BY <2>3 DEF Finds, GuessesExplained
    <3>2. QED BY <1>2, <2>1, <3>1 DEF GuessesExplained, EveryGuessIsPaidFor
  <2>4. CASE Spends(v)
    <3> DEFINE c == carry[v].code
    <3>1. /\ pc'[v] = "reserved" /\ c \in Codes /\ carry'[v].code = c
          /\ carry'[v].number = code[c].attempts + 1 /\ code'[c].attempts = code[c].attempts + 1
          /\ carry'[v].number <= MaxAttempts /\ carry'[v].number # 0
      BY <1>1, <2>4, LimitsAssumption DEF Spends
    <3>2. \A w \in Verifiers \ {v} : carry[w].code = c => carry[w].number # carry'[v].number
      BY <1>0, <1>1, <3>1 DEF GuessesExplained
    <3>3. GuessesExplained'
      BY <1>1, <1>2, <2>1, <3>1 DEF GuessesExplained
    <3>4. EveryGuessIsPaidFor'
      BY <2>1, <3>1, <3>2 DEF EveryGuessIsPaidFor
    <3>5. QED BY <3>3, <3>4
  <2>5. QED BY <1>4, <2>2, <2>3, <2>4, VerifyMoves
<1>5. QED
  BY <1>3, <1>4, AskSteps, RefreshSteps, EnderSteps, BookerSteps, IdsAssumption
     DEF SignInNext, Requests, Sessions

(***************************************************************************)
(* The ration of codes.                                                    *)
(***************************************************************************)

LEMMA RecentFinite ==
  ASSUME NEW p
  PROVE  IsFiniteSet(RecentCodes(p)) /\ IsFiniteSet(RecentCodes(p)') 
         /\ Cardinality(RecentCodes(p)) \in Nat
BY FiniteAssumption, FS_Subset, FS_CardinalityType DEF RecentCodes

LEMMA CountsKept ==
  ASSUME SignInTypeOK, CodesExplained, CountsStand, CodesAreRationed, SignInNext
  PROVE  CountsStand' /\ CodesAreRationed'
<1>1. ASSUME \A c \in Codes : pc'[c] = "counted" => pc[c] = "counted",
             \A p \in Phones : RecentCodes(p)' \subseteq RecentCodes(p)
      PROVE  CountsStand' /\ CodesAreRationed'
  <2>1. \A p \in Phones : /\ Cardinality(RecentCodes(p)') <= Cardinality(RecentCodes(p))
                          /\ Cardinality(RecentCodes(p)') \in Nat /\ Cardinality(RecentCodes(p)) \in Nat
    BY <1>1, RecentFinite, FS_Subset, FS_CardinalityType
  <2>2. CodesAreRationed'
    BY <2>1, LimitsAssumption DEF CodesAreRationed
  <2>3. CountsStand'
    BY <1>1, <2>1, LimitsAssumption, PhonesAssumption DEF CountsStand
  <2>4. QED BY <2>2, <2>3
<1>2. ASSUME NEW r \in Requests \ Codes, Apart(r),
             \A c \in Codes : code'[c].state \in {"open", "used"} /\ code'[c].age = "recent" =>
                              code[c].state \in {"open", "used"} /\ code[c].age = "recent"
      PROVE  CountsStand' /\ CodesAreRationed'
  <2>1. \A c \in Codes : pc'[c] = pc[c]
    BY <1>2 DEF Apart, Requests
  <2>2. \A p \in Phones : RecentCodes(p)' \subseteq RecentCodes(p)
    BY <1>2 DEF RecentCodes
  <2>3. QED BY <1>1, <2>1, <2>2
<1>3. ASSUME NEW c \in Codes, AskNext(c) PROVE CountsStand' /\ CodesAreRationed'
  <2>0. c \in Requests /\ CodePhone[c] \in Phones
    BY PhonesAssumption DEF Requests
  <2>1. CASE AskCount(c)
    <3>1. /\ \A d \in Codes \ {c} : pc'[d] = pc[d]
          /\ \A d \in Codes : pc[d] = "counted" => CodePhone[d] # CodePhone[c]
          /\ Cardinality(RecentCodes(CodePhone[c])) < MaxPerWindow /\ UNCHANGED code
      BY <2>1 DEF AskCount, PhoneLockHolders, Goes, SignInTypeOK, Requests
    <3>2. \A p \in Phones : RecentCodes(p)' = RecentCodes(p)
      BY <3>1 DEF RecentCodes
    <3>3. \A d \in Codes : CodePhone[d] \in Phones
      BY PhonesAssumption
    <3>4. QED BY <3>1, <3>2, <3>3 DEF CountsStand, CodesAreRationed
  <2>2. CASE AskRefuse(c) \/ AskFail(c)
    <3>1. \A d \in Codes : pc'[d] = "counted" => pc[d] = "counted"
      <4>1. GivesUp(c)
        BY <2>2 DEF AskRefuse, AskFail
      <4>2. pc'[c] = "refused" /\ \A d \in Codes \ {c} : pc'[d] = pc[d]
        BY <2>0, <4>1, GivesUpApart DEF Apart, Requests
      <4>3. QED BY <4>2
    <3>2. \A p \in Phones : RecentCodes(p)' \subseteq RecentCodes(p)
      BY <2>2 DEF AskRefuse, AskFail, GivesUp, RecentCodes
    <3>3. QED BY <1>1, <3>1, <3>2
  <2>3. CASE CodeAges(c)
    <3>1. \A d \in Codes : /\ pc'[d] = pc[d] /\ code'[d].state = code[d].state
                           /\ code'[d].age = "recent" => code[d].age = "recent"
      BY <2>3 DEF CodeAges, SignInTypeOK, CodeRow
    <3>2. \A p \in Phones : RecentCodes(p)' \subseteq RecentCodes(p)
      BY <3>1 DEF RecentCodes
    <3>3. QED BY <1>1, <3>1, <3>2
  <2>4. CASE AskCommit(c)
    <3> DEFINE q == CodePhone[c]
    <3>1. /\ pc[c] = "counted" /\ pc'[c] = "done"
          /\ \A d \in Codes \ {c} : pc'[d] = pc[d] /\ code'[d] = code[d]
      BY <2>0, <2>4 DEF AskCommit, Goes, SignInTypeOK, Requests
    <3>2. \A p \in Phones : p # q => RecentCodes(p)' = RecentCodes(p)
      BY <3>1 DEF RecentCodes
    <3>3. RecentCodes(q)' \subseteq RecentCodes(q) \cup {c}
      BY <3>1 DEF RecentCodes
    <3>4. Cardinality(RecentCodes(q)') <= Cardinality(RecentCodes(q)) + 1
      <4>1. /\ IsFiniteSet(RecentCodes(q) \cup {c})
            /\ Cardinality(RecentCodes(q) \cup {c}) <= Cardinality(RecentCodes(q)) + 1
        BY RecentFinite, FS_AddElement
      <4>2. Cardinality(RecentCodes(q)') <= Cardinality(RecentCodes(q) \cup {c})
        BY <3>3, <4>1, FS_Subset
      <4>3. /\ Cardinality(RecentCodes(q)) \in Nat /\ Cardinality(RecentCodes(q)') \in Nat
            /\ Cardinality(RecentCodes(q) \cup {c}) \in Nat
        BY <4>1, RecentFinite, FS_CardinalityType
      <4>4. QED BY <4>1, <4>2, <4>3
    <3>5. /\ Cardinality(RecentCodes(q)) < MaxPerWindow
          /\ \A d \in Codes \ {c} : pc[d] = "counted" => CodePhone[d] # q
      BY <2>0, <3>1 DEF CountsStand
    <3>6. Cardinality(RecentCodes(q)') <= MaxPerWindow
      BY <3>4, <3>5, RecentFinite, FS_CardinalityType, LimitsAssumption
    <3>7. CodesAreRationed'
      BY <3>2, <3>6 DEF CodesAreRationed
    <3>8. CountsStand'
      BY <3>1, <3>2, <3>5, PhonesAssumption DEF CountsStand
    <3>9. QED BY <3>7, <3>8
  <2>5. QED BY <1>3, <2>1, <2>2, <2>3, <2>4 DEF AskNext
<1>4. ASSUME NEW v \in Verifiers, VerifyNext(v) PROVE CountsStand' /\ CodesAreRationed'
  <2>1. v \in Requests \ Codes /\ Apart(v)
    BY <1>4, VerifySteps, IdsAssumption DEF Requests, Sessions
  <2>2. CASE UNCHANGED code
    BY <1>2, <2>1, <2>2
  <2>3. CASE VerifyReserve(v) \/ VerifySignIn(v)
    <3>1. carry[v].code \in Codes
      BY <2>3 DEF VerifyReserve, VerifySignIn, CodesExplained
    <3>2. code[carry[v].code].state # "none" /\ pc[v] = "signed" => code[carry[v].code].state = "open"
      BY <3>1 DEF CodesExplained
    <3>3. code[carry[v].code].state # "none"
      BY <3>1 DEF CodesExplained
    <3>4. \A c \in Codes : code'[c].state \in {"open", "used"} /\ code'[c].age = "recent" =>
                           code[c].state \in {"open", "used"} /\ code[c].age = "recent"
      <4>1. CASE VerifyReserve(v)
        BY <3>1, <4>1 DEF VerifyReserve, SignInTypeOK, CodeRow
      <4>2. CASE VerifySignIn(v)
        BY <3>1, <3>2, <3>3, <4>2 DEF VerifySignIn, SignInTypeOK, CodeRow
      <4>3. QED BY <2>3, <4>1, <4>2
    <3>5. QED BY <1>2, <2>1, <3>4
  <2>4. QED
    BY <1>4, <2>2, <2>3
       DEF VerifyNext, VerifyFind, VerifyExpired, VerifyExhausted, VerifyWrong, VerifyConsume,
           VerifyTwinWon, VerifyKnown, VerifyOff, VerifyNew, VerifyFail, GivesUp
<1>5. ASSUME NEW e \in Enders, EnderNext(e) PROVE CountsStand' /\ CodesAreRationed'
  <2>1. e \in Requests \ Codes /\ Apart(e)
    BY <1>5, EnderSteps, IdsAssumption DEF Requests, Sessions
  <2>2. CASE EnderCommit(e)
    <3>1. code' = [c \in Codes |-> IF c \in carry[e].codes THEN [code[c] EXCEPT !.state = "gone"]
                                                            ELSE code[c]]
      BY <2>2 DEF EnderCommit
    <3>2. \A c \in Codes : code'[c].age = code[c].age /\ code'[c].state \in {"gone", code[c].state}
      BY <3>1 DEF SignInTypeOK, CodeRow
    <3>3. QED BY <1>2, <2>1, <3>2
  <2>3. QED BY <1>2, <1>5, <2>1, <2>2, EnderSteps
<1>6. ASSUME NEW r \in Refreshers \cup Bookers, Apart(r), UNCHANGED code
      PROVE  CountsStand' /\ CodesAreRationed'
  BY <1>2, <1>6, IdsAssumption DEF Requests, Sessions
<1>7. QED
  BY <1>3, <1>4, <1>5, <1>6, RefreshSteps, BookerSteps DEF SignInNext

(***************************************************************************)
(* Those who run beside the switching off of an account.                   *)
(***************************************************************************)

LEMMA MetGrows ==
  ASSUME SignInTypeOK, NEW r \in Requests, NEW a, Meets(r, a)
  PROVE  \A e \in Enders : /\ met[e] \subseteq met'[e]
                           /\ InFlight(e) /\ carry[e].account = a => r \in met'[e]
BY DEF Meets, SignInTypeOK

(* A request that comes out of the step with an account had it before, or  *)
(* has just read it: it was not switched off, and those about to switch it *)
(* off have met the request.                                               *)
Enrolled(r) ==
  InFlight(r)' =>
    \/ InFlight(r) /\ carry'[r].account = carry[r].account
    \/ carry'[r].account = NoAccount
    \/ /\ carry'[r].account \in Accounts
       /\ account[carry'[r].account].status \in {"NONE", "ACTIVE"}
       /\ \A e \in Enders : InFlight(e) /\ carry[e].account = carry'[r].account => r \in met'[e]

(* A step of somebody who switches nothing off.                            *)
LEMMA OverlapsStand ==
  ASSUME SignInTypeOK, TokensExplained, EndersExplained, OverlapInv, TokensExplained', HoldingsExplained',
         NEW q \in Requests \ Enders, Apart(q),
         q \in Sessions \cup Bookers => Enrolled(q),
         \A e \in Enders : met[e] \subseteq met'[e],
         \A a \in Accounts : SwitchedOff(a)' => account'[a] = account[a],
         \A t \in Tokens : token'[t].state = "live" =>
           \/ token[t].state = "live" /\ token'[t].user = token[t].user
           \/ t = q /\ InFlight(q) /\ token'[t].user = carry[q].account,
         \A b \in Bookers : reservation'[b] = "active" =>
           \/ reservation[b] = "active" /\ carry'[b] = carry[b]
           \/ b = q /\ InFlight(q) /\ carry'[q].account = carry[q].account
  PROVE  OverlapsMet' /\ SwitchesExplained' /\ OnlyAnOverlapSurvives'
<1>1. /\ \A e \in Enders : /\ pc'[e] = pc[e] /\ carry'[e] = carry[e]
                           /\ InFlight(e)' <=> InFlight(e)
                           /\ InFlight(e) => carry[e].account \in Accounts
      /\ \A r \in (Sessions \cup Bookers) \ {q} : /\ InFlight(r)' <=> InFlight(r)
                                                  /\ carry'[r] = carry[r]
      /\ Sessions \cup Bookers \subseteq Requests /\ Tokens = Sessions
  BY DEF Apart, Requests, InFlight, Over, Tokens, EndersExplained, OverlapInv, HoldingsExplained
<1>2. /\ \A a \in Accounts : SwitchedOff(a)' => /\ SwitchedOff(a) /\ account'[a] = account[a]
                                                /\ account[a].offBy \in Enders
      /\ NoAccount \notin Accounts
  BY IdsAssumption DEF SwitchedOff, OverlapInv, SwitchesExplained
<1>3. ASSUME NEW r \in Sessions \cup Bookers, InFlight(r)',
             NEW e \in Enders, InFlight(e)', carry'[e].account = carry'[r].account
      PROVE  r \in met'[e]
  <2>1. /\ InFlight(e) /\ carry[e].account = carry'[r].account /\ carry[e].account \in Accounts
        /\ met[e] \subseteq met'[e]
    BY <1>1, <1>3
  <2>2. CASE r # q
    BY <1>1, <1>3, <2>1, <2>2 DEF OverlapInv, OverlapsMet
  <2>3. CASE r = q
    <3>1. CASE InFlight(q) /\ carry'[q].account = carry[q].account
      BY <1>3, <2>1, <2>3, <3>1 DEF OverlapInv, OverlapsMet
    <3>2. QED BY <1>2, <1>3, <2>1, <2>3, <3>1 DEF Enrolled
  <2>4. QED BY <2>2, <2>3
<1>4. ASSUME NEW r \in Sessions \cup Bookers, InFlight(r)',
             NEW a \in Accounts, SwitchedOff(a)', carry'[r].account = a
      PROVE  r \in met'[account'[a].offBy]
  <2>1. /\ SwitchedOff(a) /\ account'[a] = account[a] /\ account[a].offBy \in Enders
        /\ met[account[a].offBy] \subseteq met'[account'[a].offBy]
    BY <1>2, <1>4
  <2>2. CASE InFlight(r) /\ carry[r].account = a
    BY <2>1, <2>2 DEF OverlapInv, OverlapsMet
  <2>3. CASE r = q /\ ~(InFlight(r) /\ carry[r].account = a)
    BY <1>2, <1>4, <2>1, <2>3 DEF Enrolled, SwitchedOff
  <2>4. QED BY <1>1, <1>4, <2>2, <2>3
<1>5. OverlapsMet'
  BY <1>3, <1>4 DEF OverlapsMet
<1>6. ASSUME NEW e \in Enders, pc'[e] \in {"sweeping", "swept"},
             NEW t \in Tokens, token'[t].state = "live", token'[t].user = carry'[e].account
      PROVE  t \in carry'[e].sweep \cup met'[e]
  <2>1. InFlight(e) /\ carry'[e] = carry[e] /\ pc'[e] = pc[e] /\ met[e] \subseteq met'[e]
    BY <1>1, <1>6 DEF InFlight, Over
  <2>2. CASE token[t].state = "live" /\ token'[t].user = token[t].user
    <3>1. t \in LiveTokensOf(carry[e].account)
      BY <1>6, <2>1, <2>2 DEF LiveTokensOf
    <3>2. QED BY <1>6, <2>1, <3>1 DEF OverlapInv, SwitchesExplained
  <2>3. CASE t = q /\ InFlight(q) /\ token'[t].user = carry[q].account
    BY <1>1, <1>6, <2>1, <2>3 DEF OverlapInv, OverlapsMet
  <2>4. QED BY <1>6, <2>2, <2>3
<1>7. ASSUME NEW e \in Enders, NEW b \in Bookers, InFlight(e)', carry'[e].kind = "delete",
             reservation'[b] = "active", carry'[b].account = carry'[e].account
      PROVE  b \in met'[e]
  <2>1. InFlight(e) /\ carry'[e] = carry[e] /\ met[e] \subseteq met'[e]
    BY <1>1, <1>7
  <2>2. CASE reservation[b] = "active" /\ carry'[b] = carry[b]
    BY <1>7, <2>1, <2>2 DEF OverlapInv, SwitchesExplained
  <2>3. CASE b = q /\ InFlight(q) /\ carry'[q].account = carry[q].account
    BY <1>7, <2>1, <2>3 DEF OverlapInv, OverlapsMet
  <2>4. QED BY <1>7, <2>2, <2>3
<1>8. SwitchesExplained'
  <2>1. \A a \in Accounts : SwitchedOff(a)' =>
          account'[a].offBy \in Enders /\ pc'[account'[a].offBy] = "done"
    BY <1>1, <1>2 DEF OverlapInv, SwitchesExplained
  <2>2. QED BY <1>6, <1>7, <2>1 DEF SwitchesExplained, LiveTokensOf
<1>9. OnlyAnOverlapSurvives'
  <2>1. ASSUME NEW t \in Tokens, token'[t].state = "live",
               account'[token'[t].user].status \in {"SUSPENDED", "DEACTIVATED"}
        PROVE  t \in met'[account'[token'[t].user].offBy]
    <3>1. token'[t].user \in Accounts
      BY <2>1 DEF TokensExplained
    <3>2. /\ SwitchedOff(token'[t].user) /\ account'[token'[t].user] = account[token'[t].user]
          /\ met[account[token'[t].user].offBy] \subseteq met'[account'[token'[t].user].offBy]
      BY <1>2, <2>1, <3>1 DEF SwitchedOff
    <3>3. CASE token[t].state = "live" /\ token'[t].user = token[t].user
      BY <3>2, <3>3 DEF OverlapInv, OnlyAnOverlapSurvives, SwitchedOff
    <3>4. CASE t = q /\ InFlight(q) /\ token'[t].user = carry[q].account
      BY <1>1, <3>1, <3>2, <3>4 DEF OverlapInv, OverlapsMet
    <3>5. QED BY <2>1, <3>3, <3>4
  <2>2. ASSUME NEW b \in Bookers, reservation'[b] = "active",
               account'[carry'[b].account].status = "DEACTIVATED"
        PROVE  b \in met'[account'[carry'[b].account].offBy]
    <3>1. carry'[b].account \in Accounts
      BY <2>2 DEF HoldingsExplained
    <3>2. /\ SwitchedOff(carry'[b].account)
          /\ account'[carry'[b].account] = account[carry'[b].account]
          /\ met[account[carry'[b].account].offBy] \subseteq met'[account'[carry'[b].account].offBy]
      BY <1>2, <2>2, <3>1 DEF SwitchedOff
    <3>3. CASE reservation[b] = "active" /\ carry'[b] = carry[b]
      BY <2>2, <3>2, <3>3 DEF OverlapInv, OnlyAnOverlapSurvives
    <3>4. CASE b = q /\ InFlight(q) /\ carry'[q].account = carry[q].account
      BY <3>1, <3>2, <3>4 DEF OverlapInv, OverlapsMet
    <3>5. QED BY <2>2, <3>3, <3>4
  <2>3. QED BY <2>1, <2>2 DEF OnlyAnOverlapSurvives
<1>10. QED BY <1>5, <1>8, <1>9

(* Who presents a code has an account from VerifyKnown or VerifyNew on.    *)
LEMMA VerifyEnrolled ==
  ASSUME SignInTypeOK, EndersExplained, OverlapInv, NEW v \in Verifiers, VerifyNext(v)
  PROVE  /\ Enrolled(v)
         /\ \A e \in Enders : met[e] \subseteq met'[e]
         /\ pc'[v] \in {"start", "found", "reserved", "consumed"} => carry'[v].account = NoAccount
         /\ UNCHANGED reservation
<1> v \in Requests BY DEF Requests, Sessions
<1>1. CASE GivesUp(v)
  BY <1>1, GivesUpApart DEF GivesUp, Enrolled, InFlight, Over
<1>2. CASE VerifyFind(v)
  <2>1. PICK c \in Codes : carry' = [carry EXCEPT ![v].code = c]
    BY <1>2 DEF VerifyFind, ActiveCodes
  <2>2. carry'[v].account = carry[v].account /\ pc[v] = "start" /\ UNCHANGED <<met, reservation>>
    BY <1>2, <2>1 DEF VerifyFind, SignInTypeOK, Carried
  <2>3. carry[v].account = NoAccount
    BY <2>2 DEF OverlapInv, HoldingsExplained
  <2>4. QED BY <2>2, <2>3 DEF Enrolled
<1>3. CASE VerifyReserve(v) \/ VerifyConsume(v)
  <2>1. /\ carry'[v].account = carry[v].account /\ pc[v] \in {"found", "reserved"}
        /\ UNCHANGED <<met, reservation>>
    BY <1>3 DEF VerifyReserve, VerifyConsume, SignInTypeOK, Carried
  <2>2. carry[v].account = NoAccount
    BY <2>1 DEF OverlapInv, HoldingsExplained
  <2>3. QED BY <2>1, <2>2 DEF Enrolled
<1>4. CASE VerifyKnown(v)
  <2>1. PICK a \in Accounts : /\ account[a].status = "ACTIVE"
                              /\ carry' = [carry EXCEPT ![v].account = a] /\ Meets(v, a)
    BY <1>4 DEF VerifyKnown, OwnersOf
  <2>2. carry'[v].account = a /\ pc'[v] = "signed" /\ UNCHANGED reservation
    BY <1>4, <2>1 DEF VerifyKnown, Goes, SignInTypeOK, Carried
  <2>3. QED BY <2>1, <2>2, MetGrows DEF Enrolled
<1>5. CASE VerifyNew(v)
  <2>1. PICK a \in Accounts : account[a].status = "NONE" /\ carry' = [carry EXCEPT ![v].account = a]
    BY <1>5 DEF VerifyNew
  <2>2. carry'[v].account = a /\ pc'[v] = "signed" /\ UNCHANGED <<met, reservation>>
    BY <1>5, <2>1 DEF VerifyNew, Goes, SignInTypeOK, Carried
  <2>3. \A e \in Enders : InFlight(e) => carry[e].account # a
    BY <2>1 DEF InFlight, Over, OverlapInv, HoldingsExplained, EndersExplained
  <2>4. QED BY <2>1, <2>2, <2>3 DEF Enrolled
<1>6. CASE VerifySignIn(v)
  BY <1>6 DEF VerifySignIn, Goes, SignInTypeOK, Enrolled, InFlight, Over
<1>7. QED
  BY <1>1, <1>2, <1>3, <1>4, <1>5, <1>6
     DEF VerifyNext, VerifyExpired, VerifyExhausted, VerifyWrong, VerifyTwinWon, VerifyOff, VerifyFail

(* Who presents a refresh token has its account from the first step on,    *)
LEMMA RefreshEnrolled ==
  ASSUME SignInTypeOK, TokensExplained, OverlapInv, NEW r \in Refreshers, RefreshNext(r)
  PROVE  /\ Enrolled(r)
         /\ \A e \in Enders : met[e] \subseteq met'[e]
         /\ UNCHANGED reservation
<1> r \in Requests BY DEF Requests, Sessions
<1>1. CASE GivesUp(r)
  BY <1>1, GivesUpApart DEF GivesUp, Enrolled, InFlight, Over
<1>2. CASE RefreshFind(r)
  <2>1. PICK t \in Tokens :
          /\ token[t].state # "none" /\ account[token[t].user].status = "ACTIVE"
          /\ carry' = [carry EXCEPT ![r].token = t, ![r].account = token[t].user]
          /\ Meets(r, token[t].user)
    BY <1>2 DEF RefreshFind
  <2>2. token[t].user \in Accounts
    BY <2>1 DEF TokensExplained
  <2>3. carry'[r].account = token[t].user /\ UNCHANGED reservation
    BY <1>2, <2>1 DEF RefreshFind, SignInTypeOK, Carried
  <2>4. QED BY <2>1, <2>2, <2>3, MetGrows DEF Enrolled
<1>3. CASE RefreshRotate(r)
  BY <1>3 DEF RefreshRotate, Enrolled, InFlight, Over
<1>4. CASE RefreshCommit(r)
  BY <1>4 DEF RefreshCommit, Goes, SignInTypeOK, Enrolled, InFlight, Over
<1>5. CASE ReplayLook(r)
  BY <1>5 DEF ReplayLook, SignInTypeOK, Carried, Enrolled, InFlight, Over
<1>6. CASE ReplayEnds(r)
  BY <1>6 DEF ReplayEnds, Goes, SignInTypeOK, Enrolled, InFlight, Over
<1>7. QED
  BY <1>1, <1>2, <1>3, <1>4, <1>5, <1>6 DEF RefreshNext, RefreshOff, RefreshFail, ReplayNotEnded

(* and so has who books.                                                   *)
LEMMA BookerEnrolled ==
  ASSUME SignInTypeOK, OverlapInv, NEW b \in Bookers, BookerNext(b)
  PROVE  /\ Enrolled(b)
         /\ \A e \in Enders : met[e] \subseteq met'[e]
         /\ pc'[b] \in {"read", "done"} => carry'[b].account \in Accounts
         /\ reservation'[b] # "none" => pc'[b] = "done"
         /\ \A c \in Bookers \ {b} : reservation'[c] = reservation[c]
         /\ reservation'[b] = "active" => carry'[b] = carry[b] /\ (reservation[b] = "active" \/ InFlight(b))
<1> b \in Requests BY DEF Requests
<1>1. CASE BookerFail(b)
  <2>1. GivesUp(b) /\ pc[b] = "read"
    BY <1>1 DEF BookerFail
  <2>2. reservation[b] = "none"
    BY <2>1 DEF OverlapInv, HoldingsExplained
  <2>3. QED BY <2>1, <2>2, GivesUpApart DEF GivesUp, Enrolled, InFlight, Over
<1>2. CASE BookerRead(b)
  <2>1. PICK a \in Accounts : /\ account[a].status = "ACTIVE"
                              /\ carry' = [carry EXCEPT ![b].account = a] /\ Meets(b, a)
    BY <1>2 DEF BookerRead
  <2>2. /\ carry'[b].account = a /\ pc'[b] = "read" /\ pc[b] = "start"
        /\ UNCHANGED reservation
    BY <1>2, <2>1 DEF BookerRead, Goes, SignInTypeOK, Carried
  <2>3. reservation[b] = "none"
    BY <2>2 DEF OverlapInv, HoldingsExplained
  <2>4. QED BY <2>1, <2>2, <2>3, MetGrows DEF Enrolled
<1>3. CASE BookerCommit(b)
  BY <1>3 DEF BookerCommit, Goes, SignInTypeOK, Enrolled, InFlight, Over, OverlapInv, HoldingsExplained
<1>4. CASE BookingEnds(b)
  BY <1>4 DEF BookingEnds, SignInTypeOK, Enrolled, InFlight, Over, OverlapInv, HoldingsExplained
<1>5. QED BY <1>1, <1>2, <1>3, <1>4 DEF BookerNext

(* Nobody's step takes an account from who has it.                         *)
LEMMA HoldingsKept ==
  ASSUME SignInTypeOK, EndersExplained, OverlapInv, SignInNext
  PROVE  HoldingsExplained'
<1>1. ASSUME NEW q \in Requests, Apart(q),
             q \in Verifiers => (pc'[q] \in {"start", "found", "reserved", "consumed"}
                                   => carry'[q].account = NoAccount),
             q \in Enders => pc'[q] \in {"start", "read", "locked", "erased", "sweeping", "swept",
                                         "done", "refused"},
             q \in Bookers => /\ pc'[q] \in {"read", "done"} => carry'[q].account \in Accounts
                              /\ reservation'[q] # "none" => pc'[q] = "done",
             \A b \in Bookers \ {q} : reservation'[b] = reservation[b]
      PROVE  HoldingsExplained'
  BY <1>1 DEF Apart, OverlapInv, HoldingsExplained, Requests, Sessions
<1> Codes \subseteq Requests /\ Sessions \subseteq Requests /\ Enders \subseteq Requests
      /\ Bookers \subseteq Requests /\ Verifiers \subseteq Sessions /\ Refreshers \subseteq Sessions
  BY DEF Requests, Sessions
<1>2. ASSUME NEW c \in Codes, AskNext(c) PROVE HoldingsExplained'
  <2>1. UNCHANGED reservation
    BY <1>2 DEF AskNext, AskCount, AskRefuse, AskCommit, AskFail, CodeAges, GivesUp
  <2>2. c \notin Verifiers /\ c \notin Enders /\ c \notin Bookers
    BY IdsAssumption DEF Sessions
  <2>3. QED BY <1>1, <1>2, <2>1, <2>2, AskSteps
<1>3. ASSUME NEW v \in Verifiers, VerifyNext(v) PROVE HoldingsExplained'
  <2>1. v \notin Enders /\ v \notin Bookers
    BY IdsAssumption DEF Sessions
  <2>2. QED BY <1>1, <1>3, <2>1, VerifySteps, VerifyEnrolled
<1>4. ASSUME NEW r \in Refreshers, RefreshNext(r) PROVE HoldingsExplained'
  <2>1. r \notin Verifiers /\ r \notin Enders /\ r \notin Bookers
    BY IdsAssumption DEF Sessions
  <2>2. UNCHANGED reservation
    BY <1>4 DEF RefreshNext, RefreshFind, RefreshOff, RefreshRotate, RefreshCommit, RefreshFail,
                ReplayLook, ReplayEnds, ReplayNotEnded, GivesUp
  <2>3. QED BY <1>1, <1>4, <2>1, <2>2, RefreshSteps
<1>5. ASSUME NEW e \in Enders, EnderNext(e) PROVE HoldingsExplained'
  <2>1. e \notin Verifiers /\ e \notin Bookers
    BY IdsAssumption DEF Sessions
  <2>2. UNCHANGED reservation
    BY <1>5 DEF EnderNext, EnderRead, EnderRefuse, DeleteLock, DeleteCodes, SweepLook, SweepHold,
                EnderCommit, EnderFail, GivesUp
  <2>3. pc'[e] \in {"read", "locked", "erased", "sweeping", "swept", "done", "refused"}
    BY <1>5 DEF EnderNext, EnderRead, EnderRefuse, DeleteLock, DeleteCodes, SweepLook, SweepHold,
                EnderCommit, EnderFail, GivesUp, Goes, SignInTypeOK
  <2>4. QED BY <1>1, <1>5, <2>1, <2>2, <2>3, EnderSteps
<1>6. ASSUME NEW b \in Bookers, BookerNext(b) PROVE HoldingsExplained'
  <2>1. b \notin Verifiers /\ b \notin Enders
    BY IdsAssumption DEF Sessions
  <2>2. QED BY <1>1, <1>6, <2>1, BookerSteps, BookerEnrolled
<1>7. QED BY <1>2, <1>3, <1>4, <1>5, <1>6 DEF SignInNext

(* The steps of a request that ends sessions, up to its commit.            *)
LEMMA EnderOverlaps ==
  ASSUME SignInTypeOK, TokensExplained, EndersExplained, OverlapInv, NEW e \in Enders, EnderNext(e),
         ~EnderCommit(e)
  PROVE  OverlapsMet' /\ SwitchesExplained' /\ OnlyAnOverlapSurvives'
<1>1. /\ e \in Requests /\ Apart(e) /\ UNCHANGED <<account, token>>
      /\ Sessions \cup Bookers \subseteq Requests \ {e} /\ Enders \subseteq Requests
      /\ Tokens = Sessions
  BY EnderSteps, IdsAssumption DEF Requests, Sessions, Tokens
<1>2. /\ pc[e] # "done" /\ UNCHANGED reservation
      /\ \A d \in Enders \ {e} : met'[d] = met[d]
  BY <1>1 DEF EnderNext, EnderRead, EnderRefuse, DeleteLock, DeleteCodes, SweepLook, SweepHold,
              EnderFail, GivesUp, SignInTypeOK, InFlight, Over
<1>3. /\ \A d \in Enders \ {e} : pc'[d] = pc[d] /\ carry'[d] = carry[d] /\ (InFlight(d)' <=> InFlight(d))
      /\ \A r \in Sessions \cup Bookers : carry'[r] = carry[r] /\ (InFlight(r)' <=> InFlight(r))
  BY <1>1 DEF Apart, InFlight, Over
<1>4. /\ \A a \in Accounts : SwitchedOff(a)' <=> SwitchedOff(a)
      /\ \A a \in Accounts : SwitchedOff(a) => /\ account[a].offBy \in Enders \ {e}
                                               /\ pc[account[a].offBy] = "done"
                                               /\ met'[account[a].offBy] = met[account[a].offBy]
                                               /\ pc'[account[a].offBy] = "done"
  BY <1>1, <1>2, <1>3 DEF SwitchedOff, OverlapInv, SwitchesExplained
<1>5. SUFFICES
        /\ \A r \in Sessions \cup Bookers :
             InFlight(e)' /\ InFlight(r) /\ carry'[e].account = carry[r].account => r \in met'[e]
        /\ pc'[e] \in {"sweeping", "swept"} =>
             LiveTokensOf(carry'[e].account) \subseteq carry'[e].sweep \cup met'[e]
        /\ \A b \in Bookers :
             InFlight(e)' /\ carry'[e].kind = "delete" /\ reservation[b] = "active"
               /\ carry[b].account = carry'[e].account => b \in met'[e]
  <2>1. OverlapsMet'
    <3>1. ASSUME NEW r \in Sessions \cup Bookers, InFlight(r)', NEW d \in Enders, InFlight(d)',
                 carry'[d].account = carry'[r].account
          PROVE  r \in met'[d]
      BY <1>2, <1>3, <1>5, <3>1 DEF OverlapInv, OverlapsMet
    <3>2. ASSUME NEW r \in Sessions \cup Bookers, InFlight(r)', NEW a \in Accounts, SwitchedOff(a)',
                 carry'[r].account = a
          PROVE  r \in met'[account'[a].offBy]
      BY <1>1, <1>3, <1>4, <3>2 DEF OverlapInv, OverlapsMet
    <3>3. QED BY <3>1, <3>2 DEF OverlapsMet
  <2>2. SwitchesExplained'
    <3>1. \A a \in Accounts : SwitchedOff(a)' =>
            account'[a].offBy \in Enders /\ pc'[account'[a].offBy] = "done"
      BY <1>1, <1>4
    <3>3. ASSUME NEW d \in Enders, pc'[d] \in {"sweeping", "swept"}, NEW t \in Tokens,
                 token'[t].state = "live", token'[t].user = carry'[d].account
          PROVE  t \in carry'[d].sweep \cup met'[d]
      <4>1. t \in LiveTokensOf(carry'[d].account)
        BY <1>1, <3>3 DEF LiveTokensOf
      <4>2. CASE d = e
        BY <1>5, <3>3, <4>1, <4>2
      <4>3. CASE d # e
        BY <1>2, <1>3, <3>3, <4>1, <4>3 DEF OverlapInv, SwitchesExplained
      <4>4. QED BY <4>2, <4>3
    <3>4. \A d \in Enders, b \in Bookers :
            InFlight(d)' /\ carry'[d].kind = "delete" /\ reservation'[b] = "active"
              /\ carry'[b].account = carry'[d].account => b \in met'[d]
      BY <1>2, <1>3, <1>5 DEF OverlapInv, SwitchesExplained
    <3>5. QED BY <3>1, <3>3, <3>4 DEF SwitchesExplained, LiveTokensOf
  <2>3. OnlyAnOverlapSurvives'
    <3>1. \A t \in Tokens : token[t].state = "live" => token[t].user \in Accounts
      BY DEF TokensExplained
    <3>2. \A b \in Bookers : reservation[b] = "active" => carry[b].account \in Accounts
      BY DEF OverlapInv, HoldingsExplained
    <3>3. QED
      BY <1>1, <1>2, <1>3, <1>4, <3>1, <3>2 DEF OverlapInv, OnlyAnOverlapSurvives, SwitchedOff
  <2>4. QED BY <2>1, <2>2, <2>3
<1>6. CASE EnderRead(e)
  <2>1. PICK kind \in EnderKinds, a \in Accounts :
          /\ MayEnd(kind, a)
          /\ carry' = [carry EXCEPT ![e].kind = kind, ![e].account = a]
          /\ met' = [met EXCEPT ![e] = {r \in Requests : InFlight(r) /\ carry[r].account = a}]
    BY <1>6 DEF EnderRead
  <2>2. carry'[e].account = a /\ carry'[e].kind = kind /\ pc'[e] = "read"
    BY <1>1, <1>6, <2>1 DEF EnderRead, Goes, SignInTypeOK, Carried
  <2>3. met'[e] = {r \in Requests : InFlight(r) /\ carry[r].account = a}
    BY <2>1 DEF SignInTypeOK
  <2>4. kind = "delete" => \A b \in Bookers : carry[b].account = a => reservation[b] # "active"
    BY <2>1 DEF MayEnd
  <2>5. QED BY <1>1, <2>2, <2>3, <2>4
<1>7. CASE DeleteLock(e) \/ DeleteCodes(e)
  <2>1. /\ carry'[e].account = carry[e].account /\ carry'[e].kind = carry[e].kind
        /\ pc'[e] \in {"locked", "erased"} /\ InFlight(e) /\ met'[e] = met[e]
    BY <1>1, <1>7 DEF DeleteLock, DeleteCodes, Goes, SignInTypeOK, Carried, InFlight, Over
  <2>2. QED BY <2>1 DEF OverlapInv, OverlapsMet, SwitchesExplained
<1>8. CASE SweepLook(e)
  <2>1. /\ carry'[e].account = carry[e].account /\ carry'[e].kind = carry[e].kind
        /\ carry'[e].sweep = LiveTokensOf(carry[e].account)
        /\ InFlight(e) /\ met'[e] = met[e]
    BY <1>1, <1>8 DEF SweepLook, SignInTypeOK, Carried, InFlight, Over
  <2>2. QED BY <2>1 DEF OverlapInv, OverlapsMet, SwitchesExplained
<1>9. CASE SweepHold(e)
  <2>1. /\ carry'[e].account = carry[e].account /\ carry'[e].kind = carry[e].kind
        /\ carry'[e].sweep = {t \in carry[e].sweep : token[t].state = "live"}
        /\ pc[e] = "sweeping" /\ InFlight(e) /\ met'[e] = met[e]
    BY <1>1, <1>9 DEF SweepHold, SignInTypeOK, Carried, InFlight, Over
  <2>2. LiveTokensOf(carry[e].account) \subseteq carry'[e].sweep \cup met'[e]
    BY <2>1 DEF OverlapInv, SwitchesExplained, LiveTokensOf
  <2>3. QED BY <2>1, <2>2 DEF OverlapInv, OverlapsMet, SwitchesExplained
<1>10. CASE EnderRefuse(e) \/ EnderFail(e)
  <2>1. pc'[e] = "refused"
    BY <1>1, <1>10 DEF EnderRefuse, EnderFail, GivesUp, Goes, SignInTypeOK
  <2>2. QED BY <2>1 DEF InFlight, Over
<1>11. QED BY <1>6, <1>7, <1>8, <1>9, <1>10 DEF EnderNext

(* The commit: what it retires is gone, and what it misses it has met.     *)
LEMMA CommitOverlaps ==
  ASSUME SignInTypeOK, TokensExplained, EndersExplained, OverlapInv, NEW e \in Enders, EnderCommit(e)
  PROVE  OverlapsMet' /\ SwitchesExplained' /\ OnlyAnOverlapSurvives'
<1> DEFINE a0 == carry[e].account
<1>1. /\ e \in Requests /\ Apart(e)
      /\ Sessions \cup Bookers \subseteq Requests \ {e} /\ Enders \subseteq Requests
      /\ Tokens = Sessions
  <2>1. EnderNext(e) BY DEF EnderNext
  <2>2. QED BY <2>1, EnderSteps, IdsAssumption DEF Requests, Sessions, Tokens
<1>2. /\ pc[e] \in {"swept", "read"}
      /\ pc[e] = "read" => carry[e].kind = "reinstate"
      /\ pc'[e] = "done" /\ UNCHANGED <<reservation, met>> /\ InFlight(e) /\ ~InFlight(e)'
      /\ account' = [account EXCEPT ![a0] = Switched(e)] /\ token' = Retired(carry[e].sweep)
      /\ a0 \in Accounts
  BY <1>1 DEF EnderCommit, Goes, SignInTypeOK, InFlight, Over, EndersExplained
<1>3. /\ \A d \in Enders \ {e} : pc'[d] = pc[d] /\ carry'[d] = carry[d] /\ (InFlight(d)' <=> InFlight(d))
      /\ \A r \in Sessions \cup Bookers : carry'[r] = carry[r] /\ (InFlight(r)' <=> InFlight(r))
  BY <1>1 DEF Apart, InFlight, Over
<1>4. \A t \in Tokens : /\ token'[t].user = token[t].user
                        /\ token'[t].state = "live" => token[t].state = "live" /\ t \notin carry[e].sweep
  BY <1>2 DEF Retired, SignInTypeOK, TokenRow
<1>5. \A a \in Accounts \ {a0} : account'[a] = account[a]
  BY <1>2 DEF SignInTypeOK
<1>6. account'[a0] = Switched(e)
  BY <1>2 DEF SignInTypeOK
<1>7. account'[a0].status \in {"SUSPENDED", "DEACTIVATED"} =>
        \/ account'[a0] = account[a0]
        \/ /\ account'[a0].offBy = e /\ pc[e] = "swept"
           /\ account'[a0].status = "DEACTIVATED" => carry[e].kind = "delete"
  <2>1. carry[e].kind \in {"logout", "suspend", "reinstate", "delete"} /\ account[a0] \in AccountRow
    BY <1>1, <1>2 DEF SignInTypeOK, Carried
  <2>2. CASE carry[e].kind = "logout"
    BY <1>6, <2>2 DEF Switched
  <2>3. CASE carry[e].kind = "suspend"
    <3>1. account'[a0] = [account[a0] EXCEPT !.status = "SUSPENDED", !.offBy = e]
      BY <1>6, <2>3 DEF Switched
    <3>2. account'[a0].offBy = e /\ account'[a0].status = "SUSPENDED"
      BY <2>1, <3>1 DEF AccountRow
    <3>3. QED BY <1>2, <2>3, <3>2
  <2>4. CASE carry[e].kind = "reinstate"
    <3>1. account'[a0].status = "ACTIVE"
      BY <1>6, <2>1, <2>4 DEF Switched, AccountRow
    <3>2. QED BY <3>1
  <2>5. CASE carry[e].kind = "delete"
    <3>1. account'[a0] = [status |-> "DEACTIVATED", phone |-> NoPhone, offBy |-> e]
      BY <1>6, <2>5 DEF Switched
    <3>2. QED BY <1>2, <2>5, <3>1
  <2>6. QED BY <2>1, <2>2, <2>3, <2>4, <2>5
<1>8. \A a \in Accounts : SwitchedOff(a)' =>
        \/ account'[a] = account[a] /\ SwitchedOff(a)
        \/ a = a0 /\ account'[a].offBy = e /\ pc[e] = "swept"
  BY <1>5, <1>7 DEF SwitchedOff
<1>9. OverlapsMet'
  <2>1. ASSUME NEW r \in Sessions \cup Bookers, InFlight(r)', NEW d \in Enders, InFlight(d)',
               carry'[d].account = carry'[r].account
        PROVE  r \in met'[d]
    BY <1>2, <1>3, <2>1 DEF OverlapInv, OverlapsMet
  <2>2. ASSUME NEW r \in Sessions \cup Bookers, InFlight(r)', NEW a \in Accounts, SwitchedOff(a)',
               carry'[r].account = a
        PROVE  r \in met'[account'[a].offBy]
    <3>1. CASE account'[a] = account[a] /\ SwitchedOff(a)
      BY <1>2, <1>3, <2>2, <3>1 DEF OverlapInv, OverlapsMet
    <3>2. CASE a = a0 /\ account'[a].offBy = e
      BY <1>2, <1>3, <2>2, <3>2 DEF OverlapInv, OverlapsMet
    <3>3. QED BY <1>8, <2>2, <3>1, <3>2
  <2>3. QED BY <2>1, <2>2 DEF OverlapsMet
<1>10. SwitchesExplained'
  <2>1. \A a \in Accounts : SwitchedOff(a)' =>
          account'[a].offBy \in Enders /\ pc'[account'[a].offBy] = "done"
    <3>1. \A d \in Enders : pc[d] = "done" => pc'[d] = "done"
      BY <1>2, <1>3
    <3>2. QED BY <1>2, <1>8, <3>1 DEF OverlapInv, SwitchesExplained
  <2>3. ASSUME NEW d \in Enders, pc'[d] \in {"sweeping", "swept"}, NEW t \in Tokens,
               token'[t].state = "live", token'[t].user = carry'[d].account
        PROVE  t \in carry'[d].sweep \cup met'[d]
    <3>1. d # e
      BY <1>2, <2>3
    <3>2. t \in LiveTokensOf(carry[d].account)
      BY <1>3, <1>4, <2>3, <3>1 DEF LiveTokensOf
    <3>3. QED BY <1>2, <1>3, <2>3, <3>1, <3>2 DEF OverlapInv, SwitchesExplained
  <2>4. \A d \in Enders, b \in Bookers :
          InFlight(d)' /\ carry'[d].kind = "delete" /\ reservation'[b] = "active"
            /\ carry'[b].account = carry'[d].account => b \in met'[d]
    BY <1>2, <1>3 DEF OverlapInv, SwitchesExplained
  <2>5. QED BY <2>1, <2>3, <2>4 DEF SwitchesExplained, LiveTokensOf
<1>11. OnlyAnOverlapSurvives'
  <2>1. ASSUME NEW t \in Tokens, token'[t].state = "live",
               account'[token'[t].user].status \in {"SUSPENDED", "DEACTIVATED"}
        PROVE  t \in met'[account'[token'[t].user].offBy]
    <3>1. token[t].state = "live" /\ token'[t].user = token[t].user /\ token[t].user \in Accounts
      BY <1>4, <2>1 DEF TokensExplained
    <3>2. SwitchedOff(token[t].user)'
      BY <2>1, <3>1 DEF SwitchedOff
    <3>3. CASE account'[token[t].user] = account[token[t].user]
      BY <1>2, <2>1, <3>1, <3>3 DEF OverlapInv, OnlyAnOverlapSurvives
    <3>4. CASE token[t].user = a0 /\ account'[a0].offBy = e /\ pc[e] = "swept"
      <4>1. t \in LiveTokensOf(a0) /\ t \notin carry[e].sweep
        BY <1>4, <2>1, <3>1, <3>4 DEF LiveTokensOf
      <4>2. QED BY <1>2, <3>1, <3>4, <4>1 DEF OverlapInv, SwitchesExplained
    <3>5. QED BY <1>8, <3>1, <3>2, <3>3, <3>4
  <2>2. ASSUME NEW b \in Bookers, reservation'[b] = "active",
               account'[carry'[b].account].status = "DEACTIVATED"
        PROVE  b \in met'[account'[carry'[b].account].offBy]
    <3>1. reservation[b] = "active" /\ carry'[b] = carry[b] /\ carry[b].account \in Accounts
      BY <1>2, <1>3, <2>2 DEF OverlapInv, HoldingsExplained
    <3>2. SwitchedOff(carry[b].account)'
      BY <2>2, <3>1 DEF SwitchedOff
    <3>3. CASE account'[carry[b].account] = account[carry[b].account]
      BY <1>2, <2>2, <3>1, <3>3 DEF OverlapInv, OnlyAnOverlapSurvives
    <3>4. CASE carry[b].account = a0 /\ account'[a0] # account[a0]
      <4>1. account'[a0].offBy = e /\ carry[e].kind = "delete"
        BY <1>7, <2>2, <3>1, <3>2, <3>4
      <4>2. QED BY <1>2, <3>1, <3>4, <4>1 DEF OverlapInv, SwitchesExplained
    <3>5. QED BY <1>5, <3>1, <3>3, <3>4
  <2>3. QED BY <2>1, <2>2 DEF OnlyAnOverlapSurvives
<1>12. QED BY <1>9, <1>10, <1>11

(* All steps together.                                                     *)
LEMMA OverlapsKept ==
  ASSUME SignInTypeOK, TokensExplained, RotationsExplained, EndersExplained, OverlapInv, SignInNext,
         TokensExplained'
  PROVE  OverlapInv'
<1> Codes \subseteq Requests /\ Sessions \subseteq Requests /\ Bookers \subseteq Requests
      /\ Verifiers \subseteq Sessions /\ Refreshers \subseteq Sessions /\ Tokens = Sessions
  BY DEF Requests, Sessions, Tokens
<1>1. HoldingsExplained'
  BY HoldingsKept
<1>2. ASSUME NEW c \in Codes, AskNext(c)
      PROVE  OverlapsMet' /\ SwitchesExplained' /\ OnlyAnOverlapSurvives'
  <2>1. c \notin Sessions /\ c \notin Enders /\ c \notin Bookers
    BY IdsAssumption
  <2>2. UNCHANGED <<reservation, met, account, token>>
    BY <1>2 DEF AskNext, AskCount, AskRefuse, AskCommit, AskFail, CodeAges, GivesUp
  <2>3. Apart(c) /\ \A b \in Bookers : carry'[b] = carry[b]
    BY <1>2, <2>1, AskSteps DEF Apart
  <2>4. QED BY <1>1, <2>1, <2>2, <2>3, OverlapsStand
<1>3. ASSUME NEW v \in Verifiers, VerifyNext(v)
      PROVE  OverlapsMet' /\ SwitchesExplained' /\ OnlyAnOverlapSurvives'
  <2>1. v \notin Enders /\ v \notin Bookers
    BY IdsAssumption DEF Sessions
  <2>2. /\ Apart(v) /\ Enrolled(v) /\ UNCHANGED reservation
        /\ \A e \in Enders : met[e] \subseteq met'[e]
        /\ \A b \in Bookers : carry'[b] = carry[b]
    BY <1>3, <2>1, VerifySteps, VerifyEnrolled DEF Apart
  <2>3. \A a \in Accounts : SwitchedOff(a)' => account'[a] = account[a]
    <3>1. CASE VerifySignIn(v)
      <4>1. account[carry[v].account] \in AccountRow \/ carry[v].account \notin Accounts
        BY DEF SignInTypeOK
      <4>2. \A a \in Accounts : account'[a] = account[a] \/ account'[a].status = "ACTIVE"
        BY <3>1, <4>1 DEF VerifySignIn, SignInTypeOK, AccountRow
      <4>3. QED BY <4>2 DEF SwitchedOff
    <3>2. QED BY <1>3, <3>1, VerifySteps
  <2>4. \A t \in Tokens : token'[t].state = "live" =>
           \/ token[t].state = "live" /\ token'[t].user = token[t].user
           \/ t = v /\ InFlight(v) /\ token'[t].user = carry[v].account
    <3>1. CASE VerifySignIn(v)
      BY <3>1 DEF VerifySignIn, SignInTypeOK, InFlight, Over
    <3>2. QED BY <1>3, <3>1, VerifySteps
  <2>5. QED BY <1>1, <2>1, <2>2, <2>3, <2>4, OverlapsStand
<1>4. ASSUME NEW r \in Refreshers, RefreshNext(r)
      PROVE  OverlapsMet' /\ SwitchesExplained' /\ OnlyAnOverlapSurvives'
  <2>1. r \notin Enders /\ r \notin Bookers
    BY IdsAssumption DEF Sessions
  <2>2. /\ Apart(r) /\ Enrolled(r) /\ UNCHANGED <<reservation, account>>
        /\ \A e \in Enders : met[e] \subseteq met'[e]
        /\ \A b \in Bookers : carry'[b] = carry[b]
    BY <1>4, <2>1, RefreshSteps, RefreshEnrolled DEF Apart
  <2>3. \A t \in Tokens : token'[t].state = "live" =>
           \/ token[t].state = "live" /\ token'[t].user = token[t].user
           \/ t = r /\ InFlight(r) /\ token'[t].user = carry[r].account
    <3>1. CASE RefreshCommit(r)
      <4>1. carry[r].token \in Tokens /\ pc[r] = "rotated"
        BY <3>1 DEF RefreshCommit, RotationsExplained
      <4>2. QED BY <3>1, <4>1 DEF RefreshCommit, SignInTypeOK, TokenRow, InFlight, Over
    <3>2. CASE ReplayEnds(r)
      BY <3>2, RetiredOnly DEF ReplayEnds
    <3>3. QED BY <1>4, <3>1, <3>2, RefreshSteps
  <2>4. QED BY <1>1, <2>1, <2>2, <2>3, OverlapsStand
<1>5. ASSUME NEW e \in Enders, EnderNext(e)
      PROVE  OverlapsMet' /\ SwitchesExplained' /\ OnlyAnOverlapSurvives'
  BY <1>5, EnderOverlaps, CommitOverlaps
<1>6. ASSUME NEW b \in Bookers, BookerNext(b)
      PROVE  OverlapsMet' /\ SwitchesExplained' /\ OnlyAnOverlapSurvives'
  <2>1. b \notin Enders /\ b \notin Sessions
    BY IdsAssumption
  <2>2. /\ Apart(b) /\ Enrolled(b) /\ UNCHANGED <<account, token>>
        /\ \A e \in Enders : met[e] \subseteq met'[e]
    BY <1>6, BookerSteps, BookerEnrolled
  <2>3. \A c \in Bookers : reservation'[c] = "active" =>
           \/ reservation[c] = "active" /\ carry'[c] = carry[c]
           \/ c = b /\ InFlight(b) /\ carry'[b].account = carry[b].account
    BY <1>6, <2>2, BookerEnrolled DEF Apart
  <2>4. QED BY <1>1, <2>1, <2>2, <2>3, OverlapsStand
<1>7. OverlapsMet' /\ SwitchesExplained' /\ OnlyAnOverlapSurvives'
  BY <1>2, <1>3, <1>4, <1>5, <1>6 DEF SignInNext
<1>8. QED BY <1>1, <1>7 DEF OverlapInv

(***************************************************************************)
(* The invariant.                                                          *)
(***************************************************************************)

Inv == SignInInv /\ EveryGuessIsPaidFor /\ CodesAreRationed

LEMMA InitInv == SignInInit => Inv
<1> SUFFICES ASSUME SignInInit PROVE Inv OBVIOUS
<1>1. SignInTypeOK
  BY InitTypeOK
<1>2. /\ \A r \in Requests : pc[r] = "start" /\ carry[r] = Nothing
      /\ \A t \in Tokens : t \in Requests /\ token[t].state = "none"
      /\ \A c \in Codes : c \in Requests /\ code[c].state = "none"
  BY DEF SignInInit, Requests, Tokens
<1>3. TokensExplained /\ OneUsableToken
  BY <1>2 DEF TokensExplained, OneUsableToken
<1>4. CodesExplained /\ OneSessionPerCode /\ GuessesExplained /\ EveryGuessIsPaidFor
  BY <1>2, IdsAssumption
     DEF CodesExplained, OneSessionPerCode, GuessesExplained, EveryGuessIsPaidFor, Nothing,
         Requests, Sessions
<1>5. RotationsExplained /\ EndersExplained
  BY <1>2 DEF RotationsExplained, EndersExplained, Nothing, Requests, Sessions
<1>6. AccountsExplained /\ OneAccountPerNumber
  <2> DEFINE Rows == {NoAccountRow} \cup
                       {[NoAccountRow EXCEPT !.status = "ACTIVE", !.phone = p] : p \in Phones}
  <2>1. \A a \in Accounts : account[a].status = "NONE" => account[a].phone = NoPhone
    <3>1. \A row \in Rows : row.status = "NONE" => row.phone = NoPhone
      <4>1. NoAccountRow.phone = NoPhone
        BY DEF NoAccountRow
      <4>2. \A p \in Phones : [NoAccountRow EXCEPT !.status = "ACTIVE", !.phone = p].status = "ACTIVE"
        BY DEF NoAccountRow
      <4>3. QED BY <4>1, <4>2
    <3>2. account \in [Accounts -> Rows]
      BY DEF SignInInit
    <3>3. \A a \in Accounts : account[a] \in Rows
      BY <3>2
    <3>4. QED BY <3>1, <3>3
  <2>2. QED BY <1>2, <2>1 DEF SignInInit, AccountsExplained, OneAccountPerNumber, Requests, Sessions
<1>7. CountsStand /\ CodesAreRationed
  <2>1. \A p \in Phones : RecentCodes(p) = {}
    BY <1>2 DEF RecentCodes
  <2>2. CodesAreRationed
    BY <2>1, FS_EmptySet, LimitsAssumption DEF CodesAreRationed
  <2>3. CountsStand
    BY <1>2 DEF CountsStand
  <2>4. QED BY <2>2, <2>3
<1>8. OverlapInv
  <2>1. \A a \in Accounts : ~SwitchedOff(a)
    <3> DEFINE Rows == {NoAccountRow} \cup
                         {[NoAccountRow EXCEPT !.status = "ACTIVE", !.phone = p] : p \in Phones}
    <3>1. \A row \in Rows : row.status \in {"NONE", "ACTIVE"}
      <4>1. NoAccountRow.status = "NONE"
        BY DEF NoAccountRow
      <4>2. \A p \in Phones : [NoAccountRow EXCEPT !.status = "ACTIVE", !.phone = p].status = "ACTIVE"
        BY DEF NoAccountRow
      <4>3. QED BY <4>1, <4>2
    <3>2. \A a \in Accounts : account[a] \in Rows
      <4>1. account \in [Accounts -> Rows] BY DEF SignInInit
      <4>2. QED BY <4>1
    <3>3. QED BY <3>1, <3>2 DEF SwitchedOff
  <2>2. HoldingsExplained
    BY <1>2 DEF HoldingsExplained, Nothing, Requests, Sessions, SignInInit
  <2>3. OverlapsMet
    BY <1>2 DEF OverlapsMet, InFlight, Requests
  <2>4. SwitchesExplained
    BY <1>2, <2>1 DEF SwitchesExplained, InFlight, Requests
  <2>5. OnlyAnOverlapSurvives
    BY <1>2 DEF OnlyAnOverlapSurvives, SignInInit
  <2>6. QED BY <2>2, <2>3, <2>4, <2>5 DEF OverlapInv
<1>9. QED BY <1>1, <1>3, <1>4, <1>5, <1>6, <1>7, <1>8 DEF Inv, SignInInv

LEMMA NextInv == Inv /\ [SignInNext]_signInVars => Inv'
<1> SUFFICES ASSUME Inv, [SignInNext]_signInVars PROVE Inv' OBVIOUS
<1>1. CASE SignInNext
  <2>1. SignInTypeOK'
    BY <1>1, AskTypeOK, VerifyTypeOK, RefreshTypeOK, EnderTypeOK, BookerTypeOK DEF Inv, SignInInv, SignInNext
  <2>2. TokensExplained' /\ OneUsableToken'
    BY <1>1, TokensKept DEF Inv, SignInInv
  <2>3. CodesExplained' /\ OneSessionPerCode'
    BY <1>1, CodesKept DEF Inv, SignInInv
  <2>4. AccountsExplained' /\ OneAccountPerNumber'
    BY <1>1, AccountsKept DEF Inv, SignInInv
  <2>5. RotationsExplained' /\ EndersExplained'
    BY <1>1, RotationsKept, EndersKept DEF Inv, SignInInv
  <2>6. GuessesExplained' /\ EveryGuessIsPaidFor' /\ CountsStand' /\ CodesAreRationed'
    BY <1>1, GuessesKept, CountsKept DEF Inv, SignInInv
  <2>7. OverlapInv'
    BY <1>1, <2>2, OverlapsKept DEF Inv, SignInInv
  <2>8. QED BY <2>1, <2>2, <2>3, <2>4, <2>5, <2>6, <2>7 DEF Inv, SignInInv
<1>2. CASE UNCHANGED signInVars
  <2>1. SignInTypeOK' /\ EndersExplained' /\ RotationsExplained'
    BY <1>2 DEF signInVars, Inv, SignInInv, SignInTypeOK, EndersExplained, Deleting, RotationsExplained
  <2>2. TokensExplained' /\ OneUsableToken' /\ CodesExplained' /\ OneSessionPerCode'
    BY <1>2 DEF signInVars, Inv, SignInInv, TokensExplained, OneUsableToken, CodesExplained, OneSessionPerCode
  <2>3. AccountsExplained' /\ OneAccountPerNumber'
    BY <1>2 DEF signInVars, Inv, SignInInv, AccountsExplained, OneAccountPerNumber, OwnersOf
  <2>4. GuessesExplained' /\ EveryGuessIsPaidFor' /\ CountsStand' /\ CodesAreRationed'
    BY <1>2 DEF signInVars, Inv, SignInInv, GuessesExplained, EveryGuessIsPaidFor, CountsStand,
                CodesAreRationed, RecentCodes
  <2>5. OverlapInv'
    BY <1>2 DEF signInVars, Inv, SignInInv, OverlapInv, HoldingsExplained, OverlapsMet, SwitchesExplained,
                OnlyAnOverlapSurvives, SwitchedOff, LiveTokensOf, InFlight, Over
  <2>6. QED BY <2>1, <2>2, <2>3, <2>4, <2>5 DEF Inv, SignInInv
<1>3. QED BY <1>1, <1>2

LEMMA InvHolds == SignInSpec => []Inv
BY InitInv, NextInv, PTL DEF SignInSpec

(* Every variable keeps its type (models/identity.py and the phases of the *)
(* requests).                                                              *)
THEOREM TypeCorrect == SignInSpec => []SignInTypeOK
<1>1. Inv => SignInTypeOK
  BY DEF Inv, SignInInv
<1>2. QED BY <1>1, InvHolds, PTL

(* The rows agree with what the requests have reached; in particular a     *)
(* code is behind one session, a chain has one usable token, and a number  *)
(* has one account.                                                        *)
THEOREM SignInHolds == SignInSpec => []SignInInv
<1>1. Inv => SignInInv
  BY DEF Inv
<1>2. QED BY <1>1, InvHolds, PTL

(* No two guesses at a code are given the same number, nor one beyond the  *)
(* limit (deps.otp_attempt_reserver), however they interleave and whatever *)
(* is rolled back.                                                         *)
THEOREM GuessesPaidFor == SignInSpec => []EveryGuessIsPaidFor
<1>1. Inv => EveryGuessIsPaidFor
  BY DEF Inv
<1>2. QED BY <1>1, InvHolds, PTL

(* A number has no more codes within the window than the limit             *)
(* (RequestOtp, under OtpRepository.lock_phone).                           *)
THEOREM CodesRationed == SignInSpec => []CodesAreRationed
<1>1. Inv => CodesAreRationed
  BY DEF Inv
<1>2. QED BY <1>1, InvHolds, PTL

(* What an account that was switched off still has was asked for by a      *)
(* request that ran while the switch was being thrown                      *)
(* (RefreshTokenRepository.revoke_all_for_user, delete_account.py).        *)
THEOREM OverlapsOnly == SignInSpec => []OnlyAnOverlapSurvives
<1>1. Inv => OnlyAnOverlapSurvives
  BY DEF Inv, SignInInv, OverlapInv
<1>2. QED BY <1>1, InvHolds, PTL

(***************************************************************************)
(* Who waits for whom.                                                     *)
(***************************************************************************)

(* Without a deletion among them, the requests of a stuck set would have   *)
(* to wait for one that waits for nobody of the set: a user row is held by *)
(* deletions only, a token by who is about to take a user row, a number by *)
(* a sign-in that is, and a code by one of these.                          *)
LEMMA NoDeletionNoCycle ==
  ASSUME SignInTypeOK, EndersExplained, NEW S \in SUBSET {r \in Sessions \cup Enders : InFlight(r)},
         \A e \in S \cap Enders : carry[e].kind # "delete",
         \A r \in S : Waits(r) \cap S # {}
  PROVE  S = {}
<1>1. \A r : r \in Verifiers => r \notin Refreshers /\ r \notin Enders
  BY IdsAssumption DEF Sessions
<1>2. \A r : r \in Refreshers => r \notin Enders
  BY IdsAssumption DEF Sessions
<1>3. \A a : UserHolders(a) \cap S = {}
  BY DEF UserHolders, Deleting
<1>4. \A r \in S : AccountWaits(r) \cap S # {}
  BY DEF Waits
<1>5. ASSUME NEW v \in S \cap Verifiers PROVE pc[v] # "signed"
  <2>1. pc[v] = "signed" => AccountWaits(v) = UserHolders(carry[v].account)
    BY <1>1 DEF AccountWaits
  <2>2. QED BY <1>3, <1>4, <2>1
<1>6. ASSUME NEW v \in S \cap Verifiers PROVE pc[v] # "consumed"
  <2>1. NumberTakers(VerifierPhone[v]) \cap S = {}
    BY <1>5 DEF NumberTakers
  <2>2. pc[v] = "consumed" => AccountWaits(v) = NumberTakers(VerifierPhone[v])
    BY <1>1 DEF AccountWaits
  <2>3. QED BY <1>4, <2>1, <2>2
<1>7. \A c : CodeHolders(c) \cap S = {}
  BY <1>5, <1>6 DEF CodeHolders, Deleting
<1>8. ASSUME NEW r \in S \cap Refreshers PROVE pc[r] # "rotated"
  <2>1. pc[r] = "rotated" => AccountWaits(r) = UserHolders(carry[r].account)
    BY <1>1, <1>2 DEF AccountWaits
  <2>2. QED BY <1>3, <1>4, <2>1
<1>9. ASSUME NEW e \in S \cap Enders PROVE pc[e] # "swept"
  <2>1. pc[e] = "swept" => AccountWaits(e) = UserHolders(carry[e].account)
    BY <1>1, <1>2 DEF AccountWaits
  <2>2. QED BY <1>3, <1>4, <2>1
<1>10. \A t : TokenHolders(t) \cap S = {}
  BY <1>8, <1>9 DEF TokenHolders
<1>11. ASSUME NEW r \in S PROVE FALSE
  <2>1. \/ \E a : AccountWaits(r) = UserHolders(a)
        \/ \E c : AccountWaits(r) = CodeHolders(c)
        \/ \E p : r \in Verifiers /\ pc[r] = "consumed" /\ AccountWaits(r) = NumberTakers(p)
        \/ \E t : AccountWaits(r) = TokenHolders(t)
        \/ AccountWaits(r) = UNION {TokenHolders(t) : t \in carry[r].sweep}
        \/ r \in Enders /\ pc[r] = "locked"
        \/ AccountWaits(r) = {}
    BY DEF AccountWaits
  <2>2. ~(r \in Enders /\ pc[r] = "locked")
    BY <1>11 DEF EndersExplained
  <2>3. (UNION {TokenHolders(t) : t \in carry[r].sweep}) \cap S = {}
    BY <1>10
  <2>4. QED BY <1>3, <1>4, <1>6, <1>7, <1>10, <2>1, <2>2, <2>3
<1>12. QED BY <1>11

(* docs/adr/0012: requests that wait for each other in a cycle have an     *)
(* account deletion among them, however many there are of each kind.       *)
THEOREM DeadlocksNeedADeletion == SignInSpec => []OnlyDeletionDeadlocks
<1>1. Inv => OnlyDeletionDeadlocks
  BY NoDeletionNoCycle DEF Inv, SignInInv, OnlyDeletionDeadlocks, Stuck
<1>2. QED BY <1>1, InvHolds, PTL

(***************************************************************************)
(* The chains of tokens.                                                   *)
(***************************************************************************)

LEMMA InitChains == SignInInit => Chain!Init
<1> SUFFICES ASSUME SignInInit PROVE Chain!Init OBVIOUS
<1>1. \A t \in Tokens : token[t].state = "none"
  BY DEF SignInInit
<1>2. \A v \in Verifiers : {t \in Tokens : token[t].state = "live" /\ token[t].root = v} = {}
  BY <1>1
<1>3. UsableTokens = [v \in Verifiers |-> {}] /\ Issued = {}
  BY <1>1, <1>2 DEF UsableTokens, Issued
<1>4. QED BY <1>3 DEF Chain!Init

(* The tokens of S are retired: the chains they were usable in end.        *)
LEMMA SweepEnds ==
  ASSUME SignInTypeOK, OneUsableToken, NEW S \in SUBSET Tokens, token' = Retired(S),
         \A t \in S : token[t].state # "none"
  PROVE  Chain!Next
<1> DEFINE E == {v \in Verifiers : \E t \in S : t \in UsableTokens[v]}
<1>1. \A t \in Tokens :
        /\ token'[t].root = token[t].root
        /\ token'[t].state = "live" <=> token[t].state = "live" /\ t \notin S
        /\ token'[t].state = "none" <=> token[t].state = "none"
  BY DEF Retired, SignInTypeOK, TokenRow
<1>2. \A v \in Verifiers :
        UsableTokens'[v] = IF v \in E THEN {} ELSE UsableTokens[v]
  <2> TAKE v \in Verifiers
  <2>1. CASE v \in E
    <3>1. PICK t \in S : token[t].state = "live" /\ token[t].root = v
      BY <2>1 DEF UsableTokens
    <3>2. \A u \in Tokens : token[u].state = "live" /\ token[u].root = v => u = t
      BY <3>1 DEF OneUsableToken
    <3>3. QED BY <1>1, <2>1, <3>1, <3>2 DEF UsableTokens
  <2>2. CASE v \notin E
    <3>1. \A u \in Tokens : token[u].state = "live" /\ token[u].root = v => u \notin S
      BY <2>2 DEF UsableTokens
    <3>2. QED BY <1>1, <2>2, <3>1 DEF UsableTokens
  <2>3. QED BY <2>1, <2>2
<1>3. UsableTokens' = [v \in Verifiers |-> IF v \in E THEN {} ELSE UsableTokens[v]]
  BY <1>2 DEF UsableTokens
<1>4. Issued' = Issued
  BY <1>1 DEF Issued
<1>5. Chain!End(E)
  BY <1>3, <1>4 DEF Chain!End
<1>6. E \in SUBSET Verifiers
  OBVIOUS
<1>7. QED BY <1>5, <1>6 DEF Chain!Next

LEMMA CommitOpens ==
  ASSUME SignInTypeOK, TokensExplained, NEW v \in Verifiers, VerifySignIn(v)
  PROVE  Chain!Next
<1>1. v \in Tokens /\ token[v].state = "none" /\ \A t \in Tokens : token[t].root = v => token[t].state = "none"
  BY DEF VerifySignIn, TokensExplained, Sessions, Tokens
<1>2. /\ token'[v].state = "live" /\ token'[v].root = v
      /\ \A t \in Tokens \ {v} : token'[t] = token[t]
  BY <1>1 DEF VerifySignIn, SignInTypeOK
<1>3. UsableTokens'[v] = {v}
  BY <1>1, <1>2 DEF UsableTokens
<1>4. \A w \in Verifiers \ {v} : UsableTokens'[w] = UsableTokens[w]
  BY <1>1, <1>2 DEF UsableTokens
<1>5. UsableTokens' = [UsableTokens EXCEPT ![v] = {v}]
  BY <1>3, <1>4 DEF UsableTokens
<1>6. v \notin Issued /\ Issued' = Issued \cup {v}
  BY <1>1, <1>2 DEF Issued
<1>7. Chain!Open(v)
  BY <1>5, <1>6 DEF Chain!Open
<1>8. QED BY <1>7 DEF Chain!Next

LEMMA CommitRenews ==
  ASSUME SignInTypeOK, TokensExplained, OneUsableToken, RotationsExplained,
         NEW r \in Refreshers, RefreshCommit(r)
  PROVE  Chain!Next
<1> DEFINE t == carry[r].token
           v == token[t].root
<1>1. /\ r \in Tokens /\ r \notin Verifiers /\ t \in Tokens /\ t # r
      /\ token[r].state = "none" /\ token[t].state = "live" /\ v \in Verifiers
  BY IdsAssumption DEF RefreshCommit, RotationsExplained, TokensExplained, Sessions, Tokens
<1>2. /\ \A u \in Tokens \ {t, r} : token'[u] = token[u]
      /\ token'[t].state = "retired"
      /\ token'[r].state = "live" /\ token'[r].root = v
  <2>1. token[t] \in TokenRow BY <1>1 DEF SignInTypeOK
  <2>2. QED BY <1>1, <2>1 DEF RefreshCommit, SignInTypeOK, TokenRow
<1>3. \A u \in Tokens : token[u].state = "live" /\ token[u].root = v => u = t
  BY <1>1 DEF OneUsableToken
<1>4. UsableTokens'[v] = {r}
  BY <1>1, <1>2, <1>3 DEF UsableTokens
<1>5. \A w \in Verifiers \ {v} : UsableTokens'[w] = UsableTokens[w]
  BY <1>1, <1>2 DEF UsableTokens
<1>6. UsableTokens' = [UsableTokens EXCEPT ![v] = {r}]
  BY <1>1, <1>4, <1>5 DEF UsableTokens
<1>7. UsableTokens[v] # {} /\ r \notin Issued /\ Issued' = Issued \cup {r}
  BY <1>1, <1>2 DEF UsableTokens, Issued
<1>8. Chain!Renew(v, r)
  BY <1>6, <1>7 DEF Chain!Renew
<1>9. QED BY <1>1, <1>8 DEF Chain!Next

LEMMA NextChains ==
  ASSUME Inv, [SignInNext]_signInVars
  PROVE  Chain!Next \/ UNCHANGED <<UsableTokens, Issued>>
<1> USE DEF Inv, SignInInv
<1>1. CASE UNCHANGED token
  BY <1>1 DEF UsableTokens, Issued
<1>2. ASSUME NEW r \in Requests, token' = Retired(carry[r].sweep),
             r \in Refreshers \cup Enders
      PROVE  Chain!Next
  <2>1. carry[r].sweep \subseteq Tokens /\ \A t \in carry[r].sweep : token[t].state # "none"
    BY <1>2 DEF RotationsExplained, SignInTypeOK, Carried
  <2>2. QED BY <1>2, <2>1, SweepEnds
<1>3. ASSUME NEW e \in Enders, EnderCommit(e) PROVE Chain!Next
  BY <1>2, <1>3 DEF EnderCommit, Requests
<1>4. ASSUME NEW r \in Refreshers, ReplayEnds(r) PROVE Chain!Next
  BY <1>2, <1>4 DEF ReplayEnds, Requests, Sessions
<1>5. QED
  BY <1>1, <1>3, <1>4, AskSteps, VerifySteps, RefreshSteps, EnderSteps, BookerSteps,
     CommitOpens, CommitRenews DEF SignInNext, signInVars

(* Whatever is interleaved, lost or rolled back, a sign-in opens one chain *)
(* of refresh tokens with one usable token at most, each handed out once,  *)
(* and a chain that was ended has none again (SignInChain).                *)
THEOREM SignInImplementsChain == SignInSpec => ImplementsSignInChain
<1>1. Inv /\ [SignInNext]_signInVars => [Chain!Next]_<<UsableTokens, Issued>>
  BY NextChains
<1>2. QED BY <1>1, InitChains, InvHolds, PTL DEF SignInSpec, ImplementsSignInChain, Chain!Spec, Chain!vars
=============================================================================
