---------------------------- MODULE SignInChain ----------------------------
(***************************************************************************)
(* What signing in promises (application/use_cases/authenticate.py).  One  *)
(* verified code opens one chain of refresh tokens.  At any time a chain   *)
(* has one usable token or none: using it replaces it, ending the session  *)
(* takes it away, and a chain that has ended is never usable again, however  *)
(* many requests present its old tokens at once.                           *)
(***************************************************************************)

CONSTANTS Chains,   \* one for each sign-in that may succeed
          Tokens    \* the refresh tokens that may ever be issued

VARIABLES live,     \* for each chain, its usable tokens
          issued    \* the tokens handed out so far

vars == <<live, issued>>

Init == /\ live = [c \in Chains |-> {}]
        /\ issued = {}

\* A code is verified: the chain starts with a token of its own.
Open(c) ==
  /\ c \notin issued
  /\ live' = [live EXCEPT ![c] = {c}]
  /\ issued' = issued \cup {c}

\* The usable token is exchanged for one nobody has had before.
Renew(c, t) ==
  /\ live[c] # {}
  /\ t \notin issued
  /\ live' = [live EXCEPT ![c] = {t}]
  /\ issued' = issued \cup {t}

\* Logging out everywhere, a suspension, a deletion or a replay ends chains.
End(S) ==
  /\ live' = [c \in Chains |-> IF c \in S THEN {} ELSE live[c]]
  /\ UNCHANGED issued

Next == \/ \E c \in Chains : Open(c)
        \/ \E c \in Chains, t \in Tokens \ Chains : Renew(c, t)
        \/ \E S \in SUBSET Chains : End(S)

Spec == Init /\ [][Next]_vars
=============================================================================
