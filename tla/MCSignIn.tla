----------------------------- MODULE MCSignIn -----------------------------
(* SignIn on the smallest instance in which two switches meet: one account, *)
(* which signs in once.                                                    *)
EXTENDS SignIn

CONSTANTS number

MCCodePhone     == [c \in Codes |-> number]
MCVerifierPhone == [v \in Verifiers |-> number]
MCEnderKinds    == {"suspend", "reinstate", "delete"}
=============================================================================
