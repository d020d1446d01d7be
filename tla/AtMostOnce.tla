----------------------------- MODULE AtMostOnce -----------------------------
(***************************************************************************)
(* What an idempotency key promises (ui/api/idempotency.py).  However often *)
(* a request arrives under one key, its work is done once at most, and     *)
(* every answer given under the key is the answer of that one time.        *)
(***************************************************************************)

CONSTANTS Keys,      \* a key of one user on one endpoint
          Attempts,  \* the arrivals of requests
          Nobody,
          KeyOf,     \* the key each arrival carries
          Meant      \* what each arrival asks for

VARIABLES worked,    \* for each key, the arrival whose work was kept
          told       \* for each arrival, the one whose answer it was given

vars == <<worked, told>>

Init == /\ worked = [k \in Keys |-> Nobody]
        /\ told = [a \in Attempts |-> Nobody]

Work(a) ==
  /\ worked[KeyOf[a]] = Nobody /\ told[a] = Nobody
  /\ worked' = [worked EXCEPT ![KeyOf[a]] = a]
  /\ told' = [told EXCEPT ![a] = a]

Repeat(a) ==
  /\ worked[KeyOf[a]] # Nobody /\ told[a] = Nobody
  /\ Meant[worked[KeyOf[a]]] = Meant[a]
  /\ told' = [told EXCEPT ![a] = worked[KeyOf[a]]]
  /\ UNCHANGED worked

Next == \E a \in Attempts : Work(a) \/ Repeat(a)

Spec == Init /\ [][Next]_vars
=============================================================================
