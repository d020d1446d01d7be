------------------------------ MODULE MCHiring ------------------------------
(***************************************************************************)
(* Hiring on small instances, in two scenes chosen at the start.  On the    *)
(* board two passengers ask, one of them twice, and two drivers bid and are *)
(* accepted, with deadlines, cancellations and withdrawals.  In the other   *)
(* scene one driver is wanted by both passengers and by a scheduled trip,   *)
(* while the desk changes the driver's row; no deadline passes, one request *)
(* of each passenger is made and two of the offers.                        *)
(***************************************************************************)
EXTENDS Hiring, TLC

CONSTANTS r3, p1, p2

MCPassengerOf == [r \in Requests |-> IF r = r3 THEN p2 ELSE p1]

VARIABLE scene   \* "board", or the one driver who is about

OnTheBoard == \/ \E r \in Requests : Ride(r)
              \/ \E o \in Offers : Bid(o)
              \/ \E a \in Accepts : Accept(a)
OneDriver ==
  /\ \A d \in Drivers \ {scene} :
       /\ driver'[d] = driver[d]
       /\ \A o \in Offers : bid'[o].by # d
       /\ \A m \in Movers : mover'[m].driver # d
       /\ \A k \in Desks : desk'[k].driver # d
  /\ late' = {}
  /\ Cardinality({o \in Offers : bid'[o].pc # "idle"}) <= 2
  /\ Cardinality({r \in Requests \ {r3} : ask'[r].pc # "idle"}) <= 1

MCInit == Init /\ scene \in Drivers \cup {"board"}
MCNext == /\ UNCHANGED scene
          /\ \/ scene = "board" /\ OnTheBoard
             \/ scene # "board" /\ Next /\ OneDriver
MCSpec == MCInit /\ [][MCNext]_<<vars, scene>>

MCSymmetry == Permutations(Drivers) \cup Permutations(Offers)
                \cup Permutations(Accepts) \cup Permutations(Requests \ {r3})
=============================================================================
