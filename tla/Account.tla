------------------------------ MODULE Account ------------------------------
(***************************************************************************)
(* What the driver's account promises: one balance, which only a completed *)
(* fare or money that changed hands can move, and settlements that are     *)
(* agreed one at a time and end once.  Payouts implements it.              *)
(***************************************************************************)
EXTENDS Integers

CONSTANTS Fares, FareEffect, Settlements, Amounts

VARIABLES
  balance,  \* what VELRO owes the driver, or (below zero) is owed by them
  earned,   \* the fares that have been booked on the account
  handed,   \* all that has changed hands so far, in either direction
  deal      \* of each settlement: its phase and what it is to pay out

NoDeal == [phase |-> "none", pays |-> 0]

Init == /\ balance = 0
        /\ earned = {}
        /\ handed = 0
        /\ deal = [s \in Settlements |-> NoDeal]

Earn(f) == /\ f \notin earned
           /\ earned' = earned \cup {f}
           /\ balance' = balance + FareEffect[f]
           /\ UNCHANGED <<handed, deal>>

(* A debt (pays below zero) is agreed while one is owed, a payout while    *)
(* one is due, and never a second deal while one is open.                  *)
Agree(s, pays) == /\ \A r \in Settlements : deal[r].phase # "open"
                  /\ deal[s] = NoDeal
                  /\ \/ pays > 0 /\ pays <= balance
                     \/ pays < 0 /\ pays >= balance
                  /\ deal' = [deal EXCEPT ![s] = [phase |-> "open", pays |-> pays]]
                  /\ UNCHANGED <<balance, earned, handed>>

Size(pays) == IF pays < 0 THEN -pays ELSE pays

Pay(s)  == /\ deal[s].phase = "open"
           /\ balance' = balance - deal[s].pays
           /\ handed' = handed + Size(deal[s].pays)
           /\ deal' = [deal EXCEPT ![s].phase = "paid"]
           /\ UNCHANGED earned
Drop(s) == /\ deal[s].phase = "open"
           /\ deal' = [deal EXCEPT ![s].phase = "dropped"]
           /\ UNCHANGED <<balance, earned, handed>>

Next == \/ \E f \in Fares : Earn(f)
        \/ \E s \in Settlements : \/ Pay(s) \/ Drop(s)
                                  \/ \E pays \in Amounts : Agree(s, pays)

Spec == Init /\ [][Next]_<<balance, earned, handed, deal>>
=============================================================================
