------------------------------ MODULE Payouts ------------------------------
(***************************************************************************)
(* One driver's wallet and the settlements over it, under concurrent       *)
(* requests, each one database transaction:                                *)
(*                                                                         *)
(*   RequestSettlement, RecordCollection   wallet FOR UPDATE, then the     *)
(*                         open settlement FOR UPDATE, then create and hold *)
(*   DecideSettlement      settlement FOR UPDATE, then wallet FOR UPDATE,   *)
(*                         then move the money and the status              *)
(*   AdvanceTrip           wallet FOR UPDATE, then book a completed fare   *)
(*                                                                         *)
(* A use case loads the wallet when it locks it and writes back what it    *)
(* computed from that, so a wallet changed in between would be lost.  The  *)
(* wallet exists from the start; lifetime earnings and commission, which   *)
(* nothing reads back, the period and the audit are not here.              *)
(***************************************************************************)
EXTENDS Lifecycles, Integers, Sequences

CONSTANTS
  Settlements,  \* one identifier for each request that would open one
  Deciders,     \* DecideSettlement requests
  Fares,        \* completed bookings, each booked by an AdvanceTrip
  FareEffect,   \* minus the platform's share of a cash fare; else the driver's
  Amounts,      \* what a request may ask for, in minor units
  Minimum,      \* settlement.minimum_minor
  NoSettlement

ASSUME FaresAssumption   == FareEffect \in [Fares -> Int]
ASSUME AmountsAssumption == Amounts \subseteq Int
ASSUME NullAssumption    == NoSettlement \notin Settlements

VARIABLES
  wallet,      \* [available, pending, paid]: the committed wallet row
  ledger,      \* its entries, oldest first: [amount, after]
  settlement,  \* [status, pays] of each: pays is signed, as the hold is
  booked,      \* the fares that have their commission row
  ask,         \* the requests that open settlements: pc and the wallet read
  decide,      \* DecideSettlement transactions
  fare         \* AdvanceTrip transactions: pc and the wallet read

data == <<wallet, ledger, settlement, booked>>
vars == <<data, ask, decide, fare>>

Wallet    == [available : Int, pending : Int, paid : Int]
NewWallet == [available |-> 0, pending |-> 0, paid |-> 0]

SettlementStatus == {"PENDING", "PROCESSING", "PAID", "REJECTED"}
NotCreated == [status |-> "none", pays |-> 0]

(* find_open_for_driver: the driver's settlements that are in flight.      *)
FindOpen == {s \in Settlements : settlement[s].status \in {"PENDING", "PROCESSING"}}

IdleWriter  == [pc |-> "idle", saw |-> NewWallet]
IdleDecider == [pc |-> "idle", on |-> NoSettlement, to |-> "none"]

(* Who holds the wallet row, and who a settlement's row.                   *)
WalletNotLocked == {}                                           \* a fault
WalletNotReleased ==                                            \* a fault
  {s \in Settlements : ask[s].pc # "idle"} \cup {f \in Fares : fare[f].pc = "held"}
WalletHolders   == {s \in Settlements : ask[s].pc = "held"}
                     \cup {f \in Fares : fare[f].pc = "held"}
RowNotLocked(s) == {}                                           \* a fault
RowHolders(s)   == {d \in Deciders : decide[d].pc = "held" /\ decide[d].on = s}

(***************************************************************************)
(* The wallet's writers: WalletRepository.                                 *)
(***************************************************************************)

Entered(amount, after) == Append(ledger, [amount |-> amount, after |-> after])

(* hold_for_settlement: from available to pending, with an entry.          *)
Held(w, pays) ==
  [available |-> w.available - pays, pending |-> w.pending + pays, paid |-> w.paid]
(* release_hold: back, with an entry.                                      *)
Freed(w, pays) ==
  [available |-> w.available + pays, pending |-> w.pending - pays, paid |-> w.paid]
(* settle_hold: out of pending, with none.                                 *)
SettledFor(w, pays) ==
  [available |-> w.available, pending |-> w.pending - pays,
   paid |-> w.paid + (IF pays < 0 THEN -pays ELSE pays)]

(***************************************************************************)
(* RequestSettlement and RecordCollection.                                 *)
(***************************************************************************)

AskLock(s) ==
  /\ ask[s].pc = "idle"
  /\ WalletHolders = {}
  /\ ask' = [ask EXCEPT ![s] = [pc |-> "held", saw |-> wallet]]
  /\ UNCHANGED <<data, decide, fare>>

(* assert_can_request and assert_can_collect, in terms of the signed hold. *)
MayPayOut(w, pays)  == pays > 0 /\ pays <= w.available /\ pays >= Minimum
CollectAnything(w, pays) == pays < 0                            \* a fault
MayCollect(w, pays) == pays < 0 /\ w.available < 0 /\ pays >= w.available

(* find_open_for_driver waits for the open settlement's row, and must then *)
(* find none open; then the settlement and the hold, in one commit.        *)
AskCommit(s, pays) ==
  LET w == Held(ask[s].saw, pays) IN
  /\ ask[s].pc = "held"
  /\ FindOpen = {}
  /\ MayPayOut(ask[s].saw, pays) \/ MayCollect(ask[s].saw, pays)
  /\ settlement' = [settlement EXCEPT ![s] = [status |-> "PENDING", pays |-> pays]]
  /\ wallet' = w
  /\ ledger' = Entered(-pays, w.available)
  /\ ask' = [ask EXCEPT ![s] = [pc |-> "done", saw |-> NewWallet]]
  /\ UNCHANGED <<booked, decide, fare>>

(* Refused, for what it asks or for the open one whose row it could read.  *)
AskRefuse(s) ==
  /\ ask[s].pc = "held"
  /\ \A r \in FindOpen : RowHolders(r) = {}
  /\ ask' = [ask EXCEPT ![s] = [pc |-> "done", saw |-> NewWallet]]
  /\ UNCHANGED <<data, decide, fare>>

AskRollback(s) ==
  /\ ask[s].pc = "held"
  /\ ask' = [ask EXCEPT ![s] = [pc |-> "done", saw |-> NewWallet]]
  /\ UNCHANGED <<data, decide, fare>>

(***************************************************************************)
(* DecideSettlement.                                                       *)
(***************************************************************************)

(* The row is locked, then the move is checked; an undeclared one is       *)
(* refused and leaves nothing behind.                                      *)
DecideLock(d, s, to) ==
  /\ decide[d].pc = "idle"
  /\ RowHolders(s) = {}
  /\ Can(SETTLEMENT_LIFECYCLE, settlement[s].status, to)
  /\ decide' = [decide EXCEPT ![d] = [pc |-> "held", on |-> s, to |-> to]]
  /\ UNCHANGED <<data, ask, fare>>

(* The wallet, the money and the status.                                   *)
DecideCommit(d) ==
  LET s    == decide[d].on
      pays == settlement[s].pays
      to   == decide[d].to
  IN
  /\ decide[d].pc = "held"
  /\ WalletHolders = {}
  /\ wallet' = CASE to = "PAID"     -> SettledFor(wallet, pays)
                 [] to = "REJECTED" -> Freed(wallet, pays)
                 [] OTHER           -> wallet
  /\ ledger' = IF to = "REJECTED" THEN Entered(pays, wallet'.available) ELSE ledger
  /\ settlement' = [settlement EXCEPT ![s].status = to]
  /\ decide' = [decide EXCEPT ![d] = IdleDecider]
  /\ UNCHANGED <<booked, ask, fare>>

DecideRollback(d) ==
  /\ decide[d].pc = "held"
  /\ decide' = [decide EXCEPT ![d] = IdleDecider]
  /\ UNCHANGED <<data, ask, fare>>

(***************************************************************************)
(* AdvanceTrip._settle, for one completed booking.                         *)
(***************************************************************************)

FareLock(f) ==
  /\ fare[f].pc = "idle"
  /\ f \notin booked
  /\ WalletHolders = {}
  /\ fare' = [fare EXCEPT ![f] = [pc |-> "held", saw |-> wallet]]
  /\ UNCHANGED <<data, ask, decide>>

FareCommit(f) ==
  LET after == fare[f].saw.available + FareEffect[f] IN
  /\ fare[f].pc = "held"
  /\ wallet' = [fare[f].saw EXCEPT !.available = after]
  /\ ledger' = Entered(FareEffect[f], after)
  /\ booked' = booked \cup {f}
  /\ fare' = [fare EXCEPT ![f] = IdleWriter]
  /\ UNCHANGED <<settlement, ask, decide>>

FareRollback(f) ==
  /\ fare[f].pc = "held"
  /\ fare' = [fare EXCEPT ![f] = IdleWriter]
  /\ UNCHANGED <<data, ask, decide>>

(***************************************************************************)
(* The specification.                                                      *)
(***************************************************************************)

Init ==
  /\ wallet = NewWallet
  /\ ledger = << >>
  /\ settlement = [s \in Settlements |-> NotCreated]
  /\ booked = {}
  /\ ask = [s \in Settlements |-> IdleWriter]
  /\ decide = [d \in Deciders |-> IdleDecider]
  /\ fare = [f \in Fares |-> IdleWriter]

Ask(s) == \/ AskLock(s) \/ AskRefuse(s) \/ AskRollback(s)
          \/ \E pays \in Amounts : AskCommit(s, pays)
Decide(d) == \/ \E s \in Settlements, to \in SettlementStatus : DecideLock(d, s, to)
             \/ DecideCommit(d) \/ DecideRollback(d)
BookFare(f) == FareLock(f) \/ FareCommit(f) \/ FareRollback(f)

Next == \/ \E s \in Settlements : Ask(s)
        \/ \E d \in Deciders : Decide(d)
        \/ \E f \in Fares : BookFare(f)

Spec == Init /\ [][Next]_vars

(* A transaction that holds a lock goes on; one that waits gets the lock   *)
(* when it is free again and again; of a cycle of waiters PostgreSQL       *)
(* aborts one.  Nothing makes a request arrive.                            *)
AskWaits    == {s \in Settlements : ask[s].pc = "held"}
                 \X UNION {RowHolders(r) : r \in FindOpen}
DecideWaits == {d \in Deciders : decide[d].pc = "held"} \X WalletHolders
WaitsFor    == AskWaits \cup DecideWaits
Ahead(p)    == UNION {ReachableFrom(WaitsFor, q) : q \in Successors(WaitsFor, {p})}

DeadlockAbort == \/ \E s \in Settlements : s \in Ahead(s) /\ AskRollback(s)
                 \/ \E d \in Deciders : d \in Ahead(d) /\ DecideRollback(d)

Fairness ==
  /\ \A s \in Settlements :
       SF_vars(AskRefuse(s) \/ \E pays \in Amounts : AskCommit(s, pays))
  /\ \A d \in Deciders : SF_vars(DecideCommit(d))
  /\ \A f \in Fares : WF_vars(FareCommit(f))
  /\ WF_vars(DeadlockAbort)

FairSpec == Spec /\ Fairness

(***************************************************************************)
(* Properties.                                                             *)
(***************************************************************************)

Deal       == [status : SettlementStatus \cup {"none"}, pays : Int]
WriterTx   == [pc : {"idle", "held", "done"}, saw : Wallet]
DeciderTx  == {IdleDecider}
                \cup [pc : {"held"}, on : Settlements, to : SettlementStatus]

(* Every variable holds a value of the shape its column or transaction has. *)
TypeOK ==
  /\ wallet \in Wallet
  /\ ledger \in Seq([amount : Int, after : Int])
  /\ settlement \in [Settlements -> Deal]
  /\ booked \subseteq Fares
  /\ ask \in [Settlements -> WriterTx]
  /\ decide \in [Deciders -> DeciderTx]
  /\ fare \in [Fares -> WriterTx]

(* Settlement.is_open: those "still consuming the pending balance".        *)
OpenOnes == {s \in Settlements : ~IsTerminal(SETTLEMENT_LIFECYCLE, settlement[s].status)
                                  /\ settlement[s].status # "none"}

(* Two taps on a slow connection never hold the money twice: a driver has  *)
(* at most one settlement open (find_open_for_driver).                     *)
OneOpenSettlement == \A r, s \in OpenOnes : r = s

(* The pending bucket is exactly what the open settlement holds, and empty *)
(* when none is: no hold is drained twice, kept, or given back twice.      *)
PendingIsTheOpenOne ==
  IF OpenOnes = {} THEN wallet.pending = 0
  ELSE \A s \in OpenOnes : wallet.pending = settlement[s].pays

(* "An entry always states the balance it produced": each entry's balance  *)
(* is its predecessor's plus its amount, and the last is the wallet's.  No *)
(* writer's update is lost to another who had read the wallet before.      *)
Before(i) == IF i = 1 THEN 0 ELSE ledger[i - 1].after
LedgerReconciles ==
  /\ \A i \in 1..Len(ledger) : ledger[i].after = Before(i) + ledger[i].amount
  /\ wallet.available = Before(Len(ledger) + 1)

(* Opening a settlement never takes the balance through zero: a payout     *)
(* leaves no debt behind, a collection no "credit nobody intended".        *)
HoldStaysOnItsSide ==
  [][\A s \in Settlements :
       settlement[s].status = "none" /\ settlement'[s].status = "PENDING" =>
         \/ wallet.available > 0 /\ wallet'.available >= 0
         \/ wallet.available < 0 /\ wallet'.available <= 0]_vars

(* "A settlement can never be paid twice and a rejected one can never      *)
(* quietly become paid": it moves by declared hops, its amount is fixed.   *)
SettlementKeepsLifecycle ==
  [][\A s \in Settlements : settlement[s].status # "none" =>
       /\ settlement'[s].pays = settlement[s].pays
       /\ \/ settlement'[s] = settlement[s]
          \/ Can(SETTLEMENT_LIFECYCLE, settlement[s].status, settlement'[s].status)]_vars

(* Every request that holds a lock comes to an end, deadlocks included.    *)
EveryRequestEnds ==
  /\ \A s \in Settlements : ask[s].pc = "held" ~> ask[s].pc = "done"
  /\ \A d \in Deciders : decide[d].pc = "held" ~> decide[d].pc = "idle"
  /\ \A f \in Fares : fare[f].pc = "held" ~> fare[f].pc = "idle"

(* Money only moves between the buckets, never into or out of nowhere, and *)
(* lifetime_paid is what has changed hands in either direction: the wallet *)
(* as a whole is an Account.                                               *)
Phase(s) == CASE settlement[s].status = "none"     -> "none"
              [] settlement[s].status = "PAID"     -> "paid"
              [] settlement[s].status = "REJECTED" -> "dropped"
              [] OTHER                             -> "open"
Dealt    == [s \in Settlements |-> [phase |-> Phase(s), pays |-> settlement[s].pays]]
Books    == INSTANCE Account WITH balance <- wallet.available + wallet.pending,
                                  earned <- booked,
                                  handed <- wallet.paid, deal <- Dealt
ImplementsAccount == Books!Spec

(***************************************************************************)
(* The inductive invariant.                                                *)
(***************************************************************************)

(* The wallet row has one holder, and stays as its holder read it.         *)
WalletHeldByOne ==
  /\ \A s \in Settlements : ask[s].pc = "held" =>
       /\ ask[s].saw = wallet
       /\ settlement[s] = NotCreated
       /\ \A r \in Settlements : ask[r].pc = "held" => r = s
       /\ \A f \in Fares : fare[f].pc # "held"
  /\ \A f \in Fares : fare[f].pc = "held" =>
       /\ fare[f].saw = wallet
       /\ f \notin booked
       /\ \A g \in Fares : fare[g].pc = "held" => g = f

(* A settlement is created by its own request, and not before it is done.  *)
CreatedWhenDone ==
  \A s \in Settlements :
    /\ ask[s].pc # "done" => settlement[s] = NotCreated
    /\ settlement[s].status = "none" => settlement[s] = NotCreated

(* A decision is about a settlement that stays as it was when decided on.  *)
DecisionIsCurrent ==
  \A d \in Deciders : decide[d].pc = "held" =>
    /\ Can(SETTLEMENT_LIFECYCLE, settlement[decide[d].on].status, decide[d].to)
    /\ \A e \in RowHolders(decide[d].on) : e = d

MoneyInv == /\ WalletHeldByOne /\ CreatedWhenDone /\ DecisionIsCurrent
            /\ OneOpenSettlement /\ PendingIsTheOpenOne /\ LedgerReconciles

(* Everything the proofs carry from step to step.                          *)
IndInv == TypeOK /\ MoneyInv
=============================================================================
