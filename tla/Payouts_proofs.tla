--------------------------- MODULE Payouts_proofs ---------------------------
(***************************************************************************)
(* Theorems about Payouts, for any number of settlements, operators and    *)
(* fares, any amounts and any minimum.                                     *)
(***************************************************************************)
EXTENDS Payouts, TLAPS

(* Where a declared move of a settlement starts and ends.                  *)
LEMMA SettlementHops ==
  ASSUME NEW s, NEW t, Can(SETTLEMENT_LIFECYCLE, s, t)
  PROVE  /\ s \in {"PENDING", "PROCESSING"}
         /\ t \in {"PROCESSING", "PAID", "REJECTED"}
         /\ s = "PROCESSING" => t # "PROCESSING"
BY DEF Can, SETTLEMENT_LIFECYCLE, From

(* The statuses of a settlement in flight are those that are not finished. *)
LEMMA InFlight ==
  ASSUME NEW st \in SettlementStatus \cup {"none"}
  PROVE  ~IsTerminal(SETTLEMENT_LIFECYCLE, st) /\ st # "none"
           <=> st \in {"PENDING", "PROCESSING"}
<1>1. /\ <<"PENDING", "PROCESSING">> \in SETTLEMENT_LIFECYCLE
      /\ <<"PROCESSING", "PAID">> \in SETTLEMENT_LIFECYCLE
  BY DEF SETTLEMENT_LIFECYCLE, From
<1>2. \A hop \in SETTLEMENT_LIFECYCLE : hop[1] \in {"PENDING", "PROCESSING"}
  BY DEF SETTLEMENT_LIFECYCLE, From
<1>3. QED BY <1>1, <1>2 DEF IsTerminal, SettlementStatus

(* So the settlements that count as open are those a request would find.   *)
LEMMA OpenIsInFlight ==
  /\ settlement \in [Settlements -> Deal] => OpenOnes = FindOpen
  /\ settlement' \in [Settlements -> Deal] => OpenOnes' = FindOpen'
BY InFlight DEF OpenOnes, FindOpen, Deal

(***************************************************************************)
(* Type correctness.                                                       *)
(***************************************************************************)

(* What the wallet's writers make of a wallet is a wallet.                 *)
LEMMA WritersTyped ==
  ASSUME NEW w \in Wallet, NEW pays \in Int
  PROVE  /\ Held(w, pays) \in Wallet
         /\ Freed(w, pays) \in Wallet
         /\ SettledFor(w, pays) \in Wallet
BY DEF Wallet, Held, Freed, SettledFor

(* The initial state is well typed.                                        *)
LEMMA InitTypeOK == Init => TypeOK
<1> SUFFICES ASSUME Init PROVE TypeOK OBVIOUS
<1>1. NewWallet \in Wallet BY DEF NewWallet, Wallet
<1>2. ledger \in Seq([amount : Int, after : Int]) BY DEF Init
<1>3. settlement \in [Settlements -> Deal] BY DEF Init, NotCreated, Deal
<1>4. ask \in [Settlements -> WriterTx] /\ fare \in [Fares -> WriterTx]
  BY <1>1 DEF Init, IdleWriter, WriterTx
<1>5. QED BY <1>1, <1>2, <1>3, <1>4 DEF Init, TypeOK, DeciderTx

(* Every step writes values of the right shape.                            *)
LEMMA NextTypeOK == TypeOK /\ [Next]_vars => TypeOK'
<1> SUFFICES ASSUME TypeOK, [Next]_vars PROVE TypeOK' OBVIOUS
<1> USE DEF TypeOK
<1>1. NewWallet \in Wallet BY DEF NewWallet, Wallet
<1>2. ASSUME NEW s \in Settlements, Ask(s) PROVE TypeOK'
  <2>1. CASE AskLock(s)
    BY <2>1 DEF AskLock, data, WriterTx
  <2>2. CASE AskRefuse(s) \/ AskRollback(s)
    BY <2>2, <1>1 DEF AskRefuse, AskRollback, data, WriterTx
  <2>3. ASSUME NEW pays \in Amounts, AskCommit(s, pays) PROVE TypeOK'
    <3>1. pays \in Int BY AmountsAssumption
    <3>2. ask[s].saw \in Wallet BY DEF WriterTx
    <3>3. wallet' \in Wallet
      BY <2>3, <3>1, <3>2, WritersTyped DEF AskCommit
    <3>4. ledger' \in Seq([amount : Int, after : Int])
      BY <2>3, <3>1, <3>3 DEF AskCommit, Entered, Wallet
    <3>5. settlement' \in [Settlements -> Deal]
      BY <2>3, <3>1 DEF AskCommit, Deal, SettlementStatus
    <3>6. ask' \in [Settlements -> WriterTx]
      BY <2>3, <1>1 DEF AskCommit, WriterTx
    <3>7. QED BY <2>3, <3>3, <3>4, <3>5, <3>6 DEF AskCommit
  <2>4. QED BY <1>2, <2>1, <2>2, <2>3 DEF Ask
<1>3. ASSUME NEW d \in Deciders, Decide(d) PROVE TypeOK'
  <2>1. ASSUME NEW s \in Settlements, NEW to \in SettlementStatus, DecideLock(d, s, to)
        PROVE  TypeOK'
    BY <2>1 DEF DecideLock, data, DeciderTx
  <2>2. CASE DecideCommit(d)
    <3> DEFINE s == decide[d].on
               to == decide[d].to
    <3>1. decide[d] \in [pc : {"held"}, on : Settlements, to : SettlementStatus]
      BY <2>2 DEF DecideCommit, DeciderTx, IdleDecider
    <3>2. settlement[s].pays \in Int
      BY <3>1 DEF Deal
    <3>3. wallet' \in Wallet
      BY <2>2, <3>2, WritersTyped DEF DecideCommit
    <3>4. ledger' \in Seq([amount : Int, after : Int])
      <4>1. wallet'.available \in Int
        BY <3>3 DEF Wallet
      <4>2. ledger' = ledger \/ ledger' = Entered(settlement[s].pays, wallet'.available)
        BY <2>2 DEF DecideCommit
      <4>3. [amount |-> settlement[s].pays, after |-> wallet'.available]
              \in [amount : Int, after : Int]
        BY <3>2, <4>1
      <4>4. Entered(settlement[s].pays, wallet'.available)
              \in Seq([amount : Int, after : Int])
        BY <4>3 DEF Entered
      <4>5. QED BY <4>2, <4>4
    <3>5. settlement' \in [Settlements -> Deal]
      BY <2>2, <3>1 DEF DecideCommit, Deal
    <3>6. QED BY <2>2, <3>3, <3>4, <3>5 DEF DecideCommit, DeciderTx
  <2>3. CASE DecideRollback(d)
    BY <2>3 DEF DecideRollback, data, DeciderTx
  <2>4. QED BY <1>3, <2>1, <2>2, <2>3 DEF Decide
<1>4. ASSUME NEW f \in Fares, BookFare(f) PROVE TypeOK'
  <2>1. CASE FareLock(f)
    BY <2>1 DEF FareLock, data, WriterTx
  <2>2. CASE FareCommit(f)
    <3>1. FareEffect[f] \in Int BY FaresAssumption
    <3>2. fare[f].saw \in Wallet BY DEF WriterTx
    <3>3. wallet' \in Wallet
      BY <2>2, <3>1, <3>2 DEF FareCommit, Wallet
    <3>4. ledger' \in Seq([amount : Int, after : Int])
      BY <2>2, <3>1, <3>2 DEF FareCommit, Entered, Wallet
    <3>5. fare' \in [Fares -> WriterTx]
      BY <2>2, <1>1 DEF FareCommit, IdleWriter, WriterTx
    <3>6. QED BY <2>2, <3>3, <3>4, <3>5 DEF FareCommit
  <2>3. CASE FareRollback(f)
    BY <2>3, <1>1 DEF FareRollback, data, IdleWriter, WriterTx
  <2>4. QED BY <1>4, <2>1, <2>2, <2>3 DEF BookFare
<1>5. CASE UNCHANGED vars
  BY <1>5 DEF vars, data
<1>6. QED BY <1>2, <1>3, <1>4, <1>5 DEF Next

(* The wallet, its ledger and the settlements always hold values of the    *)
(* shape their columns have.                                               *)
THEOREM TypeCorrect == Spec => []TypeOK
BY InitTypeOK, NextTypeOK, PTL DEF Spec

(***************************************************************************)
(* The locks and the money.                                                *)
(***************************************************************************)

(* An entry that states the balance it produced keeps the ledger in step   *)
(* with the wallet.                                                        *)
LEMMA EntryReconciles ==
  ASSUME TypeOK, LedgerReconciles, NEW amount \in Int,
         ledger' = Entered(amount, wallet.available + amount),
         wallet'.available = wallet.available + amount
  PROVE  LedgerReconciles'
<1>1. /\ ledger \in Seq([amount : Int, after : Int])
      /\ Len(ledger) \in Nat /\ wallet.available \in Int
  BY DEF TypeOK, Wallet
<1> PICK n \in Nat : n = Len(ledger)
  BY <1>1
<1> PICK e : e = [amount |-> amount, after |-> wallet.available + amount]
  OBVIOUS
<1>2. /\ ledger' = Append(ledger, e) /\ Len(ledger') = n + 1
      /\ ledger'[n + 1] = e /\ \A i \in 1..n : ledger'[i] = ledger[i]
  BY <1>1 DEF Entered
<1>3. wallet.available = (IF n + 1 = 1 THEN 0 ELSE ledger[n].after)
  BY DEF LedgerReconciles, Before
<1>4. \A i \in 1..n : ledger[i].after = Before(i) + ledger[i].amount
  BY DEF LedgerReconciles
<1>5. ASSUME NEW i \in 1..(n + 1)
      PROVE  ledger'[i].after = Before(i)' + ledger'[i].amount
  <2>1. CASE i \in 1..n
    <3>1. ledger'[i] = ledger[i] /\ (i # 1 => ledger'[i - 1] = ledger[i - 1])
      BY <1>2, <2>1
    <3>2. Before(i)' = Before(i)
      BY <3>1 DEF Before
    <3>3. QED BY <1>4, <2>1, <3>1, <3>2
  <2>2. CASE i = n + 1
    BY <1>1, <1>2, <1>3, <2>2 DEF Before
  <2>3. QED BY <2>1, <2>2
<1>6. wallet'.available = (IF n + 2 = 1 THEN 0 ELSE ledger'[n + 1].after)
  BY <1>1, <1>2
<1>7. QED BY <1>2, <1>5, <1>6 DEF LedgerReconciles, Before

(* At first nothing is locked, nothing is open and nothing is owed.        *)
LEMMA InitMoneyInv == Init => MoneyInv
<1> SUFFICES ASSUME Init PROVE MoneyInv OBVIOUS
<1>1. WalletHeldByOne /\ CreatedWhenDone /\ DecisionIsCurrent
  BY DEF Init, IdleWriter, IdleDecider, WalletHeldByOne, CreatedWhenDone,
         DecisionIsCurrent
<1>2. settlement \in [Settlements -> Deal] /\ \A s \in Settlements : settlement[s].status = "none"
  BY InitTypeOK DEF Init, TypeOK, NotCreated
<1>3. OpenOnes = {}
  BY <1>2 DEF OpenOnes
<1>4. OneOpenSettlement /\ PendingIsTheOpenOne
  BY <1>3 DEF Init, NewWallet, OneOpenSettlement, PendingIsTheOpenOne
<1>5. LedgerReconciles
  BY DEF Init, NewWallet, LedgerReconciles, Before
<1>6. QED BY <1>1, <1>4, <1>5 DEF MoneyInv

(* What the money rests on, and does not change while it does not.         *)
LEMMA MoneyStands ==
  ASSUME MoneyInv, UNCHANGED data
  PROVE  (OneOpenSettlement /\ PendingIsTheOpenOne /\ LedgerReconciles)'
BY DEF MoneyInv, data, OneOpenSettlement, PendingIsTheOpenOne, LedgerReconciles,
       Before, OpenOnes

(* A request opens a settlement only while it has the wallet and sees none *)
(* open, and nobody else has read the wallet.                              *)
LEMMA AskMoneyInv ==
  ASSUME TypeOK, MoneyInv, NEW s \in Settlements, Ask(s)
  PROVE  MoneyInv'
<1> USE DEF MoneyInv
<1>1. CASE AskLock(s)
  <2>1. WalletHeldByOne'
    BY <1>1 DEF AskLock, WalletHeldByOne, WalletHolders, CreatedWhenDone, TypeOK, data
  <2>2. CreatedWhenDone' /\ DecisionIsCurrent'
    BY <1>1 DEF AskLock, CreatedWhenDone, DecisionIsCurrent, RowHolders, TypeOK, data
  <2>3. QED BY <1>1, <2>1, <2>2, MoneyStands DEF AskLock
<1>2. CASE AskRefuse(s) \/ AskRollback(s)
  <2>1. WalletHeldByOne'
    <3>1. /\ ask'[s].pc = "done" /\ \A r \in Settlements \ {s} : ask'[r] = ask[r]
          /\ UNCHANGED <<wallet, settlement, booked, fare>>
      BY <1>2 DEF AskRefuse, AskRollback, TypeOK, data
    <3>2. QED BY <3>1 DEF WalletHeldByOne
  <2>2. CreatedWhenDone' /\ DecisionIsCurrent'
    BY <1>2 DEF AskRefuse, AskRollback, CreatedWhenDone, DecisionIsCurrent,
                RowHolders, TypeOK, data
  <2>3. QED BY <1>2, <2>1, <2>2, MoneyStands DEF AskRefuse, AskRollback
<1>3. ASSUME NEW pays \in Amounts, AskCommit(s, pays) PROVE MoneyInv'
  <2>1. /\ ask[s].saw = wallet /\ settlement[s] = NotCreated /\ pays \in Int
        /\ wallet.available \in Int /\ wallet.pending \in Int
    BY <1>3, AmountsAssumption DEF AskCommit, WalletHeldByOne, TypeOK, Wallet
  <2>2. settlement' = [settlement EXCEPT ![s] = [status |-> "PENDING", pays |-> pays]]
    BY <1>3 DEF AskCommit
  <2>3. settlement \in [Settlements -> Deal] /\ settlement' \in [Settlements -> Deal]
    BY <2>1, <2>2 DEF TypeOK, Deal, SettlementStatus
  <2>4. OpenOnes' = {s}
    <3>1. FindOpen = {} /\ FindOpen' = {s}
      BY <1>3, <2>2, <2>3 DEF AskCommit, FindOpen
    <3>2. OpenOnes' = FindOpen'
      BY <2>3, OpenIsInFlight
    <3>3. QED BY <3>1, <3>2
  <2>5. OpenOnes = {}
    BY <1>3, <2>3, OpenIsInFlight DEF AskCommit
  <2>6. WalletHeldByOne'
    BY <1>3, <2>2 DEF AskCommit, WalletHeldByOne, TypeOK
  <2>7. CreatedWhenDone'
    BY <1>3, <2>2 DEF AskCommit, CreatedWhenDone, TypeOK, NotCreated
  <2>8. DecisionIsCurrent'
    <3>1. \A d \in Deciders : decide[d].pc = "held" =>
            /\ decide[d].on \in Settlements /\ decide[d].on # s
      <4>1. \A d \in Deciders : decide[d].pc = "held" => decide[d].on \in Settlements
        BY DEF TypeOK, DeciderTx, IdleDecider
      <4>2. \A to : ~Can(SETTLEMENT_LIFECYCLE, settlement[s].status, to)
        BY <2>1, SettlementHops DEF NotCreated
      <4>3. QED BY <4>1, <4>2 DEF DecisionIsCurrent
    <3>2. QED BY <1>3, <2>2, <3>1 DEF AskCommit, DecisionIsCurrent, RowHolders, TypeOK
  <2>9. OneOpenSettlement' /\ PendingIsTheOpenOne'
    BY <1>3, <2>1, <2>2, <2>4, <2>5
       DEF AskCommit, Held, OneOpenSettlement, PendingIsTheOpenOne, TypeOK
  <2>10. LedgerReconciles'
    <3>1. wallet'.available = wallet.available + (-pays)
      BY <1>3, <2>1 DEF AskCommit, Held
    <3>2. ledger' = Entered(-pays, wallet.available + (-pays))
      BY <1>3, <2>1 DEF AskCommit, Held
    <3>3. QED BY <2>1, <3>1, <3>2, EntryReconciles
  <2>11. QED BY <2>6, <2>7, <2>8, <2>9, <2>10
<1>4. QED BY <1>1, <1>2, <1>3 DEF Ask

(* A decision moves the money of a settlement that nobody else decides     *)
(* about, on a wallet that nobody else has read.                           *)
LEMMA DecideMoneyInv ==
  ASSUME TypeOK, MoneyInv, NEW d \in Deciders, Decide(d)
  PROVE  MoneyInv'
<1> USE DEF MoneyInv
<1>1. ASSUME NEW s \in Settlements, NEW to \in SettlementStatus, DecideLock(d, s, to)
      PROVE  MoneyInv'
  <2>1. WalletHeldByOne' /\ CreatedWhenDone'
    BY <1>1 DEF DecideLock, WalletHeldByOne, CreatedWhenDone, data
  <2>2. DecisionIsCurrent'
    BY <1>1 DEF DecideLock, DecisionIsCurrent, RowHolders, TypeOK, data
  <2>3. QED BY <1>1, <2>1, <2>2, MoneyStands DEF DecideLock
<1>2. CASE DecideRollback(d)
  <2>1. WalletHeldByOne' /\ CreatedWhenDone'
    BY <1>2 DEF DecideRollback, WalletHeldByOne, CreatedWhenDone, data
  <2>2. DecisionIsCurrent'
    BY <1>2 DEF DecideRollback, DecisionIsCurrent, RowHolders, IdleDecider, TypeOK, data
  <2>3. QED BY <1>2, <2>1, <2>2, MoneyStands DEF DecideRollback
<1>3. CASE DecideCommit(d)
  <2> PICK s \in Settlements, to \in SettlementStatus :
        /\ decide[d] = [pc |-> "held", on |-> s, to |-> to]
    BY <1>3 DEF DecideCommit, TypeOK, DeciderTx, IdleDecider
  <2> PICK pays \in Int : pays = settlement[s].pays
    BY DEF TypeOK, Deal
  <2>1. /\ settlement' = [settlement EXCEPT ![s].status = to]
        /\ settlement \in [Settlements -> Deal]
        /\ settlement' \in [Settlements -> Deal]
    BY <1>3 DEF DecideCommit, TypeOK, Deal
  <2>2. /\ settlement'[s].status = to /\ settlement'[s].pays = pays
        /\ \A r \in Settlements \ {s} : settlement'[r] = settlement[r]
    BY <2>1 DEF Deal
  <2>3. /\ settlement[s].status \in {"PENDING", "PROCESSING"}
        /\ to \in {"PROCESSING", "PAID", "REJECTED"}
    BY SettlementHops DEF DecisionIsCurrent
  <2>4. FindOpen = {s} /\ wallet.pending = pays
    BY <2>1, <2>3, OpenIsInFlight
       DEF FindOpen, OneOpenSettlement, PendingIsTheOpenOne
  <2>5. WalletHeldByOne'
    BY <1>3 DEF DecideCommit, WalletHeldByOne, WalletHolders
  <2>6. CreatedWhenDone'
    <3>1. ask[s].pc = "done"
      BY <2>3 DEF CreatedWhenDone, NotCreated
    <3>2. ask' = ask
      BY <1>3 DEF DecideCommit
    <3>3. QED BY <2>2, <2>3, <3>1, <3>2 DEF CreatedWhenDone
  <2>7. DecisionIsCurrent'
    <3>1. \A e \in Deciders \ {d} : decide[e].pc = "held" => decide[e].on # s
      BY DEF DecisionIsCurrent, RowHolders
    <3>2. \A e \in Deciders : decide[e].pc = "held" => decide[e].on \in Settlements
      BY DEF TypeOK, DeciderTx, IdleDecider
    <3>3. /\ decide'[d].pc = "idle"
          /\ \A e \in Deciders \ {d} : decide'[e] = decide[e]
      BY <1>3 DEF DecideCommit, TypeOK, IdleDecider
    <3>4. QED BY <2>2, <3>1, <3>2, <3>3 DEF DecisionIsCurrent, RowHolders
  <2>8. /\ wallet.available \in Int /\ wallet.pending \in Int
        /\ wallet' = CASE to = "PAID"     -> SettledFor(wallet, pays)
                       [] to = "REJECTED" -> Freed(wallet, pays)
                       [] OTHER           -> wallet
        /\ ledger' = IF to = "REJECTED" THEN Entered(pays, wallet'.available) ELSE ledger
    BY <1>3 DEF DecideCommit, TypeOK, Wallet
  <2>9. OpenOnes' = FindOpen'
    BY <2>1, OpenIsInFlight
  <2>10. CASE to = "PROCESSING"
    <3>1. OpenOnes' = {s} /\ wallet' = wallet /\ ledger' = ledger
      BY <2>2, <2>3, <2>4, <2>8, <2>9, <2>10 DEF FindOpen
    <3>2. OneOpenSettlement' /\ PendingIsTheOpenOne'
      BY <2>2, <2>4, <3>1 DEF OneOpenSettlement, PendingIsTheOpenOne
    <3>3. LedgerReconciles'
      BY <3>1 DEF LedgerReconciles, Before
    <3>4. QED BY <2>5, <2>6, <2>7, <3>2, <3>3
  <2>11. CASE to \in {"PAID", "REJECTED"}
    <3>1. OpenOnes' = {}
      BY <2>2, <2>4, <2>9, <2>11 DEF FindOpen
    <3>2. wallet'.pending = 0
      BY <2>4, <2>8, <2>11 DEF SettledFor, Freed
    <3>3. OneOpenSettlement' /\ PendingIsTheOpenOne'
      BY <3>1, <3>2 DEF OneOpenSettlement, PendingIsTheOpenOne
    <3>4. LedgerReconciles'
      <4>1. CASE to = "PAID"
        BY <2>8, <4>1 DEF SettledFor, LedgerReconciles, Before
      <4>2. CASE to = "REJECTED"
        BY <2>8, <4>2, EntryReconciles DEF Freed
      <4>3. QED BY <2>11, <4>1, <4>2
    <3>5. QED BY <2>5, <2>6, <2>7, <3>3, <3>4
  <2>12. QED BY <2>3, <2>10, <2>11
<1>4. QED BY <1>1, <1>2, <1>3 DEF Decide

(* A completed fare is booked on a wallet that nobody else has read.       *)
LEMMA FareMoneyInv ==
  ASSUME TypeOK, MoneyInv, NEW f \in Fares, BookFare(f)
  PROVE  MoneyInv'
<1> USE DEF MoneyInv
<1>1. CASE FareLock(f)
  <2>1. WalletHeldByOne'
    BY <1>1 DEF FareLock, WalletHeldByOne, WalletHolders, TypeOK, data
  <2>2. CreatedWhenDone' /\ DecisionIsCurrent'
    BY <1>1 DEF FareLock, CreatedWhenDone, DecisionIsCurrent, RowHolders, data
  <2>3. QED BY <1>1, <2>1, <2>2, MoneyStands DEF FareLock
<1>2. CASE FareRollback(f)
  <2>1. WalletHeldByOne'
    BY <1>2 DEF FareRollback, WalletHeldByOne, IdleWriter, TypeOK, data
  <2>2. CreatedWhenDone' /\ DecisionIsCurrent'
    BY <1>2 DEF FareRollback, CreatedWhenDone, DecisionIsCurrent, RowHolders, data
  <2>3. QED BY <1>2, <2>1, <2>2, MoneyStands DEF FareRollback
<1>3. CASE FareCommit(f)
  <2>1. /\ fare[f].saw = wallet /\ FareEffect[f] \in Int
        /\ wallet \in Wallet /\ wallet.available \in Int
    BY <1>3, FaresAssumption DEF FareCommit, WalletHeldByOne, TypeOK, Wallet
  <2>2. /\ wallet'.available = wallet.available + FareEffect[f]
        /\ wallet'.pending = wallet.pending
        /\ ledger' = Entered(FareEffect[f], wallet.available + FareEffect[f])
        /\ UNCHANGED <<settlement, ask, decide>>
    BY <1>3, <2>1 DEF FareCommit, Wallet
  <2>3. WalletHeldByOne'
    <3>1. /\ \A s \in Settlements : ask[s].pc # "held"
          /\ \A g \in Fares \ {f} : fare[g].pc # "held"
      BY <1>3 DEF FareCommit, WalletHeldByOne
    <3>2. /\ fare'[f].pc = "idle" /\ \A g \in Fares \ {f} : fare'[g] = fare[g]
      BY <1>3 DEF FareCommit, IdleWriter, TypeOK
    <3>3. QED BY <2>2, <3>1, <3>2 DEF WalletHeldByOne
  <2>4. CreatedWhenDone' /\ DecisionIsCurrent'
    BY <2>2 DEF CreatedWhenDone, DecisionIsCurrent, RowHolders
  <2>5. OneOpenSettlement' /\ PendingIsTheOpenOne'
    BY <2>2 DEF OneOpenSettlement, PendingIsTheOpenOne, OpenOnes
  <2>6. LedgerReconciles'
    BY <2>1, <2>2, EntryReconciles
  <2>7. QED BY <2>3, <2>4, <2>5, <2>6
<1>4. QED BY <1>1, <1>2, <1>3 DEF BookFare

(* Every step keeps the locking and the money in order.                    *)
LEMMA NextMoneyInv == TypeOK /\ MoneyInv /\ [Next]_vars => MoneyInv'
<1> SUFFICES ASSUME TypeOK, MoneyInv, [Next]_vars PROVE MoneyInv' OBVIOUS
<1>1. CASE UNCHANGED vars
  <2>1. (WalletHeldByOne /\ CreatedWhenDone /\ DecisionIsCurrent)'
    BY <1>1 DEF MoneyInv, vars, data, WalletHeldByOne, CreatedWhenDone,
                DecisionIsCurrent, RowHolders
  <2>2. QED BY <1>1, <2>1, MoneyStands DEF MoneyInv, vars
<1>2. QED BY <1>1, AskMoneyInv, DecideMoneyInv, FareMoneyInv DEF Next

(* The locks do what they are for: the wallet stays as its holder read it, *)
(* a settlement as it was when it was decided upon.                        *)
THEOREM MoneyHolds == Spec => []IndInv
<1>1. Spec => [](TypeOK /\ MoneyInv)
  BY InitTypeOK, InitMoneyInv, NextTypeOK, NextMoneyInv, PTL DEF Spec
<1>2. IndInv <=> TypeOK /\ MoneyInv BY DEF IndInv
<1>3. QED BY <1>1, <1>2, PTL

(* However many taps and operators there are, a driver never has two       *)
(* settlements open.                                                       *)
THEOREM NeverTwoOpen == Spec => []OneOpenSettlement
<1>1. MoneyInv => OneOpenSettlement BY DEF MoneyInv
<1>2. QED BY <1>1, MoneyHolds, PTL DEF IndInv

(* The pending bucket holds the open settlement's money and nothing else.  *)
THEOREM PendingIsExact == Spec => []PendingIsTheOpenOne
<1>1. MoneyInv => PendingIsTheOpenOne BY DEF MoneyInv
<1>2. QED BY <1>1, MoneyHolds, PTL DEF IndInv

(* The wallet's balance is the one its ledger states, entry by entry.      *)
THEOREM LedgerAlwaysReconciles == Spec => []LedgerReconciles
<1>1. MoneyInv => LedgerReconciles BY DEF MoneyInv
<1>2. QED BY <1>1, MoneyHolds, PTL DEF IndInv

(***************************************************************************)
(* What a step does to the settlements.                                    *)
(***************************************************************************)

(* Only a commit changes a settlement: it is opened by its request, under  *)
(* the rules for opening one, or moved by a declared hop.                  *)
LEMMA SettlementSteps ==
  ASSUME TypeOK, MoneyInv, [Next]_vars, NEW s \in Settlements
  PROVE  \/ settlement'[s] = settlement[s]
         \/ \E pays \in Amounts : AskCommit(s, pays) /\ settlement[s].status = "none"
         \/ \E d \in Deciders :
              /\ DecideCommit(d) /\ decide[d].on = s
              /\ settlement'[s] = [settlement[s] EXCEPT !.status = decide[d].to]
              /\ Can(SETTLEMENT_LIFECYCLE, settlement[s].status, decide[d].to)
<1>1. ASSUME NEW r \in Settlements, NEW pays \in Amounts, AskCommit(r, pays),
             settlement'[s] # settlement[s]
      PROVE  s = r /\ settlement[s].status = "none"
  BY <1>1 DEF AskCommit, MoneyInv, WalletHeldByOne, NotCreated, TypeOK
<1>2. ASSUME NEW d \in Deciders, DecideCommit(d), settlement'[s] # settlement[s]
      PROVE  /\ decide[d].on = s
             /\ settlement'[s] = [settlement[s] EXCEPT !.status = decide[d].to]
             /\ Can(SETTLEMENT_LIFECYCLE, settlement[s].status, decide[d].to)
  BY <1>2 DEF DecideCommit, MoneyInv, DecisionIsCurrent, TypeOK
<1>3. CASE \E r \in Settlements : \E pays \in Amounts : AskCommit(r, pays)
  BY <1>1, <1>3
<1>4. CASE \E d \in Deciders : DecideCommit(d)
  BY <1>2, <1>4
<1>5. CASE /\ \A r \in Settlements : \A pays \in Amounts : ~AskCommit(r, pays)
           /\ \A d \in Deciders : ~DecideCommit(d)
  BY <1>5 DEF Next, Ask, AskLock, AskRefuse, AskRollback, Decide, DecideLock,
              DecideRollback, BookFare, FareLock, FareCommit, FareRollback, vars, data
<1>6. QED BY <1>3, <1>4, <1>5

(* A settlement moves by declared hops only and its amount is fixed, so it *)
(* is never paid twice, nor paid once rejected.                            *)
THEOREM SettlementsKeepLifecycle == Spec => SettlementKeepsLifecycle
<1> DEFINE Kept == \A s \in Settlements : settlement[s].status # "none" =>
       /\ settlement'[s].pays = settlement[s].pays
       /\ \/ settlement'[s] = settlement[s]
          \/ Can(SETTLEMENT_LIFECYCLE, settlement[s].status, settlement'[s].status)
<1>1. TypeOK /\ MoneyInv /\ [Next]_vars => Kept
  <2> SUFFICES ASSUME TypeOK, MoneyInv, [Next]_vars,
                      NEW s \in Settlements, settlement[s].status # "none"
               PROVE  /\ settlement'[s].pays = settlement[s].pays
                      /\ \/ settlement'[s] = settlement[s]
                         \/ Can(SETTLEMENT_LIFECYCLE, settlement[s].status,
                                settlement'[s].status)
    OBVIOUS
  <2>1. settlement[s] \in Deal BY DEF TypeOK
  <2>2. QED BY <2>1, SettlementSteps DEF Deal
<1>2. TypeOK /\ MoneyInv /\ [Next]_vars => [Kept]_vars
  BY <1>1
<1>3. QED BY <1>2, MoneyHolds, PTL DEF IndInv, Spec, SettlementKeepsLifecycle

(* A settlement opened on a credit leaves no debt, one opened on a debt    *)
(* leaves no credit.                                                       *)
THEOREM HoldsStayOnTheirSide == Spec => HoldStaysOnItsSide
<1> DEFINE Side == \A s \in Settlements :
       settlement[s].status = "none" /\ settlement'[s].status = "PENDING" =>
         \/ wallet.available > 0 /\ wallet'.available >= 0
         \/ wallet.available < 0 /\ wallet'.available <= 0
<1>1. TypeOK /\ MoneyInv /\ [Next]_vars => Side
  <2> SUFFICES ASSUME TypeOK, MoneyInv, [Next]_vars, NEW s \in Settlements,
                      settlement[s].status = "none", settlement'[s].status = "PENDING"
               PROVE  \/ wallet.available > 0 /\ wallet'.available >= 0
                      \/ wallet.available < 0 /\ wallet'.available <= 0
    OBVIOUS
  <2>1. PICK pays \in Amounts : AskCommit(s, pays)
    BY SettlementSteps, SettlementHops
  <2>2. ask[s].saw = wallet /\ pays \in Int /\ wallet.available \in Int
    BY <2>1, AmountsAssumption DEF AskCommit, MoneyInv, WalletHeldByOne, TypeOK, Wallet
  <2>3. wallet'.available = wallet.available - pays
    BY <2>1, <2>2 DEF AskCommit, Held
  <2>4. \/ pays > 0 /\ pays <= wallet.available
        \/ pays < 0 /\ pays >= wallet.available
    BY <2>1, <2>2 DEF AskCommit, MayPayOut, MayCollect
  <2>5. QED BY <2>2, <2>3, <2>4
<1>2. TypeOK /\ MoneyInv /\ [Next]_vars => [Side]_vars
  BY <1>1
<1>3. QED BY <1>2, MoneyHolds, PTL DEF IndInv, Spec, HoldStaysOnItsSide

(***************************************************************************)
(* Payouts implements Account.                                             *)
(***************************************************************************)

(* A new wallet is an empty account.                                       *)
LEMMA InitImplements == Init => Books!Init
<1> SUFFICES ASSUME Init PROVE Books!Init OBVIOUS
<1>1. wallet.available + wallet.pending = 0 /\ wallet.paid = 0 BY DEF Init, NewWallet
<1>2. Dealt = [s \in Settlements |-> Books!NoDeal]
  BY DEF Init, NotCreated, Dealt, Phase, Books!NoDeal
<1>3. QED BY <1>1, <1>2 DEF Init, Books!Init

(* A request's commit is the agreement on its settlement.                  *)
LEMMA AskCommitAgrees ==
  ASSUME TypeOK, MoneyInv, NEW s \in Settlements, NEW pays \in Amounts, AskCommit(s, pays)
  PROVE  Books!Next
<1>1. /\ ask[s].saw = wallet /\ settlement[s] = NotCreated /\ pays \in Int
      /\ wallet.available \in Int /\ wallet.pending \in Int /\ wallet.paid \in Int
  BY AmountsAssumption DEF AskCommit, MoneyInv, WalletHeldByOne, TypeOK, Wallet
<1>2. FindOpen = {} /\ settlement \in [Settlements -> Deal]
  BY DEF AskCommit, TypeOK
<1>3. wallet.pending = 0
  BY <1>2, OpenIsInFlight DEF MoneyInv, PendingIsTheOpenOne
<1>4. \A r \in Settlements : Dealt[r].phase # "open"
  BY <1>2 DEF FindOpen, Dealt, Phase, Deal, SettlementStatus
<1>5. Dealt[s] = Books!NoDeal
  BY <1>1 DEF Dealt, Phase, NotCreated, Books!NoDeal
<1>6. \/ pays > 0 /\ pays <= wallet.available
      \/ pays < 0 /\ pays >= wallet.available
  BY <1>1 DEF AskCommit, MayPayOut, MayCollect
<1>7. settlement' = [settlement EXCEPT ![s] = [status |-> "PENDING", pays |-> pays]]
  BY DEF AskCommit
<1>8. Dealt' = [Dealt EXCEPT ![s] = [phase |-> "open", pays |-> pays]]
  BY <1>2, <1>7 DEF Dealt, Phase
<1>9. UNCHANGED <<wallet.available + wallet.pending, booked, wallet.paid>>
  BY <1>1 DEF AskCommit, Held
<1>10. Books!Agree(s, pays)
  BY <1>1, <1>3, <1>4, <1>5, <1>6, <1>8, <1>9 DEF Books!Agree
<1>11. QED BY <1>10 DEF Books!Next

(* A decision is the payment, the dropping, or no step of the account.     *)
LEMMA DecideCommitImplements ==
  ASSUME TypeOK, MoneyInv, NEW d \in Deciders, DecideCommit(d)
  PROVE  Books!Next \/ UNCHANGED <<wallet.available + wallet.pending, booked, wallet.paid, Dealt>>
<1> PICK s \in Settlements, to \in SettlementStatus :
      decide[d] = [pc |-> "held", on |-> s, to |-> to]
  BY DEF DecideCommit, TypeOK, DeciderTx, IdleDecider
<1> PICK pays \in Int : pays = settlement[s].pays
  BY DEF TypeOK, Deal
<1>1. /\ wallet' = CASE to = "PAID"     -> SettledFor(wallet, pays)
                     [] to = "REJECTED" -> Freed(wallet, pays)
                     [] OTHER           -> wallet
      /\ settlement' = [settlement EXCEPT ![s].status = to]
      /\ booked' = booked
      /\ wallet.available \in Int /\ wallet.pending \in Int
      /\ settlement \in [Settlements -> Deal]
  BY DEF DecideCommit, TypeOK, Wallet
<1>2. /\ settlement[s].status \in {"PENDING", "PROCESSING"}
      /\ to \in {"PROCESSING", "PAID", "REJECTED"}
  BY SettlementHops DEF MoneyInv, DecisionIsCurrent
<1>3. Dealt[s] = [phase |-> "open", pays |-> pays]
  BY <1>2 DEF Dealt, Phase
<1>4. Dealt' = [Dealt EXCEPT ![s].phase = CASE to = "PAID"     -> "paid"
                                            [] to = "REJECTED" -> "dropped"
                                            [] OTHER           -> "open"]
  BY <1>1, <1>2 DEF Dealt, Phase, Deal
<1>5. CASE to = "PAID"
  <2>1. wallet'.available + wallet'.pending = wallet.available + wallet.pending - pays
    BY <1>1, <1>5 DEF SettledFor
  <2>5. wallet'.paid = wallet.paid + Books!Size(pays)
    BY <1>1, <1>5 DEF SettledFor, Books!Size
  <2>2. Dealt' = [Dealt EXCEPT ![s].phase = "paid"]
    BY <1>4, <1>5
  <2>3. Books!Pay(s)
    BY <1>1, <1>3, <2>1, <2>2, <2>5 DEF Books!Pay
  <2>4. QED BY <2>3 DEF Books!Next
<1>6. CASE to = "REJECTED"
  <2>1. wallet'.available + wallet'.pending = wallet.available + wallet.pending
        /\ wallet'.paid = wallet.paid
    BY <1>1, <1>6 DEF Freed
  <2>2. Dealt' = [Dealt EXCEPT ![s].phase = "dropped"]
    BY <1>4, <1>6
  <2>3. Books!Drop(s)
    BY <1>1, <1>3, <2>1, <2>2 DEF Books!Drop
  <2>4. QED BY <2>3 DEF Books!Next
<1>7. CASE to = "PROCESSING"
  <2>1. Dealt' = [Dealt EXCEPT ![s].phase = "open"]
    BY <1>4, <1>7
  <2>2. Dealt' = Dealt
    BY <1>3, <2>1 DEF Dealt
  <2>3. QED BY <1>1, <1>7, <2>2
<1>8. QED BY <1>2, <1>5, <1>6, <1>7

(* Every step maps to a step of Account or to a stutter.                   *)
LEMMA NextImplements ==
  ASSUME TypeOK, MoneyInv, [Next]_vars
  PROVE  Books!Next \/ UNCHANGED <<wallet.available + wallet.pending, booked, wallet.paid, Dealt>>
<1>1. CASE \E s \in Settlements : \E pays \in Amounts : AskCommit(s, pays)
  BY <1>1, AskCommitAgrees
<1>2. CASE \E d \in Deciders : DecideCommit(d)
  BY <1>2, DecideCommitImplements
<1>3. ASSUME NEW f \in Fares, FareCommit(f) PROVE Books!Next
  <2>1. /\ fare[f].saw = wallet /\ f \notin booked /\ FareEffect[f] \in Int
        /\ wallet \in Wallet /\ wallet.available \in Int /\ wallet.pending \in Int
    BY <1>3, FaresAssumption DEF FareCommit, MoneyInv, WalletHeldByOne, TypeOK, Wallet
  <2>2. wallet'.available + wallet'.pending
          = wallet.available + wallet.pending + FareEffect[f]
        /\ wallet'.paid = wallet.paid
    BY <1>3, <2>1 DEF FareCommit, Wallet
  <2>3. booked' = booked \cup {f} /\ Dealt' = Dealt
    BY <1>3 DEF FareCommit, Dealt, Phase
  <2>4. Books!Earn(f)
    BY <2>1, <2>2, <2>3 DEF Books!Earn
  <2>5. QED BY <2>4 DEF Books!Next
<1>4. CASE /\ \A s \in Settlements : \A pays \in Amounts : ~AskCommit(s, pays)
           /\ \A d \in Deciders : ~DecideCommit(d)
           /\ \A f \in Fares : ~FareCommit(f)
  <2>1. UNCHANGED <<wallet, booked, settlement>>
    BY <1>4 DEF Next, Ask, AskLock, AskRefuse, AskRollback, Decide, DecideLock,
                DecideRollback, BookFare, FareLock, FareRollback, vars, data
  <2>2. QED BY <2>1 DEF Dealt, Phase
<1>5. QED BY <1>1, <1>2, <1>3, <1>4

(* Whatever is interleaved, the wallet as a whole is an account: money     *)
(* enters it with a completed fare, leaves it with a paid settlement, and  *)
(* otherwise only changes buckets.                                         *)
THEOREM PayoutsImplementAccount == Spec => ImplementsAccount
<1>1. TypeOK /\ MoneyInv /\ [Next]_vars =>
        [Books!Next]_<<wallet.available + wallet.pending, booked, wallet.paid, Dealt>>
  BY NextImplements
<1>2. QED BY <1>1, InitImplements, MoneyHolds, PTL
          DEF IndInv, Spec, ImplementsAccount, Books!Spec
=============================================================================
