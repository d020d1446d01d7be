------------------------ MODULE FareArithmetic_proofs ------------------------
(***************************************************************************)
(* What the arithmetic of FareArithmetic gives for every amount and rate.  *)
(***************************************************************************)
EXTENDS FareArithmetic, TLAPS

\* The product of an amount and a rate, the only non-linear term, is at most
\* the amount ten thousand times over.
LEMMA ProductBounds ==
  ASSUME NEW m \in Nat, NEW rate \in BasisPoints
  PROVE  m * rate \in Nat /\ m * rate <= 10000 * m
<1>1. rate \in Nat /\ rate <= 10000 BY DEF BasisPoints
<1>2. m * rate \in Nat BY <1>1
<1>3. m * rate <= m * 10000 BY <1>1
<1>. QED BY <1>2, <1>3

\* Money.split_off: both shares are between nothing and the fare, they add up
\* to it exactly, and the platform's is the nearest to the rate's share.
THEOREM SplitIsExact ==
  ASSUME NEW m \in Nat, NEW rate \in BasisPoints
  PROVE  LET split == split_off(m, rate) IN
         /\ split.platform \in 0..m /\ split.driver \in 0..m
         /\ split.platform + split.driver = m
         /\ 10000 * split.platform \in (m * rate - 4999)..(m * rate + 5000)
<1> DEFINE p == m * rate
           share == (p + 5000) \div 10000
<1>1. p \in Nat /\ p <= 10000 * m BY ProductBounds
<1>2. percentage(m, rate) = share BY DEF percentage
<1> HIDE DEF p
<1>3. share \in Int /\ 10000 * share <= p + 5000 /\ p + 5000 < 10000 * share + 10000
  BY <1>1
<1> HIDE DEF share
<1>4. share \in 0..m BY <1>1, <1>3
<1>5. 10000 * share \in (p - 4999)..(p + 5000) BY <1>1, <1>3
<1>. QED BY <1>2, <1>4, <1>5 DEF split_off, p

\* "A commission split that rounds differently in two places loses money one
\* afghani at a time" (shared/money.py:86-87): two fares divided apart and together
\* differ by at most one minor unit.
THEOREM SplittingApartCostsAtMostOne ==
  ASSUME NEW m \in Nat, NEW n \in Nat, NEW rate \in BasisPoints
  PROVE  percentage(m, rate) + percentage(n, rate) - percentage(m + n, rate) \in -1..1
<1> DEFINE p == m * rate
           q == n * rate
<1>1. p \in Nat /\ q \in Nat BY ProductBounds
<1>2. (m + n) * rate = p + q BY DEF BasisPoints
<1>3. /\ percentage(m, rate) = (p + 5000) \div 10000
      /\ percentage(n, rate) = (q + 5000) \div 10000
      /\ percentage(m + n, rate) = (p + q + 5000) \div 10000
  BY <1>2 DEF percentage
<1> HIDE DEF p, q
<1>4. (p + 5000) \div 10000 + (q + 5000) \div 10000 - (p + q + 5000) \div 10000 \in -1..1
  BY <1>1
<1>. QED BY <1>3, <1>4

\* "What the driver made does not depend on who happened to hold the notes"
\* (repositories/money.py:146-147): the notes in hand and the wallet's entry together are
\* the driver's share, and a cash fare never credits the wallet, nor an
\* online one debits it.
THEOREM DriverMakesTheirShare ==
  ASSUME NEW fare \in Nat, NEW rate \in BasisPoints, NEW cash \in BOOLEAN
  PROVE  /\ InHand(fare, cash) + WalletEntry(fare, rate, cash) = split_off(fare, rate).driver
         /\ IF cash THEN WalletEntry(fare, rate, cash) <= 0 ELSE WalletEntry(fare, rate, cash) >= 0
<1> DEFINE split == split_off(fare, rate)
<1>1. /\ split.platform \in 0..fare /\ split.driver \in 0..fare
      /\ split.platform + split.driver = fare
  BY SplitIsExact
<1> HIDE DEF split
<1>2. CASE cash BY <1>1, <1>2 DEF InHand, WalletEntry, split
<1>3. CASE ~cash BY <1>1, <1>3 DEF InHand, WalletEntry, split
<1>. QED BY <1>2, <1>3

\* assert_offer_allowed bounds the total, not its legs, so whichever way a
\* round trip's price is put on its two legs, what changes hands is within a
\* factor of five of what was asked and no leg alone exceeds that.
THEOREM NoLegEscapesTheBounds ==
  ASSUME NEW asking \in Nat \ {0}, NEW outbound \in Nat \ {0}, NEW return \in Nat,
         Plausible(asking, total_fare(outbound, return))
  PROVE  /\ outbound <= 5 * asking /\ return < 5 * asking
         /\ 5 * (outbound + return) >= asking
BY DEF Plausible, total_fare, MAX_MULTIPLE_OF_ASKING, MIN_FRACTION_OF_ASKING
=============================================================================
