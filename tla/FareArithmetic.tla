--------------------------- MODULE FareArithmetic ---------------------------
(***************************************************************************)
(* Money in one currency, in minor units: what a seat and a journey cost   *)
(* (FixedRouteFare, total_fare), which counter-offers are plausible        *)
(* (assert_offer_allowed), what a late cancellation costs, and how a       *)
(* completed fare is divided (Money.percentage, Money.split_off,           *)
(* CommissionSplit) and lands in the driver's wallet.                      *)
(*                                                                         *)
(* Money refuses two currencies in one operation; there is one here.       *)
(***************************************************************************)
EXTENDS Integers

BasisPoints == 0..10000

\* Money.percentage: basis points of m, ROUND_HALF_UP, which rounds a half
\* away from zero.
percentage(m, rate) ==
  IF m >= 0 THEN (m * rate + 5000) \div 10000 ELSE -((-m * rate + 5000) \div 10000)

\* Money.split_off, and CommissionSplit.of.
split_off(m, rate) ==
  [platform |-> percentage(m, rate), driver |-> m - percentage(m, rate)]

\* A private ride hires the car whole; on a shared one seats are bought.
quote(unit, private, seats) == IF private THEN unit ELSE unit * seats

\* No way back is a return of 0, which a return that is named cannot be.
total_fare(outbound, return) == outbound + return

MAX_MULTIPLE_OF_ASKING == 5
MIN_FRACTION_OF_ASKING == 5

Plausible(asking, offered) ==
  /\ offered > 0
  /\ offered <= asking * MAX_MULTIPLE_OF_ASKING
  /\ offered * MIN_FRACTION_OF_ASKING >= asking

\* CancelBooking: free unless the passenger calls it off within the window
\* before a departure that has a driver.
CancellationFee(fare, late, passenger, lateRate) ==
  IF passenger /\ late THEN percentage(fare, lateRate) ELSE 0

\* record_trip_settlement: the entry in the wallet.  A driver paid in cash
\* holds the whole fare and owes the platform's share of it.
WalletEntry(fare, rate, cash) ==
  IF cash THEN -split_off(fare, rate).platform ELSE split_off(fare, rate).driver
InHand(fare, cash) == IF cash THEN fare ELSE 0
=============================================================================
