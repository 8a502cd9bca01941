------------------------------ MODULE Balances ------------------------------
(***************************************************************************)
(* How the Accountant keeps a balance in SQLite and asks for it.  A        *)
(* balance in wei is a signed 128-bit number; the table holds it as two    *)
(* 64-bit integers, the lower one of 63 bits and never negative.  A change *)
(* is divided in the same way and added column by column; when that        *)
(* overflows a column the statement fails and the row is read, corrected   *)
(* and written.  Comparisons are made on the two columns in SQL.  This     *)
(* module follows the account of one wallet, in the table of payables or   *)
(* that of receivables, and the lines the payment thresholds draw.         *)
(***************************************************************************)
EXTENDS Integers

CONSTANTS
    Half,      \* 2^63: one more than the largest i64
    Gwei,      \* wei in a gwei, 10^9
    Tables,    \* which tables: a subset of {"payable", "receivable"}
    Terms,     \* payment thresholds, [debt, permanent, maturity, grace, interval, unban]
    Amounts,   \* amounts of wei a balance changes by
    Limits,    \* gwei that queries are asked about
    Ages,      \* ages in seconds that queries are asked about
    MaxOwed,   \* bound: balances up to which services are booked
    OldestAge     \* bound: seconds told apart

ASSUME WordAssumption == Half \in Nat \ {0} /\ Gwei \in Nat \ {0} /\ Gwei < Half
ASSUME AmountsAssumption == Amounts \subseteq Nat \ {0}
ASSUME QueriesAssumption == Limits \subseteq Int /\ Ages \subseteq Nat
ASSUME TermsAssumption ==
    Terms \subseteq [debt : Nat, permanent : Nat, maturity : Nat, grace : Nat,
                     interval : Nat \ {0}, unban : Nat]
ASSUME BoundsAssumption == MaxOwed \in Nat /\ OldestAge \in Nat

\* What deconstruct_range_check lets pass, 2^126 in either direction.
Storable == -(Half * Half) .. (Half * Half) - 1

VARIABLES
    table,   \* the table the account is in (never changes)
    terms,   \* the payment thresholds in force (never change)
    there,   \* whether the wallet has a row
    word,    \* its columns balance_high_b and balance_low_b
    elapsed,     \* seconds since its timestamp
    owed     \* ghost: the sum of all changes

balancesVars == <<table, terms, there, word, elapsed, owed>>

-----------------------------------------------------------------------------
(* BigIntDivider                                                           *)

Deconstruct(n) == [high |-> n \div Half, low |-> n % Half]
Reconstitute(w) == w.high * Half + w.low

\* An i64, and a number cast to one.
InWord(n) == -Half <= n /\ n < Half
Cast(n) == ((n + Half) % (2 * Half)) - Half

-----------------------------------------------------------------------------
(* BigIntDbProcessor                                                       *)

\* Slip: the carry is forgotten.
CorrectBytesNoCarry(old, change) ==
    [high |-> old.high + change.high, low |-> (old.low + change.low) % Half]

\* correct_bytes(): the columns after an overflow
CorrectBytes(old, change) ==
    [high |-> old.high + change.high + 1, low |-> (old.low + change.low) % Half]

\* execute(): SQLite adds column by column; a sum that is no i64 turns REAL,
\* which a strict table refuses, and the overflow is compensated.
Execute(old, change) ==
    IF InWord(old.high + change.high) /\ InWord(old.low + change.low)
    THEN [high |-> old.high + change.high, low |-> old.low + change.low]
    ELSE CorrectBytes(old, change)

\* more_money_payable(), more_money_receivable(): an upsert
MoreMoney(amount) ==
    /\ owed + amount <= MaxOwed /\ owed + amount \in Storable
    /\ word' = IF there THEN Execute(word, Deconstruct(amount)) ELSE Deconstruct(amount)
    /\ elapsed' = IF there THEN elapsed ELSE 0
    /\ there' = TRUE
    /\ owed' = owed + amount
    /\ UNCHANGED <<table, terms>>

\* transactions_confirmed(), more_money_received(): an update; a payment of
\* a wallet without a row is only logged
MoneyPaid(amount) ==
    /\ owed - amount >= (IF table = "receivable" THEN -MaxOwed ELSE 0)
    /\ owed - amount \in Storable
    /\ IF there
       THEN /\ word' = Execute(word, Deconstruct(-amount))
            /\ elapsed' = 0
            /\ owed' = owed - amount
       ELSE UNCHANGED <<word, elapsed, owed>>
    /\ UNCHANGED <<table, terms, there>>

AgeRises ==
    /\ there /\ elapsed < OldestAge
    /\ elapsed' = elapsed + 1
    /\ UNCHANGED <<table, terms, there, word, owed>>

-----------------------------------------------------------------------------
(* Comparisons in SQL                                                      *)

Greater(w, limit) ==
    w.high > limit.high \/ (w.high = limit.high /\ w.low > limit.low)
AtLeast(w, limit) ==
    w.high > limit.high \/ (w.high = limit.high /\ w.low >= limit.low)

AtMost(w, limit) ==
    w.high < limit.high \/ (w.high = limit.high /\ w.low <= limit.low)

\* gwei_min_resolution_clause of the two tables and the two kinds of query
WholeGweiUp(w) == w.high > 0 \/ (w.high = 0 /\ w.low >= Gwei)

WholeGweiDown(w) == w.high < -1 \/ (w.high = -1 /\ w.low <= Half - 1 - Gwei)
MinResolution(w, query) ==
    WholeGweiUp(w) \/ (query = "range" /\ table = "receivable" /\ WholeGweiDown(w))

\* custom_query(): whether the row is among the top records or in a range
InTopRecords == there /\ MinResolution(word, "top")
InRange(min, max, young, old) ==
    /\ there /\ MinResolution(word, "range")
    /\ young <= elapsed /\ elapsed <= old
    /\ AtLeast(word, Deconstruct(min * Gwei))
    /\ AtMost(word, Deconstruct(max * Gwei))

\* remap_payable_accounts(), remap_receivable_accounts(): whole gwei, rounded
\* towards zero, as the user interface shows them
ShownGwei(n) == IF n >= 0 THEN n \div Gwei ELSE -((-n) \div Gwei)

-----------------------------------------------------------------------------
(* The payment thresholds                                                  *)

\* check_payment_thresholds()
CheckPaymentThresholds(t) == t.debt > t.permanent /\ t.interval <= Gwei

\* ThresholdUtils::slope(), which rounds towards zero
SlopeOf(t) == -(((t.debt - t.permanent) * Gwei) \div t.interval)

\* calculate_finite_debt_limit_by_age()
FiniteDebtLimit(t, a) ==
    IF a > t.maturity + t.interval THEN t.permanent * Gwei
    ELSE SlopeOf(t) * a + (t.debt * Gwei - t.maturity * SlopeOf(t))

\* payable_exceeded_threshold(): the debtor pays
Qualifies(t, n, a) ==
    /\ a > t.maturity
    /\ n > t.permanent * Gwei
    /\ n > FiniteDebtLimit(t, a)

\* Slip: the grace period is not granted.
SlopeDropAtOnce(t, a) == Deconstruct(t.debt * Gwei + Cast(SlopeOf(t)) * (a - t.maturity))

\* slope_drop_high_bytes(), slope_drop_low_bytes()
SlopeDrop(t, a) ==
    Deconstruct(t.debt * Gwei + Cast(SlopeOf(t)) * (a - t.maturity - t.grace))

\* The clause on the permanent debt compares the higher column with zero.
BeyondPermanentDebt(t, w) ==
    LET limit == Deconstruct(t.permanent * Gwei)
    IN  w.high > limit.high \/ (w.high = 0 /\ w.low > limit.low)

\* new_delinquencies(): the creditor bans
Delinquent(t, w, a) ==
    /\ a > t.maturity + t.grace
    /\ Greater(w, SlopeDrop(t, a))
    /\ BeyondPermanentDebt(t, w)

\* paid_delinquencies(): the creditor lifts a ban
Reformed(t, w) == AtMost(w, Deconstruct(t.unban * Gwei))

-----------------------------------------------------------------------------
BalancesInit ==
    /\ table \in Tables
    /\ terms \in {t \in Terms : CheckPaymentThresholds(t)}
    /\ there = FALSE
    /\ word = Deconstruct(0)
    /\ elapsed = 0
    /\ owed = 0

BalancesNext ==
    \/ \E amount \in Amounts : MoreMoney(amount) \/ MoneyPaid(amount)
    \/ AgeRises

BalancesSpec == BalancesInit /\ [][BalancesNext]_balancesVars

-----------------------------------------------------------------------------
\* Types: the columns are 64-bit integers and the lower one is not negative.
BalancesTypeOK ==
    /\ table \in Tables /\ terms \in Terms
    /\ there \in BOOLEAN
    /\ word \in [high : -Half .. Half - 1, low : 0 .. Half - 1]
    /\ elapsed \in 0..OldestAge
    /\ owed \in Storable

\* After any sequence of charges and payments the two columns are the sum of
\* all changes: the carry and the borrow between them are never lost
\* (execute(), correct_bytes() of the big-integer processor).
BalanceIsSum == Reconstitute(word) = owed

\* Whatever a query of the user interface selects has at least one whole gwei
\* to show, so that remap_payable_accounts() and remap_receivable_accounts()
\* never panic with "Broken code: ... passed through db query constraints".
ShowsWholeGwei ==
    (InTopRecords \/ \E min, max \in Limits : InRange(min, max, 0, OldestAge))
        => ShownGwei(owed) # 0

\* A range query selects a balance exactly if it and its age lie within the
\* limits and there is at least one whole gwei of it.  (A receivable of exactly minus
\* one gwei is the one balance the clause misses.)
RangeIsExact ==
    there /\ owed # -Gwei =>
        \A min, max \in Limits, young, old \in Ages :
            InRange(min, max, young, old) <=>
                /\ min * Gwei <= owed /\ owed <= max * Gwei
                /\ elapsed \in young .. old
                /\ ShownGwei(owed) # 0

\* The permanent debt fits the lower column and the slope an i64.
ModestTerms(t) == t.permanent * Gwei < Half /\ InWord(SlopeOf(t))

\* A debt its creditor would ban the debtor for has been due for payment, by
\* the debtor's reckoning of the same thresholds, at least as long as the
\* grace period: who pays as soon as the scan says so is never banned
\* (payable_exceeded_threshold() against new_delinquencies()).
DueBeforeBanned ==
    (there /\ ModestTerms(terms) /\ Delinquent(terms, word, elapsed))
        => \A a \in (elapsed - terms.grace) .. elapsed : Qualifies(terms, owed, a)

\* Bans are lifted exactly for balances of at most unban_below_gwei
\* (paid_delinquencies()).
ReformedIsPaid == there => (Reformed(terms, word) <=> owed <= terms.unban * Gwei)

\* The two columns lose nothing, and every query made of them means what it
\* would mean of the balance itself.
ColumnsAreExact ==
    /\ BalanceIsSum
    /\ ShowsWholeGwei
    /\ RangeIsExact
    /\ ReformedIsPaid
=============================================================================
