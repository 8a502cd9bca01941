---------------------------- MODULE TablesProofs ----------------------------
(***************************************************************************)
(* What the Node keeps in its database.  Balances: for every width of the  *)
(* columns, every number of wei to the gwei and all payment thresholds,    *)
(* the two columns of a balance always are the sum of all changes, and     *)
(* comparing columns is comparing balances.  Configuration: for any        *)
(* passwords, requests, saves and blocks, between two requests of the      *)
(* Configurator the configuration table is of one piece, and the           *)
(* Neighborhood that has read its mail knows what is in it.                *)
(***************************************************************************)
EXTENDS Balances, Configuration, TLAPS

\* Quotient and remainder of a division by the size of the lower column.
LEMMA DivMod ==
    ASSUME NEW n \in Int
    PROVE  /\ n \div Half \in Int
           /\ n % Half \in Int /\ 0 <= n % Half /\ n % Half < Half
           /\ n = (n \div Half) * Half + (n % Half)
BY WordAssumption, SMTT(30)

\* A larger number in the higher column outweighs the whole lower one.
LEMMA HigherWins ==
    ASSUME NEW a \in Int, NEW b \in Int, a < b
    PROVE  a * Half + Half <= b * Half
<1>1. PICK c \in Nat : b = a + 1 + c
  <2>1. b - a - 1 \in Nat /\ b = a + 1 + (b - a - 1)
    OBVIOUS
  <2> QED BY <2>1
<1>2. c * Half \in Nat
  BY WordAssumption, SMTT(30)
<1>3. b * Half = a * Half + Half + c * Half
  BY <1>1, WordAssumption, SMTT(30)
<1>4. a * Half \in Int
  BY WordAssumption, SMTT(30)
<1> QED BY <1>2, <1>3, <1>4, WordAssumption

\* A number is divided into columns in one way only.
LEMMA OneWay ==
    ASSUME NEW a \in Int, NEW b \in Int, NEW r \in Int, NEW s \in Int,
           0 <= r, r < Half, 0 <= s, s < Half,
           a * Half + r = b * Half + s
    PROVE  a = b /\ r = s
<1>1. a * Half \in Int /\ b * Half \in Int /\ Half \in Int
  BY WordAssumption, SMTT(30)
<1>2. ~(a < b)
  <2>1. SUFFICES ASSUME a < b PROVE FALSE
    OBVIOUS
  <2>2. a * Half + Half <= b * Half
    BY <2>1, HigherWins
  <2> QED BY <2>2, <1>1
<1>3. ~(b < a)
  <2>1. SUFFICES ASSUME b < a PROVE FALSE
    OBVIOUS
  <2>2. b * Half + Half <= a * Half
    BY <2>1, HigherWins
  <2> QED BY <2>2, <1>1
<1>4. a = b
  BY <1>2, <1>3
<1> QED BY <1>4, <1>1

\* The columns a number is divided into, and the number they are worth.
LEMMA Divided ==
    ASSUME NEW n \in Int
    PROVE  /\ Deconstruct(n).high \in Int
           /\ Deconstruct(n).low \in Int
           /\ 0 <= Deconstruct(n).low /\ Deconstruct(n).low < Half
           /\ Reconstitute(Deconstruct(n)) = n
BY DivMod DEF Deconstruct, Reconstitute

\* Columns worth n, the lower one within its bounds, are the division of n.
LEMMA DividedIsUnique ==
    ASSUME NEW n \in Int, NEW h \in Int, NEW l \in Int,
           0 <= l, l < Half, h * Half + l = n
    PROVE  Deconstruct(n) = [high |-> h, low |-> l]
<1>1. /\ n \div Half \in Int /\ n % Half \in Int
      /\ 0 <= n % Half /\ n % Half < Half
      /\ (n \div Half) * Half + (n % Half) = n
  BY DivMod
<1>2. n \div Half = h /\ n % Half = l
  BY <1>1, OneWay
<1> QED BY <1>2 DEF Deconstruct

\* The higher column of a storable number is a 64-bit integer.
LEMMA HighFits ==
    ASSUME NEW n \in Storable
    PROVE  InWord(Deconstruct(n).high)
<1> DEFINE h == Deconstruct(n).high
           l == Deconstruct(n).low
<1>1. Half \in Int /\ Half > 0 /\ Half * Half \in Int
  BY WordAssumption, SMTT(30)
<1>2. n \in Int /\ -(Half * Half) <= n /\ n < Half * Half
  BY <1>1 DEF Storable
<1>3. h \in Int /\ l \in Int /\ 0 <= l /\ l < Half /\ h * Half + l = n
  BY <1>2, Divided DEF Reconstitute
<1>4. h * Half \in Int /\ (-Half) * Half = -(Half * Half)
  BY <1>1, <1>3, SMTT(30)
<1>5. h < Half
  <2>1. SUFFICES ASSUME ~(h < Half) PROVE FALSE
    OBVIOUS
  <2>2. CASE h = Half
    BY <2>2, <1>1, <1>2, <1>3
  <2>3. CASE Half < h
    <3>1. Half * Half + Half <= h * Half
      BY <2>3, <1>1, <1>3, HigherWins
    <3> QED BY <3>1, <1>1, <1>2, <1>3, <1>4
  <2> QED BY <2>1, <2>2, <2>3, <1>1, <1>3
<1>6. -Half <= h
  <2>1. SUFFICES ASSUME h < -Half PROVE FALSE
    BY <1>1, <1>3
  <2>2. h * Half + Half <= (-Half) * Half
    BY <2>1, <1>1, <1>3, HigherWins
  <2> QED BY <2>2, <1>1, <1>2, <1>3, <1>4
<1> QED BY <1>5, <1>6 DEF InWord

\* Adding column by column, with the correction of an overflow, is adding.
LEMMA ExecuteAdds ==
    ASSUME NEW a \in Storable, NEW b \in Int, a + b \in Storable
    PROVE  Execute(Deconstruct(a), Deconstruct(b)) = Deconstruct(a + b)
<1> DEFINE ah == Deconstruct(a).high
           al == Deconstruct(a).low
           bh == Deconstruct(b).high
           bl == Deconstruct(b).low
<1>1. Half \in Int /\ Half > 0 /\ Half * Half \in Int
  BY WordAssumption, SMTT(30)
<1>2. a \in Int /\ a + b \in Int
  BY <1>1 DEF Storable
<1>3. /\ ah \in Int /\ al \in Int /\ 0 <= al /\ al < Half /\ ah * Half + al = a
      /\ bh \in Int /\ bl \in Int /\ 0 <= bl /\ bl < Half /\ bh * Half + bl = b
  BY <1>2, Divided DEF Reconstitute
<1>4. /\ ah * Half \in Int /\ bh * Half \in Int
      /\ (ah + bh) * Half = ah * Half + bh * Half
      /\ (ah + bh + 1) * Half = ah * Half + bh * Half + Half
  BY <1>1, <1>3, SMTT(30)
<1>5. CASE al + bl < Half
  <2>1. Deconstruct(a + b) = [high |-> ah + bh, low |-> al + bl]
    <3>1. ah + bh \in Int /\ al + bl \in Int /\ 0 <= al + bl
          /\ (ah + bh) * Half + (al + bl) = a + b
      BY <1>3, <1>4
    <3> HIDE DEF ah, al, bh, bl
    <3> QED BY <3>1, <1>2, <1>5, DividedIsUnique
  <2>2. InWord(ah + bh)
    BY <2>1, HighFits
  <2>3. InWord(al + bl)
    BY <1>1, <1>3, <1>5 DEF InWord
  <2> QED BY <2>1, <2>2, <2>3 DEF Execute
<1>6. CASE ~(al + bl < Half)
  <2>1. Deconstruct(a + b) = [high |-> ah + bh + 1, low |-> al + bl - Half]
    <3>1. ah + bh + 1 \in Int /\ al + bl - Half \in Int
          /\ 0 <= al + bl - Half /\ al + bl - Half < Half
          /\ (ah + bh + 1) * Half + (al + bl - Half) = a + b
      BY <1>1, <1>3, <1>4, <1>6
    <3> HIDE DEF ah, al, bh, bl
    <3> QED BY <3>1, <1>2, DividedIsUnique
  <2>2. ~InWord(al + bl)
    BY <1>1, <1>3, <1>6 DEF InWord
  <2>3. (al + bl) % Half = al + bl - Half
    <3>1. Deconstruct(al + bl) = [high |-> 1, low |-> al + bl - Half]
      <4>1. al + bl \in Int /\ al + bl - Half \in Int
            /\ 0 <= al + bl - Half /\ al + bl - Half < Half
            /\ 1 * Half + (al + bl - Half) = al + bl
        BY <1>1, <1>3, <1>6
      <4> HIDE DEF ah, al, bh, bl
      <4> QED BY <4>1, DividedIsUnique
    <3> QED BY <3>1 DEF Deconstruct
  <2>4. Execute(Deconstruct(a), Deconstruct(b)) = CorrectBytes(Deconstruct(a), Deconstruct(b))
    BY <2>2 DEF Execute
  <2> QED BY <2>1, <2>3, <2>4 DEF CorrectBytes
<1> QED BY <1>5, <1>6

\* Comparing columns in SQL is comparing the numbers they are worth.
LEMMA ComparesNumbers ==
    ASSUME NEW a \in Int, NEW b \in Int
    PROVE  /\ Greater(Deconstruct(a), Deconstruct(b)) <=> a > b
           /\ AtLeast(Deconstruct(a), Deconstruct(b)) <=> a >= b
           /\ AtMost(Deconstruct(a), Deconstruct(b)) <=> a <= b
<1> DEFINE ah == Deconstruct(a).high
           al == Deconstruct(a).low
           bh == Deconstruct(b).high
           bl == Deconstruct(b).low
<1>1. Half \in Int /\ Half > 0
  BY WordAssumption
<1>2. /\ ah \in Int /\ al \in Int /\ 0 <= al /\ al < Half /\ ah * Half + al = a
      /\ bh \in Int /\ bl \in Int /\ 0 <= bl /\ bl < Half /\ bh * Half + bl = b
  BY Divided DEF Reconstitute
<1>3. ah * Half \in Int /\ bh * Half \in Int
  BY <1>1, <1>2, SMTT(30)
<1>4. CASE ah < bh
  <2>1. ah * Half + Half <= bh * Half
    BY <1>2, <1>4, HigherWins
  <2>2. a < b
    BY <2>1, <1>1, <1>2, <1>3
  <2> QED BY <2>2, <1>2, <1>4 DEF Greater, AtLeast, AtMost
<1>5. CASE bh < ah
  <2>1. bh * Half + Half <= ah * Half
    BY <1>2, <1>5, HigherWins
  <2>2. b < a
    BY <2>1, <1>1, <1>2, <1>3
  <2> QED BY <2>2, <1>2, <1>5 DEF Greater, AtLeast, AtMost
<1>6. CASE ah = bh
  <2>1. a - b = al - bl
    BY <1>2, <1>3, <1>6
  <2> QED BY <2>1, <1>2, <1>6 DEF Greater, AtLeast, AtMost
<1> QED BY <1>2, <1>4, <1>5, <1>6

-----------------------------------------------------------------------------
(* The account's invariant: the columns are the division of the sum.       *)

BalancesInv ==
    /\ table \in Tables /\ terms \in Terms /\ CheckPaymentThresholds(terms)
    /\ there \in BOOLEAN
    /\ owed \in Storable
    /\ word = Deconstruct(owed)
    /\ elapsed \in 0..OldestAge
    /\ ~there => owed = 0
    /\ table # "receivable" => owed >= 0

LEMMA StorableIsInt == Storable \subseteq Int /\ 0 \in Storable
<1>1. Half * Half \in Int /\ Half * Half > 0
  BY WordAssumption, SMTT(30)
<1> QED BY <1>1 DEF Storable

LEMMA InitInv == BalancesInit => BalancesInv
<1>1. SUFFICES ASSUME BalancesInit PROVE BalancesInv
  OBVIOUS
<1>2. owed = 0 /\ owed \in Storable /\ word = Deconstruct(owed) /\ owed >= 0
  BY <1>1, StorableIsInt DEF BalancesInit
<1>3. table \in Tables /\ terms \in Terms /\ CheckPaymentThresholds(terms) /\ there \in BOOLEAN
  BY Zenon, <1>1 DEF BalancesInit
<1>4. elapsed \in 0..OldestAge
  BY <1>1, BoundsAssumption DEF BalancesInit
<1> QED BY <1>2, <1>3, <1>4 DEF BalancesInv

LEMMA MoreMoneyInv ==
    ASSUME BalancesInv, NEW amount \in Amounts, MoreMoney(amount)
    PROVE  BalancesInv'
<1>1. amount \in Int /\ amount > 0 /\ owed \in Int
  BY AmountsAssumption, StorableIsInt DEF BalancesInv
<1>2. word' = Deconstruct(owed + amount)
  <2>1. CASE there
    BY <2>1, <1>1, ExecuteAdds DEF BalancesInv, MoreMoney
  <2>2. CASE ~there
    BY <2>2, <1>1 DEF BalancesInv, MoreMoney
  <2> QED BY <2>1, <2>2
<1>3. elapsed' \in 0..OldestAge
  BY BoundsAssumption DEF BalancesInv, MoreMoney
<1>4. owed' = owed + amount /\ owed + amount \in Storable /\ there' = TRUE
      /\ table' = table /\ terms' = terms
  BY DEF MoreMoney
<1> QED BY <1>1, <1>2, <1>3, <1>4 DEF BalancesInv

LEMMA MoneyPaidInv ==
    ASSUME BalancesInv, NEW amount \in Amounts, MoneyPaid(amount)
    PROVE  BalancesInv'
<1>1. amount \in Int /\ amount > 0 /\ owed \in Int
  BY AmountsAssumption, StorableIsInt DEF BalancesInv
<1>2. CASE there
  <2>1. owed - amount = owed + (-amount) /\ -amount \in Int
    BY <1>1
  <2>2. word' = Deconstruct(owed - amount)
    BY <1>2, <2>1, ExecuteAdds DEF BalancesInv, MoneyPaid
  <2>3. owed' = owed - amount /\ owed - amount \in Storable /\ there' = there
        /\ table' = table /\ terms' = terms /\ elapsed' = 0
        /\ (table # "receivable" => owed - amount >= 0)
    BY <1>2 DEF MoneyPaid
  <2> QED BY <1>2, <2>2, <2>3, BoundsAssumption DEF BalancesInv
<1>3. CASE ~there
  BY <1>3 DEF BalancesInv, MoneyPaid
<1> QED BY <1>2, <1>3 DEF BalancesInv

LEMMA TimePassesInv == BalancesInv /\ AgeRises => BalancesInv'
BY BoundsAssumption DEF BalancesInv, AgeRises

LEMMA StutterInv == BalancesInv /\ UNCHANGED balancesVars => BalancesInv'
BY DEF BalancesInv, balancesVars

\* The columns of a balance always are the division of the sum of all changes
\* (execute(), correct_bytes()).
THEOREM BalancesInvariant == BalancesSpec => []BalancesInv
<1>1. BalancesInit => BalancesInv
  BY InitInv
<1>2. BalancesInv /\ [BalancesNext]_balancesVars => BalancesInv'
  BY MoreMoneyInv, MoneyPaidInv, TimePassesInv, StutterInv DEF BalancesNext
<1> QED BY <1>1, <1>2, PTL DEF BalancesSpec

\* The columns stay 64-bit integers, the lower one not negative.
THEOREM BalancesTyped == BalancesSpec => []BalancesTypeOK
<1>1. BalancesInv => BalancesTypeOK
  <2>1. SUFFICES ASSUME BalancesInv PROVE BalancesTypeOK
    OBVIOUS
  <2>2. owed \in Int /\ Half \in Int
    BY <2>1, StorableIsInt, WordAssumption DEF BalancesInv
  <2>3. word.high \in -Half .. Half - 1
    BY <2>1, <2>2, HighFits, Divided DEF BalancesInv, InWord
  <2>4. word.low \in 0 .. Half - 1
    BY <2>1, <2>2, Divided DEF BalancesInv
  <2>5. word = [high |-> word.high, low |-> word.low]
    BY <2>1 DEF BalancesInv, Deconstruct
  <2>6. word \in [high : -Half .. Half - 1, low : 0 .. Half - 1]
    BY <2>3, <2>4, <2>5
  <2> QED BY <2>1, <2>6 DEF BalancesInv, BalancesTypeOK
<1> QED BY <1>1, BalancesInvariant, PTL

\* The two columns of a balance always are worth the sum of all changes, for
\* every width of the columns.
THEOREM ColumnsAreTheSum == BalancesSpec => []BalanceIsSum
<1>1. BalancesInv => BalanceIsSum
  BY StorableIsInt, Divided DEF BalancesInv, BalanceIsSum
<1> QED BY <1>1, BalancesInvariant, PTL

\* A ban is lifted exactly at balances of at most unban_below_gwei.
THEOREM BansLiftedWhenPaid == BalancesSpec => []ReformedIsPaid
<1>1. BalancesInv => ReformedIsPaid
  <2>1. SUFFICES ASSUME BalancesInv PROVE ReformedIsPaid
    OBVIOUS
  <2>2. owed \in Int /\ terms.unban \in Nat
    BY <2>1, StorableIsInt, TermsAssumption DEF BalancesInv
  <2>3. terms.unban * Gwei \in Int
    BY <2>2, WordAssumption, SMTT(30)
  <2> QED BY <2>1, <2>2, <2>3, ComparesNumbers DEF BalancesInv, ReformedIsPaid, Reformed
<1> QED BY <1>1, BalancesInvariant, PTL

-----------------------------------------------------------------------------
(* The queries of the user interface                                       *)

\* Whole gwei are shown exactly for balances of at least one, either way.
LEMMA ShownIfWhole ==
    ASSUME NEW n \in Int
    PROVE  ShownGwei(n) # 0 <=> (n >= Gwei \/ n <= -Gwei)
<1>1. ASSUME NEW k \in Nat
      PROVE  k \div Gwei \in Int /\ (k \div Gwei # 0 <=> k >= Gwei)
  <2>1. /\ k \div Gwei \in Int /\ k % Gwei \in Int
        /\ 0 <= k % Gwei /\ k % Gwei < Gwei
        /\ k = (k \div Gwei) * Gwei + (k % Gwei)
    BY WordAssumption, SMTT(30)
  <2> DEFINE q == k \div Gwei
  <2>2. q * Gwei \in Int /\ Gwei \in Int
    BY <2>1, WordAssumption, SMTT(30)
  <2>3. CASE q = 0
    BY <2>1, <2>2, <2>3
  <2>4. CASE q > 0
    <3>1. q * Gwei >= Gwei
      BY <2>1, <2>4, WordAssumption, SMTT(30)
    <3> QED BY <3>1, <2>1, <2>2, <2>4
  <2>5. CASE q < 0
    <3>1. q * Gwei <= -Gwei
      BY <2>1, <2>5, WordAssumption, SMTT(30)
    <3> QED BY <3>1, <2>1, <2>2, <2>5
  <2> QED BY <2>1, <2>3, <2>4, <2>5
<1>2. CASE n >= 0
  BY <1>1, <1>2, WordAssumption DEF ShownGwei
<1>3. CASE n < 0
  <2>1. -n \in Nat
    BY <1>3
  <2>2. (-n) \div Gwei \in Int /\ ((-n) \div Gwei # 0 <=> -n >= Gwei)
    BY <2>1, <1>1
  <2> QED BY <1>3, <2>2, WordAssumption DEF ShownGwei
<1> QED BY <1>2, <1>3

\* The clauses on the smallest balance shown, read on the columns of n.
LEMMA WholeGweiClauses ==
    ASSUME NEW n \in Int
    PROVE  /\ WholeGweiUp(Deconstruct(n)) <=> n >= Gwei
           /\ WholeGweiDown(Deconstruct(n)) <=> n < -Gwei
<1>1. /\ Half \in Int /\ Gwei \in Int /\ 0 < Gwei /\ Gwei < Half
      /\ 0 * Half + Gwei = Gwei /\ (-1) * Half + (Half - 1 - Gwei) = -Gwei - 1
  BY WordAssumption
<1>2. Deconstruct(Gwei) = [high |-> 0, low |-> Gwei]
  <2>1. 0 \in Int /\ 0 <= Gwei
    BY <1>1
  <2> QED BY Zenon, <1>1, <2>1, DividedIsUnique
<1>3. Deconstruct(-Gwei - 1) = [high |-> -1, low |-> Half - 1 - Gwei]
  <2>1. -Gwei - 1 \in Int /\ Half - 1 - Gwei \in Int /\ -1 \in Int
        /\ 0 <= Half - 1 - Gwei /\ Half - 1 - Gwei < Half
    BY <1>1
  <2> QED BY <1>1, <2>1, DividedIsUnique
<1>4. WholeGweiUp(Deconstruct(n)) <=> AtLeast(Deconstruct(n), Deconstruct(Gwei))
  BY <1>2 DEF WholeGweiUp, AtLeast
<1>5. WholeGweiDown(Deconstruct(n)) <=> AtMost(Deconstruct(n), Deconstruct(-Gwei - 1))
  BY <1>3 DEF WholeGweiDown, AtMost
<1>6. AtLeast(Deconstruct(n), Deconstruct(Gwei)) <=> n >= Gwei
  BY <1>1, ComparesNumbers
<1>7. AtMost(Deconstruct(n), Deconstruct(-Gwei - 1)) <=> n <= -Gwei - 1
  <2>1. -Gwei - 1 \in Int
    BY <1>1
  <2> QED BY <2>1, ComparesNumbers
<1> QED BY <1>1, <1>4, <1>5, <1>6, <1>7

\* A query never selects an account without a whole gwei to show, so the
\* "Broken code" panics are out of reach.
THEOREM QueriesShowWholeGwei == BalancesSpec => []ShowsWholeGwei
<1>1. BalancesInv => ShowsWholeGwei
  <2>1. SUFFICES ASSUME BalancesInv, WholeGweiUp(word) \/ WholeGweiDown(word)
                 PROVE  ShownGwei(owed) # 0
    BY DEF ShowsWholeGwei, InTopRecords, InRange, MinResolution
  <2>2. owed \in Int /\ word = Deconstruct(owed)
    BY <2>1, StorableIsInt DEF BalancesInv
  <2>3. owed >= Gwei \/ owed <= -Gwei
    BY <2>1, <2>2, WholeGweiClauses, WordAssumption
  <2> QED BY <2>2, <2>3, ShownIfWhole
<1> QED BY <1>1, BalancesInvariant, PTL

\* A range query selects exactly the balances and ages within its limits,
\* minus one gwei apart.
THEOREM RangeQueriesAreExact == BalancesSpec => []RangeIsExact
<1>1. BalancesInv => RangeIsExact
  <2>1. SUFFICES ASSUME BalancesInv, there, owed # -Gwei,
                        NEW min \in Limits, NEW max \in Limits,
                        NEW young \in Ages, NEW old \in Ages
                 PROVE  InRange(min, max, young, old) <=>
                            /\ min * Gwei <= owed /\ owed <= max * Gwei
                            /\ elapsed \in young .. old
                            /\ ShownGwei(owed) # 0
    BY DEF RangeIsExact
  <2>2. owed \in Int /\ word = Deconstruct(owed) /\ Gwei \in Int /\ Gwei > 0
    BY <2>1, StorableIsInt, WordAssumption DEF BalancesInv
  <2>3. min * Gwei \in Int /\ max * Gwei \in Int
    BY QueriesAssumption, WordAssumption, SMTT(30)
  <2>4. /\ AtLeast(word, Deconstruct(min * Gwei)) <=> owed >= min * Gwei
        /\ AtMost(word, Deconstruct(max * Gwei)) <=> owed <= max * Gwei
    BY <2>2, <2>3, ComparesNumbers
  <2>5. (young <= elapsed /\ elapsed <= old) <=> elapsed \in young .. old
    BY <2>1, QueriesAssumption, BoundsAssumption DEF BalancesInv
  <2>6. MinResolution(word, "range") <=> ShownGwei(owed) # 0
    <3>1. WholeGweiUp(word) <=> owed >= Gwei
      BY <2>2, WholeGweiClauses
    <3>2. WholeGweiDown(word) <=> owed < -Gwei
      BY <2>2, WholeGweiClauses
    <3>3. table # "receivable" => owed >= 0
      BY <2>1 DEF BalancesInv
    <3> QED BY <2>1, <2>2, <3>1, <3>2, <3>3, ShownIfWhole DEF MinResolution
  <2> QED BY <2>1, <2>3, <2>2, <2>4, <2>5, <2>6 DEF InRange
<1> QED BY <1>1, BalancesInvariant, PTL

-----------------------------------------------------------------------------
(* The debtor's line and the creditor's                                    *)

\* The slope of valid thresholds is a negative integer or zero.
LEMMA SlopeFalls ==
    ASSUME NEW t \in Terms, CheckPaymentThresholds(t)
    PROVE  SlopeOf(t) \in Int /\ SlopeOf(t) <= 0
<1>1. t.debt \in Nat /\ t.permanent \in Nat /\ t.interval \in Nat /\ t.interval > 0
  BY TermsAssumption
<1>2. (t.debt - t.permanent) * Gwei \in Nat
  BY <1>1, WordAssumption, SMTT(30) DEF CheckPaymentThresholds
<1>3. ASSUME NEW k \in Nat, NEW d \in Nat, d > 0
      PROVE  k \div d \in Int /\ k \div d >= 0
  <2>1. k \div d \in Int /\ k % d \in Int /\ k % d < d /\ k = (k \div d) * d + (k % d)
    BY <1>3, SMTT(30)
  <2>2. ASSUME k \div d < 0 PROVE FALSE
    <3>1. (k \div d) * d \in Int /\ (k \div d) * d <= -d
      BY <2>1, <2>2, <1>3, SMTT(30)
    <3> QED BY <3>1, <2>1, <1>3
  <2> QED BY <2>1, <2>2
<1> QED BY <1>1, <1>2, <1>3 DEF SlopeOf

\* Casting an i64 to i64 changes nothing.
LEMMA CastKeeps ==
    ASSUME NEW n \in Int, InWord(n)
    PROVE  Cast(n) = n
<1>1. Half \in Int /\ Half > 0 /\ 0 <= n + Half /\ n + Half < 2 * Half
  BY WordAssumption DEF InWord
<1> DEFINE m == n + Half
           w == 2 * Half
<1>2. m \in Int /\ w \in Int /\ w > 0 /\ 0 <= m /\ m < w
  BY <1>1
<1>3. m % w = m
  <2> HIDE DEF m, w
  <2> DEFINE q == m \div w
             r == m % w
  <2>1. q \in Int /\ r \in Int /\ 0 <= r /\ r < w /\ m = q * w + r
    BY <1>2, SMTT(30)
  <2>2. q * w \in Int
    BY <1>2, <2>1, SMTT(30)
  <2> HIDE DEF q, r
  <2>3. ASSUME q > 0 PROVE FALSE
    <3>1. q * w >= w
      BY <1>2, <2>1, <2>3, SMTT(30)
    <3> QED BY <3>1, <1>2, <2>1, <2>2
  <2>4. ASSUME q < 0 PROVE FALSE
    <3>1. q * w <= -w
      BY <1>2, <2>1, <2>4, SMTT(30)
    <3> QED BY <3>1, <1>2, <2>1, <2>2
  <2>5. q = 0
    BY <2>1, <2>3, <2>4
  <2>6. m = r
    BY <1>2, <2>1, <2>5
  <2> QED BY <2>6 DEF r
<1> QED BY <1>1, <1>3 DEF Cast

\* With a permanent debt that fits the lower column, the clause on it is
\* what it means to be.
LEMMA PermanentClause ==
    ASSUME NEW n \in Int, NEW t \in Terms, t.permanent * Gwei < Half,
           BeyondPermanentDebt(t, Deconstruct(n))
    PROVE  n > t.permanent * Gwei
<1>1. t.permanent * Gwei \in Nat
  BY TermsAssumption, WordAssumption, SMTT(30)
<1>2. Deconstruct(t.permanent * Gwei) = [high |-> 0, low |-> t.permanent * Gwei]
  <2> DEFINE p == t.permanent * Gwei
  <2>1. p \in Int /\ 0 \in Int /\ 0 <= p /\ p < Half /\ 0 * Half + p = p
    BY <1>1, WordAssumption
  <2> HIDE DEF p
  <2>2. Deconstruct(p) = [high |-> 0, low |-> p]
    BY <2>1, DividedIsUnique
  <2> QED BY <2>2 DEF p
<1>3. Greater(Deconstruct(n), Deconstruct(t.permanent * Gwei))
  BY <1>2 DEF BeyondPermanentDebt, Greater
<1> QED BY <1>1, <1>3, ComparesNumbers

\* The debtor's line lies below the creditor's of a grace period later.
LEMMA LineIsLower ==
    ASSUME NEW t \in Terms, CheckPaymentThresholds(t), InWord(SlopeOf(t)),
           NEW n \in Int, NEW g \in Int,
           n > t.permanent * Gwei,
           Greater(Deconstruct(n), SlopeDrop(t, g)),
           NEW a \in Int, g - t.grace <= a
    PROVE  n > FiniteDebtLimit(t, a)
<1> DEFINE m == SlopeOf(t)
           d == t.debt * Gwei
           x == g - t.maturity - t.grace
           y == a - t.maturity
<1>1. t.debt \in Nat /\ t.maturity \in Nat /\ t.grace \in Nat /\ Gwei \in Nat
  BY TermsAssumption, WordAssumption
<1>2. m \in Int /\ m <= 0 /\ Cast(m) = m
  BY SlopeFalls, CastKeeps
<1>3. d \in Int /\ x \in Int /\ y \in Int /\ x <= y
  BY <1>1, SMTT(30)
<1>4. SlopeDrop(t, g) = Deconstruct(d + m * x)
  BY <1>2 DEF SlopeDrop
<1>5. SlopeOf(t) * a + (t.debt * Gwei - t.maturity * SlopeOf(t)) = d + m * y
  <2>1. m * a - t.maturity * m = m * y /\ m * a \in Int /\ t.maturity * m \in Int
    BY <1>1, <1>2, SMTT(30)
  <2>2. m * a + (d - t.maturity * m) = d + (m * a - t.maturity * m)
    BY <2>1, <1>3
  <2> QED BY <2>1, <2>2
<1> HIDE DEF m, d, x, y
<1>6. m * x \in Int /\ m * y \in Int /\ m * y <= m * x
  BY <1>2, <1>3, SMTT(30)
<1>7. n > d + m * x
  BY <1>3, <1>4, <1>6, ComparesNumbers
<1>8. n > d + m * y
  BY <1>3, <1>6, <1>7
<1> QED BY <1>5, <1>8 DEF FiniteDebtLimit

\* A debtor who pays what its own scan finds due is never banned: whatever
\* the creditor bans for has been due for the whole grace period, under all
\* thresholds the Node accepts whose permanent debt and slope fit a column.
THEOREM DebtsDueBeforeBans == BalancesSpec => []DueBeforeBanned
<1>1. BalancesInv => DueBeforeBanned
  <2>1. SUFFICES ASSUME BalancesInv, ModestTerms(terms), Delinquent(terms, word, elapsed),
                        NEW a \in (elapsed - terms.grace) .. elapsed
                 PROVE  Qualifies(terms, owed, a)
    BY DEF DueBeforeBanned
  <2>2. /\ terms \in Terms /\ CheckPaymentThresholds(terms)
        /\ owed \in Int /\ word = Deconstruct(owed) /\ elapsed \in Nat
    BY <2>1, StorableIsInt, BoundsAssumption DEF BalancesInv
  <2>3. terms.maturity \in Nat /\ terms.grace \in Nat
    BY <2>2, TermsAssumption
  <2>4. a \in Int /\ elapsed - terms.grace <= a
    BY <2>2, <2>3
  <2>5. owed > terms.permanent * Gwei
    BY <2>1, <2>2, PermanentClause DEF ModestTerms, Delinquent
  <2>6. owed > FiniteDebtLimit(terms, a)
    BY <2>1, <2>2, <2>4, <2>5, LineIsLower DEF ModestTerms, Delinquent
  <2>7. a > terms.maturity
    BY <2>1, <2>2, <2>3, <2>4 DEF Delinquent
  <2> QED BY <2>5, <2>6, <2>7 DEF Qualifies
<1> QED BY <1>1, BalancesInvariant, PTL

\* The columns lose nothing and queries made of them mean what they would
\* mean of the balance, whatever is charged and paid in whatever order.
THEOREM ColumnsStayExact == BalancesSpec => []ColumnsAreExact
<1>1. BalanceIsSum /\ ShowsWholeGwei /\ RangeIsExact /\ ReformedIsPaid => ColumnsAreExact
  BY ZenonT(30) DEF ColumnsAreExact
<1> QED BY <1>1, ColumnsAreTheSum, QueriesShowWholeGwei, RangeQueriesAreExact,
           BansLiftedWhenPaid, PTL

-----------------------------------------------------------------------------
(* Configuration: what a handler of the Configurator will have made of the *)
(* table once the statements it has yet to run are run.                    *)

ConfigNames ==
    {"consuming_wallet_private_key", "earning_wallet_address", "start_block",
     "past_neighbors", "min_hops", "example_encrypted"}

ConfigRecords == [value : Nat, under : Passwords \union {NoPassword}]

Statements == ConfigNames \X ConfigRecords

ConfigChanges ==
    [change : {"UpdatePassword", "UpdateMinHops"}, password : Passwords \union {NoPassword},
     hops : Nat]

ConfigTyped ==
    /\ config \in [ConfigNames -> ConfigRecords]
    /\ task \in [op : {"idle", "password", "wallets", "min_hops"},
                 new : Passwords \union {NoPassword}, todo : Seq(Statements)]
    /\ task.op = "idle" => task = NoJob
    /\ mailbox \in Seq(ConfigChanges)
    /\ neighborhood \in [password : Passwords \union {NoPassword}, min_hops : Nat, neighbors : Nat]
    /\ save \in [phase : {"none", "checked"}, password : Passwords \union {NoPassword}, value : Nat]
    /\ head \in Nat /\ scan \in Nat /\ credited \in [1..MaxHead -> Nat]

(* The record that n will have is in V. *)
EndsIn(cf, todo, n, V) ==
    /\ \A i \in 1..Len(todo) : todo[i][1] = n => todo[i][2] \in V
    /\ (\E i \in 1..Len(todo) : todo[i][1] = n) \/ cf[n] \in V

Valued(v)  == {r \in ConfigRecords : r.value = v}
Under(g)  == {r \in ConfigRecords : r.under = g}
Secret(g) == {r \in ConfigRecords : r.value # 0 => r.under = g}

SecretsInv ==
    /\ \E g \in Passwords \union {NoPassword} :
         /\ EndsIn(config, task.todo, "example_encrypted", Under(g))
         /\ \A n \in Encrypted : EndsIn(config, task.todo, n, Secret(g))
    /\ save # NoSave => task = NoJob /\ save.password = DbPassword

WalletsInv ==
    \E w \in Nat : /\ EndsIn(config, task.todo, "consuming_wallet_private_key", Valued(w))
                   /\ EndsIn(config, task.todo, "earning_wallet_address", Valued(w))

CreditInv ==
    LET start == config["start_block"].value
    IN  /\ \A b \in 1..MaxHead : /\ credited[b] <= 1
                                 /\ b >= start \/ b > head => credited[b] = 0
        /\ EndsIn(config, task.todo, "start_block", Valued(start))
        /\ scan # 0 => scan = start /\ task = NoJob

(* Among the messages q, the last that is in S is in G; b says whether the *)
(* present state will do if there is none.                                 *)
Latest(q, S, G, b) ==
    \/ \E i \in 1..Len(q) : q[i] \in G /\ \A j \in (i + 1)..Len(q) : q[j] \notin S
    \/ (\A i \in 1..Len(q) : q[i] \notin S) /\ b

Updates(change)    == {m \in ConfigChanges : m.change = change}
PasswordUpdates(g) == {m \in Updates("UpdatePassword") : m.password = g}
HopsUpdates(h)     == {m \in Updates("UpdateMinHops") : m.hops = h}

PasswordKnown(q, nb, g) ==
    Latest(q, Updates("UpdatePassword"), PasswordUpdates(g), nb.password = g)
HopsKnown(q, nb, h) ==
    Latest(q, Updates("UpdateMinHops"), HopsUpdates(h), nb.min_hops = h)

(* The order of the statements of a change: the example comes last. *)
ExampleLast(todo, new) ==
    /\ Len(todo) > 0 /\ todo[Len(todo)] = <<"example_encrypted", Value(1, new)>>
    /\ \A i \in 1..(Len(todo) - 1) : todo[i][1] # "example_encrypted"

(* The Neighborhood knows the password and the hops of the table, or will  *)
(* when it has read its mail, or the handler has still to send the news.   *)
PasswordNews ==
    PasswordKnown(mailbox, neighborhood, DbPassword) \/ (task.op = "password" /\ task.todo = <<>>)
HopsNews ==
    \/ HopsKnown(mailbox, neighborhood, config["min_hops"].value)
    \/ task.op = "min_hops" /\ task.todo = <<>>

(* Which handler writes the example and which the hops, and when. *)
TodoInOrder ==
    /\ task.op = "password" => \/ task.todo = <<>> /\ task.new = DbPassword
                               \/ ExampleLast(task.todo, task.new)
    /\ task.op # "password" => \A i \in 1..Len(task.todo) : task.todo[i][1] # "example_encrypted"
    /\ task.op = "min_hops" => Len(task.todo) <= 1
    /\ task.op # "min_hops" =>
         EndsIn(config, task.todo, "min_hops", Valued(config["min_hops"].value))

KnownInv == PasswordNews /\ HopsNews /\ TodoInOrder

ConfigInv ==
    /\ ConfigTyped
    /\ clime \intersect {"neighbors", "crash", "locked"} = {} => SecretsInv
    /\ clime \intersect {"crash", "locked"} = {} => WalletsInv
    /\ "scan" \notin clime => CreditInv
    /\ KnownInv

(* One statement is run. *)
LEMMA EndsInStep ==
  ASSUME NEW cf \in [ConfigNames -> ConfigRecords], NEW todo \in Seq(Statements), todo # <<>>,
         NEW n \in ConfigNames, NEW V, EndsIn(cf, todo, n, V)
  PROVE  EndsIn([cf EXCEPT ![Head(todo)[1]] = Head(todo)[2]], Tail(todo), n, V)
<1> DEFINE t  == Tail(todo)
           cg == [cf EXCEPT ![Head(todo)[1]] = Head(todo)[2]]
<1>1. /\ todo[1] \in Statements /\ Head(todo) = todo[1] /\ Len(t) = Len(todo) - 1
      /\ Len(todo) \in Nat /\ Len(todo) > 0
      /\ \A i \in 1..Len(t) : i + 1 \in 1..Len(todo) /\ t[i] = todo[i + 1]
  OBVIOUS
<1>2. todo[1][1] \in ConfigNames
  BY <1>1 DEF Statements
<1>3. cg[n] = IF n = todo[1][1] THEN todo[1][2] ELSE cf[n]
  BY <1>1, <1>2
<1> HIDE DEF t, cg
<1>4. \A i \in 1..Len(t) : t[i][1] = n => t[i][2] \in V
  BY <1>1 DEF EndsIn
<1>5. (\E i \in 1..Len(t) : t[i][1] = n) \/ cg[n] \in V
  <2>1. CASE n = todo[1][1]
    BY <1>1, <1>3, <2>1 DEF EndsIn
  <2>2. ASSUME n # todo[1][1], NEW i \in 1..Len(todo), todo[i][1] = n
        PROVE  \E k \in 1..Len(t) : t[k][1] = n
    <3>1. i - 1 \in 1..Len(t) /\ (i - 1) + 1 = i
      BY <1>1, <2>2
    <3> QED BY Zenon, <1>1, <2>2, <3>1
  <2> QED BY <1>3, <2>1, <2>2 DEF EndsIn
<1> QED BY <1>4, <1>5 DEF EndsIn, t, cg

LEMMA EndsInDone ==
  ASSUME NEW cf, NEW n, NEW V
  PROVE  EndsIn(cf, <<>>, n, V) <=> cf[n] \in V
BY DEF EndsIn

LEMMA EndsInNow ==
  ASSUME NEW cf, NEW todo, todo = <<>>, NEW n, NEW V, cf[n] \in V
  PROVE  EndsIn(cf, todo, n, V)
BY DEF EndsIn

(* The statements of a change of the password. *)
LEMMA NamesFive ==
  /\ Len(Names) = 5 /\ \A i \in 1..5 : Names[i] \in ConfigNames \ {"example_encrypted"}
  /\ \A n \in ConfigNames \ {"example_encrypted"} : \E i \in 1..5 : Names[i] = n
  /\ {Names[i] : i \in 1..Len(Names)} \union {"example_encrypted"} = ConfigNames
<1>1. Len(Names) = 5 /\ Names[1] = "consuming_wallet_private_key" /\ Names[2] = "earning_wallet_address"
      /\ Names[3] = "start_block" /\ Names[4] = "past_neighbors" /\ Names[5] = "min_hops"
  BY DEF Names
<1>2. 1..5 = {1, 2, 3, 4, 5}
  OBVIOUS
<1>3. \A i \in 1..5 : Names[i] \in ConfigNames \ {"example_encrypted"}
  BY <1>1, <1>2 DEF ConfigNames
<1>4. \A n \in ConfigNames \ {"example_encrypted"} : \E i \in 1..5 : Names[i] = n
  BY <1>1, <1>2 DEF ConfigNames
<1>5. "example_encrypted" \in ConfigNames
  BY DEF ConfigNames
<1> QED BY <1>1, <1>3, <1>4, <1>5

LEMMA ReencryptedRecord ==
  ASSUME config \in [ConfigNames -> ConfigRecords], NEW n \in ConfigNames, NEW new \in Passwords
  PROVE  /\ Reencrypted(n, new) \in ConfigRecords
         /\ Reencrypted(n, new).value = config[n].value
         /\ n \in Encrypted => Reencrypted(n, new) \in Secret(new)
BY DEF Reencrypted, ConfigRecords, Secret, Value

LEMMA AppendedOne ==
  ASSUME NEW M, NEW q \in Seq(M), NEW m \in M
  PROVE  /\ Append(q, m) \in Seq(M) /\ Len(Append(q, m)) = Len(q) + 1
         /\ \A i \in 1..Len(q) : Append(q, m)[i] = q[i]
         /\ Append(q, m)[Len(q) + 1] = m
OBVIOUS

LEMMA Joined ==
  ASSUME NEW M, NEW q \in Seq(M), NEW m \in M
  PROVE  q \o <<m>> = Append(q, m) /\ q \o << >> = q
OBVIOUS

LEMMA FewPlaces == (\A i \in 1..1 : i = 1) /\ (\A i \in 1..2 : i = 1 \/ i = 2)
OBVIOUS

LEMMA NoPlaces == \A i \in 1..Len(<<>>) : FALSE
OBVIOUS

LEMMA FirstPlace ==
  ASSUME NEW S, NEW q \in Seq(S), q # <<>>
  PROVE  1 \in 1..Len(q)
OBVIOUS

LEMMA RecordsWritten ==
  ASSUME NEW v \in Nat, NEW g \in Passwords \union {NoPassword}
  PROVE  /\ Value(v, g) \in ConfigRecords /\ Value(v, g) \in Valued(v)
         /\ Value(v, g).value = v /\ Value(v, g).under = g
BY DEF Value, Valued, ConfigRecords

LEMMA IdleTyped ==
  /\ NoJob \in [op : {"idle", "password", "wallets", "min_hops"},
                new : Passwords \union {NoPassword}, todo : Seq(Statements)]
  /\ NoSave \in [phase : {"none", "checked"}, password : Passwords \union {NoPassword}, value : Nat]
  /\ [password |-> NoPassword, min_hops |-> 1, neighbors |-> 0]
       \in [password : Passwords \union {NoPassword}, min_hops : Nat, neighbors : Nat]
  /\ << >> \in Seq(ConfigChanges) /\ 0 \in Nat
  /\ [b \in 1..MaxHead |-> 0] \in [1..MaxHead -> Nat]
BY DEF NoJob, NoSave

LEMMA ChangeTodoForm ==
  ASSUME config \in [ConfigNames -> ConfigRecords], NEW new \in Passwords
  PROVE  /\ ChangeTodo(new) \in Seq(Statements) /\ Len(ChangeTodo(new)) = 6
         /\ \A i \in 1..5 : ChangeTodo(new)[i] = <<Names[i], Reencrypted(Names[i], new)>>
         /\ ChangeTodo(new)[6] = <<"example_encrypted", Value(1, new)>>
<1> DEFINE s == [i \in 1..Len(Names) |-> <<Names[i], Reencrypted(Names[i], new)>>]
           x == <<"example_encrypted", Value(1, new)>>
<1>1. \A i \in 1..5 : <<Names[i], Reencrypted(Names[i], new)>> \in Statements
  BY NamesFive, ReencryptedRecord DEF Statements
<1>2. s \in Seq(Statements) /\ Len(s) = 5 /\ \A i \in 1..5 : s[i] = <<Names[i], Reencrypted(Names[i], new)>>
  BY <1>1, NamesFive
<1>3. x \in Statements
  BY DEF Statements, Value, ConfigNames, ConfigRecords
<1>4. ChangeTodo(new) = s \o <<x>>
  BY DEF ChangeTodo
<1> HIDE DEF s, x
<1>5. s \o <<x>> = Append(s, x)
  BY <1>2, <1>3
<1>6. /\ Append(s, x) \in Seq(Statements) /\ Len(Append(s, x)) = 6
      /\ \A i \in 1..5 : Append(s, x)[i] = s[i]
      /\ Append(s, x)[6] = x
  <2>1. s \in Seq(Statements) /\ Len(s) = 5
    BY <1>2
  <2>2. /\ Append(s, x) \in Seq(Statements) /\ Len(Append(s, x)) = Len(s) + 1
        /\ \A i \in 1..Len(s) : Append(s, x)[i] = s[i]
        /\ Append(s, x)[Len(s) + 1] = x
    BY ZenonT(30), <1>3, <2>1, AppendedOne
  <2> QED BY <2>1, <2>2
<1> QED BY <1>2, <1>4, <1>5, <1>6 DEF x

LEMMA ChangeEnds ==
  ASSUME config \in [ConfigNames -> ConfigRecords], NEW new \in Passwords,
         NEW todo, todo = ChangeTodo(new)
  PROVE  /\ EndsIn(config, todo, "example_encrypted", Under(new))
         /\ \A n \in Encrypted : EndsIn(config, todo, n, Secret(new))
         /\ \A n \in ConfigNames \ {"example_encrypted"} :
              EndsIn(config, todo, n, Valued(config[n].value))
         /\ ExampleLast(todo, new)
<1>1. /\ todo \in Seq(Statements) /\ Len(todo) = 6
      /\ \A i \in 1..5 : todo[i][1] = Names[i] /\ todo[i][2] = Reencrypted(Names[i], new)
      /\ todo[6] = <<"example_encrypted", Value(1, new)>>
  BY ChangeTodoForm
<1>2. todo[6][1] = "example_encrypted" /\ todo[6][2] = Value(1, new)
  BY <1>1
<1>3. \A i \in 1..6 : i \in 1..5 \/ i = 6
  OBVIOUS
<1>4. \A i \in 1..5 : todo[i][1] \in ConfigNames \ {"example_encrypted"}
  BY <1>1, NamesFive
<1>5. Value(1, new) \in Under(new)
  BY DEF Value, Under, ConfigRecords
<1>6. EndsIn(config, todo, "example_encrypted", Under(new))
  BY <1>1, <1>2, <1>3, <1>4, <1>5 DEF EndsIn
<1>7. ASSUME NEW n \in ConfigNames \ {"example_encrypted"}, NEW V, Reencrypted(n, new) \in V
      PROVE  EndsIn(config, todo, n, V)
  <2>1. \A i \in 1..Len(todo) : todo[i][1] = n => todo[i][2] \in V
    BY <1>1, <1>2, <1>3, <1>7
  <2>2. \E i \in 1..Len(todo) : todo[i][1] = n
    BY <1>1, NamesFive
  <2> QED BY <2>1, <2>2 DEF EndsIn
<1>8. \A n \in Encrypted : n \in ConfigNames \ {"example_encrypted"}
  BY DEF Encrypted, ConfigNames
<1>9. \A n \in ConfigNames \ {"example_encrypted"} : Reencrypted(n, new) \in Valued(config[n].value)
  BY ReencryptedRecord DEF Valued
<1>10. \A n \in Encrypted : Reencrypted(n, new) \in Secret(new)
  BY <1>8, ReencryptedRecord
<1>11. ExampleLast(todo, new)
  BY <1>1, <1>4 DEF ExampleLast
<1> QED BY <1>6, <1>7, <1>8, <1>9, <1>10, <1>11

(* The statements of the other two handlers. *)
LEMMA WalletsTodoForm ==
  ASSUME NEW v \in Nat, NEW password \in Passwords, NEW todo, todo = WalletsTodo(v, password)
  PROVE  /\ todo \in Seq(Statements) /\ Len(todo) = 2
         /\ todo[1][1] = "consuming_wallet_private_key" /\ todo[1][2] = Value(v, password)
         /\ todo[2][1] = "earning_wallet_address" /\ todo[2][2] = Value(v, NoPassword)
         /\ Value(v, password) \in Valued(v) /\ Value(v, NoPassword) \in Valued(v)
         /\ Value(v, password) \in Secret(password)
<1>1. Value(v, password) \in ConfigRecords /\ Value(v, NoPassword) \in ConfigRecords
  BY DEF Value, ConfigRecords
<1>2. /\ Value(v, password).value = v /\ Value(v, NoPassword).value = v
      /\ Value(v, password).under = password
  BY DEF Value
<1>3. /\ <<"consuming_wallet_private_key", Value(v, password)>> \in Statements
      /\ <<"earning_wallet_address", Value(v, NoPassword)>> \in Statements
  BY <1>1 DEF Statements, ConfigNames
<1>4. todo \in Seq(Statements) /\ Len(todo) = 2
      /\ todo[1] = <<"consuming_wallet_private_key", Value(v, password)>>
      /\ todo[2] = <<"earning_wallet_address", Value(v, NoPassword)>>
  BY <1>3 DEF WalletsTodo
<1> QED BY <1>1, <1>2, <1>4 DEF Valued, Secret

LEMMA HopsTodoForm ==
  ASSUME NEW h \in Nat, NEW todo, todo = << <<"min_hops", Value(h, NoPassword)>> >>
  PROVE  todo \in Seq(Statements) /\ Len(todo) = 1 /\ todo[1][1] = "min_hops"
<1>1. <<"min_hops", Value(h, NoPassword)>> \in Statements
  BY DEF Statements, ConfigNames, ConfigRecords, Value
<1> QED BY <1>1

(* A record that no statement is about. *)
LEMMA EndsInOther ==
  ASSUME NEW cf, NEW todo, NEW n, NEW V, \A i \in 1..Len(todo) : todo[i][1] # n
  PROVE  EndsIn(cf, todo, n, V) <=> cf[n] \in V
BY DEF EndsIn

(* How a request begins. *)
Begins ==
    /\ task = NoJob /\ Undisturbed
    /\ UNCHANGED <<clime, config, mailbox, neighborhood, save, head, credited, scan>>

LEMMA BeginForms ==
  ASSUME NEW op, NEW new, NEW todo, Begin(op, new, todo)
  PROVE  /\ Begins /\ task' = [op |-> op, new |-> new, todo |-> todo]
         /\ task'.op = op /\ task'.new = new /\ task'.todo = todo
BY DEF Begin, Begins

BeginsChange(new) ==
    Begin("password", new, ChangeTodo(new))
BeginsWallets(v, password) ==
    /\ CheckPassword(password) /\ WalletsFit(v, password)
    /\ Begin("wallets", NoPassword, WalletsTodo(v, password))

LEMMA ConfigSteps ==
  ASSUME [ConfigNext]_configVars
  PROVE  \/ \E new \in Passwords : BeginsChange(new)
         \/ \E v \in 1..2, password \in Passwords : BeginsWallets(v, password)
         \/ \E hops \in 1..2 : SetMinHops(hops)
         \/ Refuse \/ RunStatement \/ Finish \/ StatementFails \/ HandleConfigChangeMsg
         \/ CuratePastNeighbors \/ SetPastNeighbors \/ SetPastNeighborsFails
         \/ NewBlock \/ BeginScan \/ HandleNewReceivedPayments
         \/ CrashInJob \/ ChangePasswordPanics \/ UNCHANGED configVars
<1>1. ASSUME NEW old, NEW new \in Passwords, ChangePassword(old, new)
      PROVE  BeginsChange(new) \/ Refuse
  BY <1>1 DEF ChangePassword, BeginsChange
<1>2. ASSUME NEW v, NEW password, SetWallets(v, password)
      PROVE  BeginsWallets(v, password) \/ Refuse
  BY ZenonT(30), <1>2 DEF SetWallets, BeginsWallets
<1> QED BY <1>1, <1>2 DEF ConfigNext, ConfigStep

(* A request that begins, whichever it is. *)
LEMMA RequestBegins ==
  ASSUME ConfigTyped,
         \/ \E new \in Passwords : BeginsChange(new)
         \/ \E v \in 1..2, password \in Passwords : BeginsWallets(v, password)
         \/ \E hops \in 1..2 : SetMinHops(hops)
  PROVE  /\ Begins /\ task'.op # "idle" /\ task'.todo \in Seq(Statements)
         /\ task' \in [op : {"password", "wallets", "min_hops"},
                       new : Passwords \union {NoPassword}, todo : Seq(Statements)]
<1>1. ASSUME NEW new \in Passwords, BeginsChange(new)
      PROVE  Begins /\ task' = [op |-> "password", new |-> new, todo |-> ChangeTodo(new)]
             /\ ChangeTodo(new) \in Seq(Statements)
  BY ZenonT(30), <1>1, BeginForms, ChangeTodoForm DEF BeginsChange, ConfigTyped
<1>2. ASSUME NEW v \in 1..2, NEW password \in Passwords, BeginsWallets(v, password)
      PROVE  Begins /\ task' = [op |-> "wallets", new |-> NoPassword, todo |-> WalletsTodo(v, password)]
             /\ WalletsTodo(v, password) \in Seq(Statements)
  <2>1. v \in Nat
    BY SMTT(30)
  <2> QED BY <1>2, <2>1, BeginForms, WalletsTodoForm DEF BeginsWallets
<1>3. ASSUME NEW hops \in 1..2, SetMinHops(hops)
      PROVE  Begins /\ \E todo \in Seq(Statements) :
                         task' = [op |-> "min_hops", new |-> NoPassword, todo |-> todo]
  <2> DEFINE todo == << <<"min_hops", Value(hops, NoPassword)>> >>
  <2>1. hops \in Nat /\ Begin("min_hops", NoPassword, todo)
    BY <1>3 DEF SetMinHops
  <2>2. todo \in Seq(Statements)
    BY <2>1, HopsTodoForm
  <2> HIDE DEF todo
  <2> QED BY <2>1, <2>2, BeginForms
<1> QED BY SMTT(30), <1>1, <1>2, <1>3

LEMMA TaskParts ==
  ASSUME ConfigTyped
  PROVE  /\ task.todo \in Seq(Statements)
         /\ task = NoJob => task.todo = <<>> /\ task.op = "idle"
         /\ task.todo # <<>> => task # NoJob
         /\ NoJob.todo = <<>> /\ NoJob.op = "idle"
BY DEF ConfigTyped, NoJob

(* What a statement does to the table and to the rest of the handler. *)
LEMMA StatementRun ==
  ASSUME ConfigTyped, RunStatement
  PROVE  /\ task.todo # <<>> /\ task # NoJob /\ task.todo \in Seq(Statements)
         /\ config' = [config EXCEPT ![Head(task.todo)[1]] = Head(task.todo)[2]]
         /\ config' \in [ConfigNames -> ConfigRecords]
         /\ task'.todo = Tail(task.todo) /\ task'.op = task.op /\ task'.new = task.new
         /\ task' \in [op : {"password", "wallets", "min_hops"},
                       new : Passwords \union {NoPassword}, todo : Seq(Statements)]
         /\ Head(task.todo) = task.todo[1] /\ task.todo[1][1] \in ConfigNames
         /\ UNCHANGED <<clime, mailbox, neighborhood, save, head, credited, scan>>
<1>1. /\ task.todo # <<>> /\ task # NoJob /\ task.todo \in Seq(Statements) /\ task.op # "idle"
      /\ UNCHANGED <<clime, mailbox, neighborhood, save, head, credited, scan>>
      /\ config' = [config EXCEPT ![Head(task.todo)[1]] = Head(task.todo)[2]]
      /\ task' = [task EXCEPT !.todo = Tail(task.todo)]
  BY TaskParts DEF RunStatement, ConfigTyped
<1>2. Head(task.todo) \in Statements /\ Head(task.todo) = task.todo[1] /\ Tail(task.todo) \in Seq(Statements)
  BY <1>1
<1>3. Head(task.todo)[1] \in ConfigNames /\ Head(task.todo)[2] \in ConfigRecords
  BY <1>2 DEF Statements
<1>4. config' \in [ConfigNames -> ConfigRecords]
  BY <1>1, <1>3 DEF ConfigTyped
<1>5. /\ task'.todo = Tail(task.todo) /\ task'.op = task.op /\ task'.new = task.new
      /\ task' \in [op : {"password", "wallets", "min_hops"},
                    new : Passwords \union {NoPassword}, todo : Seq(Statements)]
  BY Zenon, <1>1, <1>2 DEF ConfigTyped
<1> QED BY <1>1, <1>2, <1>3, <1>4, <1>5

LEMMA NextConfigTyped ==
  ASSUME ConfigTyped, [ConfigNext]_configVars
  PROVE  ConfigTyped'
<1> USE DEF ConfigTyped
<1>0. /\ \A n \in {"past_neighbors", "start_block", "min_hops", "example_encrypted"} : n \in ConfigNames
      /\ NoJob \in [op : {"idle", "password", "wallets", "min_hops"},
                    new : Passwords \union {NoPassword}, todo : Seq(Statements)]
      /\ NoJob.op = "idle"
      /\ NoSave \in [phase : {"none", "checked"}, password : Passwords \union {NoPassword}, value : Nat]
  BY DEF ConfigNames, NoJob, NoSave
<1>1. CASE \/ \E new \in Passwords : BeginsChange(new)
           \/ \E v \in 1..2, password \in Passwords : BeginsWallets(v, password)
           \/ \E hops \in 1..2 : SetMinHops(hops)
  BY ZenonT(30), <1>1, RequestBegins DEF Begins
<1>2. CASE Refuse \/ UNCHANGED configVars
  BY ZenonT(30), <1>2 DEF Refuse, configVars
<1>3. CASE RunStatement
  BY ZenonT(30), <1>3, StatementRun
<1>4. CASE Finish
  <2> DEFINE p == [change |-> "UpdatePassword", password |-> task.new, hops |-> 0]
             n == [change |-> "UpdateMinHops", password |-> NoPassword, hops |-> config["min_hops"].value]
  <2>1. p \in ConfigChanges /\ n \in ConfigChanges
    <3>1. task.new \in Passwords \union {NoPassword} /\ config["min_hops"].value \in Nat
      BY <1>0 DEF ConfigRecords
    <3> QED BY <3>1 DEF ConfigChanges
  <2>2. mailbox \o Change \in Seq(ConfigChanges)
    <3>1. Change \in {<<p>>, <<n>>, <<>>}
      BY DEF Change
    <3> HIDE DEF p, n, ConfigTyped
    <3>2. mailbox \in Seq(ConfigChanges)
      BY DEF ConfigTyped
    <3>3. mailbox \o <<p>> = Append(mailbox, p) /\ mailbox \o <<n>> = Append(mailbox, n)
      BY <2>1, <3>2
    <3>4. mailbox \o <<>> = mailbox
      BY <3>2
    <3>5. Append(mailbox, p) \in Seq(ConfigChanges) /\ Append(mailbox, n) \in Seq(ConfigChanges)
      BY <2>1, <3>2
    <3> QED BY Zenon, <3>1, <3>2, <3>3, <3>4, <3>5
  <2> QED BY SMTT(30), <1>0, <1>4, <2>2 DEF Finish
<1>5. CASE StatementFails
  BY <1>0, <1>5 DEF StatementFails
<1>6. CASE HandleConfigChangeMsg
  <2>1. Head(mailbox) \in ConfigChanges /\ Tail(mailbox) \in Seq(ConfigChanges)
    BY <1>6 DEF HandleConfigChangeMsg
  <2>2. Head(mailbox).password \in Passwords \union {NoPassword} /\ Head(mailbox).hops \in Nat
    BY <2>1 DEF ConfigChanges
  <2> QED BY Zenon, <1>6, <2>1, <2>2 DEF HandleConfigChangeMsg
<1>7. CASE CuratePastNeighbors
  <2> DEFINE k == neighborhood.neighbors + 1
             g == neighborhood.password
  <2>1. /\ neighborhood \in [password : Passwords \union {NoPassword}, min_hops : Nat, neighbors : Nat]
        /\ g \in Passwords \union {NoPassword} /\ k \in Nat
    OBVIOUS
  <2>2. /\ neighborhood' = [neighborhood EXCEPT !.neighbors = k]
        /\ save' \in {NoSave, [phase |-> "checked", password |-> g, value |-> k]}
        /\ UNCHANGED <<clime, config, task, mailbox, head, credited, scan>>
    BY <1>7 DEF CuratePastNeighbors
  <2> HIDE DEF k, g
  <2>3. neighborhood' \in [password : Passwords \union {NoPassword}, min_hops : Nat, neighbors : Nat]
    <3> HIDE DEF ConfigTyped
    <3> QED BY <2>1, <2>2
  <2>4. save' \in [phase : {"none", "checked"}, password : Passwords \union {NoPassword}, value : Nat]
    <3> HIDE DEF ConfigTyped
    <3> QED BY SMTT(30), <1>0, <2>1, <2>2
  <2> QED BY <2>2, <2>3, <2>4
<1>8. CASE SetPastNeighbors
  <2>1. Value(save.value, save.password) \in ConfigRecords
    BY DEF Value, ConfigRecords
  <2> QED BY <1>0, <1>8, <2>1 DEF SetPastNeighbors
<1>9. CASE SetPastNeighborsFails \/ NewBlock
  BY SMTT(30), <1>0, <1>9 DEF SetPastNeighborsFails, NewBlock
<1>10. CASE BeginScan
  <2>1. config["start_block"].value \in Nat
    BY ZenonT(30), <1>0 DEF ConfigRecords
  <2> QED BY <1>10, <2>1 DEF BeginScan
<1>11. CASE HandleNewReceivedPayments
  <2>1. Value(StartBlockAfter(head), NoPassword) \in ConfigRecords
    BY DEF Value, ConfigRecords, StartBlockAfter
  <2> QED BY <1>0, <1>11, <2>1 DEF HandleNewReceivedPayments
<1>12. CASE CrashInJob \/ ChangePasswordPanics
  <2>1. DbPassword \in Passwords \union {NoPassword} /\ config["min_hops"].value \in Nat
    BY <1>0 DEF DbPassword, ConfigRecords
  <2>2. [neighborhood EXCEPT !.password = DbPassword, !.min_hops = config["min_hops"].value] \in
          [password : Passwords \union {NoPassword}, min_hops : Nat, neighbors : Nat]
    BY Zenon, <2>1
  <2>3. <<>> \in Seq(ConfigChanges) /\ 0 \in Nat
    OBVIOUS
  <2> QED BY Zenon, <1>0, <1>12, <2>2, <2>3 DEF CrashInJob, ChangePasswordPanics, StartAgain
<1> QED BY Zenon, <1>1, <1>2, <1>3, <1>4, <1>5, <1>6, <1>7, <1>8, <1>9, <1>10, <1>11, <1>12, ConfigSteps

LEMMA ClimeFixed ==
  ASSUME [ConfigNext]_configVars
  PROVE  clime' = clime
BY ConfigSteps DEF BeginsChange, BeginsWallets, SetMinHops, Begin, Refuse, RunStatement, Finish,
   StatementFails, HandleConfigChangeMsg, CuratePastNeighbors, SetPastNeighbors,
   SetPastNeighborsFails, NewBlock, BeginScan, HandleNewReceivedPayments, CrashInJob,
   ChangePasswordPanics, StartAgain, configVars

-----------------------------------------------------------------------------
(* Wallets and secrets                                                     *)

LEMMA EndsInKept ==
  ASSUME NEW cf, NEW cg, NEW todo, NEW n, NEW V, cg[n] = cf[n], EndsIn(cf, todo, n, V)
  PROVE  EndsIn(cg, todo, n, V)
BY DEF EndsIn

(* Steps that leave the statements to run as they are, or there are none. *)
LEMMA TodoKept ==
  ASSUME ConfigTyped,
         \/ Refuse \/ Finish \/ HandleConfigChangeMsg \/ CuratePastNeighbors \/ SetPastNeighbors
         \/ SetPastNeighborsFails \/ NewBlock \/ BeginScan \/ HandleNewReceivedPayments
         \/ ChangePasswordPanics \/ UNCHANGED configVars
  PROVE  task'.todo = task.todo
BY TaskParts DEF Refuse, Finish, HandleConfigChangeMsg, CuratePastNeighbors, SetPastNeighbors,
   SetPastNeighborsFails, NewBlock, BeginScan, HandleNewReceivedPayments, ChangePasswordPanics,
   StartAgain, configVars

LEMMA TableKept ==
  ASSUME ConfigTyped,
         \/ Refuse \/ Finish \/ HandleConfigChangeMsg \/ CuratePastNeighbors \/ SetPastNeighbors
         \/ SetPastNeighborsFails \/ NewBlock \/ BeginScan \/ HandleNewReceivedPayments
         \/ ChangePasswordPanics \/ UNCHANGED configVars
  PROVE  /\ \A n \in ConfigNames : n # "past_neighbors" /\ n # "start_block" => config'[n] = config[n]
         /\ ~SetPastNeighbors => config'["past_neighbors"] = config["past_neighbors"]
         /\ ~HandleNewReceivedPayments => config'["start_block"] = config["start_block"]
<1>0. "past_neighbors" \in ConfigNames /\ "start_block" \in ConfigNames
  BY DEF ConfigNames
<1>1. CASE SetPastNeighbors
  BY ZenonT(30), <1>0, <1>1 DEF SetPastNeighbors, ConfigTyped
<1>2. CASE HandleNewReceivedPayments
  BY <1>0, <1>2 DEF HandleNewReceivedPayments, ConfigTyped
<1>3. CASE ~SetPastNeighbors /\ ~HandleNewReceivedPayments
  BY <1>3 DEF Refuse, Finish, HandleConfigChangeMsg, CuratePastNeighbors, SetPastNeighborsFails,
     NewBlock, BeginScan, ChangePasswordPanics, StartAgain, configVars
<1> QED BY <1>1, <1>2, <1>3

LEMMA StatementEnds ==
  ASSUME ConfigTyped, RunStatement, NEW n \in ConfigNames, NEW V, EndsIn(config, task.todo, n, V)
  PROVE  EndsIn(config', task'.todo, n, V)
<1> DEFINE todo == task.todo
           cf   == config
<1>1. /\ todo \in Seq(Statements) /\ todo # <<>> /\ cf \in [ConfigNames -> ConfigRecords]
      /\ EndsIn(cf, todo, n, V)
      /\ config' = [cf EXCEPT ![Head(todo)[1]] = Head(todo)[2]] /\ task'.todo = Tail(todo)
  BY StatementRun DEF ConfigTyped
<1> HIDE DEF todo, cf
<1>2. EndsIn([cf EXCEPT ![Head(todo)[1]] = Head(todo)[2]], Tail(todo), n, V)
  BY Zenon, <1>1, EndsInStep
<1> QED BY ZenonT(30), <1>1, <1>2

LEMMA NextWallets ==
  ASSUME ConfigTyped, [ConfigNext]_configVars, clime \intersect {"crash", "locked"} = {}, WalletsInv
  PROVE  WalletsInv'
<1> DEFINE Pair == {"consuming_wallet_private_key", "earning_wallet_address"}
<1>0. Pair \subseteq ConfigNames \ {"example_encrypted", "past_neighbors", "start_block", "min_hops"}
  BY DEF ConfigNames
<1>1. PICK w \in Nat : \A n \in Pair : EndsIn(config, task.todo, n, Valued(w))
  BY ZenonT(30) DEF WalletsInv
<1>2. ASSUME NEW x \in Nat, \A n \in Pair : EndsIn(config', task'.todo, n, Valued(x))
      PROVE  WalletsInv'
  BY <1>2 DEF WalletsInv
<1>3. task = NoJob => \A n \in Pair : config[n] \in Valued(w)
  BY <1>1, EndsInDone, TaskParts
<1> HIDE DEF Pair
<1>4. ASSUME NEW new \in Passwords, BeginsChange(new) PROVE WalletsInv'
  <2>1. task = NoJob /\ config' = config /\ task'.todo = ChangeTodo(new)
    BY <1>4, BeginForms DEF BeginsChange, Begins
  <2>2. \A n \in Pair : EndsIn(config, task'.todo, n, Valued(config[n].value))
    BY ZenonT(30), <1>0, <2>1, ChangeEnds DEF ConfigTyped
  <2>3. \A n \in Pair : config[n].value = w
    BY <1>3, <2>1 DEF Valued
  <2> QED BY <1>2, <2>1, <2>2, <2>3
<1>5. ASSUME NEW v \in 1..2, NEW password \in Passwords, BeginsWallets(v, password) PROVE WalletsInv'
  <2> DEFINE todo == task'.todo
  <2>1. v \in Nat /\ todo = WalletsTodo(v, password)
    BY <1>5, BeginForms DEF BeginsWallets
  <2> HIDE DEF todo
  <2>2. /\ Len(todo) = 2
        /\ todo[1][1] = "consuming_wallet_private_key" /\ todo[1][2] = Value(v, password)
        /\ todo[2][1] = "earning_wallet_address" /\ todo[2][2] = Value(v, NoPassword)
        /\ Value(v, password) \in Valued(v) /\ Value(v, NoPassword) \in Valued(v)
    BY <2>1, WalletsTodoForm
  <2>3. \A i \in 1..Len(todo) : i = 1 \/ i = 2
    BY SMTT(30), <2>2
  <2>4. \A n \in Pair : EndsIn(config', todo, n, Valued(v))
    BY <2>2, <2>3 DEF EndsIn, Pair
  <2> QED BY <1>2, <2>1, <2>4 DEF todo
<1>6. ASSUME NEW hops \in 1..2, SetMinHops(hops) PROVE WalletsInv'
  <2> DEFINE todo == task'.todo
  <2>1. /\ hops \in Nat /\ todo = << <<"min_hops", Value(hops, NoPassword)>> >>
        /\ task = NoJob /\ config' = config
    BY <1>6, BeginForms DEF SetMinHops, Begins
  <2> HIDE DEF todo
  <2>2. \A i \in 1..Len(todo) : todo[i][1] = "min_hops"
    BY <2>1, HopsTodoForm
  <2>3. \A n \in Pair : EndsIn(config', todo, n, Valued(w))
    BY <1>0, <1>3, <2>1, <2>2, EndsInOther
  <2> QED BY <1>2, <2>3 DEF todo
<1>7. CASE RunStatement
  <2>1. \A n \in Pair : EndsIn(config', task'.todo, n, Valued(w))
    BY <1>0, <1>1, <1>7, StatementEnds
  <2> QED BY <1>2, <2>1
<1>8. ~CrashInJob /\ ~StatementFails
  BY ZenonT(30) DEF CrashInJob, StatementFails
<1>9. ASSUME task'.todo = task.todo, \A n \in Pair : config'[n] = config[n] PROVE WalletsInv'
  <2>1. \A n \in Pair : EndsIn(config', task'.todo, n, Valued(w))
    BY <1>1, <1>9, EndsInKept
  <2> QED BY <1>2, <2>1
<1>10. CASE \/ Refuse \/ Finish \/ HandleConfigChangeMsg \/ CuratePastNeighbors \/ SetPastNeighbors
            \/ SetPastNeighborsFails \/ NewBlock \/ BeginScan \/ HandleNewReceivedPayments
            \/ ChangePasswordPanics \/ UNCHANGED configVars
  BY <1>0, <1>9, <1>10, TodoKept, TableKept
<1> QED BY <1>4, <1>5, <1>6, <1>7, <1>8, <1>10, ConfigSteps

LEMMA NextSecrets ==
  ASSUME ConfigTyped, [ConfigNext]_configVars,
         clime \intersect {"neighbors", "crash", "locked"} = {}, SecretsInv
  PROVE  SecretsInv'
<1>0. /\ Encrypted \subseteq ConfigNames \ {"example_encrypted", "start_block", "min_hops"}
      /\ "example_encrypted" \in ConfigNames /\ "past_neighbors" \in ConfigNames
  BY DEF ConfigNames, Encrypted
<1>1. PICK g \in Passwords \union {NoPassword} :
         /\ EndsIn(config, task.todo, "example_encrypted", Under(g))
         /\ \A n \in Encrypted : EndsIn(config, task.todo, n, Secret(g))
  BY ZenonT(30) DEF SecretsInv
<1>2. task = NoJob => DbPassword = g /\ \A n \in Encrypted : config[n] \in Secret(g)
  BY <1>1, EndsInDone, TaskParts DEF Under, DbPassword
<1>3. ASSUME NEW h \in Passwords \union {NoPassword},
             EndsIn(config', task'.todo, "example_encrypted", Under(h)),
             \A n \in Encrypted : EndsIn(config', task'.todo, n, Secret(h)),
             save' # NoSave => task' = NoJob /\ save'.password = DbPassword'
      PROVE  SecretsInv'
  BY <1>3 DEF SecretsInv
<1>4. Begins => config' = config /\ task = NoJob /\ save' = NoSave
  BY ZenonT(30) DEF Begins, Undisturbed
<1>5. ASSUME NEW new \in Passwords, BeginsChange(new) PROVE SecretsInv'
  <2>1. Begins /\ task'.todo = ChangeTodo(new)
    BY <1>5, BeginForms DEF BeginsChange
  <2> QED BY <1>3, <1>4, <2>1, ChangeEnds DEF ConfigTyped
<1>6. ASSUME NEW v \in 1..2, NEW password \in Passwords, BeginsWallets(v, password) PROVE SecretsInv'
  <2> DEFINE todo == task'.todo
  <2>1. v \in Nat /\ todo = WalletsTodo(v, password) /\ Begins /\ password = DbPassword
    BY <1>6, BeginForms DEF BeginsWallets, CheckPassword
  <2> HIDE DEF todo
  <2>2. /\ Len(todo) = 2 /\ todo[1][1] = "consuming_wallet_private_key"
        /\ todo[1][2] \in Secret(password) /\ todo[2][1] = "earning_wallet_address"
    BY <2>1, WalletsTodoForm
  <2>3. \A i \in 1..Len(todo) : i = 1 \/ i = 2
    BY SMTT(30), <2>2
  <2>4. g = password /\ config["example_encrypted"] \in Under(g)
    BY ZenonT(30), <1>1, <1>2, <1>4, <2>1, EndsInDone, TaskParts
  <2>5. EndsIn(config, todo, "example_encrypted", Under(g))
    BY ZenonT(30), <2>2, <2>3, <2>4, EndsInOther
  <2>6. \A n \in Encrypted : EndsIn(config, todo, n, Secret(g))
    BY ZenonT(30), <1>2, <1>4, <2>1, <2>2, <2>3, <2>4 DEF EndsIn, Encrypted
  <2> QED BY <1>3, <1>4, <2>1, <2>5, <2>6 DEF todo
<1>7. ASSUME NEW hops \in 1..2, SetMinHops(hops) PROVE SecretsInv'
  <2> DEFINE todo == task'.todo
  <2>1. hops \in Nat /\ todo = << <<"min_hops", Value(hops, NoPassword)>> >> /\ Begins
    BY <1>7, BeginForms DEF SetMinHops
  <2> HIDE DEF todo
  <2>2. \A i \in 1..Len(todo) : todo[i][1] = "min_hops"
    BY SMTT(30), <2>1, HopsTodoForm
  <2>3. config["example_encrypted"] \in Under(g)
    BY ZenonT(30), <1>1, <1>4, <2>1, EndsInDone, TaskParts
  <2>4. EndsIn(config, todo, "example_encrypted", Under(g))
    BY ZenonT(30), <2>2, <2>3, EndsInOther
  <2>5. \A n \in Encrypted : EndsIn(config, todo, n, Secret(g))
    BY <1>0, <1>2, <1>4, <2>1, <2>2, EndsInOther
  <2> QED BY <1>3, <1>4, <2>1, <2>4, <2>5 DEF todo
<1>8. CASE RunStatement
  <2>1. save' = NoSave
    BY ZenonT(30), <1>8, StatementRun DEF SecretsInv
  <2>2. EndsIn(config', task'.todo, "example_encrypted", Under(g))
    BY ZenonT(30), <1>0, <1>1, <1>8, StatementEnds
  <2>3. \A n \in Encrypted : EndsIn(config', task'.todo, n, Secret(g))
    BY <1>0, <1>1, <1>8, StatementEnds
  <2> QED BY ZenonT(30), <1>3, <2>1, <2>2, <2>3
<1>9. ~CrashInJob /\ ~StatementFails
  BY DEF CrashInJob, StatementFails
<1>10. CASE SetPastNeighbors
  <2>1. /\ save' = NoSave /\ task' = task /\ task = NoJob /\ task.todo = <<>>
        /\ config' = [config EXCEPT !["past_neighbors"] = Value(save.value, save.password)]
        /\ save.password = DbPassword
    BY ZenonT(30), <1>10, TaskParts DEF SetPastNeighbors, SecretsInv
  <2>2. Value(save.value, g) \in Secret(g)
    <3>1. save.value \in Nat
      BY DEF ConfigTyped
    <3> QED BY <3>1 DEF Value, Secret, ConfigRecords
  <2>3. \A n \in Encrypted : config'[n] \in Secret(g)
    BY <1>0, <1>2, <2>1, <2>2 DEF ConfigTyped
  <2>4. config'["example_encrypted"] = config["example_encrypted"]
    BY <1>0, <2>1 DEF ConfigTyped
  <2>5. EndsIn(config', task'.todo, "example_encrypted", Under(g))
    BY Zenon, <1>1, <2>1, <2>4, EndsInKept
  <2>6. \A n \in Encrypted : EndsIn(config', task'.todo, n, Secret(g))
    <3>1. task'.todo = <<>>
      BY <2>1
    <3> QED BY <2>3, <3>1, EndsInNow
  <2> QED BY Zenon, <1>3, <2>1, <2>5, <2>6
<1>11. CASE \/ Refuse \/ Finish \/ HandleConfigChangeMsg \/ CuratePastNeighbors
            \/ SetPastNeighborsFails \/ NewBlock \/ BeginScan \/ HandleNewReceivedPayments
            \/ ChangePasswordPanics \/ UNCHANGED configVars
  <2>1. CASE ~SetPastNeighbors
    <3>1. task'.todo = task.todo /\ config'["example_encrypted"] = config["example_encrypted"]
          /\ \A n \in Encrypted : config'[n] = config[n]
      BY SMTT(30), <1>0, <1>11, <2>1, TodoKept, TableKept
    <3>2. save' # NoSave => task' = NoJob /\ save'.password = DbPassword'
      BY <1>11, <3>1 DEF Refuse, Finish, HandleConfigChangeMsg, CuratePastNeighbors,
         SetPastNeighborsFails, NewBlock, BeginScan, HandleNewReceivedPayments,
         ChangePasswordPanics, StartAgain, configVars, SecretsInv, DbPassword, CheckPassword,
         MayIntrude, NoJob
    <3>3. EndsIn(config', task'.todo, "example_encrypted", Under(g))
      BY ZenonT(30), <1>1, <3>1, EndsInKept
    <3>4. \A n \in Encrypted : EndsIn(config', task'.todo, n, Secret(g))
      BY <1>1, <3>1, EndsInKept
    <3> QED BY <1>3, <3>2, <3>3, <3>4
  <2> QED BY <1>10, <2>1
<1> QED BY <1>5, <1>6, <1>7, <1>8, <1>9, <1>10, <1>11, ConfigSteps

-----------------------------------------------------------------------------
(* Blocks are credited once                                                *)

LEMMA NextCredit ==
  ASSUME ConfigTyped, [ConfigNext]_configVars, "scan" \notin clime, CreditInv
  PROVE  CreditInv'
<1> DEFINE start == config["start_block"].value
<1>0. /\ "start_block" \in ConfigNames \ {"example_encrypted"} /\ "past_neighbors" \in ConfigNames
      /\ start \in Nat /\ head \in Nat /\ scan \in Nat /\ credited \in [1..MaxHead -> Nat]
      /\ config["start_block"] \in ConfigRecords
  BY SMTT(30) DEF ConfigNames, ConfigTyped, ConfigRecords
<1>1. /\ \A b \in 1..MaxHead : credited[b] <= 1 /\ (b >= start \/ b > head => credited[b] = 0)
      /\ EndsIn(config, task.todo, "start_block", Valued(start))
      /\ scan # 0 => scan = start /\ task = NoJob
  BY ZenonT(30) DEF CreditInv
<1>2. ASSUME config'["start_block"].value = start, head' \in {head, head + 1}, credited' = credited,
             EndsIn(config', task'.todo, "start_block", Valued(start)),
             scan' # 0 => scan' = start /\ task' = NoJob
      PROVE  CreditInv'
  <2>1. \A b \in 1..MaxHead : credited'[b] <= 1 /\ (b >= start \/ b > head' => credited'[b] = 0)
    BY <1>0, <1>1, <1>2
  <2> QED BY ZenonT(30), <1>2, <2>1 DEF CreditInv
<1>3. Begins => /\ config' = config /\ head' = head /\ credited' = credited /\ scan' = 0
                /\ config["start_block"] \in Valued(start)
  BY <1>0 DEF Begins, Undisturbed, Valued
<1>4. ASSUME NEW new \in Passwords, BeginsChange(new) PROVE CreditInv'
  <2>1. Begins /\ task'.todo = ChangeTodo(new)
    BY <1>4, BeginForms DEF BeginsChange
  <2>2. EndsIn(config, task'.todo, "start_block", Valued(start))
    BY ZenonT(30), <1>0, <2>1, ChangeEnds DEF ConfigTyped
  <2> QED BY <1>2, <1>3, <2>1, <2>2
<1>5. ASSUME NEW v \in 1..2, NEW password \in Passwords, BeginsWallets(v, password) PROVE CreditInv'
  <2> DEFINE todo == task'.todo
  <2>1. v \in Nat /\ todo = WalletsTodo(v, password) /\ Begins
    BY <1>5, BeginForms DEF BeginsWallets
  <2> HIDE DEF todo
  <2>2. \A i \in 1..Len(todo) : todo[i][1] # "start_block"
    <3>1. Len(todo) = 2 /\ todo[1][1] = "consuming_wallet_private_key"
          /\ todo[2][1] = "earning_wallet_address"
      BY ZenonT(30), <2>1, WalletsTodoForm
    <3>2. \A i \in 1..Len(todo) : i = 1 \/ i = 2
      BY <3>1
    <3> QED BY <3>1, <3>2
  <2>3. EndsIn(config, todo, "start_block", Valued(start))
    BY <1>3, <2>1, <2>2, EndsInOther
  <2> QED BY <1>2, <1>3, <2>1, <2>3 DEF todo
<1>6. ASSUME NEW hops \in 1..2, SetMinHops(hops) PROVE CreditInv'
  <2> DEFINE todo == task'.todo
  <2>1. hops \in Nat /\ todo = << <<"min_hops", Value(hops, NoPassword)>> >> /\ Begins
    BY <1>6, BeginForms DEF SetMinHops
  <2> HIDE DEF todo
  <2>2. \A i \in 1..Len(todo) : todo[i][1] # "start_block"
    BY <2>1, HopsTodoForm
  <2>3. EndsIn(config, todo, "start_block", Valued(start))
    BY <1>3, <2>1, <2>2, EndsInOther
  <2> QED BY <1>2, <1>3, <2>1, <2>3 DEF todo
<1>7. CASE RunStatement
  <2> DEFINE todo == task.todo
  <2>1. /\ todo \in Seq(Statements) /\ todo # <<>> /\ Head(todo) = todo[1] /\ todo[1][1] \in ConfigNames
        /\ config' = [config EXCEPT ![Head(todo)[1]] = Head(todo)[2]] /\ task # NoJob
        /\ UNCHANGED <<head, credited, scan>>
    BY <1>7, StatementRun
  <2>2. 1 \in 1..Len(todo)
    BY <2>1
  <2>3. config'["start_block"].value = start
    <3>1. CASE todo[1][1] = "start_block"
      <4>1. todo[1][2] \in Valued(start)
        BY <1>1, <2>2, <3>1 DEF EndsIn
      <4>2. config'["start_block"] = todo[1][2]
        BY <1>0, <2>1, <3>1 DEF ConfigTyped
      <4> QED BY <4>1, <4>2 DEF Valued
    <3>2. CASE todo[1][1] # "start_block"
      BY ZenonT(30), <1>0, <2>1, <3>2 DEF ConfigTyped
    <3> QED BY <3>1, <3>2
  <2>4. EndsIn(config', task'.todo, "start_block", Valued(start))
    BY ZenonT(30), <1>0, <1>1, <1>7, StatementEnds
  <2> QED BY ZenonT(30), <1>1, <1>2, <2>1, <2>3, <2>4
<1>8. CASE HandleNewReceivedPayments
  <2>1. /\ scan # 0 /\ scan' = 0 /\ head' = head /\ task' = task
        /\ credited' = [b \in 1..MaxHead |-> IF b \in scan..head THEN credited[b] + 1 ELSE credited[b]]
        /\ config' = [config EXCEPT !["start_block"] = Value(head + 1, NoPassword)]
    BY ZenonT(30), <1>8 DEF HandleNewReceivedPayments, StartBlockAfter
  <2>2. scan = start /\ task = NoJob /\ task.todo = <<>>
    BY ZenonT(30), <1>1, <2>1, TaskParts
  <2>3. config'["start_block"] = Value(head + 1, NoPassword)
    BY ZenonT(30), <1>0, <2>1 DEF ConfigTyped
  <2>4. config'["start_block"].value = head + 1 /\ config'["start_block"] \in Valued(head + 1)
    <3>1. head + 1 \in Nat
      BY <1>0 DEF ConfigTyped
    <3>2. /\ Value(head + 1, NoPassword) \in Valued(head + 1)
          /\ Value(head + 1, NoPassword).value = head + 1
      BY Zenon, <3>1, RecordsWritten
    <3> QED BY Zenon, <2>3, <3>2
  <2>5. \A b \in 1..MaxHead : credited'[b] <= 1 /\ (b >= head + 1 \/ b > head => credited'[b] = 0)
    BY <1>0, <1>1, <2>1, <2>2
  <2>6. EndsIn(config', task'.todo, "start_block", Valued(head + 1))
    <3>1. task'.todo = <<>>
      BY <2>1, <2>2
    <3> QED BY <2>4, <3>1, EndsInNow
  <2> QED BY <2>1, <2>4, <2>5, <2>6 DEF CreditInv
<1>9. CASE \/ Refuse \/ Finish \/ HandleConfigChangeMsg \/ CuratePastNeighbors \/ SetPastNeighbors
           \/ SetPastNeighborsFails \/ NewBlock \/ BeginScan \/ ChangePasswordPanics
           \/ UNCHANGED configVars
  <2>1. CASE ~HandleNewReceivedPayments
    <3>1. task'.todo = task.todo /\ config'["start_block"] = config["start_block"]
      BY ZenonT(30), <1>9, <2>1, TodoKept, TableKept
    <3>2. EndsIn(config', task'.todo, "start_block", Valued(start))
      BY <1>1, <3>1, EndsInKept
    <3>3. head' \in {head, head + 1} /\ credited' = credited
      BY <1>9 DEF Refuse, Finish, HandleConfigChangeMsg, CuratePastNeighbors, SetPastNeighbors,
         SetPastNeighborsFails, NewBlock, BeginScan, ChangePasswordPanics, StartAgain, configVars
    <3>4. scan' # 0 => scan' = start /\ task' = NoJob
      BY ZenonT(30), <1>1, <1>9 DEF Refuse, Finish, HandleConfigChangeMsg, CuratePastNeighbors, SetPastNeighbors,
         SetPastNeighborsFails, NewBlock, BeginScan, ChangePasswordPanics, StartAgain, configVars,
         MayIntrude, NoJob
    <3> QED BY <1>2, <3>1, <3>2, <3>3, <3>4
  <2> QED BY <1>8, <2>1
<1>10. CASE CrashInJob \/ StatementFails
  <2>1. /\ task' = NoJob /\ task'.todo = <<>> /\ config' = config /\ head' = head /\ credited' = credited
        /\ scan' \in {0, scan}
    BY <1>10, TaskParts DEF CrashInJob, StatementFails, StartAgain
  <2>2. EndsIn(config', task'.todo, "start_block", Valued(start))
    BY <1>0, <2>1, EndsInDone DEF Valued
  <2> QED BY <1>1, <1>2, <2>1, <2>2
<1> QED BY <1>4, <1>5, <1>6, <1>7, <1>8, <1>9, <1>10, ConfigSteps

-----------------------------------------------------------------------------
(* What the Neighborhood knows, and what is on its way to it               *)

LEMMA LatestNone ==
  ASSUME NEW S, NEW G, NEW b \in BOOLEAN
  PROVE  Latest(<<>>, S, G, b) <=> b
BY ZenonT(30), NoPlaces DEF Latest

LEMMA LatestSent ==
  ASSUME NEW M, NEW q \in Seq(M), NEW m \in M, NEW S, NEW G, NEW b \in BOOLEAN,
         m \in G \/ (m \notin S /\ Latest(q, S, G, b))
  PROVE  Latest(Append(q, m), S, G, b)
<1> DEFINE r == Append(q, m)
<1>1. /\ Len(q) \in Nat /\ Len(r) = Len(q) + 1 /\ r[Len(r)] = m
      /\ \A i \in 1..Len(q) : r[i] = q[i]
      /\ \A i \in 1..Len(r) : i \in 1..Len(q) \/ i = Len(r)
  OBVIOUS
<1> HIDE DEF r
<1>2. CASE m \in G
  <2>1. Len(r) \in 1..Len(r) /\ \A j \in (Len(r) + 1)..Len(r) : r[j] \notin S
    BY <1>1
  <2> QED BY <1>1, <1>2, <2>1 DEF Latest, r
<1>3. ASSUME m \notin S, NEW i \in 1..Len(q), q[i] \in G, \A j \in (i + 1)..Len(q) : q[j] \notin S
      PROVE  Latest(r, S, G, b)
  <2>1. i \in 1..Len(r) /\ r[i] \in G
    BY <1>1, <1>3
  <2>2. \A j \in (i + 1)..Len(r) : r[j] \notin S
    BY <1>1, <1>3
  <2> QED BY ZenonT(30), <2>1, <2>2 DEF Latest
<1>4. ASSUME m \notin S, \A i \in 1..Len(q) : q[i] \notin S, b = TRUE PROVE Latest(r, S, G, b)
  BY <1>1, <1>4 DEF Latest
<1> QED BY Zenon, <1>2, <1>3, <1>4 DEF Latest, r

LEMMA LatestRead ==
  ASSUME NEW M, NEW q \in Seq(M), q # <<>>, NEW S, NEW G, NEW b \in BOOLEAN, NEW c \in BOOLEAN,
         Latest(q, S, G, b), Head(q) \in G => c, Head(q) \notin S /\ b => c
  PROVE  Latest(Tail(q), S, G, c)
<1> DEFINE t == Tail(q)
<1>1. /\ Len(q) \in Nat /\ Len(q) > 0 /\ Head(q) = q[1] /\ Len(t) = Len(q) - 1
      /\ \A i \in 1..Len(t) : i + 1 \in 1..Len(q) /\ t[i] = q[i + 1]
  OBVIOUS
<1> HIDE DEF t
<1>2. ASSUME NEW i \in 1..Len(q), q[i] \in G, \A j \in (i + 1)..Len(q) : q[j] \notin S
      PROVE  Latest(t, S, G, c)
  <2>1. CASE i = 1
    <3>1. \A k \in 1..Len(t) : t[k] \notin S
      BY <1>1, <1>2, <2>1
    <3>2. c
      BY <1>1, <1>2, <2>1
    <3> QED BY <3>1, <3>2 DEF Latest
  <2>2. CASE i # 1
    <3>1. i - 1 \in 1..Len(t) /\ (i - 1) + 1 = i
      BY <1>1, <2>2
    <3>2. t[i - 1] \in G
      BY <1>1, <1>2, <3>1
    <3>3. \A k \in ((i - 1) + 1)..Len(t) : t[k] \notin S
      BY <1>1, <1>2, <2>2
    <3> QED BY ZenonT(30), <3>1, <3>2, <3>3 DEF Latest
  <2> QED BY <2>1, <2>2
<1>3. ASSUME \A i \in 1..Len(q) : q[i] \notin S, b = TRUE PROVE Latest(t, S, G, c)
  <2>1. \A k \in 1..Len(t) : t[k] \notin S
    BY <1>1, <1>3
  <2>2. c
    BY SMTT(30), <1>1, <1>3
  <2> QED BY <2>1, <2>2 DEF Latest
<1> QED BY <1>2, <1>3 DEF Latest, t

(* The same for the two kinds of news. *)
LEMMA NewsSent ==
  ASSUME NEW q \in Seq(ConfigChanges), NEW m \in ConfigChanges, NEW nb, NEW g, NEW h
  PROVE  /\ m.change = "UpdatePassword" /\ m.password = g => PasswordKnown(Append(q, m), nb, g)
         /\ m.change # "UpdatePassword" /\ PasswordKnown(q, nb, g) => PasswordKnown(Append(q, m), nb, g)
         /\ m.change = "UpdateMinHops" /\ m.hops = h => HopsKnown(Append(q, m), nb, h)
         /\ m.change # "UpdateMinHops" /\ HopsKnown(q, nb, h) => HopsKnown(Append(q, m), nb, h)
<1>1. /\ m.change = "UpdatePassword" /\ m.password = g => m \in PasswordUpdates(g)
      /\ m.change # "UpdatePassword" => m \notin Updates("UpdatePassword")
      /\ m.change = "UpdateMinHops" /\ m.hops = h => m \in HopsUpdates(h)
      /\ m.change # "UpdateMinHops" => m \notin Updates("UpdateMinHops")
  BY DEF PasswordUpdates, HopsUpdates, Updates
<1>2. (nb.password = g) \in BOOLEAN /\ (nb.min_hops = h) \in BOOLEAN
  BY ZenonT(30)
<1> QED BY Zenon, <1>1, <1>2, LatestSent DEF PasswordKnown, HopsKnown

LEMMA NewsRead ==
  ASSUME NEW q \in Seq(ConfigChanges), q # <<>>, NEW nb, NEW nc, NEW g, NEW h,
         IF Head(q).change = "UpdatePassword"
           THEN nc.password = Head(q).password /\ nc.min_hops = nb.min_hops
           ELSE nc.password = nb.password /\ nc.min_hops = Head(q).hops
  PROVE  /\ PasswordKnown(q, nb, g) => PasswordKnown(Tail(q), nc, g)
         /\ HopsKnown(q, nb, h) => HopsKnown(Tail(q), nc, h)
<1>1. Head(q) \in ConfigChanges
  OBVIOUS
<1>2. /\ Head(q) \in PasswordUpdates(g) => nc.password = g
      /\ Head(q) \notin Updates("UpdatePassword") /\ nb.password = g => nc.password = g
  BY <1>1 DEF PasswordUpdates, Updates
<1>3. /\ Head(q) \in HopsUpdates(h) => nc.min_hops = h
      /\ Head(q) \notin Updates("UpdateMinHops") /\ nb.min_hops = h => nc.min_hops = h
  BY <1>1 DEF HopsUpdates, Updates, ConfigChanges
<1>4. PasswordKnown(q, nb, g) => PasswordKnown(Tail(q), nc, g)
  BY Zenon, <1>2, LatestRead DEF PasswordKnown
<1>5. HopsKnown(q, nb, h) => HopsKnown(Tail(q), nc, h)
  BY Zenon, <1>3, LatestRead DEF HopsKnown
<1> QED BY <1>4, <1>5

LEMMA NewsAllRead ==
  ASSUME NEW nb, NEW g, NEW h
  PROVE  /\ PasswordKnown(<<>>, nb, g) <=> nb.password = g
         /\ HopsKnown(<<>>, nb, h) <=> nb.min_hops = h
BY Zenon, LatestNone DEF PasswordKnown, HopsKnown

(* A statement and one record. *)
LEMMA StatementRecord ==
  ASSUME ConfigTyped, RunStatement, NEW n \in ConfigNames
  PROVE  config'[n] = IF task.todo[1][1] = n THEN task.todo[1][2] ELSE config[n]
<1> DEFINE todo == task.todo
           cf   == config
<1>1. /\ cf \in [ConfigNames -> ConfigRecords] /\ Head(todo) = todo[1] /\ todo[1][1] \in ConfigNames
      /\ config' = [cf EXCEPT ![Head(todo)[1]] = Head(todo)[2]]
  BY StatementRun DEF ConfigTyped
<1> HIDE DEF todo, cf
<1>2. config'[n] = IF todo[1][1] = n THEN todo[1][2] ELSE cf[n]
  BY ZenonT(30), <1>1
<1> QED BY ZenonT(30), <1>2 DEF todo, cf

LEMMA StatementKeeps ==
  ASSUME ConfigTyped, RunStatement, NEW n \in ConfigNames, NEW v,
         EndsIn(config, task.todo, n, Valued(v)), config[n].value = v
  PROVE  config'[n].value = v
<1>1. 1 \in 1..Len(task.todo)
  BY Zenon, StatementRun, FirstPlace
<1>2. task.todo[1][1] = n => task.todo[1][2] \in Valued(v)
  BY ZenonT(30), <1>1 DEF EndsIn
<1> QED BY ZenonT(30), <1>2, StatementRecord DEF Valued

(* The order of the statements, from step to step. *)
LEMMA TailTodo ==
  ASSUME NEW todo \in Seq(Statements), todo # <<>>
  PROVE  /\ Len(Tail(todo)) = Len(todo) - 1 /\ Len(todo) \in Nat /\ Len(todo) > 0
         /\ \A i \in 1..Len(Tail(todo)) : i + 1 \in 1..Len(todo) /\ Tail(todo)[i] = todo[i + 1]
         /\ Tail(todo) = <<>> <=> Len(todo) = 1
<1>1. /\ Len(Tail(todo)) = Len(todo) - 1 /\ Len(todo) \in Nat /\ Len(todo) > 0
      /\ \A i \in 1..Len(Tail(todo)) : i + 1 \in 1..Len(todo) /\ Tail(todo)[i] = todo[i + 1]
      /\ Tail(todo) \in Seq(Statements)
  OBVIOUS
<1>2. \A t \in Seq(Statements) : t = <<>> <=> Len(t) = 0
  OBVIOUS
<1>3. Tail(todo) = <<>> <=> Len(Tail(todo)) = 0
  BY Zenon, <1>1, <1>2
<1> QED BY <1>1, <1>3

LEMMA ExampleTail ==
  ASSUME NEW todo \in Seq(Statements), NEW new, ExampleLast(todo, new)
  PROVE  IF Len(todo) = 1
           THEN todo[1] = <<"example_encrypted", Value(1, new)>> /\ Tail(todo) = <<>>
           ELSE todo[1][1] # "example_encrypted" /\ ExampleLast(Tail(todo), new)
<1> DEFINE t == Tail(todo)
<1>1. todo # <<>>
  BY DEF ExampleLast
<1>2. /\ Len(t) = Len(todo) - 1 /\ Len(todo) \in Nat /\ Len(todo) > 0
      /\ \A i \in 1..Len(t) : i + 1 \in 1..Len(todo) /\ t[i] = todo[i + 1]
      /\ t = <<>> <=> Len(todo) = 1
  BY <1>1, TailTodo
<1> HIDE DEF t
<1>3. CASE Len(todo) = 1
  BY <1>2, <1>3 DEF ExampleLast, t
<1>4. CASE Len(todo) # 1
  <2>1. Len(t) \in 1..Len(t) /\ t[Len(t)] = todo[Len(todo)]
    <3>1. Len(t) \in 1..Len(t) /\ Len(t) + 1 = Len(todo)
      BY <1>2, <1>4
    <3>2. t[Len(t)] = todo[Len(t) + 1]
      BY <1>2, <3>1
    <3> QED BY <3>1, <3>2
  <2>2. ASSUME NEW i \in 1..(Len(t) - 1) PROVE t[i][1] # "example_encrypted"
    <3>1. i \in 1..Len(t) /\ i + 1 \in 1..(Len(todo) - 1)
      BY <1>2, <1>4
    <3>2. t[i] = todo[i + 1]
      BY <1>2, <3>1
    <3> QED BY <3>1, <3>2 DEF ExampleLast
  <2>3. ExampleLast(t, new)
    BY <1>2, <1>4, <2>1, <2>2 DEF ExampleLast
  <2>4. todo[1][1] # "example_encrypted"
    BY <1>2, <1>4 DEF ExampleLast
  <2> QED BY <1>4, <2>3, <2>4 DEF t
<1> QED BY <1>3, <1>4

(* The steps by what they do to the handler and to the two records. *)
LEMMA HandlerEnds ==
  ASSUME ConfigTyped, Finish \/ StatementFails \/ CrashInJob \/ ChangePasswordPanics
  PROVE  task' = NoJob /\ task'.todo = <<>> /\ task'.op = "idle" /\ config' = config
BY TaskParts DEF Finish, StatementFails, CrashInJob, ChangePasswordPanics, StartAgain

LEMMA HandlerStays ==
  ASSUME ConfigTyped,
         \/ Refuse \/ HandleConfigChangeMsg \/ CuratePastNeighbors \/ SetPastNeighbors
         \/ SetPastNeighborsFails \/ NewBlock \/ BeginScan \/ HandleNewReceivedPayments
         \/ UNCHANGED configVars
  PROVE  /\ task' = task /\ config'["min_hops"] = config["min_hops"] /\ DbPassword' = DbPassword
         /\ ~HandleConfigChangeMsg =>
              /\ mailbox' = mailbox /\ neighborhood'.password = neighborhood.password
              /\ neighborhood'.min_hops = neighborhood.min_hops
<1>1. "min_hops" \in ConfigNames /\ "example_encrypted" \in ConfigNames
  BY DEF ConfigNames
<1>2. config'["min_hops"] = config["min_hops"] /\ config'["example_encrypted"] = config["example_encrypted"]
  BY <1>1, TableKept
<1>3. task' = task
  BY DEF Refuse, HandleConfigChangeMsg, CuratePastNeighbors, SetPastNeighbors,
     SetPastNeighborsFails, NewBlock, BeginScan, HandleNewReceivedPayments, configVars
<1>4. ASSUME ~HandleConfigChangeMsg
      PROVE  /\ mailbox' = mailbox
             /\ neighborhood' \in {neighborhood, [neighborhood EXCEPT !.neighbors = neighborhood.neighbors + 1]}
  BY <1>4 DEF Refuse, CuratePastNeighbors, SetPastNeighbors, SetPastNeighborsFails, NewBlock,
     BeginScan, HandleNewReceivedPayments, configVars
<1>5. [neighborhood EXCEPT !.neighbors = neighborhood.neighbors + 1].password = neighborhood.password
      /\ [neighborhood EXCEPT !.neighbors = neighborhood.neighbors + 1].min_hops = neighborhood.min_hops
  BY ZenonT(30) DEF ConfigTyped
<1> QED BY Zenon, <1>2, <1>3, <1>4, <1>5 DEF DbPassword

LEMMA TodoInOrderRuns ==
  ASSUME ConfigTyped, TodoInOrder, RunStatement
  PROVE  /\ TodoInOrder'
         /\ task.op # "password" \/ Len(task.todo) # 1 => DbPassword' = DbPassword
         /\ task.op # "min_hops" => config'["min_hops"].value = config["min_hops"].value
<1> DEFINE todo == task.todo
           h    == config["min_hops"].value
<1>1. /\ todo \in Seq(Statements) /\ todo # <<>> /\ task'.todo = Tail(todo)
      /\ task'.op = task.op /\ task'.new = task.new
  BY Zenon, StatementRun
<1>2. /\ Len(Tail(todo)) = Len(todo) - 1 /\ Len(todo) \in Nat /\ Len(todo) > 0
      /\ \A i \in 1..Len(Tail(todo)) : i + 1 \in 1..Len(todo) /\ Tail(todo)[i] = todo[i + 1]
  BY <1>1, TailTodo
<1>3. /\ "min_hops" \in ConfigNames /\ "example_encrypted" \in ConfigNames
      /\ todo[1][1] # "example_encrypted" => DbPassword' = DbPassword
      /\ todo[1][1] = "example_encrypted" => DbPassword' = todo[1][2].under
  BY ZenonT(30), StatementRecord DEF ConfigNames, DbPassword
<1>4. ASSUME task.op = "password"
      PROVE  /\ (task'.todo = <<>> /\ task'.new = DbPassword') \/ ExampleLast(task'.todo, task'.new)
             /\ Len(todo) # 1 => DbPassword' = DbPassword
  <2>1. ExampleLast(todo, task.new)
    BY ZenonT(30), <1>1, <1>4 DEF TodoInOrder
  <2> HIDE DEF todo
  <2>2. IF Len(todo) = 1
          THEN todo[1] = <<"example_encrypted", Value(1, task.new)>> /\ Tail(todo) = <<>>
          ELSE todo[1][1] # "example_encrypted" /\ ExampleLast(Tail(todo), task.new)
    BY ZenonT(30), <1>1, <2>1, ExampleTail
  <2>3. CASE Len(todo) = 1
    <3>1. todo[1][1] = "example_encrypted" /\ todo[1][2].under = task.new
      BY <2>2, <2>3 DEF Value
    <3> QED BY ZenonT(30), <1>1, <1>3, <2>2, <2>3, <3>1
  <2> QED BY ZenonT(30), <1>1, <1>3, <2>2, <2>3
<1>5. ASSUME task.op # "password"
      PROVE  /\ \A i \in 1..Len(Tail(todo)) : Tail(todo)[i][1] # "example_encrypted"
             /\ DbPassword' = DbPassword
  <2>1. \A i \in 1..Len(todo) : todo[i][1] # "example_encrypted"
    BY ZenonT(30), <1>5 DEF TodoInOrder
  <2> QED BY SMTT(30), <1>2, <1>3, <2>1
<1>6. ASSUME task.op # "min_hops"
      PROVE  config'["min_hops"].value = h /\ EndsIn(config', task'.todo, "min_hops", Valued(h))
  <2>1. EndsIn(config, task.todo, "min_hops", Valued(h))
    BY ZenonT(30), <1>6 DEF TodoInOrder
  <2>2. config'["min_hops"].value = h
    BY ZenonT(30), <1>3, <2>1, StatementKeeps
  <2>3. EndsIn(config', task'.todo, "min_hops", Valued(h))
    BY <1>3, <2>1, StatementEnds
  <2> QED BY ZenonT(30), <2>2, <2>3
<1>7. task.op = "min_hops" => Len(task'.todo) <= 1
  <2>1. task.op = "min_hops" => Len(todo) <= 1
    BY Zenon DEF TodoInOrder
  <2> QED BY <1>1, <1>2, <2>1
<1> QED BY Zenon, <1>1, <1>4, <1>5, <1>6, <1>7 DEF TodoInOrder

(* The beginnings of the three handlers, for what the Neighborhood knows. *)
LEMMA TodoInOrderBegins ==
  ASSUME ConfigTyped,
         \/ \E new \in Passwords : BeginsChange(new)
         \/ \E v \in 1..2, password \in Passwords : BeginsWallets(v, password)
         \/ \E hops \in 1..2 : SetMinHops(hops)
  PROVE  TodoInOrder' /\ Begins
<1> DEFINE h    == config["min_hops"].value
           todo == task'.todo
<1>1. "min_hops" \in ConfigNames \ {"example_encrypted"} /\ config["min_hops"] \in Valued(h)
  BY DEF ConfigNames, ConfigTyped, Valued
<1>2. Begins => config' = config
  BY ZenonT(30) DEF Begins
<1> HIDE DEF todo
<1>3. ASSUME NEW new \in Passwords, BeginsChange(new) PROVE TodoInOrder' /\ Begins
  <2>1. Begins /\ todo = ChangeTodo(new) /\ task'.op = "password" /\ task'.new = new
    BY <1>3, BeginForms DEF BeginsChange, todo
  <2>2. EndsIn(config, todo, "min_hops", Valued(h)) /\ ExampleLast(todo, new)
    BY ZenonT(30), <1>1, <2>1, ChangeEnds DEF ConfigTyped
  <2> QED BY <1>2, <2>1, <2>2 DEF TodoInOrder, todo
<1>4. ASSUME NEW v \in 1..2, NEW password \in Passwords, BeginsWallets(v, password)
      PROVE  TodoInOrder' /\ Begins
  <2>1. Begins /\ v \in Nat /\ todo = WalletsTodo(v, password) /\ task'.op = "wallets"
    BY <1>4, BeginForms DEF BeginsWallets, todo
  <2>2. \A i \in 1..Len(todo) : todo[i][1] # "min_hops" /\ todo[i][1] # "example_encrypted"
    <3>1. Len(todo) = 2 /\ todo[1][1] = "consuming_wallet_private_key"
          /\ todo[2][1] = "earning_wallet_address"
      BY ZenonT(30), <2>1, WalletsTodoForm
    <3>2. \A i \in 1..Len(todo) : i = 1 \/ i = 2
      BY Zenon, <3>1, FewPlaces
    <3> QED BY ZenonT(30), <3>1, <3>2
  <2>3. EndsIn(config, todo, "min_hops", Valued(h))
    BY ZenonT(30), <1>1, <2>2, EndsInOther
  <2> QED BY <1>2, <2>1, <2>2, <2>3 DEF TodoInOrder, todo
<1>5. ASSUME NEW hops \in 1..2, SetMinHops(hops) PROVE TodoInOrder' /\ Begins
  <2>1. /\ Begins /\ hops \in Nat /\ todo = << <<"min_hops", Value(hops, NoPassword)>> >>
        /\ task'.op = "min_hops"
    BY <1>5, BeginForms DEF SetMinHops, todo
  <2>2. Len(todo) = 1 /\ todo[1][1] = "min_hops"
    BY <2>1, HopsTodoForm
  <2>3. \A i \in 1..Len(todo) : i = 1
    BY Zenon, <2>2, FewPlaces
  <2> QED BY <2>1, <2>2, <2>3 DEF TodoInOrder, todo
<1> QED BY <1>3, <1>4, <1>5

LEMMA TodoInOrderStays ==
  ASSUME ConfigTyped, TodoInOrder,
         \/ Refuse \/ HandleConfigChangeMsg \/ CuratePastNeighbors \/ SetPastNeighbors
         \/ SetPastNeighborsFails \/ NewBlock \/ BeginScan \/ HandleNewReceivedPayments
         \/ UNCHANGED configVars
  PROVE  TodoInOrder'
<1> DEFINE h == config["min_hops"].value
<1>1. /\ task' = task /\ config'["min_hops"] = config["min_hops"] /\ DbPassword' = DbPassword
  BY ZenonT(30), HandlerStays
<1>2. task.op # "min_hops" => EndsIn(config', task.todo, "min_hops", Valued(h))
  BY ZenonT(30), <1>1, EndsInKept DEF TodoInOrder
<1> QED BY <1>1, <1>2 DEF TodoInOrder

LEMMA TodoInOrderEnds ==
  ASSUME ConfigTyped, Finish \/ StatementFails \/ CrashInJob \/ ChangePasswordPanics
  PROVE  TodoInOrder'
<1>1. task'.todo = <<>> /\ task'.op = "idle" /\ config' = config
  BY HandlerEnds
<1>2. config["min_hops"] \in Valued(config["min_hops"].value)
  BY DEF ConfigNames, ConfigTyped, Valued
<1>3. EndsIn(config', task'.todo, "min_hops", Valued(config["min_hops"].value))
  BY ZenonT(30), <1>1, <1>2, EndsInNow
<1> QED BY <1>1, <1>3 DEF TodoInOrder

(* The news, from step to step. *)
LEMMA NewsKept ==
  ASSUME NEW q, NEW nb, NEW nc, nc.password = nb.password, nc.min_hops = nb.min_hops, NEW g, NEW h
  PROVE  /\ PasswordKnown(q, nb, g) => PasswordKnown(q, nc, g)
         /\ HopsKnown(q, nb, h) => HopsKnown(q, nc, h)
BY ZenonT(30) DEF PasswordKnown, HopsKnown

LEMMA NewsFinish ==
  ASSUME ConfigTyped, KnownInv, Finish
  PROVE  PasswordNews' /\ HopsNews'
<1> DEFINE g == DbPassword
           h == config["min_hops"].value
           p == [change |-> "UpdatePassword", password |-> task.new, hops |-> 0]
           n == [change |-> "UpdateMinHops", password |-> NoPassword, hops |-> h]
<1>1. /\ task.op \in {"password", "wallets", "min_hops"} /\ task.todo = <<>>
      /\ task.new \in Passwords \union {NoPassword} /\ mailbox' = mailbox \o Change
      /\ config' = config /\ neighborhood' = neighborhood
  BY DEF Finish, ConfigTyped
<1>2. h \in Nat
  BY ZenonT(30) DEF ConfigTyped, ConfigNames, ConfigRecords
<1>3. p \in ConfigChanges /\ n \in ConfigChanges
  BY ZenonT(30), <1>1, <1>2 DEF ConfigChanges
<1>4. p.change = "UpdatePassword" /\ p.password = task.new /\ n.change = "UpdateMinHops" /\ n.hops = h
  OBVIOUS
<1>5. Change = IF task.op = "password" THEN <<p>> ELSE IF task.op = "min_hops" THEN <<n>> ELSE <<>>
  BY ZenonT(30) DEF Change
<1>6. task.op = "password" => task.new = g
  BY SMTT(30), <1>1 DEF KnownInv, TodoInOrder, ExampleLast
<1>7. /\ task.op # "password" => PasswordKnown(mailbox, neighborhood, g)
      /\ task.op # "min_hops" => HopsKnown(mailbox, neighborhood, h)
  BY DEF KnownInv, PasswordNews, HopsNews
<1>8. mailbox \in Seq(ConfigChanges)
  BY ZenonT(30) DEF ConfigTyped
<1> HIDE DEF p, n
<1>9. PasswordKnown(mailbox', neighborhood, g) /\ HopsKnown(mailbox', neighborhood, h)
  <2>1. CASE task.op = "password"
    <3>1. mailbox' = Append(mailbox, p)
      BY Zenon, <1>1, <1>3, <1>5, <1>8, <2>1, Joined
    <3> QED BY ZenonT(30), <1>3, <1>4, <1>6, <1>7, <1>8, <2>1, <3>1, NewsSent
  <2>2. CASE task.op = "min_hops"
    <3>1. mailbox' = Append(mailbox, n)
      BY Zenon, <1>1, <1>3, <1>5, <1>8, <2>2, Joined
    <3> QED BY Zenon, <1>3, <1>4, <1>7, <1>8, <2>2, <3>1, NewsSent
  <2>3. CASE task.op = "wallets"
    <3>1. mailbox' = mailbox
      BY Zenon, <1>1, <1>3, <1>5, <1>8, <2>3, Joined
    <3> QED BY <1>7, <2>3, <3>1
  <2> QED BY ZenonT(30), <1>1, <2>1, <2>2, <2>3
<1> QED BY <1>1, <1>9 DEF PasswordNews, HopsNews, DbPassword

LEMMA NewsRuns ==
  ASSUME ConfigTyped, KnownInv, RunStatement
  PROVE  PasswordNews' /\ HopsNews'
<1> DEFINE todo == task.todo
<1>1. /\ todo \in Seq(Statements) /\ todo # <<>> /\ task'.todo = Tail(todo) /\ task'.op = task.op
      /\ mailbox' = mailbox /\ neighborhood' = neighborhood
  BY StatementRun
<1>2. Len(todo) \in Nat /\ Len(todo) > 0 /\ (Tail(todo) = <<>> <=> Len(todo) = 1)
  BY ZenonT(30), <1>1, TailTodo
<1>3. /\ PasswordKnown(mailbox, neighborhood, DbPassword)
      /\ HopsKnown(mailbox, neighborhood, config["min_hops"].value)
      /\ task.op = "min_hops" => Len(todo) <= 1
  BY Zenon, <1>1 DEF KnownInv, PasswordNews, HopsNews, TodoInOrder
<1>4. /\ task.op # "password" \/ Len(todo) # 1 => DbPassword' = DbPassword
      /\ task.op # "min_hops" => config'["min_hops"].value = config["min_hops"].value
  BY TodoInOrderRuns DEF KnownInv
<1> HIDE DEF todo
<1>5. task.op = "min_hops" => Len(todo) = 1
  BY <1>2, <1>3
<1> QED BY ZenonT(30), <1>1, <1>2, <1>3, <1>4, <1>5 DEF PasswordNews, HopsNews

LEMMA NewsHandled ==
  ASSUME ConfigTyped, KnownInv, HandleConfigChangeMsg
  PROVE  PasswordNews' /\ HopsNews'
<1> DEFINE g == DbPassword
           h == config["min_hops"].value
           msg == Head(mailbox)
<1>1. /\ mailbox \in Seq(ConfigChanges) /\ mailbox # <<>> /\ mailbox' = Tail(mailbox)
      /\ task' = task /\ config' = config
      /\ neighborhood' = IF msg.change = "UpdatePassword"
                           THEN [neighborhood EXCEPT !.password = msg.password]
                           ELSE [neighborhood EXCEPT !.min_hops = msg.hops]
  BY DEF HandleConfigChangeMsg, ConfigTyped
<1>2. IF msg.change = "UpdatePassword"
        THEN neighborhood'.password = msg.password /\ neighborhood'.min_hops = neighborhood.min_hops
        ELSE neighborhood'.password = neighborhood.password /\ neighborhood'.min_hops = msg.hops
  BY <1>1 DEF ConfigTyped
<1>3. /\ PasswordKnown(mailbox, neighborhood, g) => PasswordKnown(Tail(mailbox), neighborhood', g)
      /\ HopsKnown(mailbox, neighborhood, h) => HopsKnown(Tail(mailbox), neighborhood', h)
  BY Zenon, <1>1, <1>2, NewsRead
<1> QED BY <1>1, <1>3 DEF KnownInv, PasswordNews, HopsNews, DbPassword

LEMMA NewsStartAgain ==
  ASSUME ConfigTyped, StartAgain
  PROVE  PasswordNews' /\ HopsNews'
<1> DEFINE g == DbPassword
           h == config["min_hops"].value
<1>1. /\ neighborhood' = [neighborhood EXCEPT !.password = g, !.min_hops = h]
      /\ mailbox' = <<>> /\ config' = config
  BY DEF StartAgain
<1>2. neighborhood \in [password : Passwords \union {NoPassword}, min_hops : Nat, neighbors : Nat]
  BY DEF ConfigTyped
<1>3. g = DbPassword' /\ h = config'["min_hops"].value
  BY <1>1 DEF DbPassword
<1> HIDE DEF g, h
<1>4. neighborhood'.password = g /\ neighborhood'.min_hops = h
  BY <1>1, <1>2
<1>5. PasswordKnown(mailbox', neighborhood', g) /\ HopsKnown(mailbox', neighborhood', h)
  BY Zenon, <1>1, <1>4, NewsAllRead
<1> QED BY <1>3, <1>5 DEF PasswordNews, HopsNews

LEMMA NextKnown ==
  ASSUME ConfigTyped, KnownInv, [ConfigNext]_configVars
  PROVE  KnownInv'
<1> DEFINE h == config["min_hops"].value
<1>1. CASE \/ \E new \in Passwords : BeginsChange(new)
           \/ \E v \in 1..2, password \in Passwords : BeginsWallets(v, password)
           \/ \E hops \in 1..2 : SetMinHops(hops)
  <2>1. TodoInOrder' /\ task = NoJob /\ UNCHANGED <<config, mailbox, neighborhood>>
    BY ZenonT(30), <1>1, TodoInOrderBegins DEF Begins
  <2>2. PasswordKnown(mailbox, neighborhood, DbPassword) /\ HopsKnown(mailbox, neighborhood, h)
    BY ZenonT(30), <2>1, TaskParts DEF KnownInv, PasswordNews, HopsNews
  <2> QED BY ZenonT(30), <2>1, <2>2 DEF KnownInv, PasswordNews, HopsNews, DbPassword
<1>2. CASE RunStatement
  BY Zenon, <1>2, NewsRuns, TodoInOrderRuns DEF KnownInv
<1>3. CASE Finish
  BY ZenonT(30), <1>3, NewsFinish, TodoInOrderEnds DEF KnownInv
<1>4. CASE StatementFails
  <2>1. task.todo # <<>> /\ UNCHANGED <<config, mailbox, neighborhood>>
    BY ZenonT(30), <1>4 DEF StatementFails
  <2>2. PasswordKnown(mailbox, neighborhood, DbPassword) /\ HopsKnown(mailbox, neighborhood, h)
    BY <2>1 DEF KnownInv, PasswordNews, HopsNews
  <2> QED BY ZenonT(30), <1>4, <2>1, <2>2, TodoInOrderEnds DEF KnownInv, PasswordNews, HopsNews, DbPassword
<1>5. CASE CrashInJob \/ ChangePasswordPanics
  BY <1>5, NewsStartAgain, TodoInOrderEnds DEF CrashInJob, ChangePasswordPanics, KnownInv
<1>6. CASE \/ Refuse \/ HandleConfigChangeMsg \/ CuratePastNeighbors \/ SetPastNeighbors
           \/ SetPastNeighborsFails \/ NewBlock \/ BeginScan \/ HandleNewReceivedPayments
           \/ UNCHANGED configVars
  <2>1. TodoInOrder'
    BY <1>6, TodoInOrderStays DEF KnownInv
  <2>2. CASE HandleConfigChangeMsg
    BY ZenonT(30), <2>1, <2>2, NewsHandled DEF KnownInv
  <2>3. CASE ~HandleConfigChangeMsg
    <3>1. /\ task' = task /\ config'["min_hops"] = config["min_hops"] /\ DbPassword' = DbPassword
          /\ mailbox' = mailbox /\ neighborhood'.password = neighborhood.password
          /\ neighborhood'.min_hops = neighborhood.min_hops
      BY ZenonT(30), <1>6, <2>3, HandlerStays
    <3>2. /\ PasswordKnown(mailbox, neighborhood, DbPassword) => PasswordKnown(mailbox, neighborhood', DbPassword)
          /\ HopsKnown(mailbox, neighborhood, h) => HopsKnown(mailbox, neighborhood', h)
      BY Zenon, <3>1, NewsKept
    <3> QED BY ZenonT(30), <2>1, <3>1, <3>2 DEF KnownInv, PasswordNews, HopsNews
  <2> QED BY <2>2, <2>3
<1> QED BY ZenonT(30), <1>1, <1>2, <1>3, <1>4, <1>5, <1>6, ConfigSteps

LEMMA InitConfig ==
  ASSUME ConfigInit
  PROVE  ConfigInv
<1>1. /\ config = [n \in ConfigNames |-> IF n \in {"min_hops", "start_block"}
                                           THEN Value(1, NoPassword) ELSE Absent]
      /\ task = NoJob /\ mailbox = <<>> /\ save = NoSave /\ head = 0 /\ scan = 0
      /\ neighborhood = [password |-> NoPassword, min_hops |-> 1, neighbors |-> 0]
      /\ credited = [b \in 1..MaxHead |-> 0]
  BY NamesFive DEF ConfigInit
<1>2. /\ Value(1, NoPassword) \in ConfigRecords /\ Absent \in ConfigRecords
      /\ Value(1, NoPassword).value = 1 /\ Absent.value = 0 /\ Absent.under = NoPassword
  BY DEF Value, Absent, ConfigRecords
<1>3. /\ config \in [ConfigNames -> ConfigRecords]
      /\ config["min_hops"] = Value(1, NoPassword) /\ config["start_block"] = Value(1, NoPassword)
      /\ \A n \in ConfigNames \ {"min_hops", "start_block"} : config[n] = Absent
  BY <1>1, <1>2 DEF ConfigNames
<1>4. /\ "example_encrypted" \in ConfigNames \ {"min_hops", "start_block"}
      /\ "consuming_wallet_private_key" \in ConfigNames \ {"min_hops", "start_block"}
      /\ "earning_wallet_address" \in ConfigNames \ {"min_hops", "start_block"}
      /\ Encrypted \subseteq ConfigNames \ {"min_hops", "start_block"}
  BY ZenonT(30) DEF ConfigNames, Encrypted
<1>5. ConfigTyped
  BY Zenon, <1>1, <1>3, IdleTyped DEF ConfigTyped
<1>6. task.todo = <<>> /\ task.op = "idle"
  BY Zenon, <1>1, <1>5, TaskParts
<1>7. SecretsInv
  <2>1. EndsIn(config, task.todo, "example_encrypted", Under(NoPassword))
    BY ZenonT(30), <1>2, <1>3, <1>4, <1>6, EndsInNow DEF Under
  <2>2. \A n \in Encrypted : EndsIn(config, task.todo, n, Secret(NoPassword))
    BY <1>2, <1>3, <1>4, <1>6, EndsInNow DEF Secret
  <2> QED BY ZenonT(30), <1>1, <2>1, <2>2 DEF SecretsInv
<1>8. WalletsInv
  <2>1. Absent \in Valued(0)
    BY ZenonT(30), <1>2 DEF Valued
  <2>2. /\ EndsIn(config, task.todo, "consuming_wallet_private_key", Valued(0))
        /\ EndsIn(config, task.todo, "earning_wallet_address", Valued(0))
    BY <1>3, <1>4, <1>6, <2>1, EndsInNow
  <2> QED BY <2>2 DEF WalletsInv
<1>9. Value(1, NoPassword) \in Valued(1)
  BY <1>2 DEF Valued
<1>10. CreditInv
  <2>1. config["start_block"].value = 1 /\ EndsIn(config, task.todo, "start_block", Valued(1))
    BY ZenonT(30), <1>2, <1>3, <1>6, <1>9, EndsInNow
  <2> QED BY SMTT(30), <1>1, <2>1 DEF CreditInv
<1>11. TodoInOrder
  <2>1. config["min_hops"].value = 1 /\ EndsIn(config, task.todo, "min_hops", Valued(1))
    BY ZenonT(30), <1>2, <1>3, <1>6, <1>9, EndsInNow
  <2> QED BY <1>6, <2>1 DEF TodoInOrder
<1>12. PasswordNews /\ HopsNews
  <2>1. neighborhood.password = DbPassword /\ neighborhood.min_hops = config["min_hops"].value
    BY <1>1, <1>2, <1>3, <1>4 DEF DbPassword
  <2> QED BY <1>1, <2>1, NewsAllRead DEF PasswordNews, HopsNews
<1> QED BY ZenonT(30), <1>5, <1>7, <1>8, <1>10, <1>11, <1>12 DEF ConfigInv, KnownInv

LEMMA NextConfig ==
  ASSUME ConfigInv, [ConfigNext]_configVars
  PROVE  ConfigInv'
<1>1. ConfigTyped' /\ clime' = clime /\ KnownInv'
  BY NextConfigTyped, ClimeFixed, NextKnown DEF ConfigInv
<1>2. clime' \intersect {"neighbors", "crash", "locked"} = {} => SecretsInv'
  BY <1>1, NextSecrets DEF ConfigInv
<1>3. clime' \intersect {"crash", "locked"} = {} => WalletsInv'
  BY <1>1, NextWallets DEF ConfigInv
<1>4. "scan" \notin clime' => CreditInv'
  BY <1>1, NextCredit DEF ConfigInv
<1> QED BY <1>1, <1>2, <1>3, <1>4 DEF ConfigInv

LEMMA ConfigInvShows ==
  ASSUME ConfigInv
  PROVE  ConfigurationAgrees
<1>1. ConfigTyped /\ KnownInv
  BY DEF ConfigInv
<1>2. task = NoJob => task.todo = <<>> /\ task.op = "idle"
  BY <1>1, TaskParts
<1>3. SecretsUnderPassword
  <2>1. SUFFICES ASSUME task = NoJob, SecretsInv PROVE Readable(DbPassword)
    BY ZenonT(30) DEF SecretsUnderPassword, ConfigInv
  <2>2. PICK g : /\ EndsIn(config, <<>>, "example_encrypted", Under(g))
                 /\ \A n \in Encrypted : EndsIn(config, <<>>, n, Secret(g))
    BY <1>2, <2>1 DEF SecretsInv
  <2>3. config["example_encrypted"] \in Under(g) /\ \A n \in Encrypted : config[n] \in Secret(g)
    BY <2>2, EndsInDone
  <2> QED BY <2>3 DEF Readable, DbPassword, Under, Secret
<1>4. WalletsInPairs
  <2>1. SUFFICES ASSUME task = NoJob, WalletsInv
                 PROVE  config["consuming_wallet_private_key"].value = config["earning_wallet_address"].value
    BY ZenonT(30) DEF WalletsInPairs, ConfigInv
  <2>2. PICK w : /\ EndsIn(config, <<>>, "consuming_wallet_private_key", Valued(w))
                 /\ EndsIn(config, <<>>, "earning_wallet_address", Valued(w))
    BY <1>2, <2>1 DEF WalletsInv
  <2>3. config["consuming_wallet_private_key"] \in Valued(w) /\ config["earning_wallet_address"] \in Valued(w)
    BY ZenonT(30), <2>2, EndsInDone
  <2> QED BY <2>3 DEF Valued
<1>5. CreditedOnce
  BY ZenonT(30) DEF ConfigInv, CreditInv, CreditedOnce
<1>6. NeighborhoodUpToDate
  <2>1. SUFFICES ASSUME task = NoJob, mailbox = <<>>
                 PROVE  /\ neighborhood.password = DbPassword
                        /\ neighborhood.min_hops = config["min_hops"].value
    BY ZenonT(30) DEF NeighborhoodUpToDate
  <2>2. PasswordKnown(mailbox, neighborhood, DbPassword)
        /\ HopsKnown(mailbox, neighborhood, config["min_hops"].value)
    BY <1>1, <1>2, <2>1 DEF KnownInv, PasswordNews, HopsNews
  <2> QED BY ZenonT(30), <2>1, <2>2, NewsAllRead
<1> QED BY <1>3, <1>4, <1>5, <1>6 DEF ConfigurationAgrees

(* Between two requests of the Configurator the configuration is of one    *)
(* piece, whatever the Neighborhood, the Accountant and a restart do in    *)
(* between: the secrets are under the password of the example unless the   *)
(* clime lets a save or an interruption into reencrypt_records, the        *)
(* wallets come in pairs, no payment is credited twice unless a scan may   *)
(* fall into it, and a Neighborhood that has read its ConfigChangeMsgs     *)
(* knows the password and the hops of the table.                           *)
THEOREM ConfigurationAlwaysAgrees == ConfigSpec => []ConfigurationAgrees
<1>1. ConfigInit => ConfigInv
  BY InitConfig
<1>2. ConfigInv /\ [ConfigNext]_configVars => ConfigInv'
  BY NextConfig
<1>3. ConfigInv => ConfigurationAgrees
  BY ConfigInvShows
<1> QED BY <1>1, <1>2, <1>3, PTL DEF ConfigSpec
=============================================================================
