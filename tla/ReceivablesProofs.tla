------------------------- MODULE ReceivablesProofs -------------------------
(***************************************************************************)
(* Proofs about the receivable scan: there is one at a time, and, as long  *)
(* as the RPC service tells the latest block, every payment is counted     *)
(* exactly once, whatever fails or crashes.                                *)
(***************************************************************************)
EXTENDS Receivables, TLAPS

\* The number of the latest block is known and right.
HeadKnown == Faults \cap {"no_number", "lagging"} = {}

\* What a scan under way holds.  Its start block is still the one of the
\* configuration, its range ends on the chain, and the blocks it reports are
\* those of its range that hold payments.
ScanHolds(s) ==
    LET f == flight[s]
    IN  flight[s] # Idle =>
        /\ f.stage = "number" => f.start = startBlock
        /\ f.stage = "logs" =>
              /\ f.start = startBlock
              /\ f.from \in Nat /\ f.end \in Nat /\ f.end <= Len(chain)
              /\ startBlock = Uninitialized => f.from = f.end
              /\ startBlock # Uninitialized => f.from = startBlock /\ startBlock <= f.end + 1
        /\ f.stage = "received" =>
              /\ f.next \in Nat /\ f.next <= Len(chain) + 1 /\ f.from <= f.next
              /\ startBlock # Uninitialized => f.from = startBlock
              /\ \A b \in Nat : b \in f.blocks <=> /\ b \in DOMAIN chain
                                                   /\ f.from <= b /\ b < f.next
                                                   /\ chain[b] # {}

PaymentsInv ==
    /\ startBlock # Uninitialized => origin <= startBlock /\ startBlock <= Len(chain) + 1
    /\ \A s \in Scans : ScanHolds(s)
    /\ PaymentsCountedOnce
    /\ \A b \in Blocks : b \notin DOMAIN chain => seen[b] = 0

-----------------------------------------------------------------------------
(* What the operators return.                                              *)

\* The fields a scan has at each stage.
LEMMA FlightFields ==
    ASSUME NEW f \in FlightType
    PROVE  /\ f # Idle
           /\ f.stage = "number" => f.start \in Markers /\ f.range \in Markers
           /\ f.stage = "logs" => f.start \in Markers /\ f.from \in Markers /\ f.end \in Markers
           /\ f.stage = "received" => f.from \in Nat /\ f.next \in Markers /\ f.blocks \subseteq Blocks
BY IdleAssumption DEF FlightType

\* The end of a range is a marker.
LEMMA EndBlockMarkerType ==
    ASSUME NEW start \in Markers, NEW range \in Markers, NEW number \in Markers
    PROVE  EndBlockMarker(start, range, number) \in Markers
BY ReceivablesAssumption DEF EndBlockMarker, Markers

\* If the latest block is known the range ends no later, and no earlier than
\* just before its start.
LEMMA EndBlockMarkerRange ==
    ASSUME NEW start \in Markers, NEW range \in Markers, NEW number \in Nat
    PROVE  LET end == EndBlockMarker(start, range, number)
           IN  /\ end \in Nat /\ end <= number
               /\ start = Uninitialized => end = number
               /\ start # Uninitialized /\ start <= number + 1 => start <= end + 1
<1> DEFINE end == EndBlockMarker(start, range, number)
           Goal == /\ end \in Nat /\ end <= number
                   /\ start = Uninitialized => end = number
                   /\ start # Uninitialized /\ start <= number + 1 => start <= end + 1
<1>1. number # Uninitialized
  BY ReceivablesAssumption
<1>2. ASSUME start = Uninitialized \/ range = Uninitialized PROVE Goal
  <2>1. end = number
    BY <1>1, <1>2 DEF EndBlockMarker
  <2> HIDE DEF end
  <2> QED BY <1>2, <2>1 DEF Markers
<1>3. ASSUME start # Uninitialized, range # Uninitialized PROVE Goal
  <2>1. start \in Nat /\ range \in Nat
    BY <1>3 DEF Markers
  <2>2. start + range # Uninitialized
    BY <2>1, ReceivablesAssumption
  <2>3. end = IF number < start + range THEN number ELSE start + range
    BY <1>1, <1>3, <2>2 DEF EndBlockMarker
  <2> HIDE DEF end
  <2> QED BY <1>3, <2>1, <2>3
<1> QED BY <1>2, <1>3

-----------------------------------------------------------------------------
(* Payments.                                                               *)

\* A step of a scan at the bridge need only be looked at for that scan.
LEMMA MovesKeepsPayments ==
    ASSUME TypeOK, PaymentsInv, NEW s \in Scans, NEW f \in FlightType, Moves(s, f), ScanHolds(s)'
    PROVE  PaymentsInv'
<1>1. \A t \in Scans : ScanHolds(t)'
  <2> SUFFICES ASSUME NEW t \in Scans, t # s PROVE ScanHolds(t)'
    OBVIOUS
  <2>1. flight'[t] = flight[t] /\ UNCHANGED <<chain, startBlock>>
    BY DEF Moves, TypeOK
  <2>2. ScanHolds(t)
    BY DEF PaymentsInv
  <2> QED BY <2>1, <2>2 DEF ScanHolds
<1> QED BY ZenonT(30), <1>1 DEF PaymentsInv, Moves, PaymentsCountedOnce

\* The range is fixed when the number of the latest block is known.
LEMMA NumberKeepsPayments ==
    ASSUME HeadKnown, TypeOK, PaymentsInv, NEW s \in Scans, BlockNumberAnswered(s)
    PROVE  PaymentsInv'
<1> DEFINE f == flight[s]
           number == Len(chain)
           g == [stage |-> "logs", start |-> f.start,
                 from |-> IF f.start = Uninitialized THEN number ELSE f.start,
                 end |-> EndBlockMarker(f.start, f.range, number)]
<1>1. LatestBlocks = {number}
  BY DEF LatestBlocks, HeadKnown
<1>2. Moves(s, g)
  BY ZenonT(30), <1>1 DEF BlockNumberAnswered
<1>3. f # Idle /\ f.stage = "number" /\ f \in FlightType
  BY ZenonT(30) DEF BlockNumberAnswered, At, TypeOK
<1>4. f.start = startBlock /\ f.range \in Markers /\ f.start \in Markers
  BY ZenonT(30), <1>3, FlightFields DEF PaymentsInv, ScanHolds
<1>5. number \in Nat /\ number \in Markers
  BY DEF TypeOK, Markers
<1>6. g.end \in Nat /\ g.end <= number
  BY Zenon, <1>4, <1>5, EndBlockMarkerRange
<1>7. startBlock = Uninitialized => g.from = g.end
  BY Zenon, <1>4, <1>5, EndBlockMarkerRange
<1>8. startBlock # Uninitialized => g.from = startBlock /\ startBlock <= g.end + 1
  BY Zenon, <1>4, <1>5, EndBlockMarkerRange DEF PaymentsInv
<1>9. g \in FlightType
  BY <1>4, <1>5, EndBlockMarkerType DEF FlightType
<1>10. g.from \in Nat
  BY ZenonT(30), <1>4, <1>5 DEF Markers
<1>11. flight'[s] = g /\ UNCHANGED <<chain, startBlock>> /\ g.stage = "logs" /\ g.start = startBlock
  BY ZenonT(30), <1>2, <1>4 DEF Moves, TypeOK
<1> HIDE DEF g, f
<1>12. ScanHolds(s)'
  BY ZenonT(30), <1>6, <1>7, <1>8, <1>10, <1>11 DEF ScanHolds
<1> QED BY ZenonT(30), <1>2, <1>9, <1>12, MovesKeepsPayments

\* The logs are those of the range, and the new start block follows its end.
LEMMA LogsKeepPayments ==
    ASSUME TypeOK, PaymentsInv, NEW s \in Scans, LogsRetrieved(s)
    PROVE  PaymentsInv'
<1> DEFINE f == flight[s]
           B == {b \in DOMAIN chain : /\ Resolved(f.from) <= b
                                      /\ b <= Resolved(f.end) /\ chain[b] # {}}
           g == [stage |-> "received", from |-> Resolved(f.from),
                 next |-> FindNewStartBlock(B, f.start, f.end), blocks |-> B]
<1>1. Moves(s, g)
  BY ZenonT(30) DEF LogsRetrieved
<1>2. f # Idle /\ f.stage = "logs"
  BY ZenonT(30) DEF LogsRetrieved, At
<1>3. /\ f.start = startBlock
      /\ f.from \in Nat /\ f.end \in Nat /\ f.end <= Len(chain)
      /\ startBlock = Uninitialized => f.from = f.end
      /\ startBlock # Uninitialized => f.from = startBlock /\ startBlock <= f.end + 1
  BY ZenonT(30), <1>2 DEF PaymentsInv, ScanHolds
<1>4. Resolved(f.from) = f.from /\ Resolved(f.end) = f.end
  BY SMTT(30), <1>3, ReceivablesAssumption DEF Resolved
<1>5. g.next = f.end + 1
  <2>1. f.end # Uninitialized
    BY <1>3, ReceivablesAssumption
  <2>2. FindNewStartBlock(B, f.start, f.end) = f.end + 1
    <3> HIDE DEF B, f
    <3> QED BY <2>1 DEF FindNewStartBlock
  <2> QED BY ZenonT(30), <2>2
<1>6. \A b \in Nat : b \in g.blocks <=> /\ b \in DOMAIN chain
                                       /\ g.from <= b /\ b < g.next
                                       /\ chain[b] # {}
  <2>1. g.blocks = {b \in DOMAIN chain : f.from <= b /\ b <= f.end /\ chain[b] # {}}
    BY ZenonT(30), <1>4
  <2>2. g.from = f.from
    BY ZenonT(30), <1>4
  <2>3. \A b \in Nat : b <= f.end <=> b < f.end + 1
    BY SMTT(30), <1>3
  <2> HIDE DEF g, f
  <2> QED BY ZenonT(30), <1>5, <2>1, <2>2, <2>3
<1>7. g \in FlightType
  <2>1. B \in SUBSET Blocks
    BY SMTT(30), ReceivablesAssumption DEF TypeOK, Blocks
  <2>2. f.end + 1 \in Markers
    BY <1>3 DEF Markers
  <2>3. g.next \in Markers
    <3> HIDE DEF g
    <3> QED BY ZenonT(30), <1>5, <2>2
  <2>4. g.from = f.from
    BY <1>4
  <2>5. g.from \in Nat
    <3> HIDE DEF g
    <3> QED BY ZenonT(30), <1>3, <2>4
  <2> QED BY ZenonT(30), <2>1, <2>3, <2>5 DEF FlightType
<1>8. flight'[s] = g /\ UNCHANGED <<chain, startBlock>> /\ g.stage = "received" /\ g.from = f.from
  BY ZenonT(30), <1>1, <1>4 DEF Moves, TypeOK
<1> HIDE DEF g
<1>9. ScanHolds(s)'
  <2>1. g.next \in Nat /\ g.next <= Len(chain) + 1 /\ g.from <= g.next
    BY SMTT(30), <1>3, <1>5, <1>8 DEF TypeOK
  <2>2. startBlock # Uninitialized => g.from = startBlock
    BY ZenonT(30), <1>3, <1>8
  <2> QED BY ZenonT(30), <1>6, <1>8, <2>1, <2>2 DEF ScanHolds
<1> QED BY ZenonT(30), <1>1, <1>7, <1>9, MovesKeepsPayments

\* Crediting a scan's payments counts each of them, and the ones before were
\* counted.
LEMMA ReceivedKeepsPayments ==
    ASSUME TypeOK, OneReceivableScanAtATime, PaymentsInv,
           NEW s \in Scans, HandleReceivedPayments(s)
    PROVE  PaymentsInv'
<1> DEFINE f == flight[s]
<1>1. f # Idle /\ f.stage = "received" /\ f \in FlightType
  BY ZenonT(30) DEF HandleReceivedPayments, At, TypeOK
<1>2. /\ f.next \in Nat /\ f.next <= Len(chain) + 1 /\ f.from <= f.next
      /\ startBlock # Uninitialized => f.from = startBlock
      /\ \A b \in Nat : b \in f.blocks <=> /\ b \in DOMAIN chain
                                           /\ f.from <= b /\ b < f.next
                                           /\ chain[b] # {}
  BY ZenonT(30), <1>1 DEF PaymentsInv, ScanHolds
<1>3. f.from \in Nat
  BY ZenonT(30), <1>1, FlightFields
<1>4. startBlock' = f.next /\ chain' = chain /\ f.next # Uninitialized
  <2>1. f.next # Uninitialized
    BY SMTT(30), <1>2, ReceivablesAssumption
  <2> QED BY ZenonT(30), <2>1 DEF HandleReceivedPayments
<1>5. origin' = IF startBlock = Uninitialized THEN f.from ELSE origin
  BY ZenonT(30) DEF HandleReceivedPayments
<1>6. \A b \in Blocks : seen'[b] = IF b \in f.blocks THEN seen[b] + 1 ELSE seen[b]
  BY ZenonT(30) DEF HandleReceivedPayments
<1>7. \A t \in Scans : ScanHolds(t)'
  <2>1. \A t \in Scans : flight'[t] = Idle
    BY <1>1 DEF HandleReceivedPayments, OneReceivableScanAtATime, Carriers, TypeOK
  <2> QED BY ZenonT(30), <2>1 DEF ScanHolds
<1>8. origin' <= startBlock' /\ startBlock' <= Len(chain') + 1
  <2>1. CASE startBlock = Uninitialized
    BY ZenonT(30), <1>2, <1>4, <1>5, <2>1
  <2>2. CASE startBlock # Uninitialized
    <3>1. origin <= startBlock /\ startBlock \in Nat /\ origin \in Nat
      BY ZenonT(30), <2>2 DEF PaymentsInv, TypeOK, Markers
    <3> HIDE DEF f
    <3> QED BY SMTT(30), <1>2, <1>4, <1>5, <2>2, <3>1
  <2> QED BY ZenonT(30), <2>1, <2>2
<1>9. PaymentsCountedOnce'
  <2> SUFFICES ASSUME NEW b \in DOMAIN chain
               PROVE  seen'[b] = IF chain[b] # {} /\ origin' <= b /\ b < f.next THEN 1 ELSE 0
    BY ZenonT(30), <1>4 DEF PaymentsCountedOnce
  <2>1. b \in Blocks /\ b \in Nat
    BY ReceivablesAssumption DEF TypeOK, Blocks
  <2>2. seen[b] = IF /\ chain[b] # {} /\ startBlock # Uninitialized
                     /\ origin <= b /\ b < startBlock
                  THEN 1 ELSE 0
    BY ZenonT(30) DEF PaymentsInv, PaymentsCountedOnce
  <2>3. b \in f.blocks <=> f.from <= b /\ b < f.next /\ chain[b] # {}
    BY ZenonT(30), <1>2, <2>1
  <2>4. seen'[b] = IF b \in f.blocks THEN seen[b] + 1 ELSE seen[b]
    BY ZenonT(30), <1>6, <2>1
  <2> HIDE DEF f
  <2>5. CASE startBlock = Uninitialized
    BY SMTT(30), <1>5, <2>2, <2>3, <2>4, <2>5
  <2>6. CASE startBlock # Uninitialized
    <3>1. origin <= startBlock /\ startBlock \in Nat /\ origin \in Nat
      BY ZenonT(30), <2>6 DEF PaymentsInv, TypeOK, Markers
    <3>2. f.from = startBlock /\ origin' = origin /\ startBlock <= f.next
      BY ZenonT(30), <1>2, <1>5, <2>6
    <3> QED BY SMTT(30), <1>2, <2>1, <2>2, <2>3, <2>4, <2>6, <3>1, <3>2
  <2> QED BY ZenonT(30), <2>5, <2>6
<1>10. \A b \in Blocks : b \notin DOMAIN chain' => seen'[b] = 0
  <2>1. \A b \in Blocks : b \in Nat
    BY SMTT(30), ReceivablesAssumption DEF Blocks
  <2> QED BY ZenonT(30), <1>2, <1>4, <1>6, <2>1 DEF PaymentsInv
<1> QED BY ZenonT(30), <1>7, <1>8, <1>9, <1>10 DEF PaymentsInv

\* A new block lies beyond every range that was fixed.
LEMMA MineKeepsPayments ==
    ASSUME TypeOK, PaymentsInv, NEW payers \in SUBSET Wallets, Mine(payers)
    PROVE  PaymentsInv'
<1>1. /\ Len(chain') = Len(chain) + 1 /\ Len(chain) \in Nat
      /\ DOMAIN chain = 1..Len(chain) /\ DOMAIN chain' = 1..Len(chain')
      /\ \A b \in DOMAIN chain : chain'[b] = chain[b]
  BY DEF Mine, TypeOK
<1>2. UNCHANGED <<startBlock, origin, flight, seen>> /\ Len(chain) < MaxBlocks
  BY DEF Mine, tables, memory
<1>3. startBlock' # Uninitialized => origin' <= startBlock' /\ startBlock' <= Len(chain') + 1
  <2> SUFFICES ASSUME startBlock # Uninitialized
               PROVE  origin <= startBlock /\ startBlock <= Len(chain') + 1
    BY <1>2
  <2>1. startBlock \in Nat
    BY ZenonT(30) DEF TypeOK, Markers
  <2> QED BY <1>1, <2>1 DEF PaymentsInv
<1>4. ASSUME NEW s \in Scans PROVE ScanHolds(s)'
  <2> DEFINE f == flight[s]
  <2> SUFFICES ASSUME f # Idle
               PROVE  /\ f.stage = "logs" => f.end <= Len(chain')
                      /\ f.stage = "received" =>
                            /\ f.next <= Len(chain') + 1
                            /\ \A b \in Nat : b \in f.blocks <=> /\ b \in DOMAIN chain'
                                                                 /\ f.from <= b /\ b < f.next
                                                                 /\ chain'[b] # {}
    BY <1>2 DEF PaymentsInv, ScanHolds
  <2>1. ScanHolds(s)
    BY DEF PaymentsInv
  <2>2. f.stage = "logs" => f.end <= Len(chain')
    <3>1. f.stage = "logs" => f.end \in Nat /\ f.end <= Len(chain)
      BY ZenonT(30), <2>1 DEF ScanHolds
    <3> HIDE DEF f
    <3> QED BY SMTT(30), <1>1, <3>1
  <2>3. ASSUME f.stage = "received"
        PROVE  /\ f.next <= Len(chain') + 1
               /\ \A b \in Nat : b \in f.blocks <=> /\ b \in DOMAIN chain'
                                                    /\ f.from <= b /\ b < f.next
                                                    /\ chain'[b] # {}
    <3>1. /\ f.next \in Nat /\ f.next <= Len(chain) + 1
          /\ \A b \in Nat : b \in f.blocks <=> /\ b \in DOMAIN chain
                                               /\ f.from <= b /\ b < f.next
                                               /\ chain[b] # {}
      BY ZenonT(30), <2>1, <2>3 DEF ScanHolds
    <3> HIDE DEF f
    <3> DEFINE n == Len(chain)
               next == f.next
    <3>2. n \in Nat /\ next \in Nat /\ next <= n + 1
      BY ZenonT(30), <1>1, <3>1
    <3>3. DOMAIN chain = 1..n /\ DOMAIN chain' = 1..(n + 1) /\ Len(chain') = n + 1
      BY <1>1
    <3>4. next <= Len(chain') + 1 /\ \A b \in Nat : b < next => (b \in 1..(n + 1) <=> b \in 1..n)
      <4> HIDE DEF n, next
      <4> QED BY <3>2, <3>3
    <3>5. \A b \in Nat : b < next => (b \in DOMAIN chain' <=> b \in DOMAIN chain)
      <4> HIDE DEF n, next
      <4> QED BY ZenonT(30), <3>3, <3>4
    <3>6. ASSUME NEW b \in Nat
          PROVE  b \in f.blocks <=> /\ b \in DOMAIN chain' /\ f.from <= b /\ b < f.next
                                    /\ chain'[b] # {}
      <4>1. CASE b < f.next /\ b \in DOMAIN chain
        BY ZenonT(30), <1>1, <3>1, <3>5, <4>1
      <4>2. CASE ~(b < f.next /\ b \in DOMAIN chain)
        BY ZenonT(30), <3>1, <3>5, <4>2
      <4> QED BY ZenonT(30), <4>1, <4>2
    <3> QED BY ZenonT(30), <3>4, <3>6
  <2> QED BY ZenonT(30), <2>2, <2>3
<1>5. PaymentsCountedOnce'
  <2> SUFFICES ASSUME NEW b \in DOMAIN chain'
               PROVE  seen[b] = IF /\ chain'[b] # {} /\ startBlock # Uninitialized
                                   /\ origin <= b /\ b < startBlock
                                THEN 1 ELSE 0
    BY ZenonT(30), <1>2 DEF PaymentsCountedOnce
  <2>1. CASE b \in DOMAIN chain
    BY ZenonT(30), <1>1, <2>1 DEF PaymentsInv, PaymentsCountedOnce
  <2>2. CASE b \notin DOMAIN chain
    <3>1. b = Len(chain) + 1 /\ b \in Blocks
      BY SMTT(30), <1>1, <1>2, <2>2, ReceivablesAssumption DEF Blocks
    <3>2. seen[b] = 0
      BY ZenonT(30), <2>2, <3>1 DEF PaymentsInv
    <3>3. startBlock # Uninitialized => startBlock \in Nat /\ startBlock <= b
      BY ZenonT(30), <3>1 DEF PaymentsInv, TypeOK, Markers
    <3> QED BY SMTT(30), <3>1, <3>2, <3>3, <1>1
  <2> QED BY ZenonT(30), <2>1, <2>2
<1>6. \A b \in Blocks : b \notin DOMAIN chain' => seen'[b] = 0
  BY SMTT(30), <1>1, <1>2 DEF PaymentsInv
<1> QED BY ZenonT(30), <1>3, <1>4, <1>5, <1>6 DEF PaymentsInv

\* Every step keeps count of the payments, if the latest block is known.
LEMMA StepKeepsPayments ==
    ASSUME HeadKnown
    PROVE  TypeOK /\ OneReceivableScanAtATime /\ PaymentsInv /\ [Next]_vars => PaymentsInv'
<1> SUFFICES ASSUME TypeOK, OneReceivableScanAtATime, PaymentsInv, [Next]_vars
             PROVE  PaymentsInv'
  BY ZenonT(30)
<1> USE DEF tables, memory
<1>1. ASSUME UNCHANGED <<chain, startBlock, flight, seen, origin>> PROVE PaymentsInv'
  BY ZenonT(30), <1>1 DEF PaymentsInv, ScanHolds, PaymentsCountedOnce
<1>2. ASSUME UNCHANGED <<chain, startBlock, seen, origin>>,
             \A t \in Scans : ScanHolds(t)'
      PROVE  PaymentsInv'
  BY Zenon, <1>2 DEF PaymentsInv, PaymentsCountedOnce
<1>3. CASE UNCHANGED vars
  BY <1>1, <1>3 DEF vars
<1>4. ASSUME NEW w \in Wallets, RecordServiceProvided(w) PROVE PaymentsInv'
  BY ZenonT(30), <1>1, <1>4 DEF RecordServiceProvided
<1>5. CASE ScanForReceivables
  BY <1>1, <1>5 DEF ScanForReceivables
<1>6. ASSUME NEW w \in Wallets, BanRow(w) \/ UnbanRow(w) PROVE PaymentsInv'
  BY <1>1, <1>6 DEF BanRow, UnbanRow
<1>7. CASE UpdateBanCache \/ FindReformedNodes
  BY ZenonT(30), <1>1, <1>7 DEF UpdateBanCache, FindReformedNodes
<1>8. ASSUME NEW s \in Scans, SendRetrieveTransactions(s) PROVE PaymentsInv'
  <2>1. \A t \in Scans : ScanHolds(t)'
    BY <1>8 DEF SendRetrieveTransactions, PaymentsInv, ScanHolds, TypeOK
  <2> QED BY ZenonT(30), <1>2, <1>8, <2>1 DEF SendRetrieveTransactions
<1>9. ASSUME NEW s \in Scans, HandleRetrieveTransactions(s) PROVE PaymentsInv'
  <2> DEFINE f == [stage |-> "number", start |-> startBlock, range |-> maxBlockCount]
  <2>1. Moves(s, f)
    BY ZenonT(30), <1>9 DEF HandleRetrieveTransactions
  <2>2. f \in FlightType
    BY ZenonT(30) DEF FlightType, TypeOK
  <2>3. ScanHolds(s)'
    BY <2>1 DEF Moves, ScanHolds, TypeOK
  <2> QED BY ZenonT(30), <2>1, <2>2, <2>3, MovesKeepsPayments
<1>10. ASSUME NEW s \in Scans, BlockNumberAnswered(s) PROVE PaymentsInv'
  BY ZenonT(30), <1>10, NumberKeepsPayments
<1>11. ASSUME NEW s \in Scans, LogsRetrieved(s) PROVE PaymentsInv'
  BY ZenonT(30), <1>11, LogsKeepPayments
<1>12. ASSUME NEW s \in Scans, RangeRefused(s) \/ LogsFail(s) PROVE PaymentsInv'
  <2> DEFINE f == [stage |-> "failed"]
  <2>1. Moves(s, f)
    BY <1>12 DEF RangeRefused, LogsFail
  <2>2. f \in FlightType
    BY ZenonT(30) DEF FlightType
  <2>3. ScanHolds(s)'
    BY <2>1 DEF Moves, ScanHolds, TypeOK
  <2> QED BY ZenonT(30), <2>1, <2>2, <2>3, MovesKeepsPayments
<1>13. ASSUME NEW s \in Scans, HandleReceivedPayments(s) PROVE PaymentsInv'
  BY <1>13, ReceivedKeepsPayments
<1>14. ASSUME NEW s \in Scans, HandleScanError(s) PROVE PaymentsInv'
  <2>1. \A t \in Scans : ScanHolds(t)'
    BY SMTT(30), <1>14 DEF HandleScanError, PaymentsInv, ScanHolds, TypeOK
  <2> QED BY ZenonT(30), <1>2, <1>14, <2>1 DEF HandleScanError
<1>15. ASSUME NEW payers \in SUBSET Wallets, Mine(payers) PROVE PaymentsInv'
  BY <1>15, MineKeepsPayments
<1>16. CASE TimePasses
  BY ZenonT(30), <1>1, <1>16 DEF TimePasses
<1>17. CASE Crash
  <2>1. \A t \in Scans : ScanHolds(t)'
    BY <1>17 DEF Crash, ScanHolds
  <2> QED BY ZenonT(30), <1>2, <1>17, <2>1 DEF Crash
<1>18. CASE Restart
  BY <1>1, <1>18 DEF Restart
<1> QED
  BY ZenonT(30), <1>3, <1>4, <1>5, <1>6, <1>7, <1>8, <1>9, <1>10, <1>11, <1>12, <1>13, <1>14,
     <1>15, <1>16, <1>17, <1>18 DEF Next, BeginScanStep

-----------------------------------------------------------------------------
(* Finite sets of blocks.                                                 *)

INSTANCE FiniteSetTheorems
INSTANCE WellFoundedInduction

\* A set of block numbers that is not empty has a highest one
\* (find_highest_block_marker_from_txs()).
LEMMA HighestExists ==
    ASSUME NEW n \in Nat, NEW S \in SUBSET (1..n), S # {}
    PROVE  \E b \in S : \A c \in S : c <= b
<1> DEFINE T == {n - b : b \in S}
           R == {p \in Nat \X Nat : p[1] < p[2]}
<1>1. T \subseteq Nat /\ T # {}
  <2>1. \A b \in S : n - b \in Nat
    OBVIOUS
  <2>2. PICK b \in S : TRUE
    BY Zenon
  <2>3. n - b \in T
    OBVIOUS
  <2> QED BY Zenon, <2>1, <2>3
<1>2. IsWellFoundedOn(R, Nat)
  BY NatLessThanWellFounded, Zenon DEF OpToRel
<1>3. PICK x \in T : \A y \in T : <<y, x>> \notin R
  <2> HIDE DEF T, R
  <2> QED BY Zenon, <1>1, <1>2, WFMin
<1>4. PICK b \in S : x = n - b
  BY <1>3
<1>5. \A y \in T : ~(y < x)
  <2> SUFFICES ASSUME NEW y \in T, y < x PROVE FALSE
    OBVIOUS
  <2>1. y \in Nat /\ x \in Nat
    BY <1>1, <1>3
  <2>2. <<y, x>> \in R
    BY <2>1
  <2> QED BY <2>2, <1>3
<1>6. \A c \in S : c <= b
  <2> SUFFICES ASSUME NEW c \in S PROVE c <= b
    OBVIOUS
  <2>1. n - c \in T
    OBVIOUS
  <2>2. ~(n - c < n - b)
    BY <2>1, <1>5, <1>4
  <2>3. b \in Int /\ c \in Int
    OBVIOUS
  <2> HIDE DEF T
  <2> QED BY <2>2, <2>3
<1> QED BY <1>6

\* The sum of a wallet's payments is a number.
LEMMA PaidType ==
    ASSUME TypeOK, NEW w \in Wallets, NEW B \in SUBSET Blocks
    PROVE  Paid(w, B) \in Nat
<1> DEFINE P == {b \in B : w \in chain[b]}
<1>1. IsFiniteSet(Blocks)
  BY FS_Interval, ReceivablesAssumption DEF Blocks
<1>2. P \subseteq Blocks
  OBVIOUS
<1>3. IsFiniteSet(P)
  <2> HIDE DEF P
  <2> QED BY <1>1, <1>2, FS_Subset
<1> QED BY <1>3, FS_CardinalityType DEF Paid

\* The new start block is a marker.
LEMMA FindNewStartBlockType ==
    ASSUME NEW start \in Markers, NEW end \in Markers, NEW B \in SUBSET Blocks
    PROVE  FindNewStartBlock(B, start, end) \in Markers
<1>1. CASE end # Uninitialized
  BY <1>1, ReceivablesAssumption DEF FindNewStartBlock, Markers
<1>2. CASE end = Uninitialized /\ B # {}
  <2>1. \E b \in B : \A c \in B : c <= b
    BY Zenon, <1>2, HighestExists, ReceivablesAssumption DEF Blocks
  <2> DEFINE h == CHOOSE b \in B : \A c \in B : c <= b
  <2>2. h \in B
    BY <2>1
  <2>3. FindNewStartBlock(B, start, end) = 1 + h
    BY <1>2 DEF FindNewStartBlock
  <2> HIDE DEF h
  <2>4. h \in Nat
    BY <2>2, ReceivablesAssumption DEF Blocks
  <2> QED BY <2>3, <2>4 DEF Markers
<1>3. CASE end = Uninitialized /\ B = {}
  BY <1>3, ReceivablesAssumption DEF FindNewStartBlock, Markers
<1> QED BY <1>1, <1>2, <1>3

-----------------------------------------------------------------------------
(* Types.                                                                  *)

\* The tables of a new Node have their types.
LEMMA InitType == Init => TypeOK
<1> SUFFICES ASSUME Init PROVE TypeOK
  OBVIOUS
<1>1. chain \in Seq(SUBSET Wallets) /\ Len(chain) = 1
  <2>1. PICK payers \in SUBSET Wallets : chain = <<payers>>
    BY DEF Init
  <2> QED BY <2>1
<1>2. age \in [Wallets -> 0..MaxAge]
  BY ReceivablesAssumption DEF Init
<1>3. flight \in [Scans -> FlightType \cup {Idle}] /\ seen \in [Blocks -> Nat]
  BY DEF Init
<1>4. balance \in [Wallets -> Int] /\ startBlock \in Markers /\ maxBlockCount \in Markers
  BY DEF Init, Markers
<1>5. 1 <= MaxBlocks
  BY ReceivablesAssumption
<1> QED BY Zenon, <1>1, <1>2, <1>3, <1>4, <1>5 DEF Init, TypeOK

\* A step of a scan at the bridge changes nothing else but max_block_count.
LEMMA MovesType ==
    ASSUME TypeOK, NEW s \in Scans, NEW f \in FlightType, Moves(s, f), maxBlockCount' \in Markers
    PROVE  TypeOK'
BY DEF TypeOK, Moves

\* A step of a scan at the bridge
BridgeStep(s) ==
    \/ HandleRetrieveTransactions(s) \/ BlockNumberAnswered(s)
    \/ LogsRetrieved(s) \/ RangeRefused(s) \/ LogsFail(s)

\* It takes the scan to a next stage.
LEMMA BridgeStepMoves ==
    ASSUME TypeOK, NEW s \in Scans, BridgeStep(s)
    PROVE  /\ flight[s] # Idle /\ maxBlockCount' \in Markers
           /\ \E f \in FlightType : Moves(s, f)
<1>1. CASE HandleRetrieveTransactions(s)
  <2>1. [stage |-> "number", start |-> startBlock, range |-> maxBlockCount] \in FlightType
    BY DEF FlightType, TypeOK
  <2> QED BY <1>1, <2>1 DEF HandleRetrieveTransactions, TypeOK, At
<1>2. CASE BlockNumberAnswered(s)
  <2> DEFINE f == flight[s]
  <2>1. f.start \in Markers /\ f.range \in Markers
    BY <1>2, FlightFields DEF BlockNumberAnswered, At, TypeOK
  <2>2. PICK number \in LatestBlocks :
           Moves(s, [stage |-> "logs", start |-> f.start,
                     from |-> IF f.start = Uninitialized THEN number ELSE f.start,
                     end |-> EndBlockMarker(f.start, f.range, number)])
    BY <1>2 DEF BlockNumberAnswered
  <2>3. number \in Markers
    BY <2>2 DEF LatestBlocks, TypeOK, Markers
  <2>4. [stage |-> "logs", start |-> f.start,
         from |-> IF f.start = Uninitialized THEN number ELSE f.start,
         end |-> EndBlockMarker(f.start, f.range, number)] \in FlightType
    BY ZenonT(30), <2>1, <2>3, EndBlockMarkerType DEF FlightType
  <2> QED BY ZenonT(30), <1>2, <2>2, <2>4 DEF BlockNumberAnswered, TypeOK, At
<1>3. CASE LogsRetrieved(s)
  <2> DEFINE f == flight[s]
             B == {b \in DOMAIN chain : /\ Resolved(f.from) <= b
                                        /\ b <= Resolved(f.end) /\ chain[b] # {}}
             g == [stage |-> "received", from |-> Resolved(f.from),
                   next |-> FindNewStartBlock(B, f.start, f.end), blocks |-> B]
  <2>1. f.start \in Markers /\ f.from \in Markers /\ f.end \in Markers
    BY <1>3, FlightFields DEF LogsRetrieved, At, TypeOK
  <2>2. B \in SUBSET Blocks
    BY ReceivablesAssumption DEF TypeOK, Blocks
  <2>3. Resolved(f.from) \in Nat
    BY <2>1 DEF Resolved, Markers, TypeOK
  <2>4. FindNewStartBlock(B, f.start, f.end) \in Markers
    <3> HIDE DEF B, f
    <3> QED BY ZenonT(30), <2>1, <2>2, FindNewStartBlockType
  <2>5. Moves(s, g)
    BY <1>3 DEF LogsRetrieved
  <2>6. g \in FlightType
    <3> HIDE DEF B, f
    <3> QED BY ZenonT(30), <2>2, <2>3, <2>4 DEF FlightType
  <2>7. maxBlockCount' \in Markers
    BY <1>3 DEF LogsRetrieved, TypeOK
  <2> HIDE DEF g
  <2> QED BY ZenonT(30), <1>3, <2>5, <2>6, <2>7 DEF LogsRetrieved, At
<1>4. CASE RangeRefused(s)
  <2>1. [stage |-> "failed"] \in FlightType
    BY DEF FlightType
  <2>2. ServiceLimit \in Markers
    BY ReceivablesAssumption DEF Markers
  <2> QED BY <1>4, <2>1, <2>2 DEF RangeRefused, At
<1>5. CASE LogsFail(s)
  <2>1. [stage |-> "failed"] \in FlightType
    BY DEF FlightType
  <2> QED BY <1>5, <2>1 DEF LogsFail, TypeOK, At
<1> QED BY ZenonT(30), <1>1, <1>2, <1>3, <1>4, <1>5 DEF BridgeStep

\* A wallet that is done with leaves the rest of ban() and unban() well formed.
LEMMA JobGoesOn ==
    ASSUME NEW j \in JobType, NEW w \in Wallets
    PROVE  /\ [j EXCEPT !.left = @ \ {w}] \in JobType
           /\ [j EXCEPT !.left = @ \ {w}, !.row = {w}] \in JobType
<1>1. [j EXCEPT !.left = @ \ {w}] \in JobType
  BY SMTT(30) DEF JobType
<1>2. [j EXCEPT !.left = @ \ {w}, !.row = {w}] \in JobType
  <2> DEFINE k == [j EXCEPT !.left = @ \ {w}]
  <2>1. ASSUME NEW i \in JobType PROVE [i EXCEPT !.row = {w}] \in JobType
    BY <2>1 DEF JobType
  <2>2. [j EXCEPT !.left = @ \ {w}, !.row = {w}] = [k EXCEPT !.row = {w}]
    BY DEF JobType
  <2> HIDE DEF k
  <2>3. [k EXCEPT !.row = {w}] \in JobType
    BY Zenon, <1>1, <2>1 DEF k
  <2> QED BY <2>2, <2>3
<1> QED BY <1>1, <1>2

\* Every step keeps the types.
LEMMA StepType == TypeOK /\ [Next]_vars => TypeOK'
<1> SUFFICES ASSUME TypeOK, [Next]_vars PROVE TypeOK'
  OBVIOUS
<1> USE DEF tables, memory
<1>1. CASE UNCHANGED vars
  BY <1>1 DEF TypeOK, vars
<1>2. ASSUME NEW w \in Wallets, RecordServiceProvided(w) PROVE TypeOK'
  <2>1. age' \in [Wallets -> 0..MaxAge]
    BY SMTT(30), <1>2, ReceivablesAssumption DEF RecordServiceProvided, TypeOK
  <2> QED BY <1>2, <2>1 DEF RecordServiceProvided, TypeOK
<1>3. CASE ScanForReceivables
  <2>1. job' \in JobType
    BY <1>3 DEF ScanForReceivables, NewDelinquencies, TypeOK, JobType
  <2> QED BY ZenonT(30), <1>3, <2>1 DEF ScanForReceivables, TypeOK
<1>4. ASSUME NEW w \in Wallets, BanRow(w) PROVE TypeOK'
  <2>1. job' \in JobType
    <3>1. job \in JobType
      BY <1>4 DEF BanRow, TypeOK
    <3>2. \/ job' = [job EXCEPT !.left = @ \ {w}]
          \/ job' = [job EXCEPT !.left = @ \ {w}, !.row = {w}]
      BY <1>4 DEF BanRow
    <3> QED BY Zenon, <3>1, <3>2, JobGoesOn
  <2>2. banned' \subseteq Wallets
    BY <1>4 DEF BanRow, TypeOK
  <2> QED BY ZenonT(30), <1>4, <2>1, <2>2 DEF BanRow, TypeOK
<1>5. ASSUME NEW w \in Wallets, UnbanRow(w) PROVE TypeOK'
  <2>1. job' \in JobType
    <3>1. job \in JobType
      BY <1>5 DEF UnbanRow, TypeOK
    <3>2. \/ job' = [job EXCEPT !.left = @ \ {w}]
          \/ job' = [job EXCEPT !.left = @ \ {w}, !.row = {w}]
      BY <1>5 DEF UnbanRow
    <3> QED BY ZenonT(30), <3>1, <3>2, JobGoesOn
  <2>2. banned' \subseteq Wallets
    BY <1>5 DEF UnbanRow, TypeOK
  <2> QED BY ZenonT(30), <1>5, <2>1, <2>2 DEF UnbanRow, TypeOK
<1>6. CASE UpdateBanCache
  <2>1. job' \in JobType /\ banCache' \subseteq Wallets
    BY Zenon, <1>6 DEF UpdateBanCache, CacheAfter, TypeOK, JobType
  <2> QED BY <1>6, <2>1 DEF UpdateBanCache, TypeOK
<1>7. CASE FindReformedNodes
  <2>1. job' \in JobType
    BY SMTT(30), <1>7 DEF FindReformedNodes, PaidDelinquencies, TypeOK, JobType
  <2> QED BY SMTT(30), <1>7, <2>1 DEF FindReformedNodes, TypeOK
<1>8. ASSUME NEW s \in Scans, SendRetrieveTransactions(s) PROVE TypeOK'
  <2>1. [stage |-> "asked"] \in FlightType
    BY DEF FlightType
  <2> QED BY <1>8, <2>1 DEF SendRetrieveTransactions, TypeOK
<1>9. ASSUME NEW s \in Scans, BridgeStep(s) PROVE TypeOK'
  BY ZenonT(30), <1>9, BridgeStepMoves, MovesType
<1>10. ASSUME NEW s \in Scans, HandleReceivedPayments(s) PROVE TypeOK'
  <2> DEFINE f == flight[s]
  <2>1. f.from \in Nat /\ f.next \in Markers /\ f.blocks \in SUBSET Blocks
    BY <1>10, FlightFields DEF HandleReceivedPayments, At, TypeOK
  <2>2. \A w \in Wallets : Paid(w, f.blocks) \in Nat
    BY <2>1, PaidType
  <2>3. balance' \in [Wallets -> Int]
    BY <1>10, <2>2 DEF HandleReceivedPayments, TypeOK
  <2>4. age' \in [Wallets -> 0..MaxAge]
    BY SMTT(30), <1>10, ReceivablesAssumption DEF HandleReceivedPayments, TypeOK
  <2>5. seen' \in [Blocks -> Nat]
    BY <1>10 DEF HandleReceivedPayments, TypeOK
  <2>6. startBlock' \in Markers /\ origin' \in Nat
    BY ZenonT(30), <1>10, <2>1 DEF HandleReceivedPayments, TypeOK
  <2> QED BY Zenon, <1>10, <2>3, <2>4, <2>5, <2>6 DEF HandleReceivedPayments, TypeOK
<1>11. ASSUME NEW s \in Scans, HandleScanError(s) PROVE TypeOK'
  BY Zenon, <1>11 DEF HandleScanError, TypeOK
<1>12. ASSUME NEW payers \in SUBSET Wallets, Mine(payers) PROVE TypeOK'
  <2>1. chain' \in Seq(SUBSET Wallets) /\ Len(chain') <= MaxBlocks
    BY <1>12, ReceivablesAssumption DEF Mine, TypeOK
  <2> QED BY <1>12, <2>1 DEF Mine, TypeOK
<1>13. CASE TimePasses
  <2>1. age' \in [Wallets -> 0..MaxAge]
    BY <1>13, ReceivablesAssumption DEF TimePasses, TypeOK
  <2> QED BY <1>13, <2>1 DEF TimePasses, TypeOK
<1>14. CASE Crash
  BY Zenon, <1>14 DEF Crash, TypeOK
<1>15. CASE Restart
  BY <1>15 DEF Restart, LoadedCache, TypeOK
<1> QED
  BY SMTT(30), <1>1, <1>2, <1>3, <1>4, <1>5, <1>6, <1>7, <1>8, <1>9, <1>10, <1>11, <1>12,
     <1>13, <1>14, <1>15 DEF Next, BeginScanStep, BridgeStep

\* The tables, the scanner and the scans under way keep their types, whatever
\* fails.
THEOREM ReceivablesTypeCorrect == Spec => []TypeOK
BY InitType, StepType, PTL DEF Spec

-----------------------------------------------------------------------------
(* One scan at a time.                                                     *)

\* A step of a scan at the bridge leaves the carriers what they are.
LEMMA MovesKeepsScan ==
    ASSUME TypeOK, OneReceivableScanAtATime,
           NEW s \in Scans, NEW f \in FlightType, Moves(s, f), flight[s] # Idle
    PROVE  OneReceivableScanAtATime'
<1>1. f # Idle
  BY FlightFields
<1>2. Carriers' = Carriers
  BY <1>1 DEF Moves, Carriers, TypeOK
<1> QED BY <1>2 DEF Moves, OneReceivableScanAtATime

\* The end of a scan at the Accountant removes its only carrier.
LEMMA EndKeepsScan ==
    ASSUME TypeOK, OneReceivableScanAtATime, NEW s \in Scans,
           flight[s] # Idle, job' = job, started' = FALSE,
           flight' = [flight EXCEPT ![s] = Idle]
    PROVE  OneReceivableScanAtATime'
<1>1. Carriers = {s}
  BY DEF OneReceivableScanAtATime, Carriers
<1>2. Carriers' = {}
  BY <1>1 DEF Carriers, TypeOK
<1>3. job' = Idle
  BY <1>1 DEF OneReceivableScanAtATime
<1> QED BY <1>2, <1>3 DEF OneReceivableScanAtATime

\* Every step keeps the mark and its only carrier together.
LEMMA StepKeepsScan ==
    TypeOK /\ TypeOK' /\ OneReceivableScanAtATime /\ [Next]_vars => OneReceivableScanAtATime'
<1> SUFFICES ASSUME TypeOK, TypeOK', OneReceivableScanAtATime, [Next]_vars
             PROVE  OneReceivableScanAtATime'
  OBVIOUS
<1> USE DEF tables, memory
<1>1. ASSUME UNCHANGED <<started, job, flight>> PROVE OneReceivableScanAtATime'
  BY <1>1 DEF OneReceivableScanAtATime, Carriers
<1>2. ASSUME UNCHANGED <<started, flight>>, job # Idle, job' # Idle
      PROVE  OneReceivableScanAtATime'
  BY <1>2 DEF OneReceivableScanAtATime, Carriers
<1>3. CASE UNCHANGED vars
  BY <1>1, <1>3 DEF vars
<1>4. ASSUME NEW w \in Wallets, RecordServiceProvided(w) PROVE OneReceivableScanAtATime'
  BY ZenonT(30), <1>1, <1>4 DEF RecordServiceProvided
<1>5. CASE ScanForReceivables
  <2>1. job' # Idle
    BY <1>5, IdleAssumption DEF ScanForReceivables, JobType, NewDelinquencies, TypeOK
  <2> QED BY ZenonT(30), <1>5, <2>1 DEF ScanForReceivables, MayBegin, OneReceivableScanAtATime, Carriers
<1>6. ASSUME NEW w \in Wallets, BanRow(w) PROVE OneReceivableScanAtATime'
  <2>1. job \in JobType /\ (\/ job' = [job EXCEPT !.left = @ \ {w}]
                            \/ job' = [job EXCEPT !.left = @ \ {w}, !.row = {w}])
    BY <1>6 DEF BanRow, TypeOK
  <2>2. job' # Idle
    <3>1. job' \in JobType
      BY Zenon, <2>1, JobGoesOn
    <3> QED BY ZenonT(30), <3>1, IdleAssumption
  <2> QED BY <1>2, <1>6, <2>2 DEF BanRow
<1>7. ASSUME NEW w \in Wallets, UnbanRow(w) PROVE OneReceivableScanAtATime'
  <2>1. job \in JobType /\ (\/ job' = [job EXCEPT !.left = @ \ {w}]
                            \/ job' = [job EXCEPT !.left = @ \ {w}, !.row = {w}])
    BY ZenonT(30), <1>7 DEF UnbanRow, TypeOK
  <2>2. job' # Idle
    <3>1. job' \in JobType
      BY ZenonT(30), <2>1, JobGoesOn
    <3> QED BY <3>1, IdleAssumption
  <2> QED BY <1>2, <1>7, <2>2 DEF UnbanRow
<1>8. CASE UpdateBanCache
  <2>1. job' \in JobType
    BY Zenon, <1>8 DEF UpdateBanCache, TypeOK, JobType
  <2> QED BY <1>2, <1>8, <2>1, IdleAssumption DEF UpdateBanCache
<1>9. CASE FindReformedNodes
  <2>1. job' \in JobType
    BY <1>9 DEF FindReformedNodes, PaidDelinquencies, TypeOK, JobType
  <2> QED BY SMTT(30), <1>2, <1>9, <2>1, IdleAssumption DEF FindReformedNodes
<1>10. ASSUME NEW s \in Scans, SendRetrieveTransactions(s) PROVE OneReceivableScanAtATime'
  <2>1. [stage |-> "asked"] \in FlightType
    BY DEF FlightType
  <2>2. Carriers = {} /\ started
    BY ZenonT(30), <1>10 DEF SendRetrieveTransactions, OneReceivableScanAtATime
  <2>3. Carriers' = {s}
    BY ZenonT(30), <1>10, <2>1, <2>2, IdleAssumption DEF SendRetrieveTransactions, Carriers, TypeOK
  <2> QED BY <1>10, <2>2, <2>3 DEF SendRetrieveTransactions, OneReceivableScanAtATime
<1>11. ASSUME NEW s \in Scans, BridgeStep(s) PROVE OneReceivableScanAtATime'
  BY ZenonT(30), <1>11, BridgeStepMoves, MovesKeepsScan
<1>12. ASSUME NEW s \in Scans, HandleReceivedPayments(s) PROVE OneReceivableScanAtATime'
  BY Zenon, <1>12, EndKeepsScan DEF HandleReceivedPayments, At
<1>13. ASSUME NEW s \in Scans, HandleScanError(s) PROVE OneReceivableScanAtATime'
  BY Zenon, <1>13, EndKeepsScan DEF HandleScanError, At
<1>14. ASSUME NEW payers \in SUBSET Wallets, Mine(payers) PROVE OneReceivableScanAtATime'
  BY <1>1, <1>14 DEF Mine
<1>15. CASE TimePasses
  BY <1>1, <1>15 DEF TimePasses
<1>16. CASE Crash
  <2>1. Carriers' = {}
    BY <1>16 DEF Crash, Carriers
  <2> QED BY <1>16, <2>1 DEF Crash, OneReceivableScanAtATime
<1>17. CASE Restart
  BY <1>1, <1>17 DEF Restart
<1> QED
  BY ZenonT(30), <1>3, <1>4, <1>5, <1>6, <1>7, <1>8, <1>9, <1>10, <1>11, <1>12, <1>13, <1>14,
     <1>15, <1>16, <1>17 DEF Next, BeginScanStep, BridgeStep

\* Whatever fails, the receivable scanner is marked exactly while one handler,
\* future or message carries its scan (begin_scan(), finish_scan(), ScanError).
THEOREM OneReceivableScan == Spec => []OneReceivableScanAtATime
<1>1. Init => OneReceivableScanAtATime
  BY DEF Init, OneReceivableScanAtATime, Carriers
<1> QED BY <1>1, ReceivablesTypeCorrect, StepKeepsScan, PTL DEF Spec

-----------------------------------------------------------------------------
(* The cache of bans.                                                      *)

\* The cache is the table, but for the row that ban() or unban() just changed.
\* A Node that is down runs no handler.
CacheInv ==
    /\ up => banned = IF job = Idle THEN banCache ELSE CacheAfter
    /\ ~up => job = Idle

\* Every step keeps the cache and the table together.
LEMMA StepKeepsCache == TypeOK /\ CacheInv /\ [Next]_vars => CacheInv'
<1> SUFFICES ASSUME TypeOK, CacheInv, [Next]_vars PROVE CacheInv'
  OBVIOUS
<1> USE DEF tables, memory
<1>1. ASSUME UNCHANGED <<up, banned, banCache, job>> PROVE CacheInv'
  BY <1>1 DEF CacheInv, CacheAfter
<1>2. CASE UNCHANGED vars
  BY <1>1, <1>2 DEF vars
<1>3. ASSUME NEW w \in Wallets, RecordServiceProvided(w) PROVE CacheInv'
  BY <1>1, <1>3 DEF RecordServiceProvided
<1>4. CASE ScanForReceivables
  BY <1>4 DEF ScanForReceivables, Free, CacheInv, CacheAfter
<1>5. ASSUME NEW w \in Wallets, BanRow(w) PROVE CacheInv'
  <2>1. job \in JobType /\ job # Idle /\ job.phase = "ban" /\ job.row = {} /\ banned = banCache
    BY <1>5 DEF BanRow, TypeOK, CacheInv, CacheAfter
  <2>2. CASE w \in banCache
    BY <1>5, <2>1, <2>2 DEF BanRow, CacheInv, CacheAfter, JobType
  <2>3. CASE w \notin banCache
    <3>1. job' = [job EXCEPT !.left = @ \ {w}, !.row = {w}]
      BY <1>5, <2>3 DEF BanRow
    <3>2. job'.phase = job.phase /\ job'.row = {w}
      BY <2>1, <3>1 DEF JobType
    <3>3. CacheAfter' = banned' /\ up'
      BY ZenonT(30), <1>5, <2>1, <2>3, <3>2 DEF BanRow, CacheAfter
    <3>4. job' \in JobType
      BY Zenon, <2>1, <3>1 DEF JobType
    <3> QED BY <3>3, <3>4, IdleAssumption DEF CacheInv
  <2> QED BY <2>2, <2>3
<1>6. ASSUME NEW w \in Wallets, UnbanRow(w) PROVE CacheInv'
  <2>1. job \in JobType /\ job # Idle /\ job.phase = "unban" /\ job.row = {} /\ banned = banCache
    BY <1>6 DEF UnbanRow, TypeOK, CacheInv, CacheAfter
  <2>2. CASE w \notin banCache
    BY <1>6, <2>1, <2>2 DEF UnbanRow, CacheInv, CacheAfter, JobType
  <2>3. CASE w \in banCache
    <3>1. job' = [job EXCEPT !.left = @ \ {w}, !.row = {w}]
      BY <1>6, <2>3 DEF UnbanRow
    <3>2. job'.phase = job.phase /\ job'.row = {w}
      BY <2>1, <3>1 DEF JobType
    <3>3. CacheAfter' = banned' /\ up'
      BY ZenonT(30), <1>6, <2>1, <2>3, <3>2 DEF UnbanRow, CacheAfter
    <3>4. job' \in JobType
      BY Zenon, <2>1, <3>1 DEF JobType
    <3> QED BY <3>3, <3>4, IdleAssumption DEF CacheInv
  <2> QED BY <2>2, <2>3
<1>7. CASE UpdateBanCache
  <2>1. job \in JobType /\ job' = [job EXCEPT !.row = {}] /\ banCache' = banned
    BY <1>7 DEF UpdateBanCache, TypeOK, CacheInv
  <2> QED BY <1>7, <2>1 DEF UpdateBanCache, CacheInv, CacheAfter, JobType
<1>8. CASE FindReformedNodes
  <2>1. banned = banCache
    BY <1>8 DEF FindReformedNodes, CacheInv, CacheAfter
  <2> QED BY <1>8, <2>1 DEF FindReformedNodes, CacheInv, CacheAfter
<1>9. ASSUME NEW s \in Scans, SendRetrieveTransactions(s) PROVE CacheInv'
  BY <1>9 DEF SendRetrieveTransactions, CacheInv, CacheAfter
<1>10. ASSUME NEW s \in Scans, BridgeStep(s) PROVE CacheInv'
  BY ZenonT(30), <1>1, <1>10, BridgeStepMoves DEF Moves
<1>11. ASSUME NEW s \in Scans, HandleReceivedPayments(s) PROVE CacheInv'
  BY <1>1, <1>11 DEF HandleReceivedPayments
<1>12. ASSUME NEW s \in Scans, HandleScanError(s) PROVE CacheInv'
  BY <1>1, <1>12 DEF HandleScanError
<1>13. ASSUME NEW payers \in SUBSET Wallets, Mine(payers) PROVE CacheInv'
  BY ZenonT(30), <1>1, <1>13 DEF Mine
<1>14. CASE TimePasses
  BY ZenonT(30), <1>1, <1>14 DEF TimePasses
<1>15. CASE Crash
  BY <1>15 DEF Crash, CacheInv
<1>16. CASE Restart
  BY <1>16 DEF Restart, LoadedCache, CacheInv
<1> QED
  BY ZenonT(30), <1>2, <1>3, <1>4, <1>5, <1>6, <1>7, <1>8, <1>9, <1>10, <1>11, <1>12, <1>13,
     <1>14, <1>15, <1>16 DEF Next, BeginScanStep, BridgeStep

\* Whatever fails, between handlers of a running Node the cache that decides
\* whom to serve is the table (ban(), unban(), BannedCacheLoader).
THEOREM BanCacheIsTable == Spec => []BanCacheAgrees
<1>1. Init => CacheInv
  BY DEF Init, CacheInv
<1>2. CacheInv => BanCacheAgrees
  BY DEF CacheInv, BanCacheAgrees, Free
<1> QED BY <1>1, <1>2, ReceivablesTypeCorrect, StepKeepsCache, PTL DEF Spec

-----------------------------------------------------------------------------
(* Every payment once.                                                     *)

\* As long as the RPC service tells the latest block, every payment between the
\* first block scanned and the start block was handled exactly once, and none
\* beyond, whatever requests fail and wherever the Node crashes
\* (handle_new_received_payments(), find_new_start_block()).
THEOREM EveryPaymentCountedOnce ==
    ASSUME HeadKnown
    PROVE  Spec => []PaymentsCountedOnce
<1>1. Init => PaymentsInv
  <2> SUFFICES ASSUME Init PROVE PaymentsInv
    BY ZenonT(30)
  <2>1. DOMAIN chain \subseteq Blocks
    BY SMTT(30), InitType, ReceivablesAssumption DEF TypeOK, Blocks
  <2>2. \A s \in Scans : ScanHolds(s)
    BY DEF Init, ScanHolds
  <2>3. startBlock = Uninitialized /\ \A b \in Blocks : seen[b] = 0
    BY DEF Init
  <2> QED BY <2>1, <2>2, <2>3 DEF PaymentsInv, PaymentsCountedOnce
<1>2. PaymentsInv => PaymentsCountedOnce
  BY DEF PaymentsInv
<1>3. TypeOK /\ OneReceivableScanAtATime /\ PaymentsInv /\ [Next]_vars => PaymentsInv'
  BY StepKeepsPayments
<1> QED BY <1>1, <1>2, <1>3, ReceivablesTypeCorrect, OneReceivableScan, PTL DEF Spec

\* As long as the RPC service tells the latest block, the mark of the scanner,
\* the start block and the ban cache agree with what they stand for.
THEOREM ReceivablesStayAgreed ==
    ASSUME HeadKnown
    PROVE  Spec => []ReceivablesAgree
<1>1. OneReceivableScanAtATime /\ PaymentsCountedOnce /\ BanCacheAgrees => ReceivablesAgree
  BY DEF ReceivablesAgree
<1>2. Spec => []PaymentsCountedOnce
  BY EveryPaymentCountedOnce
<1> QED BY <1>1, <1>2, OneReceivableScan, BanCacheIsTable, PTL
=============================================================================
