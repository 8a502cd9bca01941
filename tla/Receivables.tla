---------------------------- MODULE Receivables ----------------------------
(***************************************************************************)
(* The receivables of a Node: debtors are charged for services, the        *)
(* receivable scan bans those who owe too much for too long, asks the      *)
(* chain for new payments, credits them and remembers the block to go on   *)
(* from.  The Accountant and the BlockchainBridge are two threads; the     *)
(* bridge waits for the chain in futures.  Tables survive a crash.         *)
(***************************************************************************)
EXTENDS Integers, Sequences, FiniteSets

CONSTANTS
    Wallets,          \* debtors
    MaxBlocks,        \* bound: blocks mined
    MaxDebt,          \* bound: balance up to which services are charged
    MaxAge,           \* bound: ages are told apart up to this one
    Scans,            \* bound: names of scans under way at the same time
    Grace,            \* maturity_threshold_sec + payment_grace_period_sec
    DebtThreshold,    \* debt_threshold_gwei
    Permanent,        \* permanent_debt_allowed_gwei
    Interval,         \* threshold_interval_sec
    UnbanBelow,       \* unban_below_gwei
    Word,             \* a balance is stored as two words, of 2^63 in the code
    ServiceLimit,     \* longest range of blocks the RPC service accepts
    Faults,           \* what may fail: see FaultNames
    Uninitialized,    \* BlockMarker::Uninitialized, BlockScanRange::NoLimit
    Idle              \* no handler is running; no scan under this name

FaultNames == {"crash",      \* the Node stops at any moment
               "error",      \* the RPC service answers a log request with an error
               "no_number",  \* it does not tell the number of the latest block
               "lagging"}    \* it tells that of an earlier block

ASSUME ReceivablesAssumption ==
    /\ {MaxBlocks, MaxAge, Grace, ServiceLimit, MaxDebt} \subseteq Nat
    /\ {DebtThreshold, Permanent, UnbanBelow} \subseteq Nat
    /\ Interval \in Nat \ {0} /\ Word \in Nat \ {0}
    /\ MaxBlocks > 0 /\ DebtThreshold > Permanent
    /\ Faults \subseteq FaultNames
    /\ Uninitialized \notin Int

VARIABLES
    chain,          \* chain[b]: the wallets that pay this Node one unit in block b
    known,          \* the wallets with a row in table receivable
    balance,        \* its balance
    age,            \* the time since its last_received_timestamp
    banned,         \* table banned
    startBlock,     \* configuration start_block
    maxBlockCount,  \* configuration max_block_count
    up,             \* the Node runs
    banCache,       \* BAN_CACHE
    started,        \* initiated_at_opt of the scanner
    job,            \* the part of begin_scan() that is left
    flight,         \* scans at the bridge or on their way back
    seen,           \* history: how often the payments of a block were credited
    origin          \* history: the first block that was ever scanned

tables == <<known, balance, age, banned, startBlock, maxBlockCount>>
memory == <<up, banCache, started, job, flight>>
vars == <<chain, tables, memory, seen, origin>>

Blocks == 1..MaxBlocks
Markers == Nat \cup {Uninitialized}

\* What a scan knows at each stage: RetrieveTransactions in the bridge's mailbox,
\* the request for the latest block, the request for logs, ReceivedPayments and
\* ScanError in the Accountant's mailbox.
FlightType ==
    [stage : {"asked"}]
    \cup [stage : {"number"}, start : Markers, range : Markers]
    \cup [stage : {"logs"}, start : Markers, from : Markers, end : Markers]
    \cup [stage : {"received"}, from : Nat, next : Markers, blocks : SUBSET Blocks]
    \cup [stage : {"failed"}]

JobType == [phase : {"ban", "unban"}, left : SUBSET Wallets, row : SUBSET Wallets]

ASSUME IdleAssumption == Idle \notin JobType \cup FlightType

TypeOK ==
    /\ chain \in Seq(SUBSET Wallets) /\ Len(chain) <= MaxBlocks
    /\ known \subseteq Wallets
    /\ balance \in [Wallets -> Int]
    /\ age \in [Wallets -> 0..MaxAge]
    /\ banned \subseteq Wallets
    /\ startBlock \in Markers /\ maxBlockCount \in Markers
    /\ up \in BOOLEAN /\ started \in BOOLEAN
    /\ banCache \subseteq Wallets
    /\ job \in JobType \cup {Idle}
    /\ flight \in [Scans -> FlightType \cup {Idle}]
    /\ seen \in [Blocks -> Nat]
    /\ origin \in Nat

Init ==
    /\ chain \in {<<payers>> : payers \in SUBSET Wallets}
    /\ known = {} /\ banned = {}
    /\ balance = [w \in Wallets |-> 0]
    /\ age = [w \in Wallets |-> 0]
    /\ startBlock = Uninitialized /\ maxBlockCount = Uninitialized
    /\ up = TRUE /\ started = FALSE
    /\ banCache = {} /\ job = Idle
    /\ flight = [s \in Scans |-> Idle]
    /\ seen = [b \in Blocks |-> 0]
    /\ origin = 0

-----------------------------------------------------------------------------
(* Delinquency, as the SQL of the receivable DAO decides it.               *)

\* BigIntDivider::deconstruct()
High(n) == n \div Word
Low(n) == n % Word

Exceeds(n, limit) ==
    High(n) > High(limit) \/ (High(n) = High(limit) /\ Low(n) > Low(limit))

\* ThresholdUtils::slope(), which rounds towards zero
Slope == -((DebtThreshold - Permanent) \div Interval)

\* slope_drop(): what may be owed after this age
Limit(a) == DebtThreshold + Slope * (a - Grace)

\* Slip: the permanent debt itself is not tolerated.
BeyondPermanentOrEqual(n) ==
    High(n) > High(Permanent) \/ (High(n) = 0 /\ Low(n) >= Low(Permanent))

\* The second comparison of high words is with 0, not with that of the limit.
BeyondPermanent(n) ==
    High(n) > High(Permanent) \/ (High(n) = 0 /\ Low(n) > Low(Permanent))

NewDelinquencies ==
    {w \in known \ banned : /\ age[w] > Grace
                            /\ Exceeds(balance[w], Limit(age[w]))
                            /\ BeyondPermanent(balance[w])}

PaidDelinquencies == {w \in known \cap banned : ~Exceeds(balance[w], UnbanBelow)}

-----------------------------------------------------------------------------
(* The Accountant.  A handler that is under way keeps the others waiting.  *)

Free == up /\ job = Idle

RecordServiceProvided(w) ==
    /\ Free /\ balance[w] < MaxDebt
    /\ known' = known \cup {w}
    /\ balance' = [balance EXCEPT ![w] = @ + 1]
    /\ age' = IF w \in known THEN age ELSE [age EXCEPT ![w] = 0]
    /\ UNCHANGED <<chain, banned, startBlock, maxBlockCount, memory, seen, origin>>

\* Slip: begin_scan() does not look whether a scan is running.
MayBeginAnyTime == TRUE

MayBegin == ~started

\* begin_scan(), up to the query of find_and_ban_delinquents()
ScanForReceivables ==
    /\ Free /\ MayBegin
    /\ started' = TRUE
    /\ job' = [phase |-> "ban", left |-> NewDelinquencies, row |-> {}]
    /\ UNCHANGED <<chain, tables, up, banCache, flight, seen, origin>>

\* ban(), the row.  A wallet in the cache is passed over.
BanRow(w) ==
    /\ up /\ job # Idle
    /\ job.phase = "ban" /\ job.row = {} /\ w \in job.left
    /\ IF w \in banCache
       THEN job' = [job EXCEPT !.left = @ \ {w}] /\ UNCHANGED banned
       ELSE /\ banned' = banned \cup {w}
            /\ job' = [job EXCEPT !.left = @ \ {w}, !.row = {w}]
    /\ UNCHANGED <<chain, known, balance, age, startBlock, maxBlockCount,
                   up, banCache, started, flight, seen, origin>>

\* unban(), the row.  A wallet not in the cache is passed over.
UnbanRow(w) ==
    /\ up /\ job # Idle
    /\ job.phase = "unban" /\ job.row = {} /\ w \in job.left
    /\ IF w \notin banCache
       THEN job' = [job EXCEPT !.left = @ \ {w}] /\ UNCHANGED banned
       ELSE /\ banned' = banned \ {w}
            /\ job' = [job EXCEPT !.left = @ \ {w}, !.row = {w}]
    /\ UNCHANGED <<chain, known, balance, age, startBlock, maxBlockCount,
                   up, banCache, started, flight, seen, origin>>

\* The cache once it holds what became of the row
CacheAfter == IF job.phase = "ban" THEN banCache \cup job.row ELSE banCache \ job.row

\* ban() and unban(), the cache
UpdateBanCache ==
    /\ up /\ job # Idle /\ job.row # {}
    /\ banCache' = CacheAfter
    /\ job' = [job EXCEPT !.row = {}]
    /\ UNCHANGED <<chain, tables, up, started, flight, seen, origin>>

\* The query of find_and_unban_reformed_nodes()
FindReformedNodes ==
    /\ up /\ job # Idle
    /\ job.phase = "ban" /\ job.left = {} /\ job.row = {}
    /\ job' = [phase |-> "unban", left |-> PaidDelinquencies, row |-> {}]
    /\ UNCHANGED <<chain, tables, up, banCache, started, flight, seen, origin>>

\* The end of begin_scan(): RetrieveTransactions is sent to the bridge.
SendRetrieveTransactions(s) ==
    /\ up /\ job # Idle /\ flight[s] = Idle
    /\ job.phase = "unban" /\ job.left = {} /\ job.row = {}
    /\ job' = Idle
    /\ flight' = [flight EXCEPT ![s] = [stage |-> "asked"]]
    /\ UNCHANGED <<chain, tables, up, banCache, started, seen, origin>>

-----------------------------------------------------------------------------
(* The BlockchainBridge and the RPC service.                               *)

At(s, stage) == up /\ flight[s] # Idle /\ flight[s].stage = stage

Moves(s, f) ==
    /\ flight' = [flight EXCEPT ![s] = f]
    /\ UNCHANGED <<chain, known, balance, age, banned, startBlock,
                   up, banCache, started, job, seen, origin>>

HandleRetrieveTransactions(s) ==
    /\ At(s, "asked")
    /\ Moves(s, [stage |-> "number", start |-> startBlock, range |-> maxBlockCount])
    /\ UNCHANGED maxBlockCount

\* calculate_end_block_marker(), number being the latest block or Uninitialized
EndBlockMarker(start, range, number) ==
    LET local == IF start = Uninitialized \/ range = Uninitialized
                 THEN Uninitialized ELSE start + range
    IN  IF number = Uninitialized THEN local
        ELSE IF local = Uninitialized \/ number < local THEN number ELSE local

\* What the service may answer to get_block_number(), Uninitialized being an error
LatestBlocks ==
    {Len(chain)} \cup {b \in DOMAIN chain : "lagging" \in Faults}
                 \cup {u \in {Uninitialized} : "no_number" \in Faults}

\* The answer to get_block_number().  A from or end that is Uninitialized asks
\* for the latest block.
BlockNumberAnswered(s) ==
    /\ At(s, "number")
    /\ \E number \in LatestBlocks :
          Moves(s, [stage |-> "logs",
                    start |-> flight[s].start,
                    from |-> IF flight[s].start = Uninitialized THEN number ELSE flight[s].start,
                    end |-> EndBlockMarker(flight[s].start, flight[s].range, number)])
    /\ UNCHANGED maxBlockCount

Resolved(marker) == IF marker = Uninitialized THEN Len(chain) ELSE marker

\* Slip: the last block scanned is scanned again.
FindNewStartBlockInclusive(blocks, start, end) ==
    IF end # Uninitialized THEN end
    ELSE IF blocks # {} THEN CHOOSE b \in blocks : \A c \in blocks : c <= b
    ELSE start

\* blocks are those the logs name.
FindNewStartBlock(blocks, start, end) ==
    IF end # Uninitialized THEN end + 1
    ELSE IF blocks # {} THEN 1 + CHOOSE b \in blocks : \A c \in blocks : c <= b
    ELSE IF start # Uninitialized THEN start + 1
    ELSE Uninitialized

WithinLimit(f) == Resolved(f.end) - Resolved(f.from) <= ServiceLimit

LogsRetrieved(s) ==
    /\ At(s, "logs") /\ WithinLimit(flight[s])
    /\ LET f == flight[s]
           blocks == {b \in DOMAIN chain : /\ Resolved(f.from) <= b
                                           /\ b <= Resolved(f.end)
                                           /\ chain[b] # {}}
       IN  Moves(s, [stage |-> "received",
                     from |-> Resolved(f.from),
                     next |-> FindNewStartBlock(blocks, f.start, f.end),
                     blocks |-> blocks])
    /\ UNCHANGED maxBlockCount

\* The service refuses the range and says what it would accept; the bridge
\* keeps the number (extract_max_block_count()) and reports a ScanError.
RangeRefused(s) ==
    /\ At(s, "logs") /\ ~WithinLimit(flight[s])
    /\ Moves(s, [stage |-> "failed"])
    /\ maxBlockCount' = ServiceLimit

LogsFail(s) ==
    /\ "error" \in Faults
    /\ At(s, "logs")
    /\ Moves(s, [stage |-> "failed"])
    /\ UNCHANGED maxBlockCount

-----------------------------------------------------------------------------
(* The result of a scan, at the Accountant.                                *)

\* How much a wallet paid in the blocks
Paid(w, blocks) == Cardinality({b \in blocks : w \in chain[b]})

\* handle_new_received_payments(): balances and start block are one transaction.
\* A payment of a wallet without a row is passed over.
HandleReceivedPayments(s) ==
    /\ Free /\ At(s, "received")
    /\ LET f == flight[s]
       IN  /\ balance' = [w \in Wallets |-> IF w \in known THEN balance[w] - Paid(w, f.blocks)
                                                           ELSE balance[w]]
           /\ age' = [w \in Wallets |-> IF w \in known /\ Paid(w, f.blocks) > 0 THEN 0 ELSE age[w]]
           /\ startBlock' = IF f.next = Uninitialized THEN startBlock ELSE f.next
           /\ seen' = [b \in Blocks |-> IF b \in f.blocks THEN seen[b] + 1 ELSE seen[b]]
           /\ origin' = IF startBlock = Uninitialized THEN f.from ELSE origin
    /\ started' = FALSE
    /\ flight' = [flight EXCEPT ![s] = Idle]
    /\ UNCHANGED <<chain, known, banned, maxBlockCount, up, banCache, job>>

HandleScanError(s) ==
    /\ Free /\ At(s, "failed")
    /\ started' = FALSE
    /\ flight' = [flight EXCEPT ![s] = Idle]
    /\ UNCHANGED <<chain, tables, up, banCache, job, seen, origin>>

-----------------------------------------------------------------------------
(* The world.                                                              *)

Mine(payers) ==
    /\ Len(chain) < MaxBlocks
    /\ chain' = Append(chain, payers)
    /\ UNCHANGED <<tables, memory, seen, origin>>

TimePasses ==
    /\ age' = [w \in Wallets |-> IF w \in known /\ age[w] < MaxAge THEN age[w] + 1 ELSE age[w]]
    /\ UNCHANGED <<chain, known, balance, banned, startBlock, maxBlockCount, memory, seen, origin>>

Crash ==
    /\ "crash" \in Faults /\ up
    /\ up' = FALSE /\ started' = FALSE
    /\ banCache' = {} /\ job' = Idle
    /\ flight' = [s \in Scans |-> Idle]
    /\ UNCHANGED <<chain, tables, seen, origin>>

\* BannedCacheLoader::load()
LoadedCache == banned

Restart ==
    /\ ~up
    /\ up' = TRUE
    /\ banCache' = LoadedCache
    /\ UNCHANGED <<chain, tables, started, job, flight, seen, origin>>

BeginScanStep ==
    \/ \E w \in Wallets : BanRow(w) \/ UnbanRow(w)
    \/ UpdateBanCache
    \/ FindReformedNodes
    \/ \E s \in Scans : SendRetrieveTransactions(s)

Next ==
    \/ \E w \in Wallets : RecordServiceProvided(w)
    \/ ScanForReceivables
    \/ BeginScanStep
    \/ \E s \in Scans :
          \/ HandleRetrieveTransactions(s) \/ BlockNumberAnswered(s)
          \/ LogsRetrieved(s) \/ RangeRefused(s) \/ LogsFail(s)
          \/ HandleReceivedPayments(s) \/ HandleScanError(s)
    \/ \E payers \in SUBSET Wallets : Mine(payers)
    \/ TimePasses
    \/ Crash
    \/ Restart

Spec == Init /\ [][Next]_vars

\* The scan timer fires again and again, the threads run, a stopped Node is
\* started again, and the RPC service does not fail for ever.
FairSpec ==
    /\ Spec
    /\ WF_vars(ScanForReceivables) /\ WF_vars(BeginScanStep) /\ WF_vars(Restart)
    /\ \A s \in Scans : /\ WF_vars(HandleRetrieveTransactions(s))
                        /\ WF_vars(BlockNumberAnswered(s))
                        /\ SF_vars(RangeRefused(s))
                        /\ SF_vars(LogsRetrieved(s))
                        /\ WF_vars(HandleReceivedPayments(s))
                        /\ WF_vars(HandleScanError(s))

-----------------------------------------------------------------------------
(* Properties.                                                             *)

\* The scanner is marked as started exactly while one handler, future or
\* message carries its scan.
Carriers == {s \in Scans : flight[s] # Idle}

OneReceivableScanAtATime ==
    /\ started <=> (job # Idle \/ Carriers # {})
    /\ job # Idle => Carriers = {}
    /\ \A s, t \in Carriers : s = t

\* Every payment from the first block scanned up to the start block was
\* handled once, and none beyond it, whatever crashed in between
\* (handle_new_received_payments(), find_new_start_block()).
PaymentsCountedOnce ==
    \A b \in DOMAIN chain :
        seen[b] = IF /\ chain[b] # {} /\ startBlock # Uninitialized
                     /\ origin <= b /\ b < startBlock
                  THEN 1 ELSE 0

\* Between handlers of a running Node the cache that decides whom to serve is
\* the table (ban(), unban(), BannedCacheLoader).
BanCacheAgrees == Free => banCache = banned

\* The scanner's mark, the start block and the ban cache agree with the scan
\* under way, the payments handled and the table banned.
ReceivablesAgree ==
    /\ OneReceivableScanAtATime
    /\ PaymentsCountedOnce
    /\ BanCacheAgrees

\* The two-word comparisons of the DAO mean what the thresholds say: who is
\* banned owes more than the permanent debt and, past the grace period, more
\* than the sloped limit; who is unbanned owes no more than unban_below.
BansAreDue ==
    [][/\ \A w \in banned' \ banned : /\ balance[w] > Permanent /\ age[w] > Grace
                                      /\ balance[w] > Limit(age[w])
       /\ \A w \in banned \ banned' : balance[w] <= UnbanBelow]_banned

\* What a wallet owes once the payments on the chain are counted
Owed(w) ==
    balance[w] - Cardinality({b \in DOMAIN chain : /\ startBlock # Uninitialized
                                                   /\ startBlock <= b /\ w \in chain[b]})

\* A banned wallet whose payments are on the chain is unbanned, unless the
\* Node stops; then, once it runs again.
PaidDebtorsReturn ==
    \A w \in Wallets :
        (w \in banned /\ Owed(w) <= UnbanBelow)
            ~> (w \notin banned \/ Owed(w) > UnbanBelow \/ ~up)
=============================================================================
