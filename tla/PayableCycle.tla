---------------------------- MODULE PayableCycle ----------------------------
(***************************************************************************)
(* The life of a debt the Node owes: charged by the Accountant, picked by  *)
(* the payable scan, signed and submitted by the BlockchainBridge, marked  *)
(* as pending, confirmed by the pending-payable scan.  Two actors on two   *)
(* threads (Accountant and BlockchainBridge), the blockchain service they  *)
(* talk to, the database that survives a crash, and the timers and user    *)
(* interface that may ask for a scan at any moment.                        *)
(*                                                                         *)
(* Every SQL statement commits on its own, so a handler that issues        *)
(* several is a sequence of steps of the Accountant (variable job) with    *)
(* nothing of the Accountant in between: only a crash or another thread    *)
(* can get there.                                                          *)
(***************************************************************************)
EXTENDS Integers, Sequences, FiniteSets, Functions

CONSTANTS
    Wallets,              \* earning wallets of the Nodes we consume services from
    Slots,                \* names for futures the bridge has spawned
    MaxDebt,              \* bound: services charged per wallet
    MaxMail,              \* bound: the bridge's messages waiting for the Accountant
    PermanentDebtAllowed, \* PaymentThresholds::permanent_debt_allowed_gwei
    Circumstances         \* what a behaviour may find: see Circumstance

FaultKinds == {"rejection",      \* the chain refuses single transactions of a batch
               "payment_error",  \* the nonce query or submit_batch returns an error
               "lost_response",  \* submit_batch errs although the chain has the batch
               "crash"}          \* the process dies between two steps

\* What may go wrong, which wallets serve us, and two bounds: how many
\* transactions the consuming wallet ever sends, and how often a stopped Node
\* is started again.
Circumstance == [faults : SUBSET FaultKinds, creditors : SUBSET Wallets,
                 nonces : Nat, restarts : Nat]

ASSUME CycleAssumption ==
    /\ IsFiniteSet(Wallets) /\ \A rows \in SUBSET Wallets : Cardinality(rows) \in Nat
    /\ MaxDebt \in Nat
    /\ MaxMail \in Nat
    /\ PermanentDebtAllowed \in Nat
    /\ Circumstances \subseteq Circumstance

VARIABLES
    scene,        \* the circumstances of the behaviour; never changes
    balance,      \* payable.balance, by wallet (a missing row is a zero balance)
    rowid,        \* payable.pending_payable_rowid, by wallet (0 is SQL null)
    mature,       \* wallets whose last_paid_timestamp is older than the maturity threshold
    fingerprints, \* table pending_payable
    payableScan,  \* PayableScanner's initiated_at_opt is Some
    pendingScan,  \* PendingPayableScanner's initiated_at_opt is Some
    job,          \* what is left to do of the handler the Accountant is in
    mailbox,      \* the bridge's messages waiting for the Accountant
    futures,      \* what the bridge has in flight
    chain,        \* transactions of the consuming wallet the chain knows
    node,         \* "up", or how the Node went down
    restarts,     \* how often it was started again
    charged,      \* history: services consumed, by wallet
    committed     \* the token contract: paid or about to be paid, by wallet

database == <<balance, rowid, mature, fingerprints>>
scanners == <<payableScan, pendingScan>>
external == <<chain, committed>>
vars == <<scene, balance, rowid, mature, fingerprints, payableScan, pendingScan, job, mailbox,
          futures, chain, node, restarts, charged, committed>>

Faults == scene.faults

-----------------------------------------------------------------------------
(* Data                                                                    *)

\* A signed transaction stands for its own hash: equal nonce, recipient and
\* amount (at one gas price) make the same transaction.
Hashes == [nonce : Nat, to : Wallets, amount : Int]

PayableAccounts == [wallet : Wallets, balance : Int]

Fingerprints == [rowid : Nat \ {0}, hash : Hashes, process_error : {"null", "ERROR"}]

ScanTypes == {"Payables", "PendingPayables"}

AgentWithContext(accounts) == [type |-> "BlockchainAgentWithContextMessage", accounts |-> accounts]
Seeds(hashes) == [type |-> "PendingPayableFingerprintSeeds", hashes |-> hashes]
\* oks and errs are what separate_errors makes of payment_procedure_result
SentPayables(oks, errs) == [type |-> "SentPayables", oks |-> oks, errs |-> errs]
ScanError(scan) == [type |-> "ScanError", scan |-> scan]
ReportTransactionReceipts(ok, failed, still) ==
    [type |-> "ReportTransactionReceipts", confirmed |-> ok, failures |-> failed, still |-> still]

Messages ==
    [type : {"BlockchainAgentWithContextMessage"}, accounts : Seq(PayableAccounts)]
    \cup [type : {"PendingPayableFingerprintSeeds"}, hashes : Seq(Hashes)]
    \cup [type : {"SentPayables"}, oks : SUBSET Hashes, errs : SUBSET Hashes]
    \cup [type : {"ScanError"}, scan : ScanTypes]
    \cup [type : {"ReportTransactionReceipts"}, confirmed : SUBSET Fingerprints,
          failures : SUBSET Fingerprints, still : SUBSET Fingerprints]

\* A future of the bridge: which RPC call it waits for, and what it carries.
NoFuture == [stage |-> "idle"]
BuildingAgent(accounts) == [stage |-> "agent", accounts |-> accounts]
AskingNonce(accounts) == [stage |-> "nonce", accounts |-> accounts]
Submitting(batch) == [stage |-> "submit", batch |-> batch]
Submitted(batch, taken) == [stage |-> "taken", batch |-> batch, taken |-> taken]
AskingReceipts(fps) == [stage |-> "receipts", fps |-> fps]

Futures ==
    {NoFuture}
    \cup [stage : {"agent", "nonce"}, accounts : Seq(PayableAccounts)]
    \cup [stage : {"submit"}, batch : Seq(Hashes)]
    \cup [stage : {"taken"}, batch : Seq(Hashes), taken : SUBSET Hashes]
    \cup [stage : {"receipts"}, fps : SUBSET Fingerprints]

NoJob == [at |-> "idle"]
Jobs ==
    {NoJob}
    \cup [at : {"mark", "discard"}, oks : SUBSET Hashes, errs : SUBSET Hashes]
    \cup [at : {"confirm", "fail", "attempt"}, confirmed : SUBSET Fingerprints,
          settled : SUBSET Fingerprints, failures : SUBSET Fingerprints,
          still : SUBSET Fingerprints]

RowidsOf(fps) == {fp.rowid : fp \in fps}
HashesOf(fps) == {fp.hash : fp \in fps}
Nonces == {tx.hash.nonce : tx \in chain}

-----------------------------------------------------------------------------
(* The Accountant                                                          *)

Idle == node = "up" /\ job = NoJob

\* The mailbox has no capacity limit (NODE_MAILBOX_CAPACITY is 0); MaxMail is the model's.
Send(messages) ==
    /\ Len(mailbox) + Len(messages) <= MaxMail
    /\ mailbox' = mailbox \o messages

\* The Accountant takes a message of this type from its mailbox.
Receive(type) ==
    /\ Idle
    /\ mailbox # <<>>
    /\ Head(mailbox).type = type
    /\ mailbox' = Tail(mailbox)

\* A future spawned by the bridge for a request of the Accountant.
Spawn(future) ==
    \E s \in Slots :
        /\ futures[s] = NoFuture
        /\ futures' = [futures EXCEPT ![s] = future]

\* What the process held in memory is gone; the database is as it stands.
GoDown(how) ==
    /\ node' = how
    /\ job' = NoJob
    /\ payableScan' = FALSE
    /\ pendingScan' = FALSE
    /\ mailbox' = <<>>
    /\ futures' = [s \in Slots |-> NoFuture]

GoOn(next) ==
    /\ job' = next
    /\ UNCHANGED <<node, payableScan, pendingScan, mailbox, futures>>

\* more_money_payable, once for every service a report lists
RecordServiceConsumed(w) ==
    /\ Idle
    /\ w \in scene.creditors /\ charged[w] < MaxDebt
    /\ charged' = [charged EXCEPT ![w] = @ + 1]
    /\ balance' = [balance EXCEPT ![w] = @ + 1]
    /\ UNCHANGED <<rowid, mature, fingerprints, scanners, job, mailbox, futures, node,
                   restarts, external, scene>>

\* Slip: a scan begins although one of its kind is under way.
MayBeginAnyTime(mark) == Idle

\* A scan of either kind begins only if none of its kind is marked as running.
MayBegin(mark) == Idle /\ ~mark

\* Slip: rows that wait for a confirmation are listed too.
NonPendingPayablesAll == Wallets

NonPendingPayables == {w \in Wallets : rowid[w] = 0}

PayableExceededThreshold(w) == w \in mature /\ balance[w] > PermanentDebtAllowed

\* The lists a query may return for a set of rows.
Listings(rows) == Bijection(1 .. Cardinality(rows), rows)

QualifiedPayables == {w \in NonPendingPayables : PayableExceededThreshold(w)}

PayableAccountsOf(list) ==
    [i \in DOMAIN list |-> [wallet |-> list[i], balance |-> balance[list[i]]]]

\* A scan that finds nothing to process sets the mark and takes it back: no step.
ScanForPayables ==
    /\ MayBegin(payableScan)
    /\ \/ /\ \A w \in NonPendingPayables : balance[w] >= 0
          /\ QualifiedPayables # {}
          /\ payableScan' = TRUE
          /\ \E list \in Listings(QualifiedPayables) :
                Spawn(BuildingAgent(PayableAccountsOf(list)))
          /\ UNCHANGED <<pendingScan, job, mailbox, node>>
       \/ /\ \E w \in NonPendingPayables : balance[w] < 0
          /\ GoDown("negative balance")
    /\ UNCHANGED <<database, restarts, charged, scene, external>>

\* The payment adjuster never asks for an adjustment, so all accounts go on.
HandlePayablePaymentSetup ==
    /\ Receive("BlockchainAgentWithContextMessage")
    /\ Spawn(AskingNonce(Head(mailbox).accounts))
    /\ UNCHANGED <<database, scanners, job, node, restarts, charged, scene, external>>

\* rowid is an integer primary key without autoincrement: the first new row is
\* numbered one past the largest in the table.
NewFingerprints(last, hashes) ==
    {[rowid |-> last + i, hash |-> hashes[i], process_error |-> "null"] : i \in DOMAIN hashes}

\* transaction_hash is a unique index: one known hash and no row is inserted,
\* which is only logged.
HandleNewPendingPayableFingerprints ==
    /\ Receive("PendingPayableFingerprintSeeds")
    /\ LET hashes == Head(mailbox).hashes
       IN  \/ /\ Range(hashes) \cap HashesOf(fingerprints) = {}
              /\ \E last \in {0} \cup RowidsOf(fingerprints) :
                   /\ \A r \in RowidsOf(fingerprints) : r <= last
                   /\ fingerprints' = fingerprints \cup NewFingerprints(last, hashes)
           \/ /\ Range(hashes) \cap HashesOf(fingerprints) # {}
              /\ UNCHANGED fingerprints
    /\ UNCHANGED <<balance, rowid, mature, scanners, job, futures, node, restarts, charged, scene,
                   external>>

HandleSentPayables ==
    /\ Receive("SentPayables")
    /\ job' = [at |-> "mark", oks |-> Head(mailbox).oks, errs |-> Head(mailbox).errs]
    /\ UNCHANGED <<database, scanners, futures, node, restarts, charged, scene, external>>

\* One update for all sent payables, of rows whose rowid is null; the count of
\* rows is compared after they are written.
MarkPendingPayable ==
    /\ job.at = "mark"
    /\ LET existent == {fp \in fingerprints : fp.hash \in job.oks}
           marked == {fp \in existent : rowid[fp.hash.to] = 0}
       IN  /\ rowid' = [w \in Wallets |->
                           IF \E fp \in marked : fp.hash.to = w
                           THEN (CHOOSE fp \in marked : fp.hash.to = w).rowid
                           ELSE rowid[w]]
           /\ \/ /\ marked = existent
                 /\ HashesOf(existent) = job.oks
                 /\ GoOn([job EXCEPT !.at = "discard"])
              \/ /\ marked # existent
                 /\ GoDown("mark mismatch")
              \/ /\ marked = existent
                 /\ HashesOf(existent) # job.oks
                 /\ GoDown("sent without fingerprint")
    /\ UNCHANGED <<balance, mature, fingerprints, restarts, charged, scene, external>>

DiscardFailedTransactions ==
    /\ job.at = "discard"
    /\ LET existent == {fp \in fingerprints : fp.hash \in job.errs}
       IN  /\ fingerprints' = fingerprints \ existent
           /\ \/ /\ HashesOf(existent) = job.errs
                 /\ job' = NoJob
                 /\ payableScan' = FALSE
                 /\ UNCHANGED <<pendingScan, mailbox, futures, node>>
              \/ /\ HashesOf(existent) # job.errs
                 /\ GoDown("failed without fingerprint")
    /\ UNCHANGED <<balance, rowid, mature, restarts, charged, scene, external>>

\* Slip: an error report does not end the scan.
MarkKeptAfterError(mark, type, scan) == mark

\* The mark of a scanner of this type, after a ScanError for the given scan
MarkAfterError(mark, type, scan) == mark /\ scan # type

HandleScanError ==
    /\ Receive("ScanError")
    /\ LET scan == Head(mailbox).scan
       IN  /\ payableScan' = MarkAfterError(payableScan, "Payables", scan)
           /\ pendingScan' = MarkAfterError(pendingScan, "PendingPayables", scan)
    /\ UNCHANGED <<database, job, futures, node, restarts, charged, scene, external>>

ScanForPendingPayables ==
    /\ MayBegin(pendingScan)
    /\ LET errorless == {fp \in fingerprints : fp.process_error = "null"}
       IN  /\ errorless # {}
           /\ Spawn(AskingReceipts(errorless))
    /\ pendingScan' = TRUE
    /\ UNCHANGED <<database, payableScan, job, mailbox, node, restarts, charged, scene, external>>

HandleReportTransactionReceipts ==
    /\ Receive("ReportTransactionReceipts")
    /\ LET m == Head(mailbox)
       IN  job' = [at |-> "confirm", confirmed |-> m.confirmed, settled |-> {},
                   failures |-> m.failures, still |-> m.still]
    /\ UNCHANGED <<database, scanners, futures, node, restarts, charged, scene, external>>

\* Slip: the whole balance is settled, with what was charged since the payment.
CreditedInFull(owed, fp) == 0

\* What is owed once this transaction is known to be mined
Credited(owed, fp) == owed - fp.hash.amount

\* transactions_confirmed: one update per fingerprint, keyed by its rowid, which
\* is an error unless it changes exactly one row.
TransactionConfirmed ==
    /\ job.at = "confirm"
    /\ \E fp \in job.confirmed :
          LET rows == {w \in Wallets : rowid[w] = fp.rowid}
          IN  /\ balance' = [w \in Wallets |->
                                IF w \in rows THEN Credited(balance[w], fp) ELSE balance[w]]
              /\ rowid' = [w \in Wallets |-> IF w \in rows THEN 0 ELSE rowid[w]]
              /\ mature' = mature \ rows
              /\ \/ /\ \E w \in Wallets : rows = {w}
                    /\ GoOn([job EXCEPT !.confirmed = @ \ {fp}, !.settled = @ \cup {fp}])
                 \/ /\ \A w \in Wallets : rows # {w}
                    /\ GoDown("confirm mismatch")
    /\ UNCHANGED <<fingerprints, restarts, charged, scene, external>>

\* The rows with these ids are all there, as the count of changed rows tells.
AllFound(fps) == RowidsOf(fps) \subseteq RowidsOf(fingerprints)

DeleteConfirmed ==
    /\ job.at = "confirm"
    /\ job.confirmed = {}
    /\ fingerprints' = {fp \in fingerprints : fp.rowid \notin RowidsOf(job.settled)}
    /\ \/ AllFound(job.settled) /\ GoOn([job EXCEPT !.at = "fail"])
       \/ ~AllFound(job.settled) /\ GoDown("delete mismatch")
    /\ UNCHANGED <<balance, rowid, mature, restarts, charged, scene, external>>

CancelFailedTransactions ==
    /\ job.at = "fail"
    /\ fingerprints' = {IF fp.rowid \in RowidsOf(job.failures)
                        THEN [fp EXCEPT !.process_error = "ERROR"] ELSE fp : fp \in fingerprints}
    /\ \/ AllFound(job.failures) /\ GoOn([job EXCEPT !.at = "attempt"])
       \/ ~AllFound(job.failures) /\ GoDown("failure mismatch")
    /\ UNCHANGED <<balance, rowid, mature, restarts, charged, scene, external>>

\* The attempt column itself is not kept: only the count of rows is looked at.
UpdateRemainingFingerprints ==
    /\ job.at = "attempt"
    /\ \/ /\ AllFound(job.still)
          /\ job' = NoJob
          /\ pendingScan' = FALSE
          /\ UNCHANGED <<payableScan, mailbox, futures, node>>
       \/ ~AllFound(job.still) /\ GoDown("attempt mismatch")
    /\ UNCHANGED <<database, restarts, charged, scene, external>>

-----------------------------------------------------------------------------
(* The BlockchainBridge: each step is the continuation of one future, run  *)
(* when the RPC call it waits for has answered.                            *)

\* The future ends, and sends these messages to the Accountant.
Complete(s, messages) ==
    /\ futures' = [futures EXCEPT ![s] = NoFuture]
    /\ Send(messages)
    /\ UNCHANGED <<database, scanners, job, node, restarts, charged, scene>>

BuildBlockchainAgent(s) ==
    /\ futures[s].stage = "agent"
    /\ \/ Complete(s, <<AgentWithContext(futures[s].accounts)>>)
       \/ Complete(s, <<ScanError("Payables")>>)
    /\ UNCHANGED external

\* The service counts its pool: the first nonce no transaction of ours has.
IsPendingNonce(nonce) == nonce \notin Nonces /\ 0 .. nonce - 1 \subseteq Nonces

\* sign_and_append_multiple_payments: consecutive nonces from the pending one
SignedBatch(accounts, nonce) ==
    [i \in DOMAIN accounts |->
        [nonce |-> nonce + i - 1, to |-> accounts[i].wallet, amount |-> accounts[i].balance]]

\* send_payables_within_batch: the fingerprints are announced, then the batch goes out.
SignAndSubmit(s) ==
    /\ futures[s].stage = "nonce"
    /\ \E nonce \in 0 .. scene.nonces - Len(futures[s].accounts) :
          /\ IsPendingNonce(nonce)
          /\ LET batch == SignedBatch(futures[s].accounts, nonce)
             IN  /\ Send(<<Seeds(batch)>>)
                 /\ futures' = [futures EXCEPT ![s] = Submitting(batch)]
    /\ UNCHANGED <<database, scanners, job, node, restarts, charged, scene, external>>

\* get_transaction_id failed: no hashes yet
NonceQueryFails(s) ==
    /\ "payment_error" \in Faults
    /\ futures[s].stage = "nonce"
    /\ Complete(s, <<SentPayables({}, {}), ScanError("Payables")>>)
    /\ UNCHANGED external

\* Slip: one refused transaction, and the whole batch is reported as refused.
RefusedAltogether(batch, taken) == IF Range(batch) \subseteq taken THEN {} ELSE Range(batch)

\* The transactions of a batch that were answered with an error
Refused(batch, taken) == Range(batch) \ taken

\* merged_output_data: one Correct or Failed per transaction of the batch
BatchAnswered(s) ==
    /\ futures[s].stage = "taken"
    /\ Complete(s, <<SentPayables(futures[s].taken,
                                   Refused(futures[s].batch, futures[s].taken))>>)
    /\ UNCHANGED external

\* submit_batch failed as a whole: all hashes are reported as not sent
SubmitBatchFails(s) ==
    /\ \/ futures[s].stage = "submit" /\ "payment_error" \in Faults
       \/ futures[s].stage = "taken" /\ "lost_response" \in Faults
    /\ Complete(s, <<SentPayables({}, Range(futures[s].batch)), ScanError("Payables")>>)
    /\ UNCHANGED external

\* What the service may answer about a transaction: its receipt once it is
\* mined, and at any time "none yet" or an error of that one query.
ReceiptOf(fp) ==
    {"pending"} \cup {tx.status : tx \in {t \in chain : t.hash = fp.hash}}

ProcessTransactionReceipts(s) ==
    /\ futures[s].stage = "receipts"
    /\ \/ \E answer \in [futures[s].fps -> {"pending", "ok", "failed"}] :
             /\ \A fp \in futures[s].fps : answer[fp] \in ReceiptOf(fp)
             /\ LET those(status) == {fp \in futures[s].fps : answer[fp] = status}
                IN  Complete(s, <<ReportTransactionReceipts(those("ok"), those("failed"),
                                                            those("pending"))>>)
       \/ Complete(s, <<ScanError("PendingPayables")>>)
    /\ UNCHANGED external

-----------------------------------------------------------------------------
(* The blockchain, time, and the process itself                            *)

Amount(hashes, w) == LET paid == {h \in hashes : h.to = w}
                     IN  IF paid = {} THEN 0 ELSE (CHOOSE h \in paid : TRUE).amount

\* A transaction enters the pool if its nonce is free, unless the chain refuses
\* it for another reason (insufficient funds...).
Acceptable(batch) ==
    LET free == {h \in Range(batch) : h.nonce \notin Nonces}
    IN  IF "rejection" \in Faults THEN SUBSET free ELSE {free}

ChainTakesBatch(s) ==
    /\ futures[s].stage = "submit"
    /\ \E taken \in Acceptable(futures[s].batch) :
          /\ chain' = chain \cup {[hash |-> h, status |-> "pending"] : h \in taken}
          /\ committed' = [w \in Wallets |-> committed[w] + Amount(taken, w)]
          /\ futures' = [futures EXCEPT ![s] = Submitted(futures[s].batch, taken)]
    /\ UNCHANGED <<database, scanners, job, mailbox, node, restarts, charged, scene>>

\* Transactions of one sender are mined in nonce order.
Mine ==
    \E tx \in chain :
        /\ tx.status = "pending"
        /\ \A n \in 0 .. tx.hash.nonce - 1 :
              \E t \in chain : t.hash.nonce = n /\ t.status # "pending"
        /\ \E status \in {"ok", "failed"} :
              /\ chain' = (chain \ {tx}) \cup {[tx EXCEPT !.status = status]}
              /\ committed' = IF status = "ok" THEN committed
                              ELSE [committed EXCEPT ![tx.hash.to] = @ - tx.hash.amount]
        /\ UNCHANGED <<database, scanners, job, mailbox, futures, node, restarts, charged, scene>>

\* Time passes: the debt to w is older than maturity_threshold_sec.
Mature(w) ==
    /\ w \notin mature
    /\ balance[w] > 0
    /\ mature' = mature \cup {w}
    /\ UNCHANGED <<balance, rowid, fingerprints, scanners, job, mailbox, futures, node,
                   restarts, charged, scene, external>>

Crash ==
    /\ "crash" \in Faults
    /\ node = "up"
    /\ GoDown("crashed")
    /\ UNCHANGED <<database, restarts, charged, scene, external>>

Restart ==
    /\ node # "up"
    /\ restarts < scene.restarts
    /\ node' = "up"
    /\ restarts' = restarts + 1
    /\ UNCHANGED <<database, scanners, job, mailbox, futures, charged, scene, external>>

-----------------------------------------------------------------------------
(* The specification                                                       *)

Init ==
    /\ scene \in Circumstances
    /\ balance = [w \in Wallets |-> 0]
    /\ rowid = [w \in Wallets |-> 0]
    /\ mature = {}
    /\ fingerprints = {}
    /\ payableScan = FALSE
    /\ pendingScan = FALSE
    /\ job = NoJob
    /\ mailbox = <<>>
    /\ futures = [s \in Slots |-> NoFuture]
    /\ chain = {}
    /\ node = "up"
    /\ restarts = 0
    /\ charged = [w \in Wallets |-> 0]
    /\ committed = [w \in Wallets |-> 0]

HandleMessage ==
    \/ HandlePayablePaymentSetup
    \/ HandleNewPendingPayableFingerprints
    \/ HandleSentPayables
    \/ HandleScanError
    \/ HandleReportTransactionReceipts

ContinueJob ==
    \/ MarkPendingPayable
    \/ DiscardFailedTransactions
    \/ TransactionConfirmed
    \/ DeleteConfirmed
    \/ CancelFailedTransactions
    \/ UpdateRemainingFingerprints

Continue(s) ==
    \/ BuildBlockchainAgent(s)
    \/ SignAndSubmit(s)
    \/ NonceQueryFails(s)
    \/ ChainTakesBatch(s)
    \/ BatchAnswered(s)
    \/ SubmitBatchFails(s)
    \/ ProcessTransactionReceipts(s)

Next ==
    \/ \E w \in Wallets : RecordServiceConsumed(w) \/ Mature(w)
    \/ ScanForPayables
    \/ ScanForPendingPayables
    \/ HandleMessage
    \/ ContinueJob
    \/ \E s \in Slots : Continue(s)
    \/ Mine
    \/ Crash
    \/ Restart

Spec == Init /\ [][Next]_vars

\* The threads of both actors run, the RPC service answers every call (or the
\* transport gives up on it): each of these is a step that is never put off for ever.
Fairness ==
    /\ WF_vars(HandleMessage)
    /\ WF_vars(ContinueJob)
    /\ \A s \in Slots : WF_vars(Continue(s))

FairSpec == Spec /\ Fairness

-----------------------------------------------------------------------------
(* Properties                                                              *)

\* How the Node can go down: killed, or one of the panics of the handlers.
Endings == {"crashed", "negative balance", "mark mismatch", "sent without fingerprint",
            "failed without fingerprint", "confirm mismatch", "delete mismatch",
            "failure mismatch", "attempt mismatch"}

\* Every variable holds a value of its type: tables, mailbox, futures and the
\* handler in progress hold only what the message and row types allow.
TypeOK ==
    /\ scene \in Circumstances
    /\ balance \in [Wallets -> Int]
    /\ rowid \in [Wallets -> Nat]
    /\ mature \subseteq Wallets
    /\ fingerprints \subseteq Fingerprints
    /\ payableScan \in BOOLEAN
    /\ pendingScan \in BOOLEAN
    /\ job \in Jobs
    /\ mailbox \in Seq(Messages)
    /\ futures \in [Slots -> Futures]
    /\ chain \subseteq [hash : Hashes, status : {"pending", "ok", "failed"}]
    /\ node \in {"up"} \cup Endings
    /\ restarts \in 0 .. scene.restarts
    /\ charged \in [Wallets -> Nat]
    /\ committed \in [Wallets -> Int]

\* The contract never takes, or is about to take, more for a wallet than the
\* Node was charged for its services: no debt is paid twice, however scans,
\* receipts and answers of the chain interleave.
NoOverpayment == \A w \in Wallets : committed[w] <= charged[w]

Quiet ==
    /\ node = "up"
    /\ mailbox = <<>>
    /\ job = NoJob
    /\ \A s \in Slots : futures[s] = NoFuture

\* Once nothing is in flight and no fingerprint is left, what the payable table
\* says is owed is what was charged less what the contract has paid.
BooksAgreeWithChain ==
    Quiet /\ fingerprints = {} => \A w \in Wallets : balance[w] = charged[w] - committed[w]

\* Every debt is paid once: never twice, and never without the books knowing.
DebtsPaidOnce == NoOverpayment /\ BooksAgreeWithChain

\* A payable row marked as pending points to the fingerprint of a transaction
\* to that very wallet, so that its confirmation will find the row.
MarksHaveFingerprints ==
    \A w \in Wallets :
        rowid[w] # 0 => \E fp \in fingerprints : fp.rowid = rowid[w] /\ fp.hash.to = w

\* No payment fails as a whole; single transactions may be refused.
PaymentsAnswered == Faults \subseteq {"rejection", "crash"}

\* After any crash, a payable that is marked as pending has the fingerprint of
\* its transaction: mark_pending_payables_rowids() never outlives the record
\* that a later receipt scan starts from.
MarksSurviveCrashes == PaymentsAnswered => MarksHaveFingerprints

EndsPayableScan(m) ==
    \/ m.type \in {"BlockchainAgentWithContextMessage", "SentPayables"}
    \/ m.type = "ScanError" /\ m.scan = "Payables"

EndsPendingScan(m) ==
    \/ m.type = "ReportTransactionReceipts"
    \/ m.type = "ScanError" /\ m.scan = "PendingPayables"

\* Who carries a scan on: the handler in progress, a future, or a message under way.
PayableScanCarriers ==
    (IF job.at \in {"mark", "discard"} THEN {<<"job", 0>>} ELSE {})
    \cup {<<"future", s>> : s \in {r \in Slots :
                                   futures[r].stage \in {"agent", "nonce", "submit", "taken"}}}
    \cup {<<"message", i>> : i \in {k \in 1 .. Len(mailbox) : EndsPayableScan(mailbox[k])}}

PendingScanCarriers ==
    (IF job.at \in {"confirm", "fail", "attempt"} THEN {<<"job", 0>>} ELSE {})
    \cup {<<"future", s>> : s \in {r \in Slots : futures[r].stage = "receipts"}}
    \cup {<<"message", i>> : i \in {k \in 1 .. Len(mailbox) : EndsPendingScan(mailbox[k])}}

\* The mark "a scan is running" and the scan itself go together.
SingleFlight(mark, carriers) ==
    /\ mark <=> carriers # {}
    /\ \A x, y \in carriers : x = y

\* A payable scan is marked as running exactly while one is, and two never run
\* at once: "this scan request will be ignored", as the Accountant logs.
OnePayableScanAtATime == SingleFlight(payableScan, PayableScanCarriers)

\* The same of the pending-payable scan, whatever goes wrong around it: no two
\* reports of receipts are ever under way for the same fingerprints.
OnePendingPayableScanAtATime == SingleFlight(pendingScan, PendingScanCarriers)

\* There is one scan of a kind, the payable one as long as only the scan itself
\* reports its end.
OneScanOfAKind ==
    /\ OnePendingPayableScanAtATime
    /\ PaymentsAnswered => OnePayableScanAtATime

\* A payable loses its pending mark only when a transaction to its own wallet
\* was mined, and its balance falls by what that transaction carried.
ConfirmationCreditsItsPayee ==
    [][\A w \in Wallets :
          rowid[w] # 0 /\ rowid'[w] = 0
             => \E tx \in chain : /\ tx.status = "ok"
                                  /\ tx.hash.to = w
                                  /\ balance'[w] = balance[w] - tx.hash.amount]_vars

\* Every scan that was started ends, by its result, by an error or with the
\* Node: the mark never blocks later scans for good.
ScansEnd ==
    /\ payableScan ~> ~payableScan
    /\ pendingScan ~> ~pendingScan

\* The panic "Database corrupt: updating fingerprints" is never met by a Node
\* whose database nobody else has touched.
FingerprintsFoundWhenUpdated == node # "attempt mismatch"

=============================================================================
