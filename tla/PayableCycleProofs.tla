------------------------- MODULE PayableCycleProofs -------------------------
(***************************************************************************)
(* What holds of the payable cycle for every set of wallets and futures,   *)
(* every bound and every combination of faults.                            *)
(***************************************************************************)
EXTENDS PayableCycle, TLAPS

-----------------------------------------------------------------------------
(* Lemmas on the data                                                      *)

\* The accounts of a payable scan are a list of payable accounts.
LEMMA QualifiedType ==
    ASSUME TypeOK, NEW list \in Listings(QualifiedPayables)
    PROVE  PayableAccountsOf(list) \in Seq(PayableAccounts)
<1>1. Cardinality(QualifiedPayables) \in Nat
  BY CycleAssumption
  DEF QualifiedPayables, NonPendingPayables, CycleAssumption
<1>2. list \in [1 .. Cardinality(QualifiedPayables) -> Wallets]
  BY <1>1 DEF Listings, Bijection, Injection, QualifiedPayables, NonPendingPayables
<1>3. \A i \in DOMAIN list : balance[list[i]] \in Int
  BY <1>2 DEF TypeOK
<1>4. PayableAccountsOf(list) \in [1 .. Cardinality(QualifiedPayables) -> PayableAccounts]
  BY <1>2, <1>3 DEF PayableAccountsOf, PayableAccounts
<1> QED BY <1>1, <1>4

\* Signing a list of accounts gives a list of transactions.
LEMMA SignedBatchType ==
    ASSUME NEW accounts \in Seq(PayableAccounts), NEW nonce \in Nat
    PROVE  SignedBatch(accounts, nonce) \in Seq(Hashes)
<1>1. \A i \in DOMAIN accounts :
         /\ accounts[i] \in PayableAccounts
         /\ nonce + i - 1 \in Nat
  OBVIOUS
<1>2. SignedBatch(accounts, nonce) \in [1 .. Len(accounts) -> Hashes]
  BY <1>1 DEF SignedBatch, PayableAccounts, Hashes
<1> QED BY <1>2

\* The members of a list of transactions are transactions.
LEMMA RangeType ==
    ASSUME NEW hashes \in Seq(Hashes)
    PROVE  Range(hashes) \subseteq Hashes
BY DEF Range

\* New rows of pending_payable are rows.
LEMMA NewFingerprintsType ==
    ASSUME NEW last \in Nat, NEW hashes \in Seq(Hashes)
    PROVE  NewFingerprints(last, hashes) \subseteq Fingerprints
<1>1. \A i \in DOMAIN hashes : last + i \in Nat \ {0} /\ hashes[i] \in Hashes
  OBVIOUS
<1> QED BY <1>1 DEF NewFingerprints, Fingerprints

-----------------------------------------------------------------------------
(* Type correctness                                                        *)

\* What a future or the handler in progress carries, told from its stage.
LEMMA CarriedTypes ==
    ASSUME TypeOK
    PROVE  /\ \A s \in Slots :
                /\ futures[s].stage \in {"agent", "nonce"} => futures[s].accounts \in Seq(PayableAccounts)
                /\ futures[s].stage \in {"submit", "taken"} => futures[s].batch \in Seq(Hashes)
                /\ futures[s].stage = "taken" => futures[s].taken \subseteq Hashes
                /\ futures[s].stage = "receipts" => futures[s].fps \subseteq Fingerprints
           /\ job.at = "mark" => job \in [at : {"mark"}, oks : SUBSET Hashes, errs : SUBSET Hashes]
           /\ job.at \in {"confirm", "fail", "attempt"} =>
                job \in [at : {"confirm", "fail", "attempt"}, confirmed : SUBSET Fingerprints,
                         settled : SUBSET Fingerprints, failures : SUBSET Fingerprints,
                         still : SUBSET Fingerprints]
<1>1. ASSUME NEW s \in Slots
      PROVE  /\ futures[s].stage \in {"agent", "nonce"} => futures[s].accounts \in Seq(PayableAccounts)
             /\ futures[s].stage \in {"submit", "taken"} => futures[s].batch \in Seq(Hashes)
             /\ futures[s].stage = "taken" => futures[s].taken \subseteq Hashes
             /\ futures[s].stage = "receipts" => futures[s].fps \subseteq Fingerprints
  <2>1. futures[s] \in Futures
    BY DEF TypeOK
  <2> QED BY <2>1 DEF Futures, NoFuture
<1>2. job \in Jobs
  BY DEF TypeOK
<1> QED BY <1>1, <1>2 DEF Jobs, NoJob

\* A message the Accountant takes out is of its type, and the rest still are.
LEMMA ReceivedTypes ==
    ASSUME TypeOK, NEW type, Receive(type)
    PROVE  /\ mailbox' \in Seq(Messages)
           /\ Head(mailbox) \in Messages
           /\ type = "BlockchainAgentWithContextMessage" => Head(mailbox).accounts \in Seq(PayableAccounts)
           /\ type = "PendingPayableFingerprintSeeds" => Head(mailbox).hashes \in Seq(Hashes)
           /\ type = "SentPayables" => /\ Head(mailbox).oks \in SUBSET Hashes
                                       /\ Head(mailbox).errs \in SUBSET Hashes
           /\ type = "ReportTransactionReceipts" => /\ Head(mailbox).confirmed \in SUBSET Fingerprints
                                                    /\ Head(mailbox).failures \in SUBSET Fingerprints
                                                    /\ Head(mailbox).still \in SUBSET Fingerprints
<1>1. mailbox \in Seq(Messages) /\ mailbox # <<>>
  BY DEF TypeOK, Receive
<1>2. Head(mailbox) \in Messages
  BY <1>1
<1>3. mailbox' \in Seq(Messages)
  BY <1>1 DEF Receive
<1>4. Head(mailbox).type = type
  BY DEF Receive
<1> QED BY <1>2, <1>3, <1>4 DEF Messages

\* Futures of every stage, and none, are futures.
LEMMA SpawnType ==
    ASSUME TypeOK, NEW f \in Futures, Spawn(f)
    PROVE  futures' \in [Slots -> Futures]
BY DEF TypeOK, Spawn

\* Going down leaves the memory empty and the database as it is.
LEMMA GoDownType ==
    ASSUME NEW how \in Endings, GoDown(how)
    PROVE  /\ node' \in {"up"} \cup Endings
           /\ job' \in Jobs
           /\ payableScan' \in BOOLEAN
           /\ pendingScan' \in BOOLEAN
           /\ mailbox' \in Seq(Messages)
           /\ futures' \in [Slots -> Futures]
<1>1. NoJob \in Jobs /\ NoFuture \in Futures
  BY DEF Jobs, Futures
<1>2. payableScan' \in BOOLEAN /\ pendingScan' \in BOOLEAN
  BY DEF GoDown
<1> QED BY <1>1, <1>2 DEF GoDown

\* Completing a future sends messages and changes nothing else of the Node.
LEMMA CompleteType ==
    ASSUME TypeOK, NEW s \in Slots, NEW messages \in Seq(Messages), Complete(s, messages),
           UNCHANGED external
    PROVE  TypeOK'
<1>1. futures' \in [Slots -> Futures]
  BY DEF TypeOK, Complete, Futures
<1>2. mailbox' \in Seq(Messages)
  BY DEF TypeOK, Complete, Send
<1> QED BY <1>1, <1>2 DEF TypeOK, Complete, database, scanners, external

\* The steps of the scanners and of the message handlers keep the types.
LEMMA HandlersType ==
    ASSUME TypeOK,
           ScanForPayables \/ ScanForPendingPayables \/ HandleMessage
    PROVE  TypeOK'
<1>1. CASE ScanForPayables
  <2>1. CASE /\ payableScan' = TRUE
             /\ \E list \in Listings(QualifiedPayables) :
                   Spawn(BuildingAgent(PayableAccountsOf(list)))
             /\ UNCHANGED <<pendingScan, job, mailbox, node>>
    <3>1. PICK list \in Listings(QualifiedPayables) : Spawn(BuildingAgent(PayableAccountsOf(list)))
      BY <2>1
    <3>2. BuildingAgent(PayableAccountsOf(list)) \in Futures
      BY QualifiedType DEF BuildingAgent, Futures
    <3>3. futures' \in [Slots -> Futures]
      BY <3>1, <3>2, SpawnType
    <3> QED BY <1>1, <2>1, <3>3 DEF TypeOK, ScanForPayables, database, external
  <2>2. CASE GoDown("negative balance")
    BY <1>1, <2>2, GoDownType DEF TypeOK, ScanForPayables, database, external, Endings
  <2> QED BY <1>1, <2>1, <2>2 DEF ScanForPayables
<1>2. CASE ScanForPendingPayables
  <2>1. AskingReceipts({fp \in fingerprints : fp.process_error = "null"}) \in Futures
    BY DEF TypeOK, AskingReceipts, Futures
  <2>2. futures' \in [Slots -> Futures]
    BY <1>2, <2>1, SpawnType DEF ScanForPendingPayables
  <2> QED BY <1>2, <2>2 DEF TypeOK, ScanForPendingPayables, database, external
<1>3. CASE HandlePayablePaymentSetup
  <2>1. Receive("BlockchainAgentWithContextMessage")
    BY <1>3 DEF HandlePayablePaymentSetup
  <2>2. AskingNonce(Head(mailbox).accounts) \in Futures
    BY <2>1, ReceivedTypes DEF AskingNonce, Futures
  <2>3. futures' \in [Slots -> Futures]
    BY <1>3, <2>2, SpawnType DEF HandlePayablePaymentSetup
  <2> QED BY <1>3, <2>1, <2>3, ReceivedTypes
          DEF TypeOK, HandlePayablePaymentSetup, database, scanners, external
<1>4. CASE HandleNewPendingPayableFingerprints
  <2>1. Receive("PendingPayableFingerprintSeeds")
    BY <1>4 DEF HandleNewPendingPayableFingerprints
  <2>2. Head(mailbox).hashes \in Seq(Hashes) /\ mailbox' \in Seq(Messages)
    BY <2>1, ReceivedTypes
  <2>3. \A last \in {0} \cup RowidsOf(fingerprints) :
           NewFingerprints(last, Head(mailbox).hashes) \subseteq Fingerprints
    <3>1. {0} \cup RowidsOf(fingerprints) \subseteq Nat
      BY DEF TypeOK, RowidsOf, Fingerprints
    <3> QED BY <2>2, <3>1, NewFingerprintsType
  <2>4. fingerprints' \subseteq Fingerprints
    BY <1>4, <2>3 DEF HandleNewPendingPayableFingerprints, TypeOK
  <2> QED BY <1>4, <2>2, <2>4
          DEF TypeOK, HandleNewPendingPayableFingerprints, scanners, external
<1>5. CASE HandleSentPayables
  <2>1. Receive("SentPayables")
    BY <1>5 DEF HandleSentPayables
  <2>2. job' \in Jobs
    BY <1>5, <2>1, ReceivedTypes DEF HandleSentPayables, Jobs
  <2> QED BY <1>5, <2>1, <2>2, ReceivedTypes
          DEF TypeOK, HandleSentPayables, database, scanners, external
<1>6. CASE HandleScanError
  <2>1. mailbox' \in Seq(Messages)
    BY <1>6, ReceivedTypes DEF HandleScanError
  <2>2. payableScan' \in BOOLEAN /\ pendingScan' \in BOOLEAN
    BY <1>6 DEF HandleScanError, MarkAfterError
  <2> QED BY <1>6, <2>1, <2>2 DEF TypeOK, HandleScanError, database, external
<1>7. CASE HandleReportTransactionReceipts
  <2>1. Receive("ReportTransactionReceipts")
    BY <1>7 DEF HandleReportTransactionReceipts
  <2>2. job' \in Jobs
    BY <1>7, <2>1, ReceivedTypes DEF HandleReportTransactionReceipts, Jobs
  <2> QED BY <1>7, <2>1, <2>2, ReceivedTypes
          DEF TypeOK, HandleReportTransactionReceipts, database, scanners, external
<1> QED BY <1>1, <1>2, <1>3, <1>4, <1>5, <1>6, <1>7 DEF HandleMessage

\* The statements of a handler in progress keep the types.
LEMMA JobsType ==
    ASSUME TypeOK, ContinueJob
    PROVE  TypeOK'
<1> USE DEF Endings
<1>1. CASE MarkPendingPayable
  <2>1. rowid' \in [Wallets -> Nat]
    <3> DEFINE marked == {fp \in fingerprints : fp.hash \in job.oks /\ rowid[fp.hash.to] = 0}
    <3>1. \A w \in Wallets : (\E fp \in marked : fp.hash.to = w)
             => (CHOOSE fp \in marked : fp.hash.to = w) \in marked
      OBVIOUS
    <3>2. \A fp \in marked : fp.rowid \in Nat
      BY DEF TypeOK, Fingerprints
    <3>3. {fp \in {f \in fingerprints : f.hash \in job.oks} : rowid[fp.hash.to] = 0} = marked
      OBVIOUS
    <3>4. rowid' = [w \in Wallets |-> IF \E fp \in marked : fp.hash.to = w
                                      THEN (CHOOSE fp \in marked : fp.hash.to = w).rowid
                                      ELSE rowid[w]]
      BY <1>1, <3>3 DEF MarkPendingPayable
    <3> HIDE DEF marked
    <3> QED BY <3>1, <3>2, <3>4 DEF TypeOK
  <2>2. CASE GoOn([job EXCEPT !.at = "discard"])
    <3>1. job' \in Jobs
      BY <1>1, <2>2, CarriedTypes DEF GoOn, Jobs, MarkPendingPayable
    <3> QED BY <1>1, <2>1, <2>2, <3>1 DEF TypeOK, GoOn, MarkPendingPayable, external
  <2>3. CASE \E how \in Endings : GoDown(how)
    BY <1>1, <2>1, <2>3, GoDownType DEF TypeOK, MarkPendingPayable, external
  <2> QED BY <1>1, <2>2, <2>3 DEF MarkPendingPayable
<1>2. CASE DiscardFailedTransactions
  <2>1. fingerprints' \subseteq Fingerprints
    BY <1>2 DEF DiscardFailedTransactions, TypeOK
  <2>2. CASE /\ job' = NoJob
             /\ payableScan' = FALSE
             /\ UNCHANGED <<pendingScan, mailbox, futures, node>>
    <3>1. job' \in Jobs
      BY <2>2 DEF Jobs
    <3>2. payableScan' \in BOOLEAN
      BY <2>2
    <3> QED BY <1>2, <2>1, <2>2, <3>1, <3>2 DEF TypeOK, DiscardFailedTransactions, external
  <2>3. CASE GoDown("failed without fingerprint")
    BY <1>2, <2>1, <2>3, GoDownType DEF TypeOK, DiscardFailedTransactions, external
  <2> QED BY <1>2, <2>2, <2>3 DEF DiscardFailedTransactions
<1>3. CASE TransactionConfirmed
  <2>1. PICK fp \in job.confirmed :
          LET rows == {w \in Wallets : rowid[w] = fp.rowid}
          IN  /\ balance' = [w \in Wallets |->
                                IF w \in rows THEN balance[w] - fp.hash.amount ELSE balance[w]]
              /\ rowid' = [w \in Wallets |-> IF w \in rows THEN 0 ELSE rowid[w]]
              /\ mature' = mature \ rows
              /\ \/ GoOn([job EXCEPT !.confirmed = @ \ {fp}, !.settled = @ \cup {fp}])
                 \/ GoDown("confirm mismatch")
    BY <1>3 DEF TransactionConfirmed, Credited
  <2>2. job \in [at : {"confirm", "fail", "attempt"}, confirmed : SUBSET Fingerprints,
                 settled : SUBSET Fingerprints, failures : SUBSET Fingerprints,
                 still : SUBSET Fingerprints]
    BY <1>3, CarriedTypes DEF TransactionConfirmed
  <2>3. fp \in Fingerprints /\ fp.hash.amount \in Int
    BY <2>1, <2>2 DEF Fingerprints, Hashes
  <2>4. /\ balance' \in [Wallets -> Int]
        /\ rowid' \in [Wallets -> Nat]
        /\ mature' \subseteq Wallets
    <3>1. \A w \in Wallets : balance[w] \in Int /\ balance[w] - fp.hash.amount \in Int /\ rowid[w] \in Nat
      <4>1. balance \in [Wallets -> Int] /\ rowid \in [Wallets -> Nat]
        BY DEF TypeOK
      <4> DEFINE amount == fp.hash.amount
      <4>2. amount \in Int
        BY <2>3
      <4> HIDE DEF amount
      <4>3. \A w \in Wallets : balance[w] \in Int /\ balance[w] - amount \in Int /\ rowid[w] \in Nat
        BY <4>1, <4>2
      <4> QED BY <4>3 DEF amount
    <3>2. balance' \in [Wallets -> Int]
      BY <2>1, <3>1
    <3>3. rowid' \in [Wallets -> Nat]
      BY <2>1, <3>1
    <3>4. mature' \subseteq Wallets
      BY <2>1 DEF TypeOK
    <3> QED BY <3>2, <3>3, <3>4
  <2>5. CASE GoOn([job EXCEPT !.confirmed = @ \ {fp}, !.settled = @ \cup {fp}])
    <3>1. job' \in Jobs
      BY <2>2, <2>3, <2>5 DEF GoOn, Jobs
    <3> QED BY <1>3, <2>4, <2>5, <3>1 DEF TypeOK, GoOn, TransactionConfirmed, external
  <2>6. CASE GoDown("confirm mismatch")
    BY <1>3, <2>4, <2>6, GoDownType DEF TypeOK, TransactionConfirmed, external
  <2> QED BY <2>1, <2>5, <2>6
<1>4. CASE DeleteConfirmed
  <2>1. fingerprints' \subseteq Fingerprints
    BY <1>4 DEF DeleteConfirmed, TypeOK
  <2>2. CASE GoOn([job EXCEPT !.at = "fail"])
    <3>1. job' \in Jobs
      BY <1>4, <2>2, CarriedTypes DEF GoOn, Jobs, DeleteConfirmed
    <3> QED BY <1>4, <2>1, <2>2, <3>1 DEF TypeOK, GoOn, DeleteConfirmed, external
  <2>3. CASE GoDown("delete mismatch")
    BY <1>4, <2>1, <2>3, GoDownType DEF TypeOK, DeleteConfirmed, external
  <2> QED BY <1>4, <2>2, <2>3 DEF DeleteConfirmed
<1>5. CASE CancelFailedTransactions
  <2>1. fingerprints' \subseteq Fingerprints
    <3>1. \A fp \in fingerprints : [fp EXCEPT !.process_error = "ERROR"] \in Fingerprints
      BY DEF TypeOK, Fingerprints
    <3> QED BY <1>5, <3>1 DEF CancelFailedTransactions, TypeOK
  <2>2. CASE GoOn([job EXCEPT !.at = "attempt"])
    <3>1. job' \in Jobs
      BY <1>5, <2>2, CarriedTypes DEF GoOn, Jobs, CancelFailedTransactions
    <3> QED BY <1>5, <2>1, <2>2, <3>1 DEF TypeOK, GoOn, CancelFailedTransactions, external
  <2>3. CASE GoDown("failure mismatch")
    BY <1>5, <2>1, <2>3, GoDownType DEF TypeOK, CancelFailedTransactions, external
  <2> QED BY <1>5, <2>2, <2>3 DEF CancelFailedTransactions
<1>6. CASE UpdateRemainingFingerprints
  <2>1. CASE /\ job' = NoJob
             /\ pendingScan' = FALSE
             /\ UNCHANGED <<payableScan, mailbox, futures, node>>
    <3>1. job' \in Jobs
      BY <2>1 DEF Jobs
    <3>2. pendingScan' \in BOOLEAN
      BY <2>1
    <3> QED BY <1>6, <2>1, <3>1, <3>2 DEF TypeOK, UpdateRemainingFingerprints, database, external
  <2>2. CASE GoDown("attempt mismatch")
    BY <1>6, <2>2, GoDownType DEF TypeOK, UpdateRemainingFingerprints, database, external
  <2> QED BY <1>6, <2>1, <2>2 DEF UpdateRemainingFingerprints
<1> QED BY <1>1, <1>2, <1>3, <1>4, <1>5, <1>6 DEF ContinueJob

\* The continuations of the futures and the batch entering the pool keep the types.
LEMMA FuturesType ==
    ASSUME TypeOK, NEW s \in Slots, Continue(s)
    PROVE  TypeOK'
<1>1. ASSUME BuildBlockchainAgent(s) \/ NonceQueryFails(s) \/ BatchAnswered(s)
             \/ SubmitBatchFails(s) \/ ProcessTransactionReceipts(s)
      PROVE  UNCHANGED external /\ \E messages \in Seq(Messages) : Complete(s, messages)
  <2>1. CASE BuildBlockchainAgent(s)
    <3>1. /\ <<AgentWithContext(futures[s].accounts)>> \in Seq(Messages)
          /\ <<ScanError("Payables")>> \in Seq(Messages)
      BY <2>1, CarriedTypes
      DEF BuildBlockchainAgent, AgentWithContext, ScanError, Messages, ScanTypes
    <3> QED BY <2>1, <3>1 DEF BuildBlockchainAgent
  <2>2. CASE NonceQueryFails(s)
    <3>1. <<SentPayables({}, {}), ScanError("Payables")>> \in Seq(Messages)
      BY DEF SentPayables, ScanError, Messages, ScanTypes
    <3> QED BY <2>2, <3>1 DEF NonceQueryFails
  <2>3. CASE BatchAnswered(s)
    <3>1. Range(futures[s].batch) \subseteq Hashes /\ futures[s].taken \subseteq Hashes
      BY <2>3, CarriedTypes, RangeType DEF BatchAnswered
    <3>2. <<SentPayables(futures[s].taken, Refused(futures[s].batch, futures[s].taken))>>
             \in Seq(Messages)
      BY <3>1 DEF SentPayables, Refused, Messages
    <3> QED BY <2>3, <3>2 DEF BatchAnswered
  <2>4. CASE SubmitBatchFails(s)
    <3>1. Range(futures[s].batch) \subseteq Hashes
      BY <2>4, CarriedTypes, RangeType DEF SubmitBatchFails
    <3>2. <<SentPayables({}, Range(futures[s].batch)), ScanError("Payables")>> \in Seq(Messages)
      BY <3>1 DEF SentPayables, ScanError, Messages, ScanTypes
    <3> QED BY <2>4, <3>2 DEF SubmitBatchFails
  <2>5. CASE ProcessTransactionReceipts(s)
    <3>1. futures[s].fps \subseteq Fingerprints
      BY <2>5, CarriedTypes DEF ProcessTransactionReceipts
    <3>2. \A ok, failed, still \in SUBSET futures[s].fps :
             <<ReportTransactionReceipts(ok, failed, still)>> \in Seq(Messages)
      BY <3>1 DEF ReportTransactionReceipts, Messages
    <3>3. <<ScanError("PendingPayables")>> \in Seq(Messages)
      BY DEF ScanError, Messages, ScanTypes
    <3> QED BY <2>5, <3>2, <3>3 DEF ProcessTransactionReceipts
  <2> QED BY <1>1, <2>1, <2>2, <2>3, <2>4, <2>5
<1>2. CASE SignAndSubmit(s)
  <2>1. futures[s].accounts \in Seq(PayableAccounts)
    BY <1>2, CarriedTypes DEF SignAndSubmit
  <2>2. PICK nonce \in Nat :
          /\ Send(<<Seeds(SignedBatch(futures[s].accounts, nonce))>>)
          /\ futures' = [futures EXCEPT ![s] = Submitting(SignedBatch(futures[s].accounts, nonce))]
    <3>1. 0 .. scene.nonces - Len(futures[s].accounts) \subseteq Nat
      OBVIOUS
    <3> QED BY <1>2, <3>1 DEF SignAndSubmit
  <2> DEFINE batch == SignedBatch(futures[s].accounts, nonce)
  <2>3. batch \in Seq(Hashes)
    BY <2>1, SignedBatchType
  <2> HIDE DEF batch
  <2>4. Submitting(batch) \in Futures /\ <<Seeds(batch)>> \in Seq(Messages)
    BY <2>3 DEF Submitting, Futures, Seeds, Messages
  <2>5. futures' \in [Slots -> Futures] /\ mailbox' \in Seq(Messages)
    BY <2>2, <2>4 DEF batch, TypeOK, Send
  <2> QED BY <1>2, <2>5 DEF SignAndSubmit, TypeOK, database, scanners, external
<1>3. CASE ChainTakesBatch(s)
  <2>1. futures[s].batch \in Seq(Hashes) /\ Range(futures[s].batch) \subseteq Hashes
    BY <1>3, CarriedTypes, RangeType DEF ChainTakesBatch
  <2>2. PICK taken \in SUBSET Hashes :
          /\ chain' = chain \cup {[hash |-> h, status |-> "pending"] : h \in taken}
          /\ committed' = [w \in Wallets |-> committed[w] + Amount(taken, w)]
          /\ futures' = [futures EXCEPT ![s] = Submitted(futures[s].batch, taken)]
    <3>1. Acceptable(futures[s].batch) \subseteq SUBSET Hashes
      BY <2>1 DEF Acceptable
    <3> QED BY <1>3, <3>1 DEF ChainTakesBatch
  <2>3. \A w \in Wallets : Amount(taken, w) \in Int
    BY DEF Amount, Hashes
  <2>4. Submitted(futures[s].batch, taken) \in Futures
    BY <2>1 DEF Submitted, Futures
  <2>5. futures' \in [Slots -> Futures]
    BY <2>2, <2>4 DEF TypeOK
  <2>6. committed' \in [Wallets -> Int]
    BY <2>2, <2>3 DEF TypeOK
  <2>7. chain' \subseteq [hash : Hashes, status : {"pending", "ok", "failed"}]
    BY <2>2 DEF TypeOK
  <2> QED BY <1>3, <2>5, <2>6, <2>7 DEF ChainTakesBatch, TypeOK, database, scanners
<1> QED BY <1>1, <1>2, <1>3, CompleteType DEF Continue

\* Whatever is sent, lost, refused or killed, every table row, message, future
\* and handler in progress has the type its declaration gives it.
THEOREM TypeCorrect == Spec => []TypeOK
<1>1. Init => TypeOK
  <2> SUFFICES ASSUME Init PROVE TypeOK
    OBVIOUS
  <2>1. payableScan \in BOOLEAN /\ pendingScan \in BOOLEAN
    BY DEF Init
  <2>2. job \in Jobs /\ futures \in [Slots -> Futures]
    BY DEF Init, Jobs, Futures
  <2>3. restarts \in 0 .. scene.restarts
    BY CycleAssumption DEF Init, CycleAssumption, Circumstance
  <2> QED BY <2>1, <2>2, <2>3 DEF Init, TypeOK
<1>2. TypeOK /\ [Next]_vars => TypeOK'
  <2> SUFFICES ASSUME TypeOK, [Next]_vars PROVE TypeOK'
    OBVIOUS
  <2>1. ASSUME NEW w \in Wallets, RecordServiceConsumed(w) PROVE TypeOK'
    BY <2>1 DEF RecordServiceConsumed, TypeOK, scanners, external
  <2>2. ASSUME NEW w \in Wallets, Mature(w) PROVE TypeOK'
    BY <2>2 DEF Mature, TypeOK, scanners, external
  <2>3. CASE ScanForPayables \/ ScanForPendingPayables \/ HandleMessage
    BY <2>3, HandlersType
  <2>4. CASE ContinueJob
    BY <2>4, JobsType
  <2>5. ASSUME NEW s \in Slots, Continue(s) PROVE TypeOK'
    BY <2>5, FuturesType
  <2>6. CASE Mine
    <3>1. PICK tx \in chain, status \in {"ok", "failed"} :
            /\ chain' = (chain \ {tx}) \cup {[tx EXCEPT !.status = status]}
            /\ committed' = IF status = "ok" THEN committed
                            ELSE [committed EXCEPT ![tx.hash.to] = @ - tx.hash.amount]
      BY <2>6 DEF Mine
    <3>2. tx \in [hash : Hashes, status : {"pending", "ok", "failed"}]
      BY DEF TypeOK
    <3>3. chain' \subseteq [hash : Hashes, status : {"pending", "ok", "failed"}]
      BY <3>1, <3>2 DEF TypeOK
    <3>4. committed' \in [Wallets -> Int]
      BY <3>1, <3>2 DEF TypeOK, Hashes
    <3> QED BY <2>6, <3>3, <3>4 DEF Mine, TypeOK, database, scanners
  <2>7. CASE Crash
    BY <2>7, GoDownType DEF Crash, TypeOK, Endings, database, external
  <2>8. CASE Restart
    <3>1. scene.restarts \in Nat
      BY CycleAssumption DEF TypeOK, CycleAssumption, Circumstance
    <3> QED BY <2>8, <3>1 DEF Restart, TypeOK, database, scanners, external
  <2>9. CASE UNCHANGED vars
    BY <2>9 DEF vars, TypeOK
  <2> QED BY <2>1, <2>2, <2>3, <2>4, <2>5, <2>6, <2>7, <2>8, <2>9 DEF Next
<1> QED BY <1>1, <1>2, PTL DEF Spec

-----------------------------------------------------------------------------
(* One scan of a kind at a time                                            *)

MarkOf(kind) == IF kind = "Payables" THEN payableScan ELSE pendingScan

EndsScan(kind, m) == IF kind = "Payables" THEN EndsPayableScan(m) ELSE EndsPendingScan(m)

JobsOf(kind) == IF kind = "Payables" THEN {"mark", "discard"} ELSE {"confirm", "fail", "attempt"}

StagesOf(kind) == IF kind = "Payables" THEN {"agent", "nonce", "submit", "taken"} ELSE {"receipts"}

ScanJob(kind) == job.at \in JobsOf(kind)
ScanFuture(kind, s) == futures[s].stage \in StagesOf(kind)
ScanMessage(kind, i) == i \in 1 .. Len(mailbox) /\ EndsScan(kind, mailbox[i])

\* The carriers one by one: the mark is set exactly when there is one, there are
\* not two of a kind, and not two of different kinds.
ScanInv(kind) ==
    /\ MarkOf(kind) <=> \/ ScanJob(kind)
                        \/ \E s \in Slots : ScanFuture(kind, s)
                        \/ \E i \in Nat : ScanMessage(kind, i)
    /\ \A r, s \in Slots : ScanFuture(kind, r) /\ ScanFuture(kind, s) => r = s
    /\ \A i, k \in Nat : ScanMessage(kind, i) /\ ScanMessage(kind, k) => i = k
    /\ \A s \in Slots, i \in Nat : ~(ScanFuture(kind, s) /\ ScanMessage(kind, i))
    /\ ScanJob(kind) => /\ \A s \in Slots : ~ScanFuture(kind, s)
                        /\ \A i \in Nat : ~ScanMessage(kind, i)

\* Told of the carriers as one set, this is the property the runs check: of the
\* pending-payable scan ...
LEMMA PendingInvImplies ==
    ASSUME TypeOK, ScanInv("PendingPayables")
    PROVE  OnePendingPayableScanAtATime
<1> DEFINE kind == "PendingPayables"
<1>1. \A i \in 1 .. Len(mailbox) : i \in Nat /\ (EndsPendingScan(mailbox[i]) => ScanMessage(kind, i))
  BY DEF ScanMessage, TypeOK, EndsScan
<1>2. \A i \in Nat : ScanMessage(kind, i) => <<"message", i>> \in PendingScanCarriers
  BY DEF ScanMessage, PendingScanCarriers, EndsScan
<1>3. \A s \in Slots : ScanFuture(kind, s) => <<"future", s>> \in PendingScanCarriers
  BY DEF ScanFuture, PendingScanCarriers, StagesOf
<1>4. ScanJob(kind) => <<"job", 0>> \in PendingScanCarriers
  BY DEF ScanJob, PendingScanCarriers, JobsOf
<1>5. ASSUME NEW x \in PendingScanCarriers
      PROVE  \/ x = <<"job", 0>> /\ ScanJob(kind)
             \/ \E s \in Slots : x = <<"future", s>> /\ ScanFuture(kind, s)
             \/ \E i \in Nat : x = <<"message", i>> /\ ScanMessage(kind, i)
  BY <1>1 DEF PendingScanCarriers, ScanJob, ScanFuture, JobsOf, StagesOf
<1>6. pendingScan <=> PendingScanCarriers # {}
  BY <1>2, <1>3, <1>4, <1>5 DEF ScanInv, MarkOf
<1>7. \A x, y \in PendingScanCarriers : x = y
  BY <1>5 DEF ScanInv
<1> QED BY <1>6, <1>7 DEF OnePendingPayableScanAtATime, SingleFlight

\* ... and of the payable scan.
LEMMA PayableInvImplies ==
    ASSUME TypeOK, ScanInv("Payables")
    PROVE  OnePayableScanAtATime
<1> DEFINE kind == "Payables"
<1>1. \A i \in 1 .. Len(mailbox) : i \in Nat /\ (EndsPayableScan(mailbox[i]) => ScanMessage(kind, i))
  BY DEF ScanMessage, TypeOK, EndsScan
<1>2. \A i \in Nat : ScanMessage(kind, i) => <<"message", i>> \in PayableScanCarriers
  BY DEF ScanMessage, PayableScanCarriers, EndsScan
<1>3. \A s \in Slots : ScanFuture(kind, s) => <<"future", s>> \in PayableScanCarriers
  BY DEF ScanFuture, PayableScanCarriers, StagesOf
<1>4. ScanJob(kind) => <<"job", 0>> \in PayableScanCarriers
  BY DEF ScanJob, PayableScanCarriers, JobsOf
<1>5. ASSUME NEW x \in PayableScanCarriers
      PROVE  \/ x = <<"job", 0>> /\ ScanJob(kind)
             \/ \E s \in Slots : x = <<"future", s>> /\ ScanFuture(kind, s)
             \/ \E i \in Nat : x = <<"message", i>> /\ ScanMessage(kind, i)
  BY <1>1 DEF PayableScanCarriers, ScanJob, ScanFuture, JobsOf, StagesOf
<1>6. payableScan <=> PayableScanCarriers # {}
  BY <1>2, <1>3, <1>4, <1>5 DEF ScanInv, MarkOf
<1>7. \A x, y \in PayableScanCarriers : x = y
  BY <1>5 DEF ScanInv
<1> QED BY <1>6, <1>7 DEF OnePayableScanAtATime, SingleFlight

\* Messages that do not end the scan may be sent: the carriers are the same.
LEMMA ScanSendOther ==
    ASSUME TypeOK, NEW kind, NEW messages \in Seq(Messages), Send(messages),
           \A k \in 1 .. Len(messages) : ~EndsScan(kind, messages[k])
    PROVE  \A i \in Nat : ScanMessage(kind, i)' <=> ScanMessage(kind, i)
<1>1. mailbox \in Seq(Messages)
  BY DEF TypeOK
<1>2. /\ Len(mailbox') = Len(mailbox) + Len(messages)
      /\ \A i \in 1 .. Len(mailbox) : mailbox'[i] = mailbox[i]
      /\ \A i \in 1 .. Len(mailbox') : i \notin 1 .. Len(mailbox) =>
            i - Len(mailbox) \in 1 .. Len(messages) /\ mailbox'[i] = messages[i - Len(mailbox)]
  BY <1>1 DEF Send
<1>3. \A i \in Nat : EndsScan(kind, mailbox[i])' <=> EndsScan(kind, mailbox'[i])
  BY DEF EndsScan, EndsPendingScan, EndsPayableScan
<1>4. ASSUME NEW i \in Nat PROVE ScanMessage(kind, i)' <=> ScanMessage(kind, i)
  <2>1. CASE i \in 1 .. Len(mailbox)
    BY <1>1, <1>2, <1>3, <2>1 DEF ScanMessage
  <2>2. CASE i \in 1 .. Len(mailbox') /\ i \notin 1 .. Len(mailbox)
    <3>1. mailbox'[i] = messages[i - Len(mailbox)] /\ i - Len(mailbox) \in 1 .. Len(messages)
      BY <1>2, <2>2
    <3>2. ~EndsScan(kind, mailbox'[i])
      BY <3>1
    <3> QED BY <1>3, <2>2, <3>2 DEF ScanMessage
  <2>3. CASE i \notin 1 .. Len(mailbox') /\ i \notin 1 .. Len(mailbox)
    BY <2>3 DEF ScanMessage
  <2> QED BY <2>1, <2>2, <2>3
<1> QED BY <1>4

\* Taking a message out moves the others up by one.
LEMMA ScanReceive ==
    ASSUME TypeOK, NEW kind, NEW type, Receive(type)
    PROVE  /\ ScanMessage(kind, 1) <=> EndsScan(kind, Head(mailbox))
           /\ \A i \in Nat : ScanMessage(kind, i)' <=> i > 0 /\ ScanMessage(kind, i + 1)
           /\ ~ScanMessage(kind, 0)
<1>1. mailbox \in Seq(Messages) /\ mailbox # <<>>
  BY DEF TypeOK, Receive
<1>2. /\ Head(mailbox) = mailbox[1]
      /\ Len(mailbox) \in Nat /\ Len(mailbox) > 0
      /\ Len(mailbox') = Len(mailbox) - 1
      /\ \A i \in 1 .. Len(mailbox) - 1 : mailbox'[i] = mailbox[i + 1]
  BY <1>1 DEF Receive
<1>3. \A i \in Nat : EndsScan(kind, mailbox[i])' <=> EndsScan(kind, mailbox'[i])
  BY DEF EndsScan, EndsPendingScan, EndsPayableScan
<1>4. ASSUME NEW i \in Nat PROVE ScanMessage(kind, i)' <=> i > 0 /\ ScanMessage(kind, i + 1)
  BY <1>2, <1>3 DEF ScanMessage
<1> QED BY <1>2, <1>4 DEF ScanMessage

\* A step that touches no carrier and not the mark keeps the invariant.
LEMMA ScanUntouched ==
    ASSUME NEW kind, ScanInv(kind), MarkOf(kind)' <=> MarkOf(kind),
           ScanJob(kind)' <=> ScanJob(kind),
           \A s \in Slots : ScanFuture(kind, s)' <=> ScanFuture(kind, s),
           \A i \in Nat : ScanMessage(kind, i)' <=> ScanMessage(kind, i)
    PROVE  ScanInv(kind)'
BY DEF ScanInv

\* So does a message of another kind leaving the mailbox.
LEMMA ScanReceiveOther ==
    ASSUME TypeOK, NEW kind, ScanInv(kind), MarkOf(kind)' <=> MarkOf(kind),
           ScanJob(kind)' <=> ScanJob(kind),
           \A s \in Slots : ScanFuture(kind, s)' <=> ScanFuture(kind, s),
           NEW type, Receive(type), ~EndsScan(kind, Head(mailbox))
    PROVE  ScanInv(kind)'
<1>1. /\ ~ScanMessage(kind, 0) /\ ~ScanMessage(kind, 1)
      /\ \A i \in Nat : ScanMessage(kind, i)' <=> i > 0 /\ ScanMessage(kind, i + 1)
  BY ScanReceive
<1>2. (\E i \in Nat : ScanMessage(kind, i)) => \E i \in Nat : ScanMessage(kind, i)'
  <2>1. ASSUME NEW i \in Nat, ScanMessage(kind, i) PROVE ScanMessage(kind, i - 1)' /\ i - 1 \in Nat
    <3>1. i # 0 /\ i # 1
      BY <1>1, <2>1
    <3>2. i - 1 \in Nat /\ i - 1 > 0 /\ (i - 1) + 1 = i
      BY <3>1
    <3> DEFINE k == i - 1
    <3>3. k \in Nat /\ k > 0 /\ ScanMessage(kind, k + 1)
      BY <2>1, <3>2
    <3> HIDE DEF k
    <3>4. ScanMessage(kind, k)'
      BY <1>1, <3>3
    <3> QED BY <3>3, <3>4 DEF k
  <2> QED BY <2>1
<1>3. (\E i \in Nat : ScanMessage(kind, i)') => \E i \in Nat : ScanMessage(kind, i)
  BY <1>1
<1>4. \A i, k \in Nat : ScanMessage(kind, i)' /\ ScanMessage(kind, k)' => i = k
  <2>1. ASSUME NEW i \in Nat, NEW k \in Nat, ScanMessage(kind, i)', ScanMessage(kind, k)'
        PROVE  i = k
    <3>1. ScanMessage(kind, i + 1) /\ ScanMessage(kind, k + 1) /\ i + 1 \in Nat /\ k + 1 \in Nat
      BY <1>1, <2>1
    <3>2. i + 1 = k + 1
      BY <3>1 DEF ScanInv
    <3> QED BY <3>2
  <2> QED BY <2>1
<1>5. MarkOf(kind)' <=> \/ ScanJob(kind)'
                        \/ \E s \in Slots : ScanFuture(kind, s)'
                        \/ \E i \in Nat : ScanMessage(kind, i)'
  BY <1>2, <1>3 DEF ScanInv
<1>6. \A s \in Slots, i \in Nat : ~(ScanFuture(kind, s)' /\ ScanMessage(kind, i)')
  BY <1>3 DEF ScanInv
<1>7. ScanJob(kind)' => /\ \A s \in Slots : ~ScanFuture(kind, s)'
                        /\ \A i \in Nat : ~ScanMessage(kind, i)'
  BY <1>3 DEF ScanInv
<1>8. \A r, s \in Slots : ScanFuture(kind, r)' /\ ScanFuture(kind, s)' => r = s
  BY DEF ScanInv
<1> QED BY <1>4, <1>5, <1>6, <1>7, <1>8 DEF ScanInv

\* The carrying message is taken out: no carrier is left.
LEMMA ScanReceiveCarrier ==
    ASSUME TypeOK, NEW kind, ScanInv(kind), NEW type, Receive(type),
           EndsScan(kind, Head(mailbox))
    PROVE  /\ MarkOf(kind)
           /\ ~ScanJob(kind)
           /\ \A s \in Slots : ~ScanFuture(kind, s)
           /\ \A i \in Nat : ~ScanMessage(kind, i)'
<1>1. /\ ScanMessage(kind, 1)
      /\ \A i \in Nat : ScanMessage(kind, i)' <=> i > 0 /\ ScanMessage(kind, i + 1)
  BY ScanReceive
<1>2. \A i \in Nat : ScanMessage(kind, i) => i = 1
  BY <1>1 DEF ScanInv
<1>3. ASSUME NEW i \in Nat, ScanMessage(kind, i)' PROVE FALSE
  <2>1. ScanMessage(kind, i + 1) /\ i > 0
    BY <1>1, <1>3
  <2> QED BY <1>2, <2>1
<1> QED BY <1>1, <1>3 DEF ScanInv

\* Without carriers and mark there is no scan.
LEMMA ScanNone ==
    ASSUME NEW kind, ~MarkOf(kind)', ~ScanJob(kind)',
           \A s \in Slots : ~ScanFuture(kind, s)',
           \A i \in Nat : ~ScanMessage(kind, i)'
    PROVE  ScanInv(kind)'
BY DEF ScanInv

\* The handler in progress carries the scan alone.
LEMMA ScanInJob ==
    ASSUME NEW kind, MarkOf(kind)', ScanJob(kind)',
           \A s \in Slots : ~ScanFuture(kind, s)',
           \A i \in Nat : ~ScanMessage(kind, i)'
    PROVE  ScanInv(kind)'
BY DEF ScanInv

\* One future carries the scan alone.
LEMMA ScanInFuture ==
    ASSUME NEW kind, MarkOf(kind)', ~ScanJob(kind)', NEW r \in Slots,
           \A s \in Slots : ScanFuture(kind, s)' <=> s = r,
           \A i \in Nat : ~ScanMessage(kind, i)'
    PROVE  ScanInv(kind)'
BY DEF ScanInv

\* A Node that goes down carries no scan.
LEMMA ScanGoDown ==
    ASSUME NEW kind, NEW how, GoDown(how)
    PROVE  ScanInv(kind)'
<1>1. /\ ~payableScan' /\ ~pendingScan'
      /\ job' = NoJob /\ mailbox' = <<>> /\ futures' = [s \in Slots |-> NoFuture]
  BY DEF GoDown
<1>2. ~ScanJob(kind)' /\ ~MarkOf(kind)'
  BY <1>1 DEF ScanJob, NoJob, MarkOf, JobsOf
<1>3. \A s \in Slots : ~ScanFuture(kind, s)'
  BY <1>1 DEF ScanFuture, NoFuture, StagesOf
<1>4. \A i \in Nat : ~ScanMessage(kind, i)'
  BY <1>1 DEF ScanMessage
<1> QED BY <1>2, <1>3, <1>4, ScanNone

\* A future of another kind is spawned.
LEMMA ScanSpawnOther ==
    ASSUME TypeOK, NEW kind, NEW f \in Futures, f.stage \notin StagesOf(kind), Spawn(f)
    PROVE  \A s \in Slots : ScanFuture(kind, s)' <=> ScanFuture(kind, s)
<1>1. futures \in [Slots -> Futures] /\ NoFuture.stage \notin StagesOf(kind)
  BY DEF TypeOK, NoFuture, StagesOf
<1>2. PICK r \in Slots : futures[r] = NoFuture /\ futures' = [futures EXCEPT ![r] = f]
  BY DEF Spawn
<1> QED BY <1>1, <1>2 DEF ScanFuture

\* A future of this kind is spawned where there was none.
LEMMA ScanSpawns ==
    ASSUME TypeOK, NEW kind, NEW f \in Futures, f.stage \in StagesOf(kind), Spawn(f),
           \A s \in Slots : ~ScanFuture(kind, s)
    PROVE  \E r \in Slots : \A s \in Slots : ScanFuture(kind, s)' <=> s = r
<1>1. futures \in [Slots -> Futures]
  BY DEF TypeOK
<1>2. PICK r \in Slots : futures' = [futures EXCEPT ![r] = f]
  BY DEF Spawn
<1> QED BY <1>1, <1>2 DEF ScanFuture
\* A future of another kind completes or goes on, with messages of other kinds.
LEMMA ScanOtherFuture ==
    ASSUME TypeOK, NEW kind, ScanInv(kind), UNCHANGED <<scanners, job>>,
           NEW s \in Slots, ~ScanFuture(kind, s),
           NEW f \in Futures, f.stage \notin StagesOf(kind), futures' = [futures EXCEPT ![s] = f],
           NEW messages \in Seq(Messages), Send(messages),
           \A k \in 1 .. Len(messages) : ~EndsScan(kind, messages[k])
    PROVE  ScanInv(kind)'
<1>1. \A r \in Slots : ScanFuture(kind, r)' <=> ScanFuture(kind, r)
  BY DEF ScanFuture, TypeOK
<1>2. (ScanJob(kind)' <=> ScanJob(kind)) /\ (MarkOf(kind)' <=> MarkOf(kind))
  BY DEF ScanJob, MarkOf, scanners
<1>3. \A i \in Nat : ScanMessage(kind, i)' <=> ScanMessage(kind, i)
  BY ScanSendOther
<1> QED BY <1>1, <1>2, <1>3, ScanUntouched

\* The carrying future goes on to another of its stages.
LEMMA ScanFutureGoesOn ==
    ASSUME TypeOK, NEW kind, ScanInv(kind), UNCHANGED <<scanners, job>>,
           NEW s \in Slots, ScanFuture(kind, s),
           NEW f \in Futures, f.stage \in StagesOf(kind), futures' = [futures EXCEPT ![s] = f],
           \A i \in Nat : ScanMessage(kind, i)' <=> ScanMessage(kind, i)
    PROVE  ScanInv(kind)'
<1>1. \A r \in Slots : ScanFuture(kind, r)' <=> ScanFuture(kind, r)
  BY DEF ScanFuture, TypeOK
<1>2. (ScanJob(kind)' <=> ScanJob(kind)) /\ (MarkOf(kind)' <=> MarkOf(kind))
  BY DEF ScanJob, MarkOf, scanners
<1> QED BY <1>1, <1>2, ScanUntouched

\* The carrying future ends with the message that carries the scan on.
LEMMA ScanSends ==
    ASSUME TypeOK, NEW kind, ScanInv(kind), NEW s \in Slots, ScanFuture(kind, s),
           NEW m, EndsScan(kind, m), Complete(s, <<m>>)
    PROVE  ScanInv(kind)'
<1>1. /\ UNCHANGED <<scanners, job>>
      /\ futures' = [futures EXCEPT ![s] = NoFuture]
      /\ mailbox' = mailbox \o <<m>>
  BY DEF Complete, Send
<1>2. mailbox \in Seq(Messages) /\ \A i \in Nat : ~ScanMessage(kind, i)
  BY DEF TypeOK, ScanInv
<1>3. \A r \in Slots : ~ScanFuture(kind, r)'
  <2>1. NoFuture.stage \notin StagesOf(kind)
    BY DEF NoFuture, StagesOf
  <2>2. \A r \in Slots : ScanFuture(kind, r) => r = s
    BY DEF ScanInv
  <2> QED BY <1>1, <2>1, <2>2 DEF ScanFuture, TypeOK
<1>4. MarkOf(kind)' /\ ~ScanJob(kind)'
  BY <1>1 DEF ScanInv, ScanJob, MarkOf, scanners
<1>5. \A i \in Nat : ScanMessage(kind, i)' <=> i = Len(mailbox) + 1
  <2>1. /\ Len(mailbox') = Len(mailbox) + 1
        /\ mailbox'[Len(mailbox) + 1] = m
        /\ \A i \in 1 .. Len(mailbox) : mailbox'[i] = mailbox[i]
        /\ Len(mailbox) \in Nat
    BY <1>1, <1>2
  <2>2. \A i \in 1 .. Len(mailbox) : ~EndsScan(kind, mailbox[i])
    BY <1>2 DEF ScanMessage
  <2>3. \A i \in Nat : EndsScan(kind, mailbox[i])' <=> EndsScan(kind, mailbox'[i])
    BY DEF EndsScan, EndsPendingScan, EndsPayableScan
  <2> QED BY <2>1, <2>2, <2>3 DEF ScanMessage
<1>6. Len(mailbox) + 1 \in Nat
  BY <1>2
<1> QED BY <1>3, <1>4, <1>5, <1>6 DEF ScanInv

\* Scanners, futures and mailbox untouched: so are the carriers in them.
LEMMA ScanSame ==
    ASSUME NEW kind
    PROVE  /\ UNCHANGED job => (ScanJob(kind)' <=> ScanJob(kind))
           /\ UNCHANGED scanners => (MarkOf(kind)' <=> MarkOf(kind))
           /\ UNCHANGED futures => \A s \in Slots : ScanFuture(kind, s)' <=> ScanFuture(kind, s)
           /\ UNCHANGED mailbox => \A i \in Nat : ScanMessage(kind, i)' <=> ScanMessage(kind, i)
<1>1. UNCHANGED job => (ScanJob(kind)' <=> ScanJob(kind))
  BY DEF ScanJob
<1>2. UNCHANGED scanners => (MarkOf(kind)' <=> MarkOf(kind))
  BY DEF MarkOf, scanners
<1>3. UNCHANGED futures => \A s \in Slots : ScanFuture(kind, s)' <=> ScanFuture(kind, s)
  BY DEF ScanFuture
<1>4. UNCHANGED mailbox => \A i \in Nat : ScanMessage(kind, i)' <=> ScanMessage(kind, i)
  BY DEF ScanMessage, EndsScan, EndsPendingScan, EndsPayableScan
<1> QED BY <1>1, <1>2, <1>3, <1>4

\* The handlers of the Accountant keep the invariant of the pending-payable scan.
LEMMA PendingHandlers ==
    ASSUME TypeOK, ScanInv("PendingPayables"),
           ScanForPayables \/ ScanForPendingPayables \/ HandleMessage
    PROVE  ScanInv("PendingPayables")'
<1> DEFINE kind == "PendingPayables"
<1>0. /\ StagesOf(kind) = {"receipts"}
      /\ JobsOf(kind) = {"confirm", "fail", "attempt"}
      /\ MarkOf(kind) = pendingScan
      /\ MarkOf(kind)' = pendingScan'
      /\ \A m : EndsScan(kind, m) <=> EndsPendingScan(m)
  BY DEF StagesOf, JobsOf, MarkOf, EndsScan
<1> HIDE DEF kind
<1>1. CASE ScanForPayables
  <2>1. CASE /\ \E list \in Listings(QualifiedPayables) :
                   Spawn(BuildingAgent(PayableAccountsOf(list)))
             /\ UNCHANGED <<pendingScan, job, mailbox, node>>
    <3>1. PICK list \in Listings(QualifiedPayables) : Spawn(BuildingAgent(PayableAccountsOf(list)))
      BY <2>1
    <3>2. BuildingAgent(PayableAccountsOf(list)) \in Futures
      BY QualifiedType DEF BuildingAgent, Futures
    <3>3. BuildingAgent(PayableAccountsOf(list)).stage \notin StagesOf(kind)
      BY <1>0 DEF BuildingAgent
    <3>4. \A s \in Slots : ScanFuture(kind, s)' <=> ScanFuture(kind, s)
      BY <3>1, <3>2, <3>3, ScanSpawnOther
    <3> QED BY <1>0, <2>1, <3>4, ScanUntouched, ScanSame DEF kind
  <2>2. CASE GoDown("negative balance")
    BY <2>2, ScanGoDown
  <2> QED BY <1>1, <2>1, <2>2 DEF ScanForPayables
<1>2. CASE ScanForPendingPayables
  <2> DEFINE asking == AskingReceipts({fp \in fingerprints : fp.process_error = "null"})
  <2>1. /\ ~pendingScan /\ pendingScan'
        /\ UNCHANGED <<job, mailbox>>
        /\ Spawn(asking)
    BY <1>2 DEF ScanForPendingPayables, MayBegin
  <2>2. ~ScanJob(kind) /\ (\A s \in Slots : ~ScanFuture(kind, s))
        /\ \A i \in Nat : ~ScanMessage(kind, i)
    BY <1>0, <2>1 DEF ScanInv, kind
  <2>3. asking \in Futures /\ asking.stage \in StagesOf(kind)
    BY <1>0 DEF AskingReceipts, Futures, TypeOK
  <2>4. \E r \in Slots : \A s \in Slots : ScanFuture(kind, s)' <=> s = r
    <3> HIDE DEF asking
    <3> QED BY <2>1, <2>2, <2>3, ScanSpawns
  <2> QED BY <1>0, <2>1, <2>2, <2>4, ScanInFuture, ScanSame DEF kind
<1>3. CASE HandlePayablePaymentSetup
  <2>1. Receive("BlockchainAgentWithContextMessage") /\ UNCHANGED <<scanners, job>>
    BY <1>3 DEF HandlePayablePaymentSetup
  <2>2. AskingNonce(Head(mailbox).accounts) \in Futures
    BY <2>1, ReceivedTypes DEF AskingNonce, Futures
  <2>3. AskingNonce(Head(mailbox).accounts).stage \notin StagesOf(kind)
    BY <1>0 DEF AskingNonce
  <2>4. \A s \in Slots : ScanFuture(kind, s)' <=> ScanFuture(kind, s)
    BY <1>3, <2>2, <2>3, ScanSpawnOther DEF HandlePayablePaymentSetup
  <2>5. ~EndsScan(kind, Head(mailbox))
    BY <1>0, <2>1 DEF Receive, EndsPendingScan
  <2> QED BY <2>1, <2>4, <2>5, ScanSame, ScanReceiveOther DEF kind
<1>4. CASE HandleNewPendingPayableFingerprints
  <2>1. Receive("PendingPayableFingerprintSeeds") /\ UNCHANGED <<scanners, job, futures>>
    BY <1>4 DEF HandleNewPendingPayableFingerprints
  <2>2. ~EndsScan(kind, Head(mailbox))
    BY <1>0, <2>1 DEF Receive, EndsPendingScan
  <2> QED BY <2>1, <2>2, ScanSame, ScanReceiveOther DEF kind
<1>5. CASE HandleSentPayables
  <2>1. Receive("SentPayables") /\ job'.at = "mark" /\ UNCHANGED <<scanners, futures>>
    BY <1>5 DEF HandleSentPayables
  <2>2. ~EndsScan(kind, Head(mailbox)) /\ ~ScanJob(kind) /\ ~ScanJob(kind)'
    BY <1>0, <2>1 DEF Receive, Idle, NoJob, EndsPendingScan, ScanJob
  <2> QED BY <2>1, <2>2, ScanSame, ScanReceiveOther DEF kind
<1>6. CASE HandleScanError
  <2>1. /\ Receive("ScanError") /\ UNCHANGED <<job, futures>>
        /\ pendingScan' = (pendingScan /\ Head(mailbox).scan # "PendingPayables")
    BY <1>6 DEF HandleScanError, MarkAfterError
  <2>2. CASE Head(mailbox).scan # "PendingPayables"
    <3>1. ~EndsScan(kind, Head(mailbox))
      BY <1>0, <2>1, <2>2 DEF Receive, EndsPendingScan
    <3>2. MarkOf(kind)' <=> MarkOf(kind)
      BY <1>0, <2>1, <2>2 DEF TypeOK
    <3> QED BY <2>1, <3>1, <3>2, ScanSame, ScanReceiveOther DEF kind
  <2>3. CASE Head(mailbox).scan = "PendingPayables"
    <3>1. EndsScan(kind, Head(mailbox)) /\ ~MarkOf(kind)'
      BY <1>0, <2>1, <2>3 DEF Receive, EndsPendingScan
    <3>2. /\ ~ScanJob(kind)
          /\ \A s \in Slots : ~ScanFuture(kind, s)
          /\ \A i \in Nat : ~ScanMessage(kind, i)'
      BY <2>1, <3>1, ScanReceiveCarrier DEF kind
    <3> QED BY <2>1, <3>1, <3>2, ScanSame, ScanNone DEF kind
  <2> QED BY <2>2, <2>3
<1>7. CASE HandleReportTransactionReceipts
  <2>1. /\ Receive("ReportTransactionReceipts") /\ UNCHANGED <<scanners, futures>>
        /\ job'.at = "confirm"
    BY <1>7 DEF HandleReportTransactionReceipts
  <2>2. EndsScan(kind, Head(mailbox)) /\ ScanJob(kind)'
    BY <1>0, <2>1 DEF Receive, EndsPendingScan, ScanJob
  <2>3. /\ MarkOf(kind)
        /\ \A s \in Slots : ~ScanFuture(kind, s)
        /\ \A i \in Nat : ~ScanMessage(kind, i)'
    BY <2>1, <2>2, ScanReceiveCarrier DEF kind
  <2> QED BY <2>1, <2>2, <2>3, ScanSame, ScanInJob DEF kind
<1> QED BY <1>1, <1>2, <1>3, <1>4, <1>5, <1>6, <1>7 DEF HandleMessage
\* The statements of a handler in progress keep the invariant of the
\* pending-payable scan.
LEMMA PendingJobs ==
    ASSUME TypeOK, ScanInv("PendingPayables"), ContinueJob
    PROVE  ScanInv("PendingPayables")'
<1> DEFINE kind == "PendingPayables"
<1>0. JobsOf(kind) = {"confirm", "fail", "attempt"} /\ MarkOf(kind)' = pendingScan'
      /\ MarkOf(kind) = pendingScan
  BY DEF JobsOf, MarkOf
<1> HIDE DEF kind
<1>1. CASE \E how : GoDown(how)
  BY <1>1, ScanGoDown
<1>2. CASE \E j : GoOn(j) /\ (j.at \in {"confirm", "fail", "attempt"} <=> ScanJob(kind))
  <2>1. (ScanJob(kind)' <=> ScanJob(kind)) /\ UNCHANGED <<scanners, mailbox, futures>>
    BY <1>0, <1>2 DEF GoOn, ScanJob, scanners
  <2> QED BY <2>1, ScanSame, ScanUntouched DEF kind
<1>3. CASE MarkPendingPayable
  <2>1. ~ScanJob(kind)
    BY <1>0, <1>3 DEF MarkPendingPayable, ScanJob
  <2>2. [job EXCEPT !.at = "discard"].at = "discard"
    BY <1>3, CarriedTypes DEF MarkPendingPayable
  <2>3. \/ GoOn([job EXCEPT !.at = "discard"])
        \/ \E how : GoDown(how)
    BY <1>3 DEF MarkPendingPayable
  <2> QED BY <1>1, <1>2, <2>1, <2>2, <2>3
<1>4. CASE DiscardFailedTransactions
  <2>1. CASE /\ job' = NoJob
             /\ UNCHANGED <<pendingScan, mailbox, futures, node>>
    <3>1. ~ScanJob(kind) /\ ~ScanJob(kind)'
      BY <1>0, <1>4, <2>1 DEF DiscardFailedTransactions, ScanJob, NoJob
    <3> QED BY <1>0, <2>1, <3>1, ScanSame, ScanUntouched DEF kind
  <2> QED BY <1>1, <1>4, <2>1 DEF DiscardFailedTransactions
<1>5. CASE TransactionConfirmed
  <2>1. ScanJob(kind) /\ job.at = "confirm"
    BY <1>0, <1>5 DEF TransactionConfirmed, ScanJob
  <2>2. \A fp : [job EXCEPT !.confirmed = @ \ {fp}, !.settled = @ \cup {fp}].at = "confirm"
    BY <2>1, CarriedTypes
  <2>3. \/ \E fp \in job.confirmed :
               GoOn([job EXCEPT !.confirmed = @ \ {fp}, !.settled = @ \cup {fp}])
        \/ \E how : GoDown(how)
    BY <1>5 DEF TransactionConfirmed
  <2> QED BY <1>1, <1>2, <2>1, <2>2, <2>3
<1>6. CASE DeleteConfirmed
  <2>1. ScanJob(kind) /\ [job EXCEPT !.at = "fail"].at = "fail"
    BY <1>0, <1>6, CarriedTypes DEF DeleteConfirmed, ScanJob
  <2> QED BY <1>1, <1>2, <1>6, <2>1 DEF DeleteConfirmed
<1>7. CASE CancelFailedTransactions
  <2>1. ScanJob(kind) /\ [job EXCEPT !.at = "attempt"].at = "attempt"
    BY <1>0, <1>7, CarriedTypes DEF CancelFailedTransactions, ScanJob
  <2> QED BY <1>1, <1>2, <1>7, <2>1 DEF CancelFailedTransactions
<1>8. CASE UpdateRemainingFingerprints
  <2>1. CASE /\ job' = NoJob
             /\ pendingScan' = FALSE
             /\ UNCHANGED <<payableScan, mailbox, futures, node>>
    <3>1. ScanJob(kind) /\ ~ScanJob(kind)' /\ ~MarkOf(kind)'
      BY <1>0, <1>8, <2>1 DEF UpdateRemainingFingerprints, ScanJob, NoJob
    <3>2. (\A s \in Slots : ~ScanFuture(kind, s)) /\ \A i \in Nat : ~ScanMessage(kind, i)
      BY <3>1 DEF ScanInv, kind
    <3> QED BY <2>1, <3>1, <3>2, ScanSame, ScanNone DEF kind
  <2> QED BY <1>1, <1>8, <2>1 DEF UpdateRemainingFingerprints
<1> QED BY <1>3, <1>4, <1>5, <1>6, <1>7, <1>8 DEF ContinueJob

\* What the futures of the bridge send, in all their endings.
LEMMA SentTypes ==
    /\ \A accounts \in Seq(PayableAccounts) : AgentWithContext(accounts) \in Messages
    /\ \A hashes \in Seq(Hashes) : Seeds(hashes) \in Messages
    /\ \A oks, errs \in SUBSET Hashes : SentPayables(oks, errs) \in Messages
    /\ \A scan \in ScanTypes : ScanError(scan) \in Messages
    /\ \A ok, failed, still \in SUBSET Fingerprints :
          ReportTransactionReceipts(ok, failed, still) \in Messages
<1>1. \A accounts \in Seq(PayableAccounts) : AgentWithContext(accounts) \in Messages
  BY DEF AgentWithContext, Messages
<1>2. \A hashes \in Seq(Hashes) : Seeds(hashes) \in Messages
  BY DEF Seeds, Messages
<1>3. \A oks, errs \in SUBSET Hashes : SentPayables(oks, errs) \in Messages
  BY DEF SentPayables, Messages
<1>4. \A scan \in ScanTypes : ScanError(scan) \in Messages
  BY DEF ScanError, Messages
<1>5. \A ok, failed, still \in SUBSET Fingerprints :
         ReportTransactionReceipts(ok, failed, still) \in Messages
  BY DEF ReportTransactionReceipts, Messages
<1> QED BY <1>1, <1>2, <1>3, <1>4, <1>5

\* A step of a future that is about payables: what it may become and what it sends.
LEMMA PayableFutureStep ==
    ASSUME TypeOK, NEW s \in Slots,
           BuildBlockchainAgent(s) \/ NonceQueryFails(s) \/ BatchAnswered(s) \/ SubmitBatchFails(s)
    PROVE  /\ futures[s].stage \in {"agent", "nonce", "submit", "taken"}
           /\ futures' = [futures EXCEPT ![s] = NoFuture]
           /\ UNCHANGED <<scanners, job>>
           /\ \E messages \in Seq(Messages) :
                /\ Complete(s, messages)
                /\ \A k \in 1 .. Len(messages) : ~EndsPendingScan(messages[k])
<1>1. /\ \A accounts : ~EndsPendingScan(AgentWithContext(accounts))
      /\ \A oks, errs : ~EndsPendingScan(SentPayables(oks, errs))
      /\ ~EndsPendingScan(ScanError("Payables"))
  BY DEF AgentWithContext, SentPayables, ScanError, EndsPendingScan
<1>2. "Payables" \in ScanTypes /\ {} \in SUBSET Hashes
  BY DEF ScanTypes
<1> DEFINE Good(m) == m \in Messages /\ ~EndsPendingScan(m)
<1>3. \A m : Good(m) => /\ <<m>> \in Seq(Messages)
                        /\ \A k \in 1 .. Len(<<m>>) : ~EndsPendingScan(<<m>>[k])
  OBVIOUS
<1>4. \A m, n : Good(m) /\ Good(n) => /\ <<m, n>> \in Seq(Messages)
                                      /\ \A k \in 1 .. Len(<<m, n>>) : ~EndsPendingScan(<<m, n>>[k])
  OBVIOUS
<1>5. Good(ScanError("Payables"))
  BY <1>1, <1>2, SentTypes
<1>6. \A oks, errs \in SUBSET Hashes : Good(SentPayables(oks, errs))
  BY <1>1, SentTypes
<1>7. \A accounts \in Seq(PayableAccounts) : Good(AgentWithContext(accounts))
  BY <1>1, SentTypes
<1> HIDE DEF Good
<1> DEFINE Sent == \E messages \in Seq(Messages) :
                      /\ Complete(s, messages)
                      /\ \A k \in 1 .. Len(messages) : ~EndsPendingScan(messages[k])
<1>8. CASE BuildBlockchainAgent(s)
  <2>1. futures[s].accounts \in Seq(PayableAccounts) /\ futures[s].stage = "agent"
    BY <1>8, CarriedTypes DEF BuildBlockchainAgent
  <2>2. Sent
    BY <1>3, <1>5, <1>7, <1>8, <2>1 DEF BuildBlockchainAgent
  <2> QED BY <2>1, <2>2 DEF Complete
<1>9. CASE NonceQueryFails(s)
  <2>1. Sent /\ futures[s].stage = "nonce"
    BY <1>2, <1>4, <1>5, <1>6, <1>9 DEF NonceQueryFails
  <2> QED BY <2>1 DEF Complete
<1>10. CASE BatchAnswered(s)
  <2>1. futures[s].taken \in SUBSET Hashes
        /\ Refused(futures[s].batch, futures[s].taken) \in SUBSET Hashes
    BY <1>10, CarriedTypes, RangeType DEF BatchAnswered, Refused
  <2>2. Sent /\ futures[s].stage = "taken"
    BY <1>3, <1>6, <1>10, <2>1 DEF BatchAnswered
  <2> QED BY <2>2 DEF Complete
<1>11. CASE SubmitBatchFails(s)
  <2>1. Range(futures[s].batch) \in SUBSET Hashes /\ futures[s].stage \in {"submit", "taken"}
    BY <1>11, CarriedTypes, RangeType DEF SubmitBatchFails
  <2>2. Sent
    BY <1>2, <1>4, <1>5, <1>6, <1>11, <2>1 DEF SubmitBatchFails
  <2> QED BY <2>1, <2>2 DEF Complete
<1> QED BY <1>8, <1>9, <1>10, <1>11

\* The signed batch goes out: announced by its seeds, carried by the future.
LEMMA SignStep ==
    ASSUME TypeOK, NEW s \in Slots, SignAndSubmit(s)
    PROVE  /\ futures[s].stage = "nonce"
           /\ futures[s].accounts \in Seq(PayableAccounts)
           /\ UNCHANGED <<scanners, job, database, node, restarts, charged, scene, external>>
           /\ \E nonce \in Nat :
                /\ IsPendingNonce(nonce)
                /\ SignedBatch(futures[s].accounts, nonce) \in Seq(Hashes)
                /\ <<Seeds(SignedBatch(futures[s].accounts, nonce))>> \in Seq(Messages)
                /\ Send(<<Seeds(SignedBatch(futures[s].accounts, nonce))>>)
                /\ Submitting(SignedBatch(futures[s].accounts, nonce)) \in Futures
                /\ futures' = [futures EXCEPT ![s] = Submitting(SignedBatch(futures[s].accounts, nonce))]
<1>1. futures[s].accounts \in Seq(PayableAccounts) /\ futures[s].stage = "nonce"
  BY CarriedTypes DEF SignAndSubmit
<1>2. 0 .. scene.nonces - Len(futures[s].accounts) \subseteq Nat
  OBVIOUS
<1>3. PICK nonce \in Nat :
        /\ IsPendingNonce(nonce)
        /\ Send(<<Seeds(SignedBatch(futures[s].accounts, nonce))>>)
        /\ futures' = [futures EXCEPT ![s] = Submitting(SignedBatch(futures[s].accounts, nonce))]
  BY <1>2 DEF SignAndSubmit
<1> DEFINE batch == SignedBatch(futures[s].accounts, nonce)
<1>4. batch \in Seq(Hashes)
  BY <1>1, SignedBatchType
<1> HIDE DEF batch
<1>5. Submitting(batch) \in Futures /\ <<Seeds(batch)>> \in Seq(Messages)
  BY <1>4 DEF Submitting, Futures, Seeds, Messages
<1> QED BY <1>1, <1>3, <1>4, <1>5 DEF batch, SignAndSubmit

\* The continuations of the futures keep the invariant of the pending-payable scan.
LEMMA PendingFutures ==
    ASSUME TypeOK, ScanInv("PendingPayables"), NEW s \in Slots, Continue(s)
    PROVE  ScanInv("PendingPayables")'
<1> DEFINE kind == "PendingPayables"
<1>0. /\ StagesOf(kind) = {"receipts"}
      /\ \A m : EndsScan(kind, m) <=> EndsPendingScan(m)
  BY DEF StagesOf, EndsScan
<1> HIDE DEF kind
<1>1. CASE BuildBlockchainAgent(s) \/ NonceQueryFails(s) \/ BatchAnswered(s) \/ SubmitBatchFails(s)
  <2>1. NoFuture \in Futures /\ NoFuture.stage \notin StagesOf(kind)
    BY <1>0 DEF Futures, NoFuture
  <2>2. /\ ~ScanFuture(kind, s)
        /\ futures' = [futures EXCEPT ![s] = NoFuture]
        /\ UNCHANGED <<scanners, job>>
    BY <1>0, <1>1, PayableFutureStep DEF ScanFuture
  <2>3. PICK messages \in Seq(Messages) :
           /\ Complete(s, messages)
           /\ \A k \in 1 .. Len(messages) : ~EndsPendingScan(messages[k])
    BY <1>1, PayableFutureStep
  <2>4. Send(messages) /\ \A k \in 1 .. Len(messages) : ~EndsScan(kind, messages[k])
    BY <1>0, <2>3 DEF Complete
  <2> QED BY <2>1, <2>2, <2>4, ScanOtherFuture DEF kind
<1>2. CASE SignAndSubmit(s)
  <2>1. /\ ~ScanFuture(kind, s)
        /\ UNCHANGED <<scanners, job>>
    BY <1>0, <1>2, SignStep DEF ScanFuture
  <2>2. PICK batch :
          /\ <<Seeds(batch)>> \in Seq(Messages)
          /\ Send(<<Seeds(batch)>>)
          /\ Submitting(batch) \in Futures
          /\ futures' = [futures EXCEPT ![s] = Submitting(batch)]
    BY <1>2, SignStep
  <2>3. /\ Submitting(batch).stage \notin StagesOf(kind)
        /\ \A k \in 1 .. Len(<<Seeds(batch)>>) : ~EndsScan(kind, <<Seeds(batch)>>[k])
    BY <1>0 DEF Submitting, Seeds, EndsPendingScan
  <2> QED BY <2>1, <2>2, <2>3, ScanOtherFuture DEF kind
<1>3. CASE ChainTakesBatch(s)
  <2>1. \E taken : futures' = [futures EXCEPT ![s] = Submitted(futures[s].batch, taken)]
    BY <1>3 DEF ChainTakesBatch
  <2>2. /\ futures[s].stage = "submit"
        /\ UNCHANGED <<scanners, job, mailbox>>
    BY <1>3 DEF ChainTakesBatch
  <2>3. \A r \in Slots : ScanFuture(kind, r)' <=> ScanFuture(kind, r)
    BY <1>0, <2>1, <2>2 DEF ScanFuture, TypeOK, Submitted
  <2> QED BY <2>2, <2>3, ScanSame, ScanUntouched DEF kind
<1>4. CASE ProcessTransactionReceipts(s)
  <2>1. ScanFuture(kind, s)
    BY <1>0, <1>4 DEF ProcessTransactionReceipts, ScanFuture
  <2>2. /\ \A ok, failed, still : EndsScan(kind, ReportTransactionReceipts(ok, failed, still))
        /\ EndsScan(kind, ScanError("PendingPayables"))
    BY <1>0 DEF EndsPendingScan, ReportTransactionReceipts, ScanError
  <2>3. \/ \E ok, failed, still : Complete(s, <<ReportTransactionReceipts(ok, failed, still)>>)
        \/ Complete(s, <<ScanError("PendingPayables")>>)
    BY <1>4 DEF ProcessTransactionReceipts
  <2> QED BY <2>1, <2>2, <2>3, ScanSends DEF kind
<1> QED BY <1>1, <1>2, <1>3, <1>4 DEF Continue
\* The pending-payable scan is alone, whatever goes wrong.
LEMMA PendingScanInvariant == Spec => [](TypeOK /\ ScanInv("PendingPayables"))
<1> DEFINE kind == "PendingPayables"
<1>1. Init => ScanInv(kind)
  BY DEF Init, ScanInv, ScanJob, ScanFuture, ScanMessage, NoJob, NoFuture, MarkOf, JobsOf, StagesOf
<1>2. TypeOK /\ ScanInv(kind) /\ [Next]_vars => ScanInv(kind)'
  <2> SUFFICES ASSUME TypeOK, ScanInv(kind), [Next]_vars PROVE ScanInv(kind)'
    OBVIOUS
  <2>1. CASE UNCHANGED <<scanners, job, mailbox, futures>>
    BY <2>1, ScanSame, ScanUntouched
  <2>2. CASE ScanForPayables \/ ScanForPendingPayables \/ HandleMessage
    BY <2>2, PendingHandlers
  <2>3. CASE ContinueJob
    BY <2>3, PendingJobs
  <2>4. CASE \E s \in Slots : Continue(s)
    BY <2>4, PendingFutures
  <2>5. CASE Crash
    BY <2>5, ScanGoDown DEF Crash
  <2> QED BY <2>1, <2>2, <2>3, <2>4, <2>5
          DEF Next, RecordServiceConsumed, Mature, Mine, Restart, vars, scanners
<1> QED BY <1>1, <1>2, TypeCorrect, PTL DEF Spec

\* The circumstances of a behaviour never change.
LEMMA SceneFixed ==
    ASSUME [Next]_vars
    PROVE  scene' = scene
<1>1. CASE HandleMessage
  BY <1>1 DEF HandleMessage, HandlePayablePaymentSetup, HandleNewPendingPayableFingerprints,
     HandleSentPayables, HandleScanError, HandleReportTransactionReceipts
<1>2. CASE ContinueJob
  BY <1>2 DEF ContinueJob, MarkPendingPayable, DiscardFailedTransactions, TransactionConfirmed,
     DeleteConfirmed, CancelFailedTransactions, UpdateRemainingFingerprints
<1>3. CASE \E s \in Slots : Continue(s)
  BY <1>3 DEF Continue, BuildBlockchainAgent, SignAndSubmit, NonceQueryFails, ChainTakesBatch,
     BatchAnswered, SubmitBatchFails, ProcessTransactionReceipts, Complete
<1> QED BY <1>1, <1>2, <1>3
        DEF Next, RecordServiceConsumed, Mature, ScanForPayables, ScanForPendingPayables, Mine,
        Crash, Restart, vars

\* The handlers of the Accountant keep the invariant of the payable scan.
LEMMA PayableHandlers ==
    ASSUME TypeOK, ScanInv("Payables"),
           ScanForPayables \/ ScanForPendingPayables \/ HandleMessage
    PROVE  ScanInv("Payables")'
<1> DEFINE kind == "Payables"
<1>0. /\ StagesOf(kind) = {"agent", "nonce", "submit", "taken"}
      /\ JobsOf(kind) = {"mark", "discard"}
      /\ MarkOf(kind) = payableScan
      /\ MarkOf(kind)' = payableScan'
      /\ \A m : EndsScan(kind, m) <=> EndsPayableScan(m)
  BY DEF StagesOf, JobsOf, MarkOf, EndsScan
<1> HIDE DEF kind
<1>1. CASE ScanForPayables
  <2>1. CASE /\ payableScan' = TRUE
             /\ \E list \in Listings(QualifiedPayables) :
                   Spawn(BuildingAgent(PayableAccountsOf(list)))
             /\ UNCHANGED <<pendingScan, job, mailbox, node>>
    <3>1. PICK list \in Listings(QualifiedPayables) : Spawn(BuildingAgent(PayableAccountsOf(list)))
      BY <2>1
    <3>2. BuildingAgent(PayableAccountsOf(list)) \in Futures
      BY QualifiedType DEF BuildingAgent, Futures
    <3>3. BuildingAgent(PayableAccountsOf(list)).stage \in StagesOf(kind)
      BY <1>0 DEF BuildingAgent
    <3>4. ~payableScan
      BY <1>1 DEF ScanForPayables, MayBegin
    <3>5. /\ ~ScanJob(kind)
          /\ \A s \in Slots : ~ScanFuture(kind, s)
          /\ \A i \in Nat : ~ScanMessage(kind, i)
      BY <1>0, <3>4 DEF ScanInv, kind
    <3>6. \E r \in Slots : \A s \in Slots : ScanFuture(kind, s)' <=> s = r
      BY <3>1, <3>2, <3>3, <3>5, ScanSpawns
    <3> QED BY <1>0, <2>1, <3>5, <3>6, ScanInFuture, ScanSame DEF kind
  <2>2. CASE GoDown("negative balance")
    BY <2>2, ScanGoDown
  <2> QED BY <1>1, <2>1, <2>2 DEF ScanForPayables
<1>2. CASE ScanForPendingPayables
  <2> DEFINE asking == AskingReceipts({fp \in fingerprints : fp.process_error = "null"})
  <2>1. UNCHANGED <<payableScan, job, mailbox>> /\ Spawn(asking)
    BY <1>2 DEF ScanForPendingPayables
  <2>2. asking \in Futures /\ asking.stage \notin StagesOf(kind)
    BY <1>0 DEF AskingReceipts, Futures, TypeOK
  <2> HIDE DEF asking
  <2>3. \A s \in Slots : ScanFuture(kind, s)' <=> ScanFuture(kind, s)
    BY <2>1, <2>2, ScanSpawnOther
  <2> QED BY <1>0, <2>1, <2>3, ScanUntouched, ScanSame DEF kind
<1>3. CASE HandlePayablePaymentSetup
  <2>1. Receive("BlockchainAgentWithContextMessage") /\ UNCHANGED <<scanners, job>>
    BY <1>3 DEF HandlePayablePaymentSetup
  <2> DEFINE asking == AskingNonce(Head(mailbox).accounts)
  <2>2. asking \in Futures /\ Spawn(asking)
    BY <1>3, <2>1, ReceivedTypes DEF AskingNonce, Futures, HandlePayablePaymentSetup
  <2>3. asking.stage \in StagesOf(kind)
    BY <1>0 DEF AskingNonce
  <2> HIDE DEF asking
  <2>4. EndsScan(kind, Head(mailbox))
    BY <1>0, <2>1 DEF Receive, EndsPayableScan
  <2>5. /\ MarkOf(kind)
        /\ ~ScanJob(kind)
        /\ \A s \in Slots : ~ScanFuture(kind, s)
        /\ \A i \in Nat : ~ScanMessage(kind, i)'
    BY <2>1, <2>4, ScanReceiveCarrier DEF kind
  <2>6. \E r \in Slots : \A s \in Slots : ScanFuture(kind, s)' <=> s = r
    BY <2>2, <2>3, <2>5, ScanSpawns
  <2> QED BY <2>1, <2>5, <2>6, ScanSame, ScanInFuture DEF kind
<1>4. CASE HandleNewPendingPayableFingerprints
  <2>1. Receive("PendingPayableFingerprintSeeds") /\ UNCHANGED <<scanners, job, futures>>
    BY <1>4 DEF HandleNewPendingPayableFingerprints
  <2>2. ~EndsScan(kind, Head(mailbox))
    BY <1>0, <2>1 DEF Receive, EndsPayableScan
  <2> QED BY <2>1, <2>2, ScanSame, ScanReceiveOther DEF kind
<1>5. CASE HandleSentPayables
  <2>1. Receive("SentPayables") /\ job'.at = "mark" /\ UNCHANGED <<scanners, futures>>
    BY <1>5 DEF HandleSentPayables
  <2>2. EndsScan(kind, Head(mailbox)) /\ ScanJob(kind)'
    BY <1>0, <2>1 DEF Receive, EndsPayableScan, ScanJob
  <2>3. /\ MarkOf(kind)
        /\ \A s \in Slots : ~ScanFuture(kind, s)
        /\ \A i \in Nat : ~ScanMessage(kind, i)'
    BY <2>1, <2>2, ScanReceiveCarrier DEF kind
  <2> QED BY <2>1, <2>2, <2>3, ScanSame, ScanInJob DEF kind
<1>6. CASE HandleScanError
  <2>1. /\ Receive("ScanError") /\ UNCHANGED <<job, futures>>
        /\ payableScan' = (payableScan /\ Head(mailbox).scan # "Payables")
    BY <1>6 DEF HandleScanError, MarkAfterError
  <2>2. CASE Head(mailbox).scan # "Payables"
    <3>1. ~EndsScan(kind, Head(mailbox))
      BY <1>0, <2>1, <2>2 DEF Receive, EndsPayableScan
    <3>2. MarkOf(kind)' <=> MarkOf(kind)
      BY <1>0, <2>1, <2>2 DEF TypeOK
    <3> QED BY <2>1, <3>1, <3>2, ScanSame, ScanReceiveOther DEF kind
  <2>3. CASE Head(mailbox).scan = "Payables"
    <3>1. EndsScan(kind, Head(mailbox)) /\ ~MarkOf(kind)'
      BY <1>0, <2>1, <2>3 DEF Receive, EndsPayableScan
    <3>2. /\ ~ScanJob(kind)
          /\ \A s \in Slots : ~ScanFuture(kind, s)
          /\ \A i \in Nat : ~ScanMessage(kind, i)'
      BY <2>1, <3>1, ScanReceiveCarrier DEF kind
    <3> QED BY <2>1, <3>1, <3>2, ScanSame, ScanNone DEF kind
  <2> QED BY <2>2, <2>3
<1>7. CASE HandleReportTransactionReceipts
  <2>1. /\ Receive("ReportTransactionReceipts") /\ UNCHANGED <<scanners, futures>>
        /\ job'.at = "confirm"
    BY <1>7 DEF HandleReportTransactionReceipts
  <2>2. ~EndsScan(kind, Head(mailbox)) /\ ~ScanJob(kind) /\ ~ScanJob(kind)'
    BY <1>0, <2>1 DEF Receive, Idle, NoJob, EndsPayableScan, ScanJob
  <2> QED BY <2>1, <2>2, ScanSame, ScanReceiveOther DEF kind
<1> QED BY <1>1, <1>2, <1>3, <1>4, <1>5, <1>6, <1>7 DEF HandleMessage

\* The statements of a handler in progress keep the invariant of the payable scan.
LEMMA PayableJobs ==
    ASSUME TypeOK, ScanInv("Payables"), ContinueJob
    PROVE  ScanInv("Payables")'
<1> DEFINE kind == "Payables"
<1>0. JobsOf(kind) = {"mark", "discard"} /\ MarkOf(kind)' = payableScan'
      /\ MarkOf(kind) = payableScan
  BY DEF JobsOf, MarkOf
<1> HIDE DEF kind
<1>1. CASE \E how : GoDown(how)
  BY <1>1, ScanGoDown
<1>2. CASE MarkPendingPayable
  <2>1. ScanJob(kind)
    BY <1>0, <1>2 DEF MarkPendingPayable, ScanJob
  <2>2. [job EXCEPT !.at = "discard"].at = "discard"
    BY <1>2, CarriedTypes DEF MarkPendingPayable
  <2>3. CASE GoOn([job EXCEPT !.at = "discard"])
    <3>1. ScanJob(kind)' /\ UNCHANGED <<scanners, mailbox, futures>>
      BY <1>0, <2>2, <2>3 DEF GoOn, ScanJob, scanners
    <3> QED BY <2>1, <3>1, ScanSame, ScanUntouched DEF kind
  <2> QED BY <1>1, <1>2, <2>3 DEF MarkPendingPayable
<1>3. CASE DiscardFailedTransactions
  <2>1. CASE /\ job' = NoJob
             /\ payableScan' = FALSE
             /\ UNCHANGED <<pendingScan, mailbox, futures, node>>
    <3>1. ScanJob(kind) /\ ~ScanJob(kind)' /\ ~MarkOf(kind)'
      BY <1>0, <1>3, <2>1 DEF DiscardFailedTransactions, ScanJob, NoJob
    <3>2. (\A s \in Slots : ~ScanFuture(kind, s)) /\ \A i \in Nat : ~ScanMessage(kind, i)
      BY <3>1 DEF ScanInv, kind
    <3> QED BY <2>1, <3>1, <3>2, ScanSame, ScanNone DEF kind
  <2> QED BY <1>1, <1>3, <2>1 DEF DiscardFailedTransactions
<1>4. ASSUME job.at \in {"confirm", "fail", "attempt"}, UNCHANGED <<payableScan, mailbox, futures>>,
             job'.at \in {"confirm", "fail", "attempt", "idle"}
      PROVE  ScanInv(kind)'
  <2>1. ~ScanJob(kind) /\ ~ScanJob(kind)' /\ (MarkOf(kind)' <=> MarkOf(kind))
    BY <1>0, <1>4 DEF ScanJob
  <2> QED BY <1>4, <2>1, ScanSame, ScanUntouched DEF kind
<1>5. CASE TransactionConfirmed
  <2>1. \A fp : [job EXCEPT !.confirmed = @ \ {fp}, !.settled = @ \cup {fp}].at = "confirm"
    BY <1>5, CarriedTypes DEF TransactionConfirmed
  <2>2. \/ \E fp \in job.confirmed :
               GoOn([job EXCEPT !.confirmed = @ \ {fp}, !.settled = @ \cup {fp}])
        \/ \E how : GoDown(how)
    BY <1>5 DEF TransactionConfirmed
  <2>3. CASE \E fp \in job.confirmed :
                GoOn([job EXCEPT !.confirmed = @ \ {fp}, !.settled = @ \cup {fp}])
    <3>1. job'.at = "confirm" /\ job.at = "confirm" /\ UNCHANGED <<payableScan, mailbox, futures>>
      BY <1>5, <2>1, <2>3 DEF GoOn, TransactionConfirmed
    <3> QED BY <1>4, <3>1 DEF kind
  <2> QED BY <1>1, <2>2, <2>3 DEF kind
<1>6. CASE DeleteConfirmed \/ CancelFailedTransactions
  <2>1. /\ job.at \in {"confirm", "fail"}
        /\ \A at : [job EXCEPT !.at = at].at = at
    BY <1>6, CarriedTypes DEF DeleteConfirmed, CancelFailedTransactions
  <2>2. CASE \E at \in {"fail", "attempt"} : GoOn([job EXCEPT !.at = at])
    BY <1>4, <2>1, <2>2 DEF GoOn, kind
  <2> QED BY <1>1, <1>6, <2>2 DEF DeleteConfirmed, CancelFailedTransactions
<1>7. CASE UpdateRemainingFingerprints
  <2>1. CASE /\ job' = NoJob
             /\ UNCHANGED <<payableScan, mailbox, futures, node>>
    BY <1>4, <1>7, <2>1 DEF UpdateRemainingFingerprints, NoJob, kind
  <2> QED BY <1>1, <1>7, <2>1 DEF UpdateRemainingFingerprints
<1> QED BY <1>2, <1>3, <1>5, <1>6, <1>7 DEF ContinueJob
\* The continuations of the futures keep the invariant of the payable scan as
\* long as submissions are answered.
LEMMA PayableFutures ==
    ASSUME TypeOK, PaymentsAnswered, ScanInv("Payables"), NEW s \in Slots, Continue(s)
    PROVE  ScanInv("Payables")'
<1> DEFINE kind == "Payables"
<1>0. /\ StagesOf(kind) = {"agent", "nonce", "submit", "taken"}
      /\ \A m : EndsScan(kind, m) <=> EndsPayableScan(m)
  BY DEF StagesOf, EndsScan
<1> HIDE DEF kind
<1>1. CASE BuildBlockchainAgent(s)
  <2>1. ScanFuture(kind, s)
    BY <1>0, <1>1 DEF BuildBlockchainAgent, ScanFuture
  <2>2. /\ \A accounts : EndsScan(kind, AgentWithContext(accounts))
        /\ EndsScan(kind, ScanError("Payables"))
    BY <1>0 DEF EndsPayableScan, AgentWithContext, ScanError
  <2> QED BY <1>1, <2>1, <2>2, ScanSends DEF kind, BuildBlockchainAgent
<1>2. CASE BatchAnswered(s)
  <2>1. ScanFuture(kind, s)
    BY <1>0, <1>2 DEF BatchAnswered, ScanFuture
  <2>2. \A oks, errs : EndsScan(kind, SentPayables(oks, errs))
    BY <1>0 DEF EndsPayableScan, SentPayables
  <2> QED BY <1>2, <2>1, <2>2, ScanSends DEF kind, BatchAnswered
<1>3. ~NonceQueryFails(s) /\ ~SubmitBatchFails(s)
  BY DEF NonceQueryFails, SubmitBatchFails, PaymentsAnswered
<1>4. CASE SignAndSubmit(s)
  <2>1. /\ ScanFuture(kind, s)
        /\ UNCHANGED <<scanners, job>>
    BY <1>0, <1>4, SignStep DEF ScanFuture
  <2>2. PICK batch :
          /\ <<Seeds(batch)>> \in Seq(Messages)
          /\ Send(<<Seeds(batch)>>)
          /\ Submitting(batch) \in Futures
          /\ futures' = [futures EXCEPT ![s] = Submitting(batch)]
    BY <1>4, SignStep
  <2>3. /\ Submitting(batch).stage \in StagesOf(kind)
        /\ \A k \in 1 .. Len(<<Seeds(batch)>>) : ~EndsScan(kind, <<Seeds(batch)>>[k])
    BY <1>0 DEF Submitting, Seeds, EndsPayableScan
  <2>4. \A i \in Nat : ScanMessage(kind, i)' <=> ScanMessage(kind, i)
    BY <2>2, <2>3, ScanSendOther
  <2> QED BY <2>1, <2>2, <2>3, <2>4, ScanFutureGoesOn DEF kind
<1>5. CASE ChainTakesBatch(s)
  <2>1. \E taken : futures' = [futures EXCEPT ![s] = Submitted(futures[s].batch, taken)]
    BY <1>5 DEF ChainTakesBatch
  <2>2. /\ futures[s].stage = "submit"
        /\ UNCHANGED <<scanners, job, mailbox>>
    BY <1>5 DEF ChainTakesBatch
  <2>3. \A r \in Slots : ScanFuture(kind, r)' <=> ScanFuture(kind, r)
    BY <1>0, <2>1, <2>2 DEF ScanFuture, TypeOK, Submitted
  <2> QED BY <2>2, <2>3, ScanSame, ScanUntouched DEF kind
<1>6. CASE ProcessTransactionReceipts(s)
  <2>1. ~ScanFuture(kind, s)
    BY <1>0, <1>6 DEF ProcessTransactionReceipts, ScanFuture
  <2>2. NoFuture \in Futures /\ NoFuture.stage \notin StagesOf(kind)
    BY <1>0 DEF NoFuture, Futures
  <2>3. futures[s].fps \subseteq Fingerprints
    BY <1>6, CarriedTypes DEF ProcessTransactionReceipts
  <2>4. \E m \in Messages : Complete(s, <<m>>) /\ ~EndsScan(kind, m)
    <3>1. /\ \A ok, failed, still : ~EndsScan(kind, ReportTransactionReceipts(ok, failed, still))
          /\ ~EndsScan(kind, ScanError("PendingPayables"))
      BY <1>0 DEF EndsPayableScan, ReportTransactionReceipts, ScanError
    <3>2. "PendingPayables" \in ScanTypes
      BY DEF ScanTypes
    <3>3. \/ \E ok, failed, still \in SUBSET Fingerprints :
                 Complete(s, <<ReportTransactionReceipts(ok, failed, still)>>)
          \/ Complete(s, <<ScanError("PendingPayables")>>)
      BY <1>6, <2>3 DEF ProcessTransactionReceipts
    <3> QED BY <3>1, <3>2, <3>3, SentTypes
  <2>5. PICK m \in Messages : Complete(s, <<m>>) /\ ~EndsScan(kind, m)
    BY <2>4
  <2>6. /\ <<m>> \in Seq(Messages)
        /\ Send(<<m>>)
        /\ \A k \in 1 .. Len(<<m>>) : ~EndsScan(kind, <<m>>[k])
        /\ futures' = [futures EXCEPT ![s] = NoFuture]
        /\ UNCHANGED <<scanners, job>>
    BY <2>5 DEF Complete
  <2> QED BY <2>1, <2>2, <2>6, ScanOtherFuture DEF kind
<1> QED BY <1>1, <1>2, <1>3, <1>4, <1>5, <1>6 DEF Continue

\* As long as no submission fails as a whole, the payable scan is alone too.
LEMMA PayableScanStep ==
    ASSUME TypeOK, PaymentsAnswered, ScanInv("Payables"), [Next]_vars
    PROVE  ScanInv("Payables")'
<1>1. CASE UNCHANGED <<scanners, job, mailbox, futures>>
  BY <1>1, ScanSame, ScanUntouched
<1>2. CASE ScanForPayables \/ ScanForPendingPayables \/ HandleMessage
  BY <1>2, PayableHandlers
<1>3. CASE ContinueJob
  BY <1>3, PayableJobs
<1>4. CASE \E s \in Slots : Continue(s)
  BY <1>4, PayableFutures
<1>5. CASE Crash
  BY <1>5, ScanGoDown DEF Crash
<1> QED BY <1>1, <1>2, <1>3, <1>4, <1>5
        DEF Next, RecordServiceConsumed, Mature, Mine, Restart, vars, scanners

\* So it is in every behaviour without such failures.
LEMMA PayableScanInvariant == Spec => [](PaymentsAnswered => ScanInv("Payables"))
<1> DEFINE kind == "Payables"
<1>1. Init => ScanInv(kind)
  BY DEF Init, ScanInv, ScanJob, ScanFuture, ScanMessage, NoJob, NoFuture, MarkOf, JobsOf, StagesOf
<1>2. TypeOK /\ (PaymentsAnswered => ScanInv(kind)) /\ [Next]_vars
         => (PaymentsAnswered => ScanInv(kind))'
  BY PayableScanStep, SceneFixed DEF PaymentsAnswered, Faults
<1> QED BY <1>1, <1>2, TypeCorrect, PTL DEF Spec

\* At most one scan of a kind is under way, and its scanner is marked as running
\* exactly then: of the pending-payable scan however many payable scans overlap,
\* whatever the service answers and whenever the Node is killed; of the payable
\* scan as long as no submission fails as a whole and is reported twice.
THEOREM OneScan == Spec => []OneScanOfAKind
<1>1. TypeOK /\ ScanInv("PendingPayables") /\ (PaymentsAnswered => ScanInv("Payables"))
         => OneScanOfAKind
  BY PendingInvImplies, PayableInvImplies DEF OneScanOfAKind
<1> QED BY <1>1, PendingScanInvariant, PayableScanInvariant, PTL
=============================================================================
