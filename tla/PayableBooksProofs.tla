------------------------- MODULE PayableBooksProofs -------------------------
(***************************************************************************)
(* What the payable cycle does to the books, for every set of wallets and  *)
(* futures and every bound: marks have fingerprints, and a confirmation    *)
(* credits its payee.  Each result names the faults it allows.             *)
(***************************************************************************)
EXTENDS PayableCycleProofs

-----------------------------------------------------------------------------
(* What a payable scan carries is not marked as pending                    *)

\* These accounts, or transactions, have one payee each, whose row is not marked
\* in r.
FreshAccounts(accounts, r) ==
    /\ \A i \in DOMAIN accounts : r[accounts[i].wallet] = 0
    /\ \A i, k \in DOMAIN accounts : accounts[i].wallet = accounts[k].wallet => i = k

FreshHashes(hashes, r) ==
    /\ \A h \in hashes : r[h.to] = 0
    /\ \A g, h \in hashes : g.to = h.to => g = h

FreshFuture(f, r) ==
    /\ f.stage \in {"agent", "nonce"} => FreshAccounts(f.accounts, r)
    /\ f.stage \in {"submit", "taken"} => FreshHashes(Range(f.batch), r)
    /\ f.stage = "taken" => f.taken \subseteq Range(f.batch)

FreshMessage(m, r) ==
    /\ m.type = "BlockchainAgentWithContextMessage" => FreshAccounts(m.accounts, r)
    /\ m.type = "SentPayables" => FreshHashes(m.oks \cup m.errs, r) /\ m.oks \cap m.errs = {}

FreshJob(j, r) ==
    /\ j.at = "mark" => FreshHashes(j.oks \cup j.errs, r) /\ j.oks \cap j.errs = {}
    /\ j.at = "discard" => \A h \in j.errs : r[h.to] = 0
    /\ j.at = "confirm" => \A fp \in j.settled : \A w \in Wallets : r[w] # fp.rowid

FreshInv ==
    /\ \A s \in Slots : FreshFuture(futures[s], rowid)
    /\ \A i \in 1 .. Len(mailbox) : FreshMessage(mailbox[i], rowid)
    /\ FreshJob(job, rowid)

\* The messages after one was taken out, or some were sent.
LEMMA MailAfterReceive ==
    ASSUME TypeOK, NEW type, Receive(type)
    PROVE  /\ 1 \in 1 .. Len(mailbox) /\ Head(mailbox) = mailbox[1]
           /\ \A i \in 1 .. Len(mailbox') : \E k \in 1 .. Len(mailbox) : mailbox'[i] = mailbox[k]
<1>1. mailbox \in Seq(Messages) /\ mailbox # <<>> /\ mailbox' = Tail(mailbox)
  BY DEF TypeOK, Receive
<1>2. /\ Head(mailbox) = mailbox[1]
      /\ Len(mailbox) \in Nat /\ Len(mailbox) > 0
      /\ Len(mailbox') = Len(mailbox) - 1
      /\ \A i \in 1 .. Len(mailbox) - 1 : mailbox'[i] = mailbox[i + 1]
  BY <1>1
<1> QED BY <1>2

LEMMA MailAfterSend ==
    ASSUME TypeOK, NEW m \in Messages, Send(<<m>>)
    PROVE  \A i \in 1 .. Len(mailbox') :
              mailbox'[i] = m \/ \E k \in 1 .. Len(mailbox) : mailbox'[i] = mailbox[k]
<1>1. mailbox \in Seq(Messages) /\ mailbox' = mailbox \o <<m>>
  BY DEF TypeOK, Send
<1>2. /\ Len(mailbox) \in Nat
      /\ Len(mailbox') = Len(mailbox) + 1
      /\ mailbox'[Len(mailbox) + 1] = m
      /\ \A i \in 1 .. Len(mailbox) : mailbox'[i] = mailbox[i]
  BY <1>1
<1> QED BY <1>2

\* The futures after one was spawned or has gone on.
LEMMA FuturesAfterSpawn ==
    ASSUME TypeOK, NEW f, Spawn(f)
    PROVE  \A s \in Slots : futures'[s] = futures[s] \/ futures'[s] = f
<1>1. PICK r \in Slots : futures' = [futures EXCEPT ![r] = f]
  BY Zenon DEF Spawn
<1> QED BY <1>1 DEF TypeOK

LEMMA FuturesAfterStep ==
    ASSUME TypeOK, NEW f, NEW r \in Slots, futures' = [futures EXCEPT ![r] = f]
    PROVE  /\ futures'[r] = f
           /\ \A s \in Slots : s # r => futures'[s] = futures[s]
           /\ \A s \in Slots : futures'[s] = futures[s] \/ futures'[s] = f
BY DEF TypeOK

\* Clearing marks keeps what is fresh fresh.
LEMMA FreshAccountsKept ==
    ASSUME NEW accounts \in Seq(PayableAccounts), NEW r, NEW q,
           \A w \in Wallets : q[w] = 0 \/ q[w] = r[w], FreshAccounts(accounts, r)
    PROVE  FreshAccounts(accounts, q)
<1>1. \A i \in DOMAIN accounts : accounts[i].wallet \in Wallets
  <2>1. \A i \in DOMAIN accounts : accounts[i] \in PayableAccounts
    OBVIOUS
  <2> QED BY <2>1 DEF PayableAccounts
<1>2. \A i \in DOMAIN accounts : q[accounts[i].wallet] = 0
  BY <1>1 DEF FreshAccounts
<1> QED BY <1>2 DEF FreshAccounts

LEMMA FreshHashesKept ==
    ASSUME NEW hashes \in SUBSET Hashes, NEW r, NEW q,
           \A w \in Wallets : q[w] = 0 \/ q[w] = r[w], FreshHashes(hashes, r)
    PROVE  FreshHashes(hashes, q)
<1>1. \A h \in hashes : h.to \in Wallets
  BY DEF Hashes
<1> QED BY <1>1 DEF FreshHashes

LEMMA FreshFutureKept ==
    ASSUME NEW f \in Futures, NEW r, NEW q,
           \A w \in Wallets : q[w] = 0 \/ q[w] = r[w], FreshFuture(f, r)
    PROVE  FreshFuture(f, q)
<1>1. CASE f.stage \in {"agent", "nonce"}
  <2>1. f.accounts \in Seq(PayableAccounts)
    BY <1>1 DEF Futures, NoFuture
  <2> QED BY SMTT(30), <1>1, <2>1, FreshAccountsKept DEF FreshFuture
<1>2. CASE f.stage \in {"submit", "taken"}
  <2>1. f.batch \in Seq(Hashes)
    BY <1>2 DEF Futures, NoFuture
  <2>2. Range(f.batch) \in SUBSET Hashes
    BY <2>1, RangeType
  <2> QED BY <1>2, <2>2, FreshHashesKept DEF FreshFuture
<1> QED BY <1>1, <1>2 DEF FreshFuture

LEMMA FreshMessageKept ==
    ASSUME NEW m \in Messages, NEW r, NEW q,
           \A w \in Wallets : q[w] = 0 \/ q[w] = r[w], FreshMessage(m, r)
    PROVE  FreshMessage(m, q)
<1>1. CASE m.type = "BlockchainAgentWithContextMessage"
  <2>1. m.accounts \in Seq(PayableAccounts)
    BY <1>1 DEF Messages
  <2> QED BY Zenon, <1>1, <2>1, FreshAccountsKept DEF FreshMessage
<1>2. CASE m.type = "SentPayables"
  <2>1. m.oks \cup m.errs \in SUBSET Hashes
    BY <1>2 DEF Messages
  <2> QED BY <1>2, <2>1, FreshHashesKept DEF FreshMessage
<1> QED BY <1>1, <1>2 DEF FreshMessage

\* The accounts a payable scan picks are fresh, and so is the batch signed for
\* fresh accounts.
LEMMA QualifiedFresh ==
    ASSUME TypeOK, NEW list \in Listings(QualifiedPayables)
    PROVE  FreshAccounts(PayableAccountsOf(list), rowid)
<1>1. Cardinality(QualifiedPayables) \in Nat
  BY CycleAssumption
  DEF QualifiedPayables, NonPendingPayables, CycleAssumption
<1>2. /\ list \in [1 .. Cardinality(QualifiedPayables) -> QualifiedPayables]
      /\ \A i, k \in DOMAIN list : list[i] = list[k] => i = k
  BY <1>1 DEF Listings, Bijection, Injection, IsInjective
<1>3. /\ DOMAIN PayableAccountsOf(list) = DOMAIN list
      /\ \A i \in DOMAIN list : PayableAccountsOf(list)[i].wallet = list[i]
  BY DEF PayableAccountsOf
<1>4. \A i \in DOMAIN list : rowid[list[i]] = 0
  BY <1>2 DEF QualifiedPayables, NonPendingPayables
<1> QED BY <1>2, <1>3, <1>4 DEF FreshAccounts

LEMMA SignedFresh ==
    ASSUME NEW accounts \in Seq(PayableAccounts), NEW nonce \in Nat, NEW r,
           FreshAccounts(accounts, r)
    PROVE  FreshHashes(Range(SignedBatch(accounts, nonce)), r)
<1> DEFINE batch == SignedBatch(accounts, nonce)
<1>1. /\ DOMAIN batch = DOMAIN accounts
      /\ \A i \in DOMAIN accounts : batch[i].to = accounts[i].wallet
  BY DEF SignedBatch
<1> HIDE DEF batch
<1>2. \A h \in Range(batch) : \E i \in DOMAIN accounts : h = batch[i]
  BY <1>1 DEF Range
<1>3. \A h \in Range(batch) : r[h.to] = 0
  BY <1>1, <1>2 DEF FreshAccounts
<1>4. \A g, h \in Range(batch) : g.to = h.to => g = h
  BY <1>1, <1>2 DEF FreshAccounts
<1>5. FreshHashes(Range(batch), r)
  BY <1>3, <1>4 DEF FreshHashes
<1> QED BY <1>5 DEF batch

\* As long as no row is marked, only what is new has to be fresh.
LEMMA FreshFrom ==
    ASSUME FreshInv, rowid' = rowid,
           \A s \in Slots : futures'[s] = futures[s] \/ FreshFuture(futures'[s], rowid),
           \A i \in 1 .. Len(mailbox') :
              (\E k \in 1 .. Len(mailbox) : mailbox'[i] = mailbox[k]) \/ FreshMessage(mailbox'[i], rowid),
           job' = job \/ FreshJob(job', rowid)
    PROVE  FreshInv'
<1>1. \A s \in Slots : FreshFuture(futures'[s], rowid')
  BY DEF FreshInv
<1>2. \A i \in 1 .. Len(mailbox') : FreshMessage(mailbox'[i], rowid')
  BY DEF FreshInv
<1>3. FreshJob(job', rowid')
  BY DEF FreshInv
<1> QED BY <1>1, <1>2, <1>3 DEF FreshInv

\* A Node that goes down carries nothing.
LEMMA FreshGoDown ==
    ASSUME NEW how, GoDown(how)
    PROVE  FreshInv'
<1>1. job' = NoJob /\ mailbox' = <<>> /\ futures' = [s \in Slots |-> NoFuture]
  BY DEF GoDown
<1>2. \A s \in Slots : FreshFuture(futures'[s], rowid')
  BY <1>1 DEF FreshFuture, NoFuture
<1>3. \A i \in 1 .. Len(mailbox') : FreshMessage(mailbox'[i], rowid')
  BY <1>1
<1>4. FreshJob(job', rowid')
  BY <1>1 DEF FreshJob, NoJob
<1> QED BY <1>2, <1>3, <1>4 DEF FreshInv

LEMMA FreshHandlers ==
    ASSUME TypeOK, FreshInv, ScanForPayables \/ ScanForPendingPayables \/ HandleMessage
    PROVE  FreshInv'
<1>1. CASE ScanForPayables
  <2>1. CASE GoDown("negative balance")
    BY Zenon, <2>1, FreshGoDown
  <2>2. CASE \E list \in Listings(QualifiedPayables) : Spawn(BuildingAgent(PayableAccountsOf(list)))
             /\ UNCHANGED <<job, mailbox>>
    <3>1. PICK list \in Listings(QualifiedPayables) : Spawn(BuildingAgent(PayableAccountsOf(list)))
      BY <2>2
    <3> DEFINE f == BuildingAgent(PayableAccountsOf(list))
    <3>2. FreshFuture(f, rowid)
      BY QualifiedFresh DEF BuildingAgent, FreshFuture
    <3> HIDE DEF f
    <3>3. \A s \in Slots : futures'[s] = futures[s] \/ FreshFuture(futures'[s], rowid)
      BY <3>1, <3>2, FuturesAfterSpawn DEF f
    <3>4. rowid' = rowid /\ \A i \in 1 .. Len(mailbox') : mailbox'[i] = mailbox[i] /\ i \in 1 .. Len(mailbox)
      BY Zenon, <1>1, <2>2 DEF ScanForPayables, database
    <3> QED BY <2>2, <3>3, <3>4, FreshFrom
  <2> QED BY Zenon, <1>1, <2>1, <2>2 DEF ScanForPayables
<1>2. CASE ScanForPendingPayables
  <2>1. PICK fps : Spawn(AskingReceipts(fps))
    BY <1>2 DEF ScanForPendingPayables
  <2>2. FreshFuture(AskingReceipts(fps), rowid)
    BY DEF AskingReceipts, FreshFuture
  <2>3. \A s \in Slots : futures'[s] = futures[s] \/ FreshFuture(futures'[s], rowid)
    BY <2>1, <2>2, FuturesAfterSpawn
  <2>4. UNCHANGED <<rowid, job, mailbox>>
    BY <1>2 DEF ScanForPendingPayables, database
  <2> QED BY <2>3, <2>4, FreshFrom
<1>3. CASE HandlePayablePaymentSetup
  <2>1. Receive("BlockchainAgentWithContextMessage") /\ UNCHANGED <<rowid, job>>
        /\ Spawn(AskingNonce(Head(mailbox).accounts))
    BY <1>3 DEF HandlePayablePaymentSetup, database
  <2>2. FreshMessage(Head(mailbox), rowid) /\ Head(mailbox).type = "BlockchainAgentWithContextMessage"
    BY <2>1, MailAfterReceive DEF FreshInv, Receive
  <2>3. FreshFuture(AskingNonce(Head(mailbox).accounts), rowid)
    BY <2>2 DEF AskingNonce, FreshFuture, FreshMessage
  <2>4. \A s \in Slots : futures'[s] = futures[s] \/ FreshFuture(futures'[s], rowid)
    BY <2>1, <2>3, FuturesAfterSpawn
  <2> QED BY <2>1, <2>4, MailAfterReceive, FreshFrom
<1>4. CASE HandleNewPendingPayableFingerprints
  <2>1. Receive("PendingPayableFingerprintSeeds") /\ UNCHANGED <<rowid, job, futures>>
    BY <1>4 DEF HandleNewPendingPayableFingerprints
  <2> QED BY <2>1, MailAfterReceive, FreshFrom
<1>5. CASE HandleSentPayables
  <2>1. Receive("SentPayables") /\ UNCHANGED <<rowid, futures>>
        /\ job' = [at |-> "mark", oks |-> Head(mailbox).oks, errs |-> Head(mailbox).errs]
    BY <1>5 DEF HandleSentPayables, database
  <2>2. FreshMessage(Head(mailbox), rowid) /\ Head(mailbox).type = "SentPayables"
    BY <2>1, MailAfterReceive DEF FreshInv, Receive
  <2>3. FreshJob(job', rowid)
    BY <2>1, <2>2 DEF FreshJob, FreshMessage
  <2> QED BY <2>1, <2>3, MailAfterReceive, FreshFrom
<1>6. CASE HandleScanError
  <2>1. Receive("ScanError") /\ UNCHANGED <<rowid, job, futures>>
    BY <1>6 DEF HandleScanError, database
  <2> QED BY <2>1, MailAfterReceive, FreshFrom
<1>7. CASE HandleReportTransactionReceipts
  <2>1. Receive("ReportTransactionReceipts") /\ UNCHANGED <<rowid, futures>>
        /\ job'.at = "confirm" /\ job'.settled = {}
    BY <1>7 DEF HandleReportTransactionReceipts, database
  <2>2. FreshJob(job', rowid)
    BY <2>1 DEF FreshJob
  <2> QED BY <2>1, <2>2, MailAfterReceive, FreshFrom
<1> QED BY SMTT(30), <1>1, <1>2, <1>3, <1>4, <1>5, <1>6, <1>7 DEF HandleMessage

LEMMA FreshFutures ==
    ASSUME TypeOK, PaymentsAnswered, FreshInv, NEW s \in Slots, Continue(s)
    PROVE  FreshInv'
<1>1. ASSUME NEW m \in Messages, Complete(s, <<m>>), FreshMessage(m, rowid) PROVE FreshInv'
  <2>1. Send(<<m>>) /\ UNCHANGED <<rowid, job>> /\ futures' = [futures EXCEPT ![s] = NoFuture]
    BY <1>1 DEF Complete, database
  <2>2. FreshFuture(NoFuture, rowid)
    BY DEF FreshFuture, NoFuture
  <2>3. \A r \in Slots : futures'[r] = futures[r] \/ FreshFuture(futures'[r], rowid)
    BY <2>1, <2>2, FuturesAfterStep
  <2>4. \A i \in 1 .. Len(mailbox') :
           (\E k \in 1 .. Len(mailbox) : mailbox'[i] = mailbox[k]) \/ FreshMessage(mailbox'[i], rowid)
    BY <1>1, <2>1, MailAfterSend
  <2> QED BY <2>1, <2>3, <2>4, FreshFrom
<1>2. FreshFuture(futures[s], rowid)
  BY DEF FreshInv
<1>3. CASE BuildBlockchainAgent(s)
  <2>1. /\ futures[s].stage = "agent" /\ futures[s].accounts \in Seq(PayableAccounts)
        /\ "Payables" \in ScanTypes
    BY SMTT(30), <1>3, CarriedTypes DEF BuildBlockchainAgent, ScanTypes
  <2>2. /\ AgentWithContext(futures[s].accounts) \in Messages
        /\ ScanError("Payables") \in Messages
    BY SMTT(30), <2>1, SentTypes
  <2>3. /\ FreshMessage(AgentWithContext(futures[s].accounts), rowid)
        /\ FreshMessage(ScanError("Payables"), rowid)
    BY <1>2, <2>1 DEF FreshMessage, AgentWithContext, ScanError, FreshFuture
  <2> QED BY SMTT(30), <1>1, <1>3, <2>2, <2>3 DEF BuildBlockchainAgent
<1>4. CASE BatchAnswered(s)
  <2> DEFINE oks == futures[s].taken
             errs == Refused(futures[s].batch, futures[s].taken)
  <2>1. /\ oks \in SUBSET Hashes /\ errs \in SUBSET Hashes
        /\ oks \cup errs = Range(futures[s].batch) /\ oks \cap errs = {}
        /\ FreshHashes(Range(futures[s].batch), rowid)
    <3>1. futures[s].stage = "taken"
      BY SMTT(30), <1>4 DEF BatchAnswered
    <3>2. /\ futures[s].taken \in SUBSET Hashes
          /\ Range(futures[s].batch) \in SUBSET Hashes
      BY SMTT(30), <3>1, CarriedTypes, RangeType
    <3>3. /\ futures[s].taken \subseteq Range(futures[s].batch)
          /\ FreshHashes(Range(futures[s].batch), rowid)
      BY <1>2, <3>1 DEF FreshFuture
    <3> QED BY <3>2, <3>3 DEF Refused
  <2>2. Complete(s, <<SentPayables(oks, errs)>>)
    BY <1>4 DEF BatchAnswered
  <2> HIDE DEF oks, errs
  <2>3. SentPayables(oks, errs) \in Messages
    BY <2>1, SentTypes
  <2>4. FreshMessage(SentPayables(oks, errs), rowid)
    BY <2>1 DEF FreshMessage, SentPayables
  <2> QED BY SMTT(30), <1>1, <2>2, <2>3, <2>4
<1>5. ~NonceQueryFails(s) /\ ~SubmitBatchFails(s)
  BY DEF NonceQueryFails, SubmitBatchFails, PaymentsAnswered
<1>6. CASE SignAndSubmit(s)
  <2>1. /\ UNCHANGED <<job, rowid>>
        /\ futures[s].stage = "nonce" /\ futures[s].accounts \in Seq(PayableAccounts)
    BY SMTT(30), <1>6, SignStep DEF database
  <2>2. PICK nonce \in Nat :
          /\ SignedBatch(futures[s].accounts, nonce) \in Seq(Hashes)
          /\ Send(<<Seeds(SignedBatch(futures[s].accounts, nonce))>>)
          /\ futures' = [futures EXCEPT ![s] = Submitting(SignedBatch(futures[s].accounts, nonce))]
    BY SMTT(30), <1>6, SignStep
  <2> DEFINE batch == SignedBatch(futures[s].accounts, nonce)
  <2>3. FreshHashes(Range(batch), rowid)
    <3>1. FreshAccounts(futures[s].accounts, rowid)
      BY <1>2, <2>1 DEF FreshFuture
    <3> QED BY <2>1, <3>1, SignedFresh
  <2>4. batch \in Seq(Hashes) /\ Send(<<Seeds(batch)>>)
        /\ futures' = [futures EXCEPT ![s] = Submitting(batch)]
    BY <2>2
  <2> HIDE DEF batch
  <2>5. FreshFuture(Submitting(batch), rowid) /\ FreshMessage(Seeds(batch), rowid)
    BY <2>3 DEF FreshFuture, Submitting, FreshMessage, Seeds
  <2>6. \A r \in Slots : futures'[r] = futures[r] \/ FreshFuture(futures'[r], rowid)
    BY <2>4, <2>5, FuturesAfterStep
  <2>7. Seeds(batch) \in Messages
    BY SMTT(30), <2>4, SentTypes
  <2>8. \A i \in 1 .. Len(mailbox') :
           (\E k \in 1 .. Len(mailbox) : mailbox'[i] = mailbox[k]) \/ FreshMessage(mailbox'[i], rowid)
    BY SMTT(30), <2>4, <2>5, <2>7, MailAfterSend
  <2> QED BY SMTT(30), <2>1, <2>6, <2>8, FreshFrom
<1>7. CASE ChainTakesBatch(s)
  <2>1. /\ futures[s].stage = "submit" /\ UNCHANGED <<job, rowid, mailbox>>
        /\ \E taken : /\ taken \subseteq Range(futures[s].batch)
                      /\ futures' = [futures EXCEPT ![s] = Submitted(futures[s].batch, taken)]
    BY Zenon, <1>7 DEF ChainTakesBatch, Acceptable, database
  <2>2. PICK taken : /\ taken \subseteq Range(futures[s].batch)
                     /\ futures' = [futures EXCEPT ![s] = Submitted(futures[s].batch, taken)]
    BY Zenon, <2>1
  <2>3. FreshFuture(Submitted(futures[s].batch, taken), rowid)
    BY <1>2, <2>1, <2>2 DEF FreshFuture, Submitted
  <2>4. \A r \in Slots : futures'[r] = futures[r] \/ FreshFuture(futures'[r], rowid)
    BY SMTT(30), <2>2, <2>3, FuturesAfterStep
  <2> QED BY SMTT(30), <2>1, <2>4, FreshFrom
<1>8. CASE ProcessTransactionReceipts(s)
  <2>1. futures[s].fps \subseteq Fingerprints /\ "PendingPayables" \in ScanTypes
    BY <1>8, CarriedTypes DEF ProcessTransactionReceipts, ScanTypes
  <2>2. \/ \E ok, failed, still \in SUBSET Fingerprints :
               Complete(s, <<ReportTransactionReceipts(ok, failed, still)>>)
        \/ Complete(s, <<ScanError("PendingPayables")>>)
    BY Zenon, <1>8, <2>1 DEF ProcessTransactionReceipts
  <2>3. /\ \A ok, failed, still : FreshMessage(ReportTransactionReceipts(ok, failed, still), rowid)
        /\ FreshMessage(ScanError("PendingPayables"), rowid)
    BY DEF FreshMessage, ReportTransactionReceipts, ScanError
  <2> QED BY Zenon, <1>1, <2>1, <2>2, <2>3, SentTypes
<1> QED BY SMTT(30), <1>3, <1>4, <1>5, <1>6, <1>7, <1>8 DEF Continue
LEMMA FreshJobs ==
    ASSUME TypeOK, ScanInv("Payables"), FreshInv, ContinueJob
    PROVE  FreshInv'
<1>1. CASE \E how : GoDown(how)
  BY <1>1, FreshGoDown
<1>2. ASSUME UNCHANGED <<rowid, mailbox, futures>>, job'.at \notin {"mark", "discard", "confirm"}
      PROVE  FreshInv'
  <2>1. FreshJob(job', rowid)
    BY <1>2 DEF FreshJob
  <2> QED BY <1>2, <2>1, FreshFrom
<1>3. CASE MarkPendingPayable
  <2> DEFINE marked == {fp \in {f \in fingerprints : f.hash \in job.oks} : rowid[fp.hash.to] = 0}
  <2>1. CASE GoOn([job EXCEPT !.at = "discard"])
    <3>1. /\ UNCHANGED <<mailbox, futures>>
          /\ job'.at = "discard" /\ job'.errs = job.errs
          /\ job.oks \in SUBSET Hashes /\ job.errs \in SUBSET Hashes
      BY Zenon, <1>3, <2>1, CarriedTypes DEF GoOn, MarkPendingPayable
    <3>2. rowid' = [w \in Wallets |-> IF \E fp \in marked : fp.hash.to = w
                                      THEN (CHOOSE fp \in marked : fp.hash.to = w).rowid
                                      ELSE rowid[w]]
      BY Zenon, <1>3 DEF MarkPendingPayable
    <3>3. ScanJob("Payables")
      BY Zenon, <1>3 DEF MarkPendingPayable, ScanJob, JobsOf
    <3>4. /\ \A s \in Slots : ~ScanFuture("Payables", s)
          /\ \A i \in Nat : ~ScanMessage("Payables", i)
      BY <3>3 DEF ScanInv
    <3>5. \A s \in Slots : FreshFuture(futures'[s], rowid')
      BY <3>1, <3>4 DEF ScanFuture, StagesOf, FreshFuture
    <3>6. \A i \in 1 .. Len(mailbox') : FreshMessage(mailbox'[i], rowid')
      <4>1. \A i \in 1 .. Len(mailbox) : i \in Nat /\ ~EndsPayableScan(mailbox[i])
        BY <3>4 DEF ScanMessage, EndsScan, TypeOK
      <4> QED BY <3>1, <4>1 DEF EndsPayableScan, FreshMessage
    <3>7. \A h \in job.errs : rowid'[h.to] = 0
      <4> SUFFICES ASSUME NEW h \in job.errs PROVE rowid'[h.to] = 0
        OBVIOUS
      <4>1. /\ FreshHashes(job.oks \cup job.errs, rowid) /\ job.oks \cap job.errs = {}
            /\ h.to \in Wallets
        BY Zenon, <1>3, <3>1 DEF FreshInv, FreshJob, MarkPendingPayable, Hashes
      <4>2. \A fp \in marked : fp.hash \in job.oks
        OBVIOUS
      <4> HIDE DEF marked
      <4>3. ~ \E fp \in marked : fp.hash.to = h.to
        BY <4>1, <4>2 DEF FreshHashes
      <4>4. rowid[h.to] = 0
        BY <4>1 DEF FreshHashes
      <4> QED BY <3>2, <4>1, <4>3, <4>4
    <3>8. FreshJob(job', rowid')
      BY <3>1, <3>7 DEF FreshJob
    <3> QED BY <3>5, <3>6, <3>8 DEF FreshInv
  <2> QED BY Zenon, <1>1, <1>3, <2>1 DEF MarkPendingPayable
<1>4. CASE DiscardFailedTransactions
  <2>1. CASE job' = NoJob /\ UNCHANGED <<pendingScan, mailbox, futures, node>>
    BY Zenon, <1>2, <1>4, <2>1 DEF DiscardFailedTransactions, NoJob
  <2> QED BY Zenon, <1>1, <1>4, <2>1 DEF DiscardFailedTransactions
<1>5. CASE TransactionConfirmed
  <2>1. PICK fp \in job.confirmed :
          LET rows == {w \in Wallets : rowid[w] = fp.rowid}
          IN  /\ rowid' = [w \in Wallets |-> IF w \in rows THEN 0 ELSE rowid[w]]
              /\ \/ GoOn([job EXCEPT !.confirmed = @ \ {fp}, !.settled = @ \cup {fp}])
                 \/ GoDown("confirm mismatch")
    BY Zenon, <1>5 DEF TransactionConfirmed
  <2>2. CASE GoOn([job EXCEPT !.confirmed = @ \ {fp}, !.settled = @ \cup {fp}])
    <3>1. job \in [at : {"confirm", "fail", "attempt"}, confirmed : SUBSET Fingerprints,
                   settled : SUBSET Fingerprints, failures : SUBSET Fingerprints,
                   still : SUBSET Fingerprints]
      BY Zenon, <1>5, CarriedTypes DEF TransactionConfirmed
    <3>2. /\ UNCHANGED <<mailbox, futures>>
          /\ job.at = "confirm" /\ job'.at = "confirm" /\ job'.settled = job.settled \cup {fp}
      BY Zenon, <1>5, <2>2, <3>1 DEF GoOn, TransactionConfirmed
    <3>3. \A w \in Wallets : rowid'[w] = 0 \/ rowid'[w] = rowid[w]
      BY Zenon, <2>1
    <3>4. \A s \in Slots : FreshFuture(futures'[s], rowid')
      <4>1. \A s \in Slots : futures[s] \in Futures /\ FreshFuture(futures[s], rowid)
        BY DEF TypeOK, FreshInv
      <4> QED BY SMTT(30), <3>2, <3>3, <4>1, FreshFutureKept
    <3>5. \A i \in 1 .. Len(mailbox') : FreshMessage(mailbox'[i], rowid')
      <4>1. \A i \in 1 .. Len(mailbox) : mailbox[i] \in Messages /\ FreshMessage(mailbox[i], rowid)
        BY DEF TypeOK, FreshInv
      <4> QED BY SMTT(30), <3>2, <3>3, <4>1, FreshMessageKept
    <3>6. \A f \in job'.settled : \A w \in Wallets : rowid'[w] # f.rowid
      <4> SUFFICES ASSUME NEW f \in job'.settled, NEW w \in Wallets PROVE rowid'[w] # f.rowid
        OBVIOUS
      <4>1. f.rowid # 0
        BY <3>1, <3>2 DEF Fingerprints
      <4>2. f # fp => rowid[w] # f.rowid
        BY <3>2 DEF FreshInv, FreshJob
      <4> QED BY Zenon, <2>1, <4>1, <4>2
    <3>7. FreshJob(job', rowid')
      BY <3>2, <3>6 DEF FreshJob
    <3> QED BY <3>4, <3>5, <3>7 DEF FreshInv
  <2> QED BY ZenonT(30), <1>1, <2>1, <2>2
<1>6. CASE DeleteConfirmed \/ CancelFailedTransactions
  <2>1. \A at : [job EXCEPT !.at = at].at = at
    BY Zenon, <1>6, CarriedTypes DEF DeleteConfirmed, CancelFailedTransactions
  <2>2. CASE \E at \in {"fail", "attempt"} : GoOn([job EXCEPT !.at = at])
    BY Zenon, <1>2, <1>6, <2>1, <2>2 DEF GoOn, DeleteConfirmed, CancelFailedTransactions
  <2> QED BY Zenon, <1>1, <1>6, <2>2 DEF DeleteConfirmed, CancelFailedTransactions
<1>7. CASE UpdateRemainingFingerprints
  <2>1. CASE job' = NoJob /\ UNCHANGED <<payableScan, mailbox, futures, node>>
    BY Zenon, <1>2, <1>7, <2>1 DEF UpdateRemainingFingerprints, NoJob, database
  <2> QED BY Zenon, <1>1, <1>7, <2>1 DEF UpdateRemainingFingerprints
<1> QED BY <1>3, <1>4, <1>5, <1>6, <1>7 DEF ContinueJob

\* What a payable scan carries has one payee each, and stays unmarked until the
\* scan itself marks it.
LEMMA FreshStep ==
    ASSUME TypeOK, PaymentsAnswered, ScanInv("Payables"), FreshInv, [Next]_vars
    PROVE  FreshInv'
<1>1. CASE UNCHANGED <<rowid, job, mailbox, futures>>
  BY <1>1, FreshFrom
<1>2. CASE ScanForPayables \/ ScanForPendingPayables \/ HandleMessage
  BY <1>2, FreshHandlers
<1>3. CASE ContinueJob
  BY <1>3, FreshJobs
<1>4. CASE \E s \in Slots : Continue(s)
  BY <1>4, FreshFutures
<1>5. CASE Crash
  BY SMTT(30), <1>5, FreshGoDown DEF Crash
<1> QED BY SMTT(30), <1>1, <1>2, <1>3, <1>4, <1>5
        DEF Next, RecordServiceConsumed, Mature, Mine, Restart, vars, database

\* No statement takes the fingerprint of a marked row away.
LEMMA MarksStep ==
    ASSUME TypeOK, FreshInv, MarksHaveFingerprints, [Next]_vars
    PROVE  MarksHaveFingerprints'
<1>1. ASSUME rowid' = rowid, fingerprints \subseteq fingerprints' PROVE MarksHaveFingerprints'
  BY ZenonT(30), <1>1 DEF MarksHaveFingerprints
<1>2. CASE HandleMessage
  BY SMTT(30), <1>1, <1>2
  DEF HandleMessage, HandlePayablePaymentSetup, HandleNewPendingPayableFingerprints,
      HandleSentPayables, HandleScanError, HandleReportTransactionReceipts, database
<1>3. CASE \E s \in Slots : Continue(s)
  BY ZenonT(30), <1>1, <1>3 DEF Continue, BuildBlockchainAgent, SignAndSubmit, NonceQueryFails, ChainTakesBatch,
     BatchAnswered, SubmitBatchFails, ProcessTransactionReceipts, Complete, database
<1>4. CASE MarkPendingPayable
  <2> DEFINE marked == {fp \in {f \in fingerprints : f.hash \in job.oks} : rowid[fp.hash.to] = 0}
  <2>1. rowid' = [w \in Wallets |-> IF \E fp \in marked : fp.hash.to = w
                                    THEN (CHOOSE fp \in marked : fp.hash.to = w).rowid
                                    ELSE rowid[w]]
        /\ fingerprints' = fingerprints
    BY Zenon, <1>4 DEF MarkPendingPayable
  <2>2. ASSUME NEW w \in Wallets, rowid'[w] # 0
        PROVE  \E fp \in fingerprints : fp.rowid = rowid'[w] /\ fp.hash.to = w
    <3>1. CASE \E fp \in marked : fp.hash.to = w
      <4> DEFINE chosen == CHOOSE fp \in marked : fp.hash.to = w
      <4>1. chosen \in marked /\ chosen.hash.to = w
        BY <3>1
      <4>2. rowid'[w] = chosen.rowid
        BY <2>1, <3>1
      <4> HIDE DEF chosen
      <4> QED BY SMTT(30), <4>1, <4>2
    <3>2. CASE ~ \E fp \in marked : fp.hash.to = w
      <4> HIDE DEF marked
      <4>1. rowid'[w] = rowid[w]
        BY <2>1, <3>2
      <4> QED BY <2>2, <4>1 DEF MarksHaveFingerprints
    <3> QED BY SMTT(30), <3>1, <3>2
  <2> QED BY <2>1, <2>2 DEF MarksHaveFingerprints
<1>5. CASE DiscardFailedTransactions
  <2>1. rowid' = rowid /\ \A fp \in fingerprints : fp.hash \notin job.errs => fp \in fingerprints'
    BY Zenon, <1>5 DEF DiscardFailedTransactions
  <2>2. \A h \in job.errs : rowid[h.to] = 0
    BY Zenon, <1>5 DEF DiscardFailedTransactions, FreshInv, FreshJob
  <2> QED BY SMTT(30), <2>1, <2>2 DEF MarksHaveFingerprints
<1>6. CASE TransactionConfirmed
  <2>1. fingerprints' = fingerprints /\ \A w \in Wallets : rowid'[w] = 0 \/ rowid'[w] = rowid[w]
    BY Zenon, <1>6 DEF TransactionConfirmed
  <2> QED BY <2>1 DEF MarksHaveFingerprints
<1>7. CASE DeleteConfirmed
  <2>1. /\ rowid' = rowid
        /\ \A fp \in fingerprints : fp.rowid \notin RowidsOf(job.settled) => fp \in fingerprints'
    BY Zenon, <1>7 DEF DeleteConfirmed
  <2>2. \A w \in Wallets : rowid[w] \notin RowidsOf(job.settled)
    BY Zenon, <1>7 DEF DeleteConfirmed, FreshInv, FreshJob, RowidsOf
  <2> QED BY <2>1, <2>2 DEF MarksHaveFingerprints
<1>8. CASE CancelFailedTransactions
  <2>1. rowid' = rowid
    BY Zenon, <1>8 DEF CancelFailedTransactions
  <2>2. \A fp \in fingerprints : \E g \in fingerprints' : g.rowid = fp.rowid /\ g.hash = fp.hash
    <3>1. \A fp \in fingerprints : LET g == [fp EXCEPT !.process_error = "ERROR"]
                                   IN  g.rowid = fp.rowid /\ g.hash = fp.hash
      BY DEF TypeOK, Fingerprints
    <3>2. \A fp \in fingerprints :
             \/ fp \in fingerprints'
             \/ [fp EXCEPT !.process_error = "ERROR"] \in fingerprints'
      BY Zenon, <1>8 DEF CancelFailedTransactions
    <3> QED BY Zenon, <3>1, <3>2
  <2> QED BY <2>1, <2>2 DEF MarksHaveFingerprints
<1> QED BY ZenonT(30), <1>1, <1>2, <1>3, <1>4, <1>5, <1>6, <1>7, <1>8
        DEF Next, ContinueJob, UpdateRemainingFingerprints, RecordServiceConsumed, Mature,
        ScanForPayables, ScanForPendingPayables, Mine, Crash, Restart, vars, database

LEMMA MarksInvariant == Spec => [](PaymentsAnswered => FreshInv /\ MarksHaveFingerprints)
<1> DEFINE Inv == PaymentsAnswered => FreshInv /\ MarksHaveFingerprints
<1>1. Init => Inv
  <2> SUFFICES ASSUME Init PROVE FreshInv /\ MarksHaveFingerprints
    OBVIOUS
  <2>1. /\ job = NoJob /\ mailbox = <<>> /\ futures = [s \in Slots |-> NoFuture]
        /\ rowid = [w \in Wallets |-> 0]
    BY ZenonT(30) DEF Init
  <2>2. FreshInv
    BY <2>1 DEF FreshInv, FreshFuture, FreshJob, NoJob, NoFuture
  <2> QED BY <2>1, <2>2 DEF MarksHaveFingerprints
<1>2. TypeOK /\ (PaymentsAnswered => ScanInv("Payables")) /\ Inv /\ [Next]_vars => Inv'
  <2> SUFFICES ASSUME TypeOK, PaymentsAnswered => ScanInv("Payables"), Inv, [Next]_vars,
                      PaymentsAnswered'
               PROVE  FreshInv' /\ MarksHaveFingerprints'
    OBVIOUS
  <2>1. PaymentsAnswered
    BY SceneFixed DEF PaymentsAnswered, Faults
  <2> QED BY <2>1, FreshStep, MarksStep
<1> QED BY <1>1, <1>2, TypeCorrect, PayableScanInvariant, PTL DEF Spec

\* A payable marked as pending has the fingerprint of its transaction, whenever
\* the Node is killed and whichever transactions are refused: none is deleted
\* while a row of the payable table still points to it.
THEOREM MarksOutliveCrashes == Spec => []MarksSurviveCrashes
<1>1. (PaymentsAnswered => FreshInv /\ MarksHaveFingerprints) => MarksSurviveCrashes
  BY ZenonT(30) DEF MarksSurviveCrashes
<1> QED BY <1>1, MarksInvariant, PTL

-----------------------------------------------------------------------------
(* Where the chain takes what it is sent, fingerprints stay until their    *)
(* transactions are settled                                                *)

NothingRefused == Faults \subseteq {"crash"}

\* The receipt scan holds copies of rows: this one's row is in fps.
Known(fp, fps) == \E g \in fps : g.rowid = fp.rowid /\ g.hash = fp.hash

Mined(fp, txs) == \E tx \in txs : tx.hash = fp.hash /\ tx.status = "ok"

\* The nonces of a batch that waits for the chain are the next ones.
NextNonces(hashes, nonces) ==
    \A h \in hashes : /\ h.nonce \notin nonces
                      /\ 0 .. h.nonce - 1 \subseteq nonces \cup {g.nonce : g \in hashes}

KnownFuture(f, fps, nonces) ==
    /\ f.stage = "submit" => NextNonces(Range(f.batch), nonces)
    /\ f.stage = "taken" => f.taken = Range(f.batch)
    /\ f.stage = "receipts" => \A fp \in f.fps : Known(fp, fps)

KnownMessage(m, fps, txs) ==
    /\ m.type = "SentPayables" => m.errs = {}
    /\ m.type = "ReportTransactionReceipts" =>
          \A fp \in m.confirmed : Known(fp, fps) /\ Mined(fp, txs)

KnownJob(j, fps, txs) ==
    /\ j.at \in {"mark", "discard"} => j.errs = {}
    /\ j.at = "confirm" => \A fp \in j.confirmed : Known(fp, fps) /\ Mined(fp, txs)

NoncesClosed == \A n \in Nonces : 0 .. n - 1 \subseteq Nonces
HashesDiffer == \A t, u \in chain : t.hash = u.hash => t = u
RowidsDiffer == \A f, g \in fingerprints : f.rowid = g.rowid => f = g

CarriedKnown ==
    /\ \A s \in Slots : KnownFuture(futures[s], fingerprints, Nonces)
    /\ \A i \in 1 .. Len(mailbox) : KnownMessage(mailbox[i], fingerprints, chain)
    /\ KnownJob(job, fingerprints, chain)

KnownInv == NoncesClosed /\ HashesDiffer /\ RowidsDiffer /\ CarriedKnown

\* The chain only grows where nothing is taken by mistake: a batch with the next
\* nonces is taken whole.
LEMMA TakenWhole ==
    ASSUME TypeOK, NothingRefused, KnownInv, NEW s \in Slots, ChainTakesBatch(s)
    PROVE  LET batch == Range(futures[s].batch)
           IN  /\ futures[s].stage = "submit"
               /\ batch \subseteq Hashes
               /\ NextNonces(batch, Nonces)
               /\ chain' = chain \cup {[hash |-> h, status |-> "pending"] : h \in batch}
               /\ committed' = [w \in Wallets |-> committed[w] + Amount(batch, w)]
               /\ futures' = [futures EXCEPT ![s] = Submitted(futures[s].batch, batch)]
<1> DEFINE batch == Range(futures[s].batch)
<1>1. futures[s].stage = "submit"
  BY DEF ChainTakesBatch
<1>2. batch \subseteq Hashes
  BY SMTT(30), <1>1, CarriedTypes, RangeType
<1>3. NextNonces(batch, Nonces)
  BY Zenon, <1>1 DEF KnownInv, CarriedKnown, KnownFuture
<1>4. Acceptable(futures[s].batch) = {batch}
  <2>1. {h \in batch : h.nonce \notin Nonces} = batch
    BY SMTT(30), <1>3 DEF NextNonces
  <2> QED BY ZenonT(30), <2>1 DEF Acceptable, NothingRefused
<1> QED BY ZenonT(30), <1>1, <1>2, <1>3, <1>4 DEF ChainTakesBatch

\* The nonces after the step.
LEMMA NoncesAfterTaking ==
    ASSUME NEW hashes,
           chain' = chain \cup {[hash |-> h, status |-> "pending"] : h \in hashes}
    PROVE  Nonces' = Nonces \cup {h.nonce : h \in hashes}
<1>1. ASSUME NEW n PROVE n \in Nonces' <=> \/ \E tx \in chain : tx.hash.nonce = n
                                           \/ \E h \in hashes : h.nonce = n
  <2>1. n \in Nonces' <=> \E tx \in chain' : tx.hash.nonce = n
    BY DEF Nonces
  <2>2. \A h \in hashes : [hash |-> h, status |-> "pending"].hash = h
    OBVIOUS
  <2> QED BY Zenon, <2>1, <2>2
<1>2. \A n : n \in Nonces <=> \E tx \in chain : tx.hash.nonce = n
  BY DEF Nonces
<1> QED BY SMTT(30), <1>1, <1>2

LEMMA NoncesAfterMining ==
    ASSUME TypeOK, Mine
    PROVE  /\ Nonces' = Nonces
           /\ \E tx \in chain, status \in {"ok", "failed"} :
                /\ tx.status = "pending"
                /\ tx \in [hash : Hashes, status : {"pending", "ok", "failed"}]
                /\ [tx EXCEPT !.status = status] = [hash |-> tx.hash, status |-> status]
                /\ chain' = (chain \ {tx}) \cup {[hash |-> tx.hash, status |-> status]}
                /\ committed' = IF status = "ok" THEN committed
                                ELSE [committed EXCEPT ![tx.hash.to] = @ - tx.hash.amount]
<1>1. PICK tx \in chain, status \in {"ok", "failed"} :
        /\ tx.status = "pending"
        /\ chain' = (chain \ {tx}) \cup {[tx EXCEPT !.status = status]}
        /\ committed' = IF status = "ok" THEN committed
                        ELSE [committed EXCEPT ![tx.hash.to] = @ - tx.hash.amount]
  BY Zenon DEF Mine
<1>2. tx \in [hash : Hashes, status : {"pending", "ok", "failed"}]
  BY DEF TypeOK
<1>3. [tx EXCEPT !.status = status] = [hash |-> tx.hash, status |-> status]
  BY <1>2
<1>4. Nonces' = Nonces
  <2>1. \A n : n \in Nonces <=> \E t \in chain : t.hash.nonce = n
    BY DEF Nonces
  <2>2. \A n : n \in Nonces' <=> \E t \in chain' : t.hash.nonce = n
    BY DEF Nonces
  <2> DEFINE mined == [hash |-> tx.hash, status |-> status]
  <2>3. mined.hash = tx.hash /\ chain' = (chain \ {tx}) \cup {mined}
    BY <1>1, <1>3
  <2> HIDE DEF mined
  <2>4. \A n : (\E t \in chain : t.hash.nonce = n) <=> \E t \in chain' : t.hash.nonce = n
    BY SMTT(30), <2>3, tx \in chain
  <2> QED BY <2>1, <2>2, <2>4
<1> QED BY Zenon, <1>1, <1>2, <1>3, <1>4

\* The chain keeps its nonces without gaps and its transactions apart.
LEMMA ChainStep ==
    ASSUME TypeOK, NothingRefused, KnownInv, [Next]_vars
    PROVE  NoncesClosed' /\ HashesDiffer'
<1>1. ASSUME UNCHANGED chain PROVE NoncesClosed' /\ HashesDiffer'
  BY <1>1 DEF KnownInv, NoncesClosed, HashesDiffer, Nonces
<1>2. ASSUME NEW s \in Slots, ChainTakesBatch(s) PROVE NoncesClosed' /\ HashesDiffer'
  <2> DEFINE batch == Range(futures[s].batch)
  <2>1. /\ batch \subseteq Hashes
        /\ NextNonces(batch, Nonces)
        /\ chain' = chain \cup {[hash |-> h, status |-> "pending"] : h \in batch}
    BY Zenon, <1>2, TakenWhole
  <2> HIDE DEF batch
  <2>2. Nonces' = Nonces \cup {h.nonce : h \in batch}
    BY <2>1, NoncesAfterTaking
  <2>3. NoncesClosed'
    BY <2>1, <2>2 DEF NextNonces, NoncesClosed, KnownInv
  <2>4. \A h \in batch : \A tx \in chain : tx.hash # h
    BY <2>1 DEF NextNonces, Nonces
  <2>5. HashesDiffer'
    BY <2>1, <2>4 DEF HashesDiffer, KnownInv
  <2> QED BY SMTT(30), <2>3, <2>5
<1>3. CASE Mine
  <2>1. PICK tx \in chain, status \in {"ok", "failed"} :
          chain' = (chain \ {tx}) \cup {[hash |-> tx.hash, status |-> status]}
    BY ZenonT(30), <1>3, NoncesAfterMining
  <2>2. NoncesClosed'
    BY <1>3, NoncesAfterMining DEF NoncesClosed, KnownInv
  <2>3. HashesDiffer'
    BY <2>1 DEF HashesDiffer, KnownInv
  <2> QED BY <2>2, <2>3
<1>4. CASE HandleMessage
  BY <1>1, <1>4
  DEF HandleMessage, HandlePayablePaymentSetup, HandleNewPendingPayableFingerprints,
      HandleSentPayables, HandleScanError, HandleReportTransactionReceipts, external
<1>5. CASE ContinueJob
  BY ZenonT(30), <1>1, <1>5 DEF ContinueJob, MarkPendingPayable, DiscardFailedTransactions,
     TransactionConfirmed, DeleteConfirmed, CancelFailedTransactions,
     UpdateRemainingFingerprints, external
<1>6. CASE \E s \in Slots : Continue(s)
  BY Zenon, <1>1, <1>2, <1>6 DEF Continue, BuildBlockchainAgent, SignAndSubmit, NonceQueryFails,
     BatchAnswered, SubmitBatchFails, ProcessTransactionReceipts, external
<1> QED BY Zenon, <1>1, <1>3, <1>4, <1>5, <1>6
        DEF Next, RecordServiceConsumed, Mature, ScanForPayables, ScanForPendingPayables,
        Crash, Restart, vars, external

\* Rows of pending_payable keep their numbers apart: a new one is numbered past
\* all the others.
LEMMA RowidsStep ==
    ASSUME TypeOK, RowidsDiffer, [Next]_vars
    PROVE  RowidsDiffer'
<1>1. ASSUME fingerprints' \subseteq fingerprints PROVE RowidsDiffer'
  BY <1>1 DEF RowidsDiffer
<1>2. CASE HandleNewPendingPayableFingerprints
  <2>1. Receive("PendingPayableFingerprintSeeds")
    BY <1>2 DEF HandleNewPendingPayableFingerprints
  <2> DEFINE hashes == Head(mailbox).hashes
  <2>2. hashes \in Seq(Hashes)
    BY <2>1, ReceivedTypes
  <2>3. CASE fingerprints' = fingerprints
    BY <1>1, <2>3
  <2>4. ASSUME NEW last \in {0} \cup RowidsOf(fingerprints),
               \A r \in RowidsOf(fingerprints) : r <= last,
               fingerprints' = fingerprints \cup NewFingerprints(last, hashes)
        PROVE  RowidsDiffer'
    <3> HIDE DEF hashes
    <3>1. last \in Nat /\ \A f \in fingerprints : f.rowid \in Nat /\ f.rowid <= last
      BY SMTT(30), <2>4 DEF TypeOK, RowidsOf, Fingerprints
    <3>2. \A f \in NewFingerprints(last, hashes) :
             \E i \in 1 .. Len(hashes) :
                f = [rowid |-> last + i, hash |-> hashes[i], process_error |-> "null"]
      BY <2>2 DEF NewFingerprints
    <3>3. ASSUME NEW f \in NewFingerprints(last, hashes), NEW g \in NewFingerprints(last, hashes),
                 f.rowid = g.rowid
          PROVE  f = g
      <4>1. PICK i \in 1 .. Len(hashes) :
                    f = [rowid |-> last + i, hash |-> hashes[i], process_error |-> "null"]
        BY <3>2
      <4>2. PICK k \in 1 .. Len(hashes) :
                    g = [rowid |-> last + k, hash |-> hashes[k], process_error |-> "null"]
        BY <3>2
      <4>3. last + i = last + k
        BY <3>3, <4>1, <4>2
      <4>4. i = k
        BY <3>1, <4>3
      <4> QED BY <4>1, <4>2, <4>4
    <3>4. ASSUME NEW f \in NewFingerprints(last, hashes) PROVE f.rowid \in Nat /\ f.rowid > last
      BY <3>1, <3>2
    <3>5. \A f \in NewFingerprints(last, hashes), g \in fingerprints : f.rowid # g.rowid
      BY <3>1, <3>4
    <3> QED BY SMTT(30), <2>4, <3>3, <3>5 DEF RowidsDiffer
  <2> QED BY <1>2, <2>3, <2>4 DEF HandleNewPendingPayableFingerprints
<1>3. CASE CancelFailedTransactions
  <2>1. \A f \in fingerprints' : \E g \in fingerprints :
           /\ f = IF g.rowid \in RowidsOf(job.failures)
                  THEN [g EXCEPT !.process_error = "ERROR"] ELSE g
           /\ f.rowid = g.rowid
    <3>1. \A g \in fingerprints : [g EXCEPT !.process_error = "ERROR"].rowid = g.rowid
      BY ZenonT(30) DEF TypeOK, Fingerprints
    <3> QED BY Zenon, <1>3, <3>1 DEF CancelFailedTransactions
  <2> QED BY <2>1 DEF RowidsDiffer
<1>4. CASE HandleMessage
  BY SMTT(30), <1>1, <1>2, <1>4 DEF HandleMessage, HandlePayablePaymentSetup,
     HandleSentPayables, HandleScanError, HandleReportTransactionReceipts, database
<1>5. CASE ContinueJob
  BY ZenonT(30), <1>1, <1>3, <1>5 DEF ContinueJob, MarkPendingPayable, DiscardFailedTransactions,
     TransactionConfirmed, DeleteConfirmed, UpdateRemainingFingerprints, database
<1>6. CASE \E s \in Slots : Continue(s)
  BY ZenonT(30), <1>1, <1>6 DEF Continue, BuildBlockchainAgent, SignAndSubmit, NonceQueryFails, ChainTakesBatch,
     BatchAnswered, SubmitBatchFails, ProcessTransactionReceipts, Complete, database
<1> QED BY Zenon, <1>1, <1>4, <1>5, <1>6
        DEF Next, RecordServiceConsumed, Mature, ScanForPayables, ScanForPendingPayables, Mine,
        Crash, Restart, vars, database

\* As long as no row is deleted and no nonce taken, only what is new has to be known.
LEMMA KnownFrom ==
    ASSUME CarriedKnown,
           \A fp : Known(fp, fingerprints) => Known(fp, fingerprints'),
           \A fp : Mined(fp, chain) => Mined(fp, chain'),
           Nonces' = Nonces,
           \A s \in Slots : \/ futures'[s] = futures[s]
                            \/ KnownFuture(futures'[s], fingerprints', Nonces'),
           \A i \in 1 .. Len(mailbox') :
              \/ \E k \in 1 .. Len(mailbox) : mailbox'[i] = mailbox[k]
              \/ KnownMessage(mailbox'[i], fingerprints', chain'),
           job' = job \/ KnownJob(job', fingerprints', chain')
    PROVE  CarriedKnown'
<1>1. \A f : KnownFuture(f, fingerprints, Nonces) => KnownFuture(f, fingerprints', Nonces')
  BY ZenonT(30) DEF KnownFuture
<1>2. \A m : KnownMessage(m, fingerprints, chain) => KnownMessage(m, fingerprints', chain')
  BY ZenonT(30) DEF KnownMessage
<1>3. \A j : KnownJob(j, fingerprints, chain) => KnownJob(j, fingerprints', chain')
  BY ZenonT(30) DEF KnownJob
<1>4. \A s \in Slots : KnownFuture(futures'[s], fingerprints', Nonces')
  BY ZenonT(30), <1>1 DEF CarriedKnown
<1>5. \A i \in 1 .. Len(mailbox') : KnownMessage(mailbox'[i], fingerprints', chain')
  BY ZenonT(30), <1>2 DEF CarriedKnown
<1>6. KnownJob(job', fingerprints', chain')
  BY <1>3 DEF CarriedKnown
<1> QED BY ZenonT(30), <1>4, <1>5, <1>6 DEF CarriedKnown

LEMMA KnownGoDown ==
    ASSUME NEW how, GoDown(how)
    PROVE  CarriedKnown'
<1>1. job' = NoJob /\ mailbox' = <<>> /\ futures' = [s \in Slots |-> NoFuture]
  BY DEF GoDown
<1>2. \A s \in Slots : KnownFuture(futures'[s], fingerprints', Nonces')
  BY <1>1 DEF KnownFuture, NoFuture
<1>3. \A i \in 1 .. Len(mailbox') : KnownMessage(mailbox'[i], fingerprints', chain')
  BY <1>1
<1>4. KnownJob(job', fingerprints', chain')
  BY <1>1 DEF KnownJob, NoJob
<1> QED BY <1>2, <1>3, <1>4 DEF CarriedKnown

LEMMA KnownHandlers ==
    ASSUME TypeOK, CarriedKnown, ScanForPayables \/ ScanForPendingPayables \/ HandleMessage
    PROVE  CarriedKnown'
<1>1. chain' = chain /\ Nonces' = Nonces /\ fingerprints \subseteq fingerprints'
  <2>1. chain' = chain /\ fingerprints \subseteq fingerprints'
    BY Zenon DEF ScanForPayables, ScanForPendingPayables, HandleMessage, HandlePayablePaymentSetup,
       HandleNewPendingPayableFingerprints, HandleSentPayables, HandleScanError,
       HandleReportTransactionReceipts, database, external
  <2> QED BY SMTT(30), <2>1 DEF Nonces
<1>2. \A fp : /\ Known(fp, fingerprints) => Known(fp, fingerprints')
              /\ Mined(fp, chain) => Mined(fp, chain')
  BY SMTT(30), <1>1 DEF Known, Mined
<1>3. CASE ScanForPayables
  <2>1. CASE GoDown("negative balance")
    BY Zenon, <2>1, KnownGoDown
  <2>2. CASE \E accounts : Spawn(BuildingAgent(accounts)) /\ UNCHANGED <<job, mailbox>>
    <3>1. PICK accounts : Spawn(BuildingAgent(accounts))
      BY SMTT(30), <2>2
    <3>2. KnownFuture(BuildingAgent(accounts), fingerprints', Nonces')
      BY ZenonT(30) DEF BuildingAgent, KnownFuture
    <3>3. \A s \in Slots : futures'[s] = futures[s] \/ KnownFuture(futures'[s], fingerprints', Nonces')
      BY SMTT(30), <3>1, <3>2, FuturesAfterSpawn
    <3> QED BY Zenon, <1>1, <1>2, <2>2, <3>3, KnownFrom
  <2> QED BY ZenonT(30), <1>3, <2>1, <2>2 DEF ScanForPayables
<1>4. CASE ScanForPendingPayables
  <2>1. PICK fps \in SUBSET fingerprints : Spawn(AskingReceipts(fps))
    BY <1>4 DEF ScanForPendingPayables
  <2>2. KnownFuture(AskingReceipts(fps), fingerprints', Nonces')
    BY SMTT(30), <1>1, <2>1 DEF AskingReceipts, KnownFuture, Known
  <2>3. \A s \in Slots : futures'[s] = futures[s] \/ KnownFuture(futures'[s], fingerprints', Nonces')
    BY SMTT(30), <2>1, <2>2, FuturesAfterSpawn
  <2>4. UNCHANGED <<job, mailbox>>
    BY SMTT(30), <1>4 DEF ScanForPendingPayables
  <2> QED BY ZenonT(30), <1>1, <1>2, <2>3, <2>4, KnownFrom
<1>5. CASE HandlePayablePaymentSetup
  <2>1. Receive("BlockchainAgentWithContextMessage") /\ UNCHANGED job
        /\ Spawn(AskingNonce(Head(mailbox).accounts))
    BY SMTT(30), <1>5 DEF HandlePayablePaymentSetup
  <2>2. KnownFuture(AskingNonce(Head(mailbox).accounts), fingerprints', Nonces')
    BY SMTT(30) DEF AskingNonce, KnownFuture
  <2>3. \A s \in Slots : futures'[s] = futures[s] \/ KnownFuture(futures'[s], fingerprints', Nonces')
    BY SMTT(30), <2>1, <2>2, FuturesAfterSpawn
  <2>4. \A i \in 1 .. Len(mailbox') : \E k \in 1 .. Len(mailbox) : mailbox'[i] = mailbox[k]
    BY Zenon, <2>1, MailAfterReceive
  <2> QED BY Zenon, <1>1, <1>2, <2>1, <2>3, <2>4, KnownFrom
<1>6. CASE HandleNewPendingPayableFingerprints \/ HandleScanError
  <2>1. /\ \E type : Receive(type)
        /\ UNCHANGED <<job, futures>>
    BY SMTT(30), <1>6 DEF HandleNewPendingPayableFingerprints, HandleScanError
  <2> QED BY ZenonT(30), <1>1, <1>2, <2>1, MailAfterReceive, KnownFrom
<1>7. CASE HandleSentPayables
  <2>1. Receive("SentPayables") /\ UNCHANGED futures
        /\ job' = [at |-> "mark", oks |-> Head(mailbox).oks, errs |-> Head(mailbox).errs]
    BY SMTT(30), <1>7 DEF HandleSentPayables
  <2>2. KnownMessage(Head(mailbox), fingerprints, chain) /\ Head(mailbox).type = "SentPayables"
    BY ZenonT(30), <2>1, MailAfterReceive DEF CarriedKnown, Receive
  <2>3. KnownJob(job', fingerprints', chain')
    BY SMTT(30), <2>1, <2>2 DEF KnownJob, KnownMessage
  <2> QED BY ZenonT(30), <1>1, <1>2, <2>1, <2>3, MailAfterReceive, KnownFrom
<1>8. CASE HandleReportTransactionReceipts
  <2>1. Receive("ReportTransactionReceipts") /\ UNCHANGED futures
        /\ job'.at = "confirm" /\ job'.confirmed = Head(mailbox).confirmed
    BY ZenonT(30), <1>8 DEF HandleReportTransactionReceipts
  <2>2. KnownMessage(Head(mailbox), fingerprints, chain)
        /\ Head(mailbox).type = "ReportTransactionReceipts"
    BY SMTT(30), <2>1, MailAfterReceive DEF CarriedKnown, Receive
  <2>3. KnownJob(job', fingerprints', chain')
    BY Zenon, <1>2, <2>1, <2>2 DEF KnownJob, KnownMessage
  <2> QED BY ZenonT(30), <1>1, <1>2, <2>1, <2>3, MailAfterReceive, KnownFrom
<1> QED BY SMTT(30), <1>3, <1>4, <1>5, <1>6, <1>7, <1>8 DEF HandleMessage
LEMMA KnownJobs ==
    ASSUME TypeOK, ScanInv("PendingPayables"), CarriedKnown, ContinueJob
    PROVE  CarriedKnown'
<1>1. CASE \E how : GoDown(how)
  BY SMTT(30), <1>1, KnownGoDown
<1>2. chain' = chain /\ Nonces' = Nonces /\ \A fp : Mined(fp, chain) => Mined(fp, chain')
  <2>1. chain' = chain
    BY Zenon DEF ContinueJob, MarkPendingPayable, DiscardFailedTransactions, TransactionConfirmed,
       DeleteConfirmed, CancelFailedTransactions, UpdateRemainingFingerprints, external
  <2> QED BY SMTT(30), <2>1 DEF Nonces
<1>3. ASSUME UNCHANGED <<mailbox, futures>>,
             \A fp : Known(fp, fingerprints) => Known(fp, fingerprints'),
             KnownJob(job', fingerprints', chain')
      PROVE  CarriedKnown'
  BY <1>2, <1>3, KnownFrom
<1>4. KnownJob(job, fingerprints, chain)
  BY DEF CarriedKnown
<1>5. CASE MarkPendingPayable
  <2>1. CASE GoOn([job EXCEPT !.at = "discard"])
    <3>1. /\ UNCHANGED <<mailbox, futures, fingerprints>>
          /\ job'.at = "discard" /\ job'.errs = job.errs /\ job.at = "mark"
      BY Zenon, <1>5, <2>1, CarriedTypes DEF GoOn, MarkPendingPayable
    <3>2. KnownJob(job', fingerprints', chain')
      BY SMTT(30), <1>4, <3>1 DEF KnownJob
    <3> QED BY SMTT(30), <1>3, <3>1, <3>2
  <2> QED BY ZenonT(30), <1>1, <1>5, <2>1 DEF MarkPendingPayable
<1>6. CASE DiscardFailedTransactions
  <2>1. CASE job' = NoJob /\ UNCHANGED <<pendingScan, mailbox, futures, node>>
    <3>1. job.errs = {}
      BY Zenon, <1>4, <1>6 DEF KnownJob, DiscardFailedTransactions
    <3>2. fingerprints' = fingerprints
      BY Zenon, <1>6, <3>1 DEF DiscardFailedTransactions
    <3>3. KnownJob(job', fingerprints', chain')
      BY <2>1 DEF KnownJob, NoJob
    <3> QED BY SMTT(30), <1>3, <2>1, <3>2, <3>3
  <2> QED BY Zenon, <1>1, <1>6, <2>1 DEF DiscardFailedTransactions
<1>7. CASE TransactionConfirmed
  <2>1. PICK fp \in job.confirmed :
           \/ GoOn([job EXCEPT !.confirmed = @ \ {fp}, !.settled = @ \cup {fp}])
           \/ GoDown("confirm mismatch")
    BY Zenon, <1>7 DEF TransactionConfirmed
  <2>2. CASE GoOn([job EXCEPT !.confirmed = @ \ {fp}, !.settled = @ \cup {fp}])
    <3>1. /\ UNCHANGED <<mailbox, futures, fingerprints>>
          /\ job.at = "confirm" /\ job'.at = "confirm" /\ job'.confirmed \subseteq job.confirmed
      BY Zenon, <1>7, <2>2, CarriedTypes DEF GoOn, TransactionConfirmed
    <3>2. KnownJob(job', fingerprints', chain')
      BY <1>2, <1>4, <3>1 DEF KnownJob
    <3> QED BY <1>3, <3>1, <3>2
  <2> QED BY ZenonT(30), <1>1, <2>1, <2>2
<1>8. CASE DeleteConfirmed
  <2>1. CASE GoOn([job EXCEPT !.at = "fail"])
    <3>1. /\ UNCHANGED <<mailbox, futures>>
          /\ job.at = "confirm" /\ job'.at = "fail"
      BY Zenon, <1>8, <2>1, CarriedTypes DEF GoOn, DeleteConfirmed
    <3>2. ScanJob("PendingPayables")
      BY <3>1 DEF ScanJob, JobsOf
    <3>3. /\ \A s \in Slots : ~ScanFuture("PendingPayables", s)
          /\ \A i \in Nat : ~ScanMessage("PendingPayables", i)
      BY ZenonT(30), <3>2 DEF ScanInv
    <3>4. \A s \in Slots : KnownFuture(futures'[s], fingerprints', Nonces')
      BY SMTT(30), <1>2, <3>1, <3>3 DEF ScanFuture, StagesOf, KnownFuture, CarriedKnown
    <3>5. \A i \in 1 .. Len(mailbox') : KnownMessage(mailbox'[i], fingerprints', chain')
      <4>1. \A i \in 1 .. Len(mailbox) : i \in Nat /\ ~EndsPendingScan(mailbox[i])
        BY SMTT(30), <3>3 DEF ScanMessage, EndsScan, TypeOK
      <4>2. \A i \in 1 .. Len(mailbox) : mailbox[i].type # "ReportTransactionReceipts"
        BY SMTT(30), <4>1 DEF EndsPendingScan
      <4> QED BY SMTT(30), <3>1, <4>2 DEF KnownMessage, CarriedKnown
    <3>6. KnownJob(job', fingerprints', chain')
      BY <3>1 DEF KnownJob
    <3> QED BY <3>4, <3>5, <3>6 DEF CarriedKnown
  <2> QED BY ZenonT(30), <1>1, <1>8, <2>1 DEF DeleteConfirmed
<1>9. CASE CancelFailedTransactions
  <2>1. CASE GoOn([job EXCEPT !.at = "attempt"])
    <3>1. UNCHANGED <<mailbox, futures>> /\ job'.at = "attempt"
      BY Zenon, <1>9, <2>1, CarriedTypes DEF GoOn, CancelFailedTransactions
    <3>2. \A g \in fingerprints : \E f \in fingerprints' : f.rowid = g.rowid /\ f.hash = g.hash
      <4>1. \A g \in fingerprints :
               LET f == IF g.rowid \in RowidsOf(job.failures)
                        THEN [g EXCEPT !.process_error = "ERROR"] ELSE g
               IN  f \in fingerprints' /\ f.rowid = g.rowid /\ f.hash = g.hash
        BY Zenon, <1>9 DEF CancelFailedTransactions, TypeOK, Fingerprints
      <4> QED BY Zenon, <4>1
    <3>3. \A fp : Known(fp, fingerprints) => Known(fp, fingerprints')
      BY <3>2 DEF Known
    <3>4. KnownJob(job', fingerprints', chain')
      BY <3>1 DEF KnownJob
    <3> QED BY SMTT(30), <1>3, <3>1, <3>3, <3>4
  <2> QED BY Zenon, <1>1, <1>9, <2>1 DEF CancelFailedTransactions
<1>10. CASE UpdateRemainingFingerprints
  <2>1. CASE job' = NoJob /\ UNCHANGED <<payableScan, mailbox, futures, node>>
    <3>1. KnownJob(job', fingerprints', chain')
      BY <2>1 DEF KnownJob, NoJob
    <3> QED BY Zenon, <1>3, <1>10, <2>1, <3>1 DEF UpdateRemainingFingerprints, database
  <2> QED BY Zenon, <1>1, <1>10, <2>1 DEF UpdateRemainingFingerprints
<1> QED BY SMTT(30), <1>5, <1>6, <1>7, <1>8, <1>9, <1>10 DEF ContinueJob

\* The pending nonce starts a batch that fits the chain.
LEMMA SignedNext ==
    ASSUME NEW accounts \in Seq(PayableAccounts), NEW nonce \in Nat, IsPendingNonce(nonce),
           NoncesClosed, Nonces \subseteq Nat
    PROVE  NextNonces(Range(SignedBatch(accounts, nonce)), Nonces)
<1> DEFINE batch == SignedBatch(accounts, nonce)
<1>1. Len(accounts) \in Nat /\ DOMAIN accounts = 1 .. Len(accounts)
  OBVIOUS
<1>2. /\ DOMAIN batch = 1 .. Len(accounts)
      /\ \A i \in 1 .. Len(accounts) : batch[i].nonce = nonce + i - 1
  BY <1>1 DEF SignedBatch
<1> HIDE DEF batch
<1>3. \A h \in Range(batch) : \E i \in 1 .. Len(accounts) : h = batch[i]
  BY <1>2 DEF Range
<1>4. \A i \in 1 .. Len(accounts) : batch[i] \in Range(batch)
  BY <1>2 DEF Range
<1>5. \A n \in Nat : n >= nonce => n \notin Nonces
  BY DEF IsPendingNonce, NoncesClosed
<1>6. ASSUME NEW h \in Range(batch)
      PROVE  /\ h.nonce \notin Nonces
             /\ 0 .. h.nonce - 1 \subseteq Nonces \cup {g.nonce : g \in Range(batch)}
  <2>1. PICK i \in 1 .. Len(accounts) : h = batch[i]
    BY <1>3
  <2>2. h.nonce = nonce + i - 1 /\ h.nonce \in Nat /\ h.nonce >= nonce
    BY SMTT(30), <1>1, <1>2, <2>1
  <2>3. ASSUME NEW n \in 0 .. h.nonce - 1, n >= nonce
        PROVE  n \in {g.nonce : g \in Range(batch)}
    <3>1. n - nonce + 1 \in 1 .. Len(accounts)
      BY SMTT(30), <1>1, <2>1, <2>2, <2>3
    <3>2. batch[n - nonce + 1].nonce = nonce + (n - nonce + 1) - 1
      BY <1>2, <3>1
    <3>3. nonce + (n - nonce + 1) - 1 = n
      BY SMTT(30), <2>2, <2>3
    <3>4. \E g \in Range(batch) : g.nonce = n
      BY SMTT(30), <1>4, <3>1, <3>2, <3>3
    <3> QED BY <3>4
  <2>4. ASSUME NEW n \in 0 .. h.nonce - 1, ~(n >= nonce) PROVE n \in Nonces
    BY SMTT(30), <2>2, <2>4 DEF IsPendingNonce
  <2> QED BY SMTT(30), <1>5, <2>2, <2>3, <2>4
<1>7. NextNonces(Range(batch), Nonces)
  BY <1>6 DEF NextNonces
<1> QED BY <1>7 DEF batch

LEMMA KnownFutures ==
    ASSUME TypeOK, NothingRefused, ScanInv("Payables"), KnownInv, NEW s \in Slots, Continue(s)
    PROVE  CarriedKnown'
<1>1. CarriedKnown /\ KnownFuture(futures[s], fingerprints, Nonces)
  BY SMTT(30) DEF KnownInv, CarriedKnown
<1>2. ASSUME NEW m \in Messages, Complete(s, <<m>>), UNCHANGED external,
             KnownMessage(m, fingerprints, chain)
      PROVE  CarriedKnown'
  <2>1. /\ Send(<<m>>) /\ UNCHANGED <<fingerprints, job, chain>>
        /\ futures' = [futures EXCEPT ![s] = NoFuture]
    BY <1>2 DEF Complete, database, external
  <2>2. Nonces' = Nonces
    BY SMTT(30), <2>1 DEF Nonces
  <2>3. KnownFuture(NoFuture, fingerprints', Nonces')
    BY DEF KnownFuture, NoFuture
  <2>4. \A r \in Slots : futures'[r] = futures[r] \/ KnownFuture(futures'[r], fingerprints', Nonces')
    BY SMTT(30), <2>1, <2>3, FuturesAfterStep
  <2>5. KnownMessage(m, fingerprints', chain')
    BY ZenonT(30), <1>2, <2>1
  <2>6. \A i \in 1 .. Len(mailbox') : \/ \E k \in 1 .. Len(mailbox) : mailbox'[i] = mailbox[k]
                                      \/ KnownMessage(mailbox'[i], fingerprints', chain')
    BY ZenonT(30), <1>2, <2>1, <2>5, MailAfterSend
  <2> QED BY ZenonT(30), <1>1, <2>1, <2>2, <2>4, <2>6, KnownFrom
<1>3. CASE BuildBlockchainAgent(s)
  <2>1. /\ futures[s].accounts \in Seq(PayableAccounts)
        /\ "Payables" \in ScanTypes
    BY SMTT(30), <1>3, CarriedTypes DEF BuildBlockchainAgent, ScanTypes
  <2>2. /\ AgentWithContext(futures[s].accounts) \in Messages
        /\ ScanError("Payables") \in Messages
    BY ZenonT(30), <2>1, SentTypes
  <2>3. /\ KnownMessage(AgentWithContext(futures[s].accounts), fingerprints, chain)
        /\ KnownMessage(ScanError("Payables"), fingerprints, chain)
    BY DEF KnownMessage, AgentWithContext, ScanError
  <2> QED BY SMTT(30), <1>2, <1>3, <2>2, <2>3 DEF BuildBlockchainAgent
<1>4. CASE BatchAnswered(s)
  <2> DEFINE oks == futures[s].taken
             errs == Refused(futures[s].batch, futures[s].taken)
  <2>1. /\ oks \in SUBSET Hashes /\ errs = {}
        /\ Complete(s, <<SentPayables(oks, errs)>>) /\ UNCHANGED external
    BY Zenon, <1>1, <1>4, CarriedTypes DEF BatchAnswered, KnownFuture, Refused
  <2> HIDE DEF oks, errs
  <2>2. SentPayables(oks, errs) \in Messages
    BY SMTT(30), <2>1, SentTypes
  <2>3. KnownMessage(SentPayables(oks, errs), fingerprints, chain)
    BY SMTT(30), <2>1 DEF KnownMessage, SentPayables
  <2> QED BY SMTT(30), <1>2, <2>1, <2>2, <2>3
<1>5. ~NonceQueryFails(s) /\ ~SubmitBatchFails(s)
  BY SMTT(30) DEF NonceQueryFails, SubmitBatchFails, NothingRefused
<1>6. CASE SignAndSubmit(s)
  <2>1. /\ UNCHANGED <<job, fingerprints, chain>>
        /\ futures[s].accounts \in Seq(PayableAccounts)
    BY SMTT(30), <1>6, SignStep DEF database, external
  <2>2. PICK nonce \in Nat :
          /\ IsPendingNonce(nonce)
          /\ SignedBatch(futures[s].accounts, nonce) \in Seq(Hashes)
          /\ Send(<<Seeds(SignedBatch(futures[s].accounts, nonce))>>)
          /\ futures' = [futures EXCEPT ![s] = Submitting(SignedBatch(futures[s].accounts, nonce))]
    BY SMTT(30), <1>6, SignStep
  <2> DEFINE batch == SignedBatch(futures[s].accounts, nonce)
  <2>3. Nonces' = Nonces /\ Nonces \subseteq Nat
    BY SMTT(30), <2>1 DEF Nonces, TypeOK, Hashes
  <2>4. NextNonces(Range(batch), Nonces)
    BY SMTT(30), <2>1, <2>2, <2>3, SignedNext DEF KnownInv
  <2>5. batch \in Seq(Hashes) /\ Send(<<Seeds(batch)>>)
        /\ futures' = [futures EXCEPT ![s] = Submitting(batch)]
    BY ZenonT(30), <2>2
  <2> HIDE DEF batch
  <2>6. /\ KnownFuture(Submitting(batch), fingerprints', Nonces')
        /\ KnownMessage(Seeds(batch), fingerprints', chain')
    BY SMTT(30), <2>3, <2>4 DEF KnownFuture, Submitting, KnownMessage, Seeds
  <2>7. \A r \in Slots : futures'[r] = futures[r] \/ KnownFuture(futures'[r], fingerprints', Nonces')
    BY <2>5, <2>6, FuturesAfterStep
  <2>8. Seeds(batch) \in Messages
    BY SMTT(30), <2>5, SentTypes
  <2>9. \A i \in 1 .. Len(mailbox') : \/ \E k \in 1 .. Len(mailbox) : mailbox'[i] = mailbox[k]
                                      \/ KnownMessage(mailbox'[i], fingerprints', chain')
    BY Zenon, <2>5, <2>6, <2>8, MailAfterSend
  <2> QED BY ZenonT(30), <1>1, <2>1, <2>3, <2>7, <2>9, KnownFrom
<1>7. CASE ChainTakesBatch(s)
  <2> DEFINE batch == Range(futures[s].batch)
  <2>1. /\ futures[s].stage = "submit" /\ UNCHANGED <<job, fingerprints, mailbox>>
        /\ chain \subseteq chain'
        /\ futures' = [futures EXCEPT ![s] = Submitted(futures[s].batch, batch)]
    BY Zenon, <1>7, TakenWhole DEF ChainTakesBatch, database
  <2>2. \A fp : Mined(fp, chain) => Mined(fp, chain')
    BY <2>1 DEF Mined
  <2>3. \A r \in Slots : r # s => futures[r].stage # "submit"
    BY SMTT(30), <2>1 DEF ScanInv, ScanFuture, StagesOf
  <2>4. KnownFuture(Submitted(futures[s].batch, batch), fingerprints', Nonces')
    BY ZenonT(30) DEF KnownFuture, Submitted
  <2>5. \A r \in Slots : r # s => KnownFuture(futures[r], fingerprints', Nonces')
    BY Zenon, <1>1, <2>1, <2>3 DEF KnownFuture, CarriedKnown
  <2>6. \A r \in Slots : KnownFuture(futures'[r], fingerprints', Nonces')
    <3>1. /\ futures'[s] = Submitted(futures[s].batch, batch)
          /\ \A r \in Slots : r # s => futures'[r] = futures[r]
      BY ZenonT(30), <2>1, FuturesAfterStep
    <3> QED BY SMTT(30), <2>4, <2>5, <3>1
  <2>7. \A i \in 1 .. Len(mailbox') : KnownMessage(mailbox'[i], fingerprints', chain')
    BY <1>1, <2>1, <2>2 DEF KnownMessage, CarriedKnown
  <2>8. KnownJob(job', fingerprints', chain')
    BY ZenonT(30), <1>1, <2>1, <2>2 DEF KnownJob, CarriedKnown
  <2> QED BY SMTT(30), <2>6, <2>7, <2>8 DEF CarriedKnown
<1>8. CASE ProcessTransactionReceipts(s)
  <2>1. /\ futures[s].stage = "receipts" /\ futures[s].fps \subseteq Fingerprints
        /\ "PendingPayables" \in ScanTypes /\ UNCHANGED external
    BY <1>8, CarriedTypes DEF ProcessTransactionReceipts, ScanTypes
  <2>2. CASE Complete(s, <<ScanError("PendingPayables")>>)
    <3>1. ScanError("PendingPayables") \in Messages
      BY SMTT(30), <2>1, SentTypes
    <3>2. KnownMessage(ScanError("PendingPayables"), fingerprints, chain)
      BY ZenonT(30) DEF KnownMessage, ScanError
    <3> QED BY <1>2, <2>1, <2>2, <3>1, <3>2
  <2>3. ASSUME NEW answer \in [futures[s].fps -> {"pending", "ok", "failed"}],
               \A fp \in futures[s].fps : answer[fp] \in ReceiptOf(fp),
               LET those(status) == {fp \in futures[s].fps : answer[fp] = status}
               IN  Complete(s, <<ReportTransactionReceipts(those("ok"), those("failed"),
                                                           those("pending"))>>)
        PROVE  CarriedKnown'
    <3> DEFINE ok == {fp \in futures[s].fps : answer[fp] = "ok"}
               failed == {fp \in futures[s].fps : answer[fp] = "failed"}
               still == {fp \in futures[s].fps : answer[fp] = "pending"}
    <3>1. /\ ok \in SUBSET Fingerprints /\ failed \in SUBSET Fingerprints
          /\ still \in SUBSET Fingerprints
      BY <2>1
    <3>2. ASSUME NEW fp \in ok PROVE Known(fp, fingerprints) /\ Mined(fp, chain)
      <4>1. Known(fp, fingerprints)
        BY ZenonT(30), <1>1, <2>1 DEF KnownFuture
      <4>2. "ok" \in ReceiptOf(fp)
        BY <2>3
      <4>3. Mined(fp, chain)
        BY SMTT(30), <4>2 DEF ReceiptOf, Mined
      <4> QED BY SMTT(30), <4>1, <4>3
    <3>3. Complete(s, <<ReportTransactionReceipts(ok, failed, still)>>)
      BY SMTT(30), <2>3
    <3> HIDE DEF ok, failed, still
    <3>4. ReportTransactionReceipts(ok, failed, still) \in Messages
      BY SMTT(30), <3>1, SentTypes
    <3>5. KnownMessage(ReportTransactionReceipts(ok, failed, still), fingerprints, chain)
      BY Zenon, <3>2 DEF KnownMessage, ReportTransactionReceipts
    <3> QED BY SMTT(30), <1>2, <2>1, <3>3, <3>4, <3>5
  <2> QED BY ZenonT(30), <1>8, <2>2, <2>3 DEF ProcessTransactionReceipts
<1> QED BY SMTT(30), <1>3, <1>4, <1>5, <1>6, <1>7, <1>8 DEF Continue

\* Receipts are asked, reported and booked for rows that are still there.
LEMMA KnownStep ==
    ASSUME TypeOK, NothingRefused, ScanInv("Payables"), ScanInv("PendingPayables"), KnownInv,
           [Next]_vars
    PROVE  KnownInv'
<1>1. CarriedKnown
  BY DEF KnownInv
<1>2. ASSUME UNCHANGED <<fingerprints, job, mailbox, futures>>, Nonces' = Nonces,
             \A fp : Mined(fp, chain) => Mined(fp, chain')
      PROVE  CarriedKnown'
  <2>1. \A fp : Known(fp, fingerprints) => Known(fp, fingerprints')
    BY <1>2
  <2> QED BY <1>1, <1>2, <2>1, KnownFrom
<1>3. ASSUME UNCHANGED <<fingerprints, job, mailbox, futures, chain>> PROVE CarriedKnown'
  BY <1>2, <1>3 DEF Nonces
<1>4. ASSUME ScanForPayables \/ ScanForPendingPayables \/ HandleMessage PROVE CarriedKnown'
  BY <1>1, <1>4, KnownHandlers
<1>5. ASSUME ContinueJob PROVE CarriedKnown'
  BY SMTT(30), <1>1, <1>5, KnownJobs
<1>6. ASSUME \E s \in Slots : Continue(s) PROVE CarriedKnown'
  BY SMTT(30), <1>6, KnownFutures
<1>7. ASSUME Mine PROVE CarriedKnown'
  <2>1. PICK tx \in chain, status \in {"ok", "failed"} :
          /\ tx.status = "pending"
          /\ chain' = (chain \ {tx}) \cup {[hash |-> tx.hash, status |-> status]}
    BY Zenon, <1>7, NoncesAfterMining
  <2>2. \A fp : Mined(fp, chain) => Mined(fp, chain')
    BY <2>1 DEF Mined
  <2> QED BY Zenon, <1>2, <1>7, <2>2, NoncesAfterMining DEF Mine, database
<1>8. ASSUME Crash PROVE CarriedKnown'
  BY ZenonT(30), <1>8, KnownGoDown DEF Crash
<1>9. CarriedKnown'
  BY SMTT(30), <1>3, <1>4, <1>5, <1>6, <1>7, <1>8
  DEF Next, RecordServiceConsumed, Mature, Restart, vars, database, external
<1>10. RowidsDiffer'
  BY RowidsStep DEF KnownInv
<1> QED BY <1>9, <1>10, ChainStep DEF KnownInv
LEMMA KnownInvariant == Spec => [](NothingRefused => KnownInv)
<1>1. Init => KnownInv
  BY SMTT(60) DEF Init, KnownInv, NoncesClosed, HashesDiffer, RowidsDiffer, CarriedKnown, Nonces,
     KnownFuture, KnownMessage, KnownJob, NoJob, NoFuture
<1>2. ASSUME TypeOK, TypeOK', ScanInv("PendingPayables"),
             PaymentsAnswered => ScanInv("Payables"),
             NothingRefused => KnownInv, [Next]_vars
      PROVE  NothingRefused' => KnownInv'
  <2>1. NothingRefused' => NothingRefused
    BY <1>2, SceneFixed DEF NothingRefused, Faults
  <2>2. NothingRefused => PaymentsAnswered
    BY DEF NothingRefused, PaymentsAnswered
  <2> QED BY <1>2, <2>1, <2>2, KnownStep
<1> QED BY <1>1, <1>2, PendingScanInvariant, PayableScanInvariant, PTL DEF Spec

\* One update of transactions_confirmed(): the row it finds by its number is of
\* the payee of the transaction, which is mined.
LEMMA ConfirmationStep ==
    ASSUME TypeOK, MarksHaveFingerprints, KnownInv, [Next]_vars,
           NEW w \in Wallets, rowid[w] # 0, rowid'[w] = 0
    PROVE  \E tx \in chain : /\ tx.status = "ok"
                             /\ tx.hash.to = w
                             /\ balance'[w] = balance[w] - tx.hash.amount
<1>1. CASE MarkPendingPayable
  <2> DEFINE marked == {fp \in {f \in fingerprints : f.hash \in job.oks} : rowid[fp.hash.to] = 0}
  <2>1. rowid' = [v \in Wallets |-> IF \E fp \in marked : fp.hash.to = v
                                    THEN (CHOOSE fp \in marked : fp.hash.to = v).rowid
                                    ELSE rowid[v]]
    BY ZenonT(30), <1>1 DEF MarkPendingPayable
  <2>2. \A fp \in marked : fp.rowid # 0
    BY ZenonT(30) DEF TypeOK, Fingerprints
  <2> HIDE DEF marked
  <2> QED BY <2>1, <2>2
<1>2. CASE TransactionConfirmed
  <2>1. PICK fp \in job.confirmed :
          LET rows == {v \in Wallets : rowid[v] = fp.rowid}
          IN  /\ balance' = [v \in Wallets |->
                                IF v \in rows THEN Credited(balance[v], fp) ELSE balance[v]]
              /\ rowid' = [v \in Wallets |-> IF v \in rows THEN 0 ELSE rowid[v]]
    BY Zenon, <1>2 DEF TransactionConfirmed
  <2>2. rowid[w] = fp.rowid /\ balance'[w] = balance[w] - fp.hash.amount
    BY <2>1 DEF Credited
  <2>3. Known(fp, fingerprints) /\ Mined(fp, chain)
    BY Zenon, <1>2 DEF KnownInv, CarriedKnown, KnownJob, TransactionConfirmed
  <2>4. PICK f \in fingerprints : f.rowid = fp.rowid /\ f.hash = fp.hash
    BY Zenon, <2>3 DEF Known
  <2>5. PICK g \in fingerprints : g.rowid = rowid[w] /\ g.hash.to = w
    BY Zenon DEF MarksHaveFingerprints
  <2>6. fp.hash.to = w
    BY SMTT(30), <2>2, <2>4, <2>5 DEF KnownInv, RowidsDiffer
  <2> QED BY <2>2, <2>3, <2>6 DEF Mined
<1>3. CASE ContinueJob
  BY ZenonT(30), <1>1, <1>2, <1>3 DEF ContinueJob, DiscardFailedTransactions, DeleteConfirmed,
     CancelFailedTransactions, UpdateRemainingFingerprints, database
<1>4. CASE HandleMessage
  BY ZenonT(30), <1>4 DEF HandleMessage, HandlePayablePaymentSetup, HandleNewPendingPayableFingerprints,
     HandleSentPayables, HandleScanError, HandleReportTransactionReceipts, database
<1>5. CASE \E s \in Slots : Continue(s)
  BY Zenon, <1>5 DEF Continue, BuildBlockchainAgent, SignAndSubmit, NonceQueryFails, ChainTakesBatch,
     BatchAnswered, SubmitBatchFails, ProcessTransactionReceipts, Complete, database
<1> QED BY Zenon, <1>3, <1>4, <1>5
        DEF Next, RecordServiceConsumed, Mature, ScanForPayables, ScanForPendingPayables, Mine,
        Crash, Restart, vars, database

\* However the Node crashes and restarts, transactions_confirmed() takes off a
\* balance what a mined transaction to that very wallet carried, if the chain
\* takes every transaction: rows of pending_payable are then only deleted by
\* the receipt scan itself, so that no number is given away under a receipt.
THEOREM ConfirmationsCredit == Spec /\ NothingRefused => ConfirmationCreditsItsPayee
<1> DEFINE Credits == \A w \in Wallets :
                rowid[w] # 0 /\ rowid'[w] = 0
                   => \E tx \in chain : /\ tx.status = "ok"
                                        /\ tx.hash.to = w
                                        /\ balance'[w] = balance[w] - tx.hash.amount
<1>1. ASSUME TypeOK, TypeOK', NothingRefused, [Next]_vars PROVE NothingRefused'
  BY SMTT(30), <1>1, SceneFixed DEF NothingRefused, Faults
<1>2. ASSUME TypeOK, NothingRefused, PaymentsAnswered => FreshInv /\ MarksHaveFingerprints,
             NothingRefused => KnownInv, [Next]_vars
      PROVE  Credits
  <2>1. PaymentsAnswered
    BY SMTT(30), <1>2 DEF NothingRefused, PaymentsAnswered
  <2> QED BY <1>2, <2>1, ConfirmationStep
<1>3. Credits => [Credits]_vars
  OBVIOUS
<1> HIDE DEF Credits
<1>4. Spec /\ NothingRefused => [][Credits]_vars
  BY <1>1, <1>2, <1>3, TypeCorrect, MarksInvariant, KnownInvariant, PTL DEF Spec
<1> QED BY <1>4 DEF ConfirmationCreditsItsPayee, Credits
=============================================================================
