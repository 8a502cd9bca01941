------------------------- MODULE PayableDebtsProofs -------------------------
(***************************************************************************)
(* Debts are paid once, for every set of wallets and futures and every     *)
(* bound: while nothing fails and the Node is in its first life, the       *)
(* table, the marks and the contract agree up to the payments under way.   *)
(***************************************************************************)
EXTENDS PayableBooksProofs

-----------------------------------------------------------------------------
(* Debts are paid once                                                     *)

\* Nothing has gone wrong, and the Node is in its first life.
FairSoFar == Faults = {} /\ restarts = 0

\* The transaction h is in the chain and on its way to the mark.
Taken(h, f) == f.stage = "taken" /\ h \in f.taken
Sent(h, m) == m.type = "SentPayables" /\ h \in m.oks
Marking(h, j) == j.at = "mark" /\ h \in j.oks

Paying(h) ==
    \/ \E s \in Slots : Taken(h, futures[s])
    \/ \E i \in 1 .. Len(mailbox) : Sent(h, mailbox[i])
    \/ Marking(h, job)

\* The row of w points to its fingerprint.
Marked(w, h) == rowid[w] # 0 /\ \E fp \in fingerprints : fp.rowid = rowid[w] /\ fp.hash = h

\* A payment to w that the chain has and the balance does not show yet.
Open(w, h) == h.to = w /\ (Paying(h) \/ Marked(w, h))

\* What is about to be paid is owed, by the balances b.
OwedAccounts(accounts, b) ==
    \A i \in DOMAIN accounts : accounts[i].balance \in 0 .. b[accounts[i].wallet]

OwedFuture(f, b) ==
    /\ f.stage \in {"agent", "nonce"} => OwedAccounts(f.accounts, b)
    /\ f.stage = "submit" => \A h \in Range(f.batch) : h.amount \in 0 .. b[h.to]

OwedMessage(m, b) ==
    m.type = "BlockchainAgentWithContextMessage" => OwedAccounts(m.accounts, b)

OwedInv ==
    /\ \A s \in Slots : OwedFuture(futures[s], balance)
    /\ \A i \in 1 .. Len(mailbox) : OwedMessage(mailbox[i], balance)

\* What the contract pays, or may still pay, for tx.
Outstanding(tx) == IF tx.status = "failed" THEN 0 ELSE tx.hash.amount

\* The books of w: with no payment open, they agree with the contract; with one,
\* they differ by what it pays, and the balance covers it.
WalletBooks(w) ==
    /\ balance[w] >= 0
    /\ (\A h \in Hashes : ~Open(w, h)) => committed[w] = charged[w] - balance[w]
    /\ \A h \in Hashes :
          Open(w, h) => \E tx \in chain :
                           /\ tx.hash = h
                           /\ h.amount \in 0 .. balance[w]
                           /\ committed[w] = charged[w] - balance[w] + Outstanding(tx)

BooksInv ==
    /\ \A tx \in chain : tx.status = "pending" => Open(tx.hash.to, tx.hash)
    /\ \A w \in Wallets : WalletBooks(w)

DownInv ==
    /\ job = NoJob
    /\ mailbox = <<>>
    /\ \A s \in Slots : futures[s] = NoFuture
    /\ NoOverpayment

PaidOnceInv ==
    /\ \A tx \in chain : tx.hash.amount >= 0
    /\ node = "up" => OwedInv /\ BooksInv
    /\ node # "up" => DownInv

\* The payments under way in the mailbox and in the futures, after a step.
LEMMA SentAfterReceive ==
    ASSUME TypeOK, NEW type, Receive(type), NEW h
    PROVE  (\E i \in 1 .. Len(mailbox) : Sent(h, mailbox[i]))
             <=> Sent(h, Head(mailbox)) \/ \E i \in 1 .. Len(mailbox') : Sent(h, mailbox'[i])
<1>1. mailbox \in Seq(Messages) /\ mailbox # <<>> /\ mailbox' = Tail(mailbox)
  BY DEF TypeOK, Receive
<1>2. /\ Head(mailbox) = mailbox[1]
      /\ Len(mailbox) \in Nat /\ Len(mailbox) > 0
      /\ Len(mailbox') = Len(mailbox) - 1
      /\ \A i \in 1 .. Len(mailbox) - 1 : mailbox'[i] = mailbox[i + 1]
  BY <1>1
<1>3. \A i \in 1 .. Len(mailbox) : i = 1 \/ (i - 1 \in 1 .. Len(mailbox') /\ mailbox'[i - 1] = mailbox[i])
  BY SMTT(30), <1>2
<1>4. ASSUME NEW i \in 1 .. Len(mailbox), Sent(h, mailbox[i])
      PROVE  Sent(h, Head(mailbox)) \/ \E k \in 1 .. Len(mailbox') : Sent(h, mailbox'[k])
  BY SMTT(30), <1>2, <1>3, <1>4
<1>5. ASSUME NEW i \in 1 .. Len(mailbox'), Sent(h, mailbox'[i])
      PROVE  \E k \in 1 .. Len(mailbox) : Sent(h, mailbox[k])
  BY SMTT(30), <1>2, <1>5
<1>6. 1 \in 1 .. Len(mailbox)
  BY SMTT(30), <1>2
<1> QED BY SMTT(30), <1>2, <1>4, <1>5, <1>6

LEMMA SentAfterSend ==
    ASSUME TypeOK, NEW m \in Messages, Send(<<m>>), NEW h
    PROVE  (\E i \in 1 .. Len(mailbox') : Sent(h, mailbox'[i]))
             <=> Sent(h, m) \/ \E i \in 1 .. Len(mailbox) : Sent(h, mailbox[i])
<1>1. mailbox \in Seq(Messages) /\ mailbox' = mailbox \o <<m>>
  BY DEF TypeOK, Send
<1>2. /\ Len(mailbox) \in Nat
      /\ Len(mailbox') = Len(mailbox) + 1
      /\ mailbox'[Len(mailbox) + 1] = m
      /\ \A i \in 1 .. Len(mailbox) : mailbox'[i] = mailbox[i]
  BY <1>1
<1>3. \A i \in 1 .. Len(mailbox') : i \in 1 .. Len(mailbox) \/ i = Len(mailbox) + 1
  BY SMTT(30), <1>2
<1>4. Len(mailbox) + 1 \in 1 .. Len(mailbox') /\ \A i \in 1 .. Len(mailbox) : i \in 1 .. Len(mailbox')
  BY SMTT(30), <1>2
<1> QED BY SMTT(30), <1>2, <1>3, <1>4

LEMMA TakenAfterStep ==
    ASSUME TypeOK, NEW r \in Slots, NEW f, futures' = [futures EXCEPT ![r] = f], NEW h,
           Taken(h, futures[r]) <=> Taken(h, f)
    PROVE  (\E s \in Slots : Taken(h, futures'[s])) <=> \E s \in Slots : Taken(h, futures[s])
<1>1. futures'[r] = f /\ \A s \in Slots : s # r => futures'[s] = futures[s]
  BY Zenon, FuturesAfterStep
<1> QED BY <1>1

LEMMA TakenAfterSpawn ==
    ASSUME TypeOK, NEW f, Spawn(f), f.stage # "taken", NEW h
    PROVE  (\E s \in Slots : Taken(h, futures'[s])) <=> \E s \in Slots : Taken(h, futures[s])
<1>1. PICK r \in Slots : futures[r] = NoFuture /\ futures' = [futures EXCEPT ![r] = f]
  BY ZenonT(30) DEF Spawn
<1>2. ~Taken(h, futures[r]) /\ ~Taken(h, f)
  BY <1>1 DEF Taken, NoFuture
<1> QED BY <1>1, <1>2, TakenAfterStep

\* A payment on its way to the mark has no mark, and is the only one to its payee.
LEMMA PayingUnmarked ==
    ASSUME FreshInv, NEW h, Paying(h)
    PROVE  rowid[h.to] = 0
<1>1. ASSUME NEW s \in Slots, Taken(h, futures[s]) PROVE rowid[h.to] = 0
  <2>1. futures[s].stage = "taken" /\ h \in futures[s].taken /\ FreshFuture(futures[s], rowid)
    BY ZenonT(30), <1>1 DEF Taken, FreshInv
  <2>2. h \in Range(futures[s].batch) /\ FreshHashes(Range(futures[s].batch), rowid)
    BY SMTT(30), <2>1 DEF FreshFuture
  <2> QED BY SMTT(30), <2>2 DEF FreshHashes
<1>2. ASSUME NEW i \in 1 .. Len(mailbox), Sent(h, mailbox[i]) PROVE rowid[h.to] = 0
  <2>1. FreshHashes(mailbox[i].oks \cup mailbox[i].errs, rowid) /\ h \in mailbox[i].oks
    BY Zenon, <1>2 DEF Sent, FreshInv, FreshMessage
  <2> QED BY ZenonT(30), <2>1 DEF FreshHashes
<1>3. ASSUME Marking(h, job) PROVE rowid[h.to] = 0
  <2>1. FreshHashes(job.oks \cup job.errs, rowid) /\ h \in job.oks
    BY SMTT(30), <1>3 DEF Marking, FreshInv, FreshJob
  <2> QED BY SMTT(30), <2>1 DEF FreshHashes
<1> QED BY SMTT(30), <1>1, <1>2, <1>3 DEF Paying

LEMMA PayingOne ==
    ASSUME TypeOK, FreshInv, ScanInv("Payables"), NEW g, NEW h, Paying(g), Paying(h), g.to = h.to
    PROVE  g = h
<1>1. \A s \in Slots : ScanFuture("Payables", s) <=> futures[s].stage \in {"agent", "nonce", "submit", "taken"}
  BY DEF ScanFuture, StagesOf
<1>2. \A i \in 1 .. Len(mailbox) : i \in Nat /\ (mailbox[i].type = "SentPayables" => ScanMessage("Payables", i))
  BY DEF ScanMessage, EndsScan, EndsPayableScan, TypeOK
<1>3. job.at = "mark" => ScanJob("Payables")
  BY SMTT(30) DEF ScanJob, JobsOf
<1>4. ASSUME NEW s \in Slots, Taken(g, futures[s]), Taken(h, futures[s]) PROVE g = h
  <2>1. futures[s].stage = "taken" /\ {g, h} \subseteq futures[s].taken /\ FreshFuture(futures[s], rowid)
    BY SMTT(30), <1>4 DEF Taken, FreshInv
  <2>2. {g, h} \subseteq Range(futures[s].batch) /\ FreshHashes(Range(futures[s].batch), rowid)
    BY ZenonT(30), <2>1 DEF FreshFuture
  <2> QED BY SMTT(30), <2>2 DEF FreshHashes
<1>5. ASSUME NEW i \in 1 .. Len(mailbox), Sent(g, mailbox[i]), Sent(h, mailbox[i]) PROVE g = h
  <2>1. FreshHashes(mailbox[i].oks \cup mailbox[i].errs, rowid) /\ {g, h} \subseteq mailbox[i].oks
    BY SMTT(30), <1>5 DEF Sent, FreshInv, FreshMessage
  <2> QED BY ZenonT(30), <2>1 DEF FreshHashes
<1>6. ASSUME Marking(g, job), Marking(h, job) PROVE g = h
  <2>1. FreshHashes(job.oks \cup job.errs, rowid) /\ {g, h} \subseteq job.oks
    BY ZenonT(30), <1>6 DEF Marking, FreshInv, FreshJob
  <2> QED BY SMTT(30), <2>1 DEF FreshHashes
<1>7. /\ \A s \in Slots : \A t : Taken(t, futures[s]) => ScanFuture("Payables", s)
      /\ \A i \in 1 .. Len(mailbox) : \A t : Sent(t, mailbox[i]) => ScanMessage("Payables", i) /\ i \in Nat
      /\ \A t : Marking(t, job) => ScanJob("Payables")
  BY SMTT(30), <1>1, <1>2, <1>3 DEF Taken, Sent, Marking
<1> QED BY ZenonT(30), <1>4, <1>5, <1>6, <1>7 DEF Paying, ScanInv

LEMMA OpenOne ==
    ASSUME TypeOK, FreshInv, ScanInv("Payables"), RowidsDiffer,
           NEW w, NEW g, NEW h, Open(w, g), Open(w, h)
    PROVE  g = h
<1>1. g.to = w /\ h.to = w
  BY SMTT(30) DEF Open
<1>2. CASE rowid[w] = 0
  BY SMTT(30), <1>1, <1>2, PayingOne DEF Open, Marked
<1>3. CASE rowid[w] # 0
  <2>1. Marked(w, g) /\ Marked(w, h)
    BY SMTT(30), <1>1, <1>3, PayingUnmarked DEF Open
  <2> QED BY SMTT(30), <2>1 DEF Marked, RowidsDiffer
<1> QED BY SMTT(30), <1>2, <1>3
\* What is owed stays owed while balances grow, or fall for marked payables.
LEMMA OwedKept ==
    ASSUME NEW b \in [Wallets -> Int], NEW c \in [Wallets -> Int], NEW r,
           \A w \in Wallets : c[w] >= b[w] \/ r[w] # 0
    PROVE  /\ \A f \in Futures : OwedFuture(f, b) /\ FreshFuture(f, r) => OwedFuture(f, c)
           /\ \A m \in Messages : OwedMessage(m, b) /\ FreshMessage(m, r) => OwedMessage(m, c)
<1>1. ASSUME NEW accounts \in Seq(PayableAccounts), OwedAccounts(accounts, b),
             FreshAccounts(accounts, r)
      PROVE  OwedAccounts(accounts, c)
  <2> SUFFICES ASSUME NEW i \in DOMAIN accounts
               PROVE  accounts[i].balance \in 0 .. c[accounts[i].wallet]
    BY DEF OwedAccounts
  <2>1. accounts[i] \in PayableAccounts
    BY SMTT(30)
  <2>2. accounts[i].wallet \in Wallets
    BY SMTT(30), <2>1 DEF PayableAccounts
  <2>3. accounts[i].balance \in 0 .. b[accounts[i].wallet] /\ r[accounts[i].wallet] = 0
    BY SMTT(30), <1>1 DEF OwedAccounts, FreshAccounts
  <2> QED BY SMTT(30), <2>2, <2>3
<1>2. ASSUME NEW f \in Futures, OwedFuture(f, b), FreshFuture(f, r) PROVE OwedFuture(f, c)
  <2>1. ASSUME f.stage \in {"agent", "nonce"} PROVE OwedAccounts(f.accounts, c)
    <3>1. f.accounts \in Seq(PayableAccounts)
      BY SMTT(30), <2>1 DEF Futures, NoFuture
    <3> QED BY SMTT(30), <1>1, <1>2, <2>1, <3>1 DEF OwedFuture, FreshFuture
  <2>2. ASSUME f.stage = "submit", NEW h \in Range(f.batch) PROVE h.amount \in 0 .. c[h.to]
    <3>1. f.batch \in Seq(Hashes)
      BY <2>2 DEF Futures, NoFuture
    <3>2. h \in Hashes
      BY SMTT(30), <3>1, RangeType
    <3>3. h.to \in Wallets
      BY SMTT(30), <3>2 DEF Hashes
    <3>4. r[h.to] = 0 /\ h.amount \in 0 .. b[h.to]
      BY ZenonT(30), <1>2, <2>2 DEF FreshFuture, FreshHashes, OwedFuture
    <3> QED BY SMTT(30), <3>3, <3>4
  <2> QED BY SMTT(30), <2>1, <2>2 DEF OwedFuture
<1>3. ASSUME NEW m \in Messages, OwedMessage(m, b), FreshMessage(m, r) PROVE OwedMessage(m, c)
  <2>1. ASSUME m.type = "BlockchainAgentWithContextMessage" PROVE OwedAccounts(m.accounts, c)
    <3>1. m.accounts \in Seq(PayableAccounts)
      BY SMTT(30), <2>1 DEF Messages
    <3> QED BY ZenonT(30), <1>1, <1>3, <2>1, <3>1 DEF OwedMessage, FreshMessage
  <2> QED BY SMTT(30), <2>1 DEF OwedMessage
<1> QED BY ZenonT(30), <1>2, <1>3

LEMMA OwedBalances ==
    ASSUME TypeOK, TypeOK', FreshInv, OwedInv, UNCHANGED <<mailbox, futures>>,
           \A w \in Wallets : balance'[w] >= balance[w] \/ rowid[w] # 0
    PROVE  OwedInv'
<1>1. balance \in [Wallets -> Int] /\ balance' \in [Wallets -> Int]
  BY SMTT(30) DEF TypeOK
<1>2. ASSUME NEW s \in Slots PROVE OwedFuture(futures'[s], balance')
  <2>1. /\ futures[s] \in Futures /\ FreshFuture(futures[s], rowid)
        /\ OwedFuture(futures[s], balance)
    BY SMTT(30) DEF TypeOK, FreshInv, OwedInv
  <2> QED BY SMTT(30), <1>1, <2>1, OwedKept
<1>3. ASSUME NEW i \in 1 .. Len(mailbox) PROVE OwedMessage(mailbox'[i], balance')
  <2>1. /\ mailbox[i] \in Messages /\ FreshMessage(mailbox[i], rowid)
        /\ OwedMessage(mailbox[i], balance)
    BY SMTT(30) DEF TypeOK, FreshInv, OwedInv
  <2> QED BY SMTT(30), <1>1, <2>1, OwedKept
<1> QED BY SMTT(30), <1>2, <1>3 DEF OwedInv

LEMMA OwedFrom ==
    ASSUME OwedInv, UNCHANGED balance,
           \A s \in Slots : futures'[s] = futures[s] \/ OwedFuture(futures'[s], balance),
           \A i \in 1 .. Len(mailbox') :
              \/ \E k \in 1 .. Len(mailbox) : mailbox'[i] = mailbox[k]
              \/ OwedMessage(mailbox'[i], balance)
    PROVE  OwedInv'
BY DEF OwedInv

\* What the Accountant's handlers and scans send on is owed.
LEMMA OwedHandlers ==
    ASSUME TypeOK, OwedInv, \A w \in Wallets : balance[w] >= 0,
           ScanForPayables \/ ScanForPendingPayables \/ HandleMessage
    PROVE  OwedInv'
<1>1. UNCHANGED balance
  BY ZenonT(30) DEF ScanForPayables, ScanForPendingPayables, HandleMessage, HandlePayablePaymentSetup,
     HandleNewPendingPayableFingerprints, HandleSentPayables, HandleScanError,
     HandleReportTransactionReceipts, database
<1>2. CASE ScanForPayables
  <2>1. ~ \E w \in NonPendingPayables : balance[w] < 0
    BY SMTT(30) DEF NonPendingPayables, TypeOK
  <2>2. PICK list \in Listings(QualifiedPayables) :
          Spawn(BuildingAgent(PayableAccountsOf(list))) /\ UNCHANGED mailbox
    BY ZenonT(30), <1>2, <2>1 DEF ScanForPayables
  <2> DEFINE accounts == PayableAccountsOf(list)
  <2>3. OwedAccounts(accounts, balance)
    <3>1. Cardinality(QualifiedPayables) \in Nat
      BY Zenon, CycleAssumption
      DEF QualifiedPayables, NonPendingPayables, CycleAssumption
    <3>2. list \in [1 .. Cardinality(QualifiedPayables) -> QualifiedPayables]
      BY <3>1 DEF Listings, Bijection, Injection
    <3>3. \A i \in DOMAIN list : list[i] \in Wallets
      BY SMTT(30), <3>2 DEF QualifiedPayables, NonPendingPayables
    <3>4. \A i \in DOMAIN list : balance[list[i]] \in 0 .. balance[list[i]]
      BY SMTT(30), <3>3 DEF TypeOK
    <3>5. DOMAIN accounts = DOMAIN list
          /\ \A i \in DOMAIN list : accounts[i] = [wallet |-> list[i], balance |-> balance[list[i]]]
      BY SMTT(30) DEF PayableAccountsOf
    <3> QED BY SMTT(60), <3>4, <3>5 DEF OwedAccounts
  <2> HIDE DEF accounts
  <2>4. OwedFuture(BuildingAgent(accounts), balance)
    BY SMTT(30), <2>3 DEF OwedFuture, BuildingAgent
  <2>5. \A s \in Slots : futures'[s] = futures[s] \/ OwedFuture(futures'[s], balance)
    BY ZenonT(30), <2>2, <2>4, FuturesAfterSpawn DEF accounts
  <2> QED BY SMTT(30), <1>1, <2>2, <2>5, OwedFrom
<1>3. CASE ScanForPendingPayables
  <2>1. PICK fps : Spawn(AskingReceipts(fps)) /\ UNCHANGED mailbox
    BY SMTT(30), <1>3 DEF ScanForPendingPayables
  <2>2. OwedFuture(AskingReceipts(fps), balance)
    BY SMTT(30) DEF AskingReceipts, OwedFuture
  <2>3. \A s \in Slots : futures'[s] = futures[s] \/ OwedFuture(futures'[s], balance)
    BY SMTT(30), <2>1, <2>2, FuturesAfterSpawn
  <2> QED BY ZenonT(30), <1>1, <2>1, <2>3, OwedFrom
<1>4. CASE HandlePayablePaymentSetup
  <2>1. Receive("BlockchainAgentWithContextMessage")
        /\ Spawn(AskingNonce(Head(mailbox).accounts))
    BY SMTT(30), <1>4 DEF HandlePayablePaymentSetup
  <2>2. OwedAccounts(Head(mailbox).accounts, balance)
    BY SMTT(30), <2>1, MailAfterReceive DEF OwedInv, OwedMessage, Receive
  <2>3. OwedFuture(AskingNonce(Head(mailbox).accounts), balance)
    BY SMTT(30), <2>2 DEF AskingNonce, OwedFuture
  <2>4. \A s \in Slots : futures'[s] = futures[s] \/ OwedFuture(futures'[s], balance)
    BY SMTT(30), <2>1, <2>3, FuturesAfterSpawn
  <2> QED BY SMTT(30), <1>1, <2>1, <2>4, MailAfterReceive, OwedFrom
<1>5. CASE HandleNewPendingPayableFingerprints \/ HandleSentPayables \/ HandleScanError
           \/ HandleReportTransactionReceipts
  <2>1. UNCHANGED futures /\ \E type : Receive(type)
    BY ZenonT(30), <1>5 DEF HandleNewPendingPayableFingerprints, HandleSentPayables, HandleScanError,
       HandleReportTransactionReceipts
  <2> QED BY ZenonT(30), <1>1, <2>1, MailAfterReceive, OwedFrom
<1> QED BY SMTT(30), <1>2, <1>3, <1>4, <1>5 DEF HandleMessage

\* ... and so is what the futures of the bridge do.
LEMMA OwedFutures ==
    ASSUME TypeOK, NothingRefused, OwedInv, NEW s \in Slots, Continue(s)
    PROVE  OwedInv'
<1>1. ASSUME NEW m \in Messages, Complete(s, <<m>>), OwedMessage(m, balance) PROVE OwedInv'
  <2>1. Send(<<m>>) /\ UNCHANGED balance /\ futures' = [futures EXCEPT ![s] = NoFuture]
    BY SMTT(30), <1>1 DEF Complete, database
  <2>2. OwedFuture(NoFuture, balance)
    BY DEF OwedFuture, NoFuture
  <2>3. \A r \in Slots : futures'[r] = futures[r] \/ OwedFuture(futures'[r], balance)
    BY SMTT(30), <2>1, <2>2, FuturesAfterStep
  <2>4. \A i \in 1 .. Len(mailbox') : \/ \E k \in 1 .. Len(mailbox) : mailbox'[i] = mailbox[k]
                                      \/ OwedMessage(mailbox'[i], balance)
    BY ZenonT(30), <1>1, <2>1, MailAfterSend
  <2> QED BY ZenonT(30), <2>1, <2>3, <2>4, OwedFrom
<1>2. OwedFuture(futures[s], balance)
  BY SMTT(30) DEF OwedInv
<1>3. CASE BuildBlockchainAgent(s)
  <2>1. /\ futures[s].stage = "agent" /\ futures[s].accounts \in Seq(PayableAccounts)
        /\ "Payables" \in ScanTypes
    BY SMTT(30), <1>3, CarriedTypes DEF BuildBlockchainAgent, ScanTypes
  <2>2. /\ AgentWithContext(futures[s].accounts) \in Messages
        /\ ScanError("Payables") \in Messages
    BY SMTT(30), <2>1, SentTypes
  <2>3. /\ OwedMessage(AgentWithContext(futures[s].accounts), balance)
        /\ OwedMessage(ScanError("Payables"), balance)
    BY Zenon, <1>2, <2>1 DEF OwedMessage, AgentWithContext, ScanError, OwedFuture
  <2> QED BY <1>1, <1>3, <2>2, <2>3 DEF BuildBlockchainAgent
<1>4. CASE BatchAnswered(s)
  <2> DEFINE oks == futures[s].taken
             errs == Refused(futures[s].batch, futures[s].taken)
  <2>1. /\ oks \in SUBSET Hashes /\ errs \in SUBSET Hashes
        /\ Complete(s, <<SentPayables(oks, errs)>>)
    BY ZenonT(30), <1>4, CarriedTypes, RangeType DEF BatchAnswered, Refused
  <2> HIDE DEF oks, errs
  <2>2. SentPayables(oks, errs) \in Messages
    BY SMTT(30), <2>1, SentTypes
  <2>3. OwedMessage(SentPayables(oks, errs), balance)
    BY SMTT(30) DEF OwedMessage, SentPayables
  <2> QED BY SMTT(30), <1>1, <2>1, <2>2, <2>3
<1>5. ~NonceQueryFails(s) /\ ~SubmitBatchFails(s)
  BY SMTT(30) DEF NonceQueryFails, SubmitBatchFails, NothingRefused
<1>6. CASE SignAndSubmit(s)
  <2>1. /\ UNCHANGED balance /\ futures[s].stage = "nonce"
        /\ futures[s].accounts \in Seq(PayableAccounts)
    BY SMTT(30), <1>6, SignStep DEF database
  <2>2. PICK nonce \in Nat :
          /\ SignedBatch(futures[s].accounts, nonce) \in Seq(Hashes)
          /\ Send(<<Seeds(SignedBatch(futures[s].accounts, nonce))>>)
          /\ futures' = [futures EXCEPT ![s] = Submitting(SignedBatch(futures[s].accounts, nonce))]
    BY SMTT(30), <1>6, SignStep
  <2> DEFINE batch == SignedBatch(futures[s].accounts, nonce)
  <2>3. \A h \in Range(batch) : h.amount \in 0 .. balance[h.to]
    <3> DEFINE accounts == futures[s].accounts
    <3>1. OwedAccounts(accounts, balance)
      BY SMTT(30), <1>2, <2>1 DEF OwedFuture
    <3>2. /\ DOMAIN batch = DOMAIN accounts
          /\ \A i \in DOMAIN accounts : /\ batch[i].to = accounts[i].wallet
                                        /\ batch[i].amount = accounts[i].balance
      BY Zenon DEF SignedBatch
    <3> HIDE DEF batch, accounts
    <3>3. \A h \in Range(batch) : \E i \in DOMAIN accounts : h = batch[i]
      BY SMTT(30), <3>2 DEF Range
    <3> QED BY SMTT(30), <3>1, <3>2, <3>3 DEF OwedAccounts
  <2>4. batch \in Seq(Hashes) /\ Send(<<Seeds(batch)>>)
        /\ futures' = [futures EXCEPT ![s] = Submitting(batch)]
    BY <2>2
  <2> HIDE DEF batch
  <2>5. OwedFuture(Submitting(batch), balance) /\ OwedMessage(Seeds(batch), balance)
    BY SMTT(30), <2>3 DEF OwedFuture, Submitting, OwedMessage, Seeds
  <2>6. \A r \in Slots : futures'[r] = futures[r] \/ OwedFuture(futures'[r], balance)
    BY SMTT(30), <2>4, <2>5, FuturesAfterStep
  <2>7. Seeds(batch) \in Messages
    BY SMTT(30), <2>4, SentTypes
  <2>8. \A i \in 1 .. Len(mailbox') : \/ \E k \in 1 .. Len(mailbox) : mailbox'[i] = mailbox[k]
                                      \/ OwedMessage(mailbox'[i], balance)
    BY ZenonT(30), <2>4, <2>5, <2>7, MailAfterSend
  <2> QED BY SMTT(30), <2>1, <2>6, <2>8, OwedFrom
<1>7. CASE ChainTakesBatch(s)
  <2>1. PICK taken : /\ UNCHANGED <<mailbox, balance>>
                     /\ futures' = [futures EXCEPT ![s] = Submitted(futures[s].batch, taken)]
    BY Zenon, <1>7 DEF ChainTakesBatch, database
  <2>2. OwedFuture(Submitted(futures[s].batch, taken), balance)
    BY DEF OwedFuture, Submitted
  <2>3. \A r \in Slots : futures'[r] = futures[r] \/ OwedFuture(futures'[r], balance)
    BY SMTT(30), <2>1, <2>2, FuturesAfterStep
  <2> QED BY SMTT(30), <2>1, <2>3, OwedFrom
<1>8. CASE ProcessTransactionReceipts(s)
  <2>1. futures[s].fps \subseteq Fingerprints /\ "PendingPayables" \in ScanTypes
    BY ZenonT(30), <1>8, CarriedTypes DEF ProcessTransactionReceipts, ScanTypes
  <2>2. \/ \E ok, failed, still \in SUBSET Fingerprints :
               Complete(s, <<ReportTransactionReceipts(ok, failed, still)>>)
        \/ Complete(s, <<ScanError("PendingPayables")>>)
    BY Zenon, <1>8, <2>1 DEF ProcessTransactionReceipts
  <2>3. /\ \A ok, failed, still : OwedMessage(ReportTransactionReceipts(ok, failed, still), balance)
        /\ OwedMessage(ScanError("PendingPayables"), balance)
    BY Zenon DEF OwedMessage, ReportTransactionReceipts, ScanError
  <2> QED BY ZenonT(30), <1>1, <2>1, <2>2, <2>3, SentTypes
<1> QED BY <1>3, <1>4, <1>5, <1>6, <1>7, <1>8 DEF Continue
\* Which payments are open does not change while the Accountant takes up scans
\* and messages, ...
LEMMA OpenHandlers ==
    ASSUME TypeOK, MarksHaveFingerprints, node' = "up",
           ScanForPayables \/ ScanForPendingPayables \/ HandleMessage,
           NEW w \in Wallets, NEW h
    PROVE  Open(w, h)' <=> Open(w, h)
<1>1. ASSUME Paying(h)' <=> Paying(h), UNCHANGED <<rowid, fingerprints>>
      PROVE  Open(w, h)' <=> Open(w, h)
  <2>1. Marked(w, h)' <=> Marked(w, h)
    BY SMTT(30), <1>1 DEF Marked
  <2> QED BY SMTT(30), <1>1, <2>1 DEF Open
<1>2. ASSUME NEW f, Spawn(f), f.stage # "taken", UNCHANGED <<mailbox, job>>
      PROVE  Paying(h)' <=> Paying(h)
  <2>1. (\E s \in Slots : Taken(h, futures'[s])) <=> \E s \in Slots : Taken(h, futures[s])
    BY SMTT(30), <1>2, TakenAfterSpawn
  <2> QED BY ZenonT(30), <1>2, <2>1 DEF Paying
<1>3. CASE ScanForPayables
  <2>1. PICK accounts : Spawn(BuildingAgent(accounts)) /\ UNCHANGED <<mailbox, job, database>>
    BY <1>3 DEF ScanForPayables, GoDown
  <2>2. BuildingAgent(accounts).stage # "taken"
    BY SMTT(30) DEF BuildingAgent
  <2> QED BY SMTT(30), <1>1, <1>2, <2>1, <2>2 DEF database
<1>4. CASE ScanForPendingPayables
  <2>1. PICK fps : Spawn(AskingReceipts(fps)) /\ UNCHANGED <<mailbox, job, database>>
    BY <1>4 DEF ScanForPendingPayables
  <2>2. AskingReceipts(fps).stage # "taken"
    BY SMTT(30) DEF AskingReceipts
  <2> QED BY <1>1, <1>2, <2>1, <2>2 DEF database
<1>5. ASSUME NEW type, Receive(type), type # "SentPayables",
             (\E s \in Slots : Taken(h, futures'[s])) <=> \E s \in Slots : Taken(h, futures[s]),
             ~Marking(h, job')
      PROVE  Paying(h)' <=> Paying(h)
  <2>1. ~Sent(h, Head(mailbox)) /\ ~Marking(h, job)
    BY SMTT(30), <1>5 DEF Receive, Sent, Marking, Idle, NoJob
  <2>2. (\E i \in 1 .. Len(mailbox) : Sent(h, mailbox[i]))
             <=> Sent(h, Head(mailbox)) \/ \E i \in 1 .. Len(mailbox') : Sent(h, mailbox'[i])
    BY SMTT(30), <1>5, SentAfterReceive
  <2> QED BY SMTT(30), <1>5, <2>1, <2>2 DEF Paying
<1>6. CASE HandlePayablePaymentSetup
  <2>1. /\ Receive("BlockchainAgentWithContextMessage") /\ UNCHANGED <<job, database>>
        /\ Spawn(AskingNonce(Head(mailbox).accounts))
    BY SMTT(30), <1>6 DEF HandlePayablePaymentSetup
  <2>2. AskingNonce(Head(mailbox).accounts).stage # "taken"
    BY SMTT(30) DEF AskingNonce
  <2>3. (\E s \in Slots : Taken(h, futures'[s])) <=> \E s \in Slots : Taken(h, futures[s])
    BY ZenonT(30), <2>1, <2>2, TakenAfterSpawn
  <2>4. ~Marking(h, job')
    BY SMTT(30), <2>1 DEF Receive, Idle, NoJob, Marking
  <2> QED BY ZenonT(30), <1>1, <1>5, <2>1, <2>3, <2>4 DEF database
<1>7. CASE HandleNewPendingPayableFingerprints
  <2>1. Receive("PendingPayableFingerprintSeeds") /\ UNCHANGED <<job, futures, rowid>>
    BY SMTT(30), <1>7 DEF HandleNewPendingPayableFingerprints
  <2> DEFINE hashes == Head(mailbox).hashes
  <2>2. hashes \in Seq(Hashes)
    BY SMTT(30), <2>1, ReceivedTypes
  <2>3. ~Marking(h, job')
    BY <2>1 DEF Receive, Idle, NoJob, Marking
  <2>4. Paying(h)' <=> Paying(h)
    BY <1>5, <2>1, <2>3
  <2>5. CASE fingerprints' = fingerprints
    BY SMTT(30), <1>1, <2>1, <2>4, <2>5
  <2>6. ASSUME NEW last \in {0} \cup RowidsOf(fingerprints),
               \A r \in RowidsOf(fingerprints) : r <= last,
               fingerprints' = fingerprints \cup NewFingerprints(last, hashes)
        PROVE  Open(w, h)' <=> Open(w, h)
    <3> HIDE DEF hashes
    <3>1. last \in Nat /\ \A f \in fingerprints : f.rowid \in Nat /\ f.rowid <= last
      BY SMTT(30), <2>6 DEF TypeOK, RowidsOf, Fingerprints
    <3>2. \A f \in NewFingerprints(last, hashes) : f.rowid \in Nat /\ f.rowid > last
      BY SMTT(30), <2>2, <3>1 DEF NewFingerprints
    <3>3. rowid[w] # 0 => \A f \in NewFingerprints(last, hashes) : f.rowid # rowid[w]
      BY SMTT(30), <3>1, <3>2 DEF MarksHaveFingerprints
    <3>4. Marked(w, h)' <=> Marked(w, h)
      BY SMTT(30), <2>1, <2>6, <3>3 DEF Marked
    <3> QED BY SMTT(30), <2>4, <3>4 DEF Open
  <2> QED BY ZenonT(30), <1>7, <2>5, <2>6 DEF HandleNewPendingPayableFingerprints
<1>8. CASE HandleSentPayables
  <2>1. /\ Receive("SentPayables") /\ UNCHANGED <<futures, database>>
        /\ job' = [at |-> "mark", oks |-> Head(mailbox).oks, errs |-> Head(mailbox).errs]
    BY SMTT(30), <1>8 DEF HandleSentPayables
  <2>2. (Sent(h, Head(mailbox)) <=> Marking(h, job')) /\ ~Marking(h, job)
    BY SMTT(30), <2>1 DEF Receive, Sent, Marking, Idle, NoJob
  <2>3. (\E i \in 1 .. Len(mailbox) : Sent(h, mailbox[i]))
             <=> Sent(h, Head(mailbox)) \/ \E i \in 1 .. Len(mailbox') : Sent(h, mailbox'[i])
    BY SMTT(30), <2>1, SentAfterReceive
  <2>4. Paying(h)' <=> Paying(h)
    BY ZenonT(30), <2>1, <2>2, <2>3 DEF Paying
  <2> QED BY SMTT(30), <1>1, <2>1, <2>4 DEF database
<1>9. CASE HandleScanError \/ HandleReportTransactionReceipts
  <2>1. /\ UNCHANGED <<futures, database>>
        /\ Receive("ScanError") \/ Receive("ReportTransactionReceipts")
        /\ job' = job \/ job'.at = "confirm"
    BY SMTT(60), <1>9 DEF HandleScanError, HandleReportTransactionReceipts
  <2>2. ~Marking(h, job')
    BY SMTT(30), <2>1 DEF Receive, Idle, NoJob, Marking
  <2>3. Paying(h)' <=> Paying(h)
    BY SMTT(30), <1>5, <2>1, <2>2
  <2> QED BY SMTT(30), <1>1, <2>1, <2>3 DEF database
<1> QED BY SMTT(30), <1>3, <1>4, <1>6, <1>7, <1>8, <1>9 DEF HandleMessage

\* ... nor while it works a handler off, but for a confirmation, ...
LEMMA OpenJobs ==
    ASSUME TypeOK, ScanInv("Payables"), FreshInv, KnownInv, node' = "up",
           ContinueJob, ~TransactionConfirmed, NEW w \in Wallets, NEW h \in Hashes
    PROVE  Open(w, h)' <=> Open(w, h)
<1>1. ASSUME UNCHANGED <<mailbox, futures>>, ~Marking(h, job), ~Marking(h, job'),
             Marked(w, h)' <=> Marked(w, h)
      PROVE  Open(w, h)' <=> Open(w, h)
  <2>1. Paying(h)' <=> Paying(h)
    BY <1>1 DEF Paying
  <2> QED BY SMTT(30), <1>1, <2>1 DEF Open
<1>2. CASE MarkPendingPayable
  <2> DEFINE existent == {f \in fingerprints : f.hash \in job.oks}
             marked == {fp \in existent : rowid[fp.hash.to] = 0}
  <2>1. /\ job.at = "mark" /\ job'.at = "discard" /\ UNCHANGED <<mailbox, futures, fingerprints>>
        /\ marked = existent /\ HashesOf(existent) = job.oks /\ job.oks \subseteq Hashes
    BY SMTT(30), <1>2, CarriedTypes DEF MarkPendingPayable, GoOn, GoDown
  <2>2. rowid' = [v \in Wallets |-> IF \E fp \in marked : fp.hash.to = v
                                    THEN (CHOOSE fp \in marked : fp.hash.to = v).rowid
                                    ELSE rowid[v]]
    BY ZenonT(30), <1>2 DEF MarkPendingPayable
  <2>3. FreshHashes(job.oks, rowid)
    BY ZenonT(30), <2>1 DEF FreshInv, FreshJob, FreshHashes
  <2>4. Paying(h) <=> h \in job.oks
    <3>1. ScanJob("Payables")
      BY <2>1 DEF ScanJob, JobsOf
    <3>2. /\ \A s \in Slots : ~ScanFuture("Payables", s)
          /\ \A i \in Nat : ~ScanMessage("Payables", i)
      BY SMTT(30), <3>1 DEF ScanInv
    <3>3. \A s \in Slots : ~Taken(h, futures[s])
      BY SMTT(30), <3>2 DEF ScanFuture, StagesOf, Taken
    <3>4. \A i \in 1 .. Len(mailbox) : i \in Nat /\ ~EndsPayableScan(mailbox[i])
      BY SMTT(30), <3>2 DEF ScanMessage, EndsScan, TypeOK
    <3>5. \A i \in 1 .. Len(mailbox) : ~Sent(h, mailbox[i])
      BY SMTT(30), <3>4 DEF EndsPayableScan, Sent
    <3> QED BY SMTT(30), <2>1, <3>3, <3>5 DEF Paying, Marking
  <2>5. ~Paying(h)'
    <3>1. ~Marking(h, job')
      BY SMTT(30), <2>1 DEF Marking
    <3>2. \A s \in Slots : ~Taken(h, futures[s])
      BY ZenonT(30), <2>1 DEF ScanInv, ScanJob, JobsOf, ScanFuture, StagesOf, Taken
    <3>3. \A i \in 1 .. Len(mailbox) : i \in Nat /\ ~EndsPayableScan(mailbox[i])
      BY SMTT(60), <2>1 DEF ScanInv, ScanJob, JobsOf, ScanMessage, EndsScan, TypeOK
    <3>4. \A i \in 1 .. Len(mailbox) : ~Sent(h, mailbox[i])
      BY <3>3 DEF EndsPayableScan, Sent
    <3> QED BY SMTT(30), <2>1, <3>1, <3>2, <3>4 DEF Paying
  <2>6. /\ \A fp \in marked : fp \in fingerprints /\ fp.hash \in job.oks /\ fp.rowid # 0
        /\ \A g \in job.oks : \E fp \in marked : fp.hash = g
    <3>1. \A g \in job.oks : \E fp \in existent : fp.hash = g
      BY SMTT(30), <2>1 DEF HashesOf
    <3> QED BY <2>1, <3>1 DEF TypeOK, Fingerprints
  <2> HIDE DEF marked, existent
  <2>7. CASE \E fp \in marked : fp.hash.to = w
    <3> DEFINE f == CHOOSE fp \in marked : fp.hash.to = w
    <3>1. f \in marked /\ f.hash.to = w
      BY <2>7
    <3>2. rowid'[w] = f.rowid
      BY SMTT(30), <2>2, <2>7
    <3> HIDE DEF f
    <3>3. f \in fingerprints /\ f.rowid # 0 /\ f.hash \in job.oks
      BY SMTT(30), <2>6, <3>1
    <3>4. rowid[w] = 0
      BY SMTT(30), <2>3, <3>1, <3>3 DEF FreshHashes
    <3>5. Marked(w, h)' <=> h = f.hash
      BY SMTT(30), <2>1, <3>2, <3>3 DEF Marked, KnownInv, RowidsDiffer
    <3>6. h.to = w => (h \in job.oks <=> h = f.hash)
      BY SMTT(30), <2>3, <3>1, <3>3 DEF FreshHashes
    <3> QED BY SMTT(30), <2>4, <2>5, <3>4, <3>5, <3>6 DEF Open, Marked
  <2>8. CASE ~ \E fp \in marked : fp.hash.to = w
    <3>1. rowid'[w] = rowid[w]
      BY SMTT(30), <2>2, <2>8
    <3>2. h.to = w => h \notin job.oks
      BY SMTT(30), <2>6, <2>8
    <3>3. Marked(w, h)' <=> Marked(w, h)
      BY SMTT(30), <2>1, <3>1 DEF Marked
    <3> QED BY SMTT(30), <2>4, <2>5, <3>2, <3>3 DEF Open
  <2> QED BY SMTT(30), <2>7, <2>8
<1>3. CASE DiscardFailedTransactions
  <2>1. job.at = "discard" /\ job' = NoJob /\ UNCHANGED <<mailbox, futures, rowid>>
    BY SMTT(30), <1>3 DEF DiscardFailedTransactions, GoDown
  <2>2. job.errs = {}
    BY SMTT(30), <2>1 DEF KnownInv, CarriedKnown, KnownJob
  <2>3. fingerprints' = fingerprints
    BY Zenon, <1>3, <2>2 DEF DiscardFailedTransactions
  <2>4. ~Marking(h, job) /\ ~Marking(h, job') /\ (Marked(w, h)' <=> Marked(w, h))
    BY SMTT(30), <2>1, <2>3 DEF Marking, NoJob, Marked
  <2> QED BY SMTT(30), <1>1, <2>1, <2>4
<1>4. CASE DeleteConfirmed
  <2>1. /\ job.at = "confirm" /\ job'.at = "fail" /\ UNCHANGED <<mailbox, futures, rowid>>
        /\ fingerprints' = {fp \in fingerprints : fp.rowid \notin RowidsOf(job.settled)}
    BY ZenonT(30), <1>4, CarriedTypes DEF DeleteConfirmed, GoDown, GoOn
  <2>2. rowid[w] \notin RowidsOf(job.settled)
    BY SMTT(30), <2>1 DEF FreshInv, FreshJob, RowidsOf
  <2>3. Marked(w, h)' <=> Marked(w, h)
    BY SMTT(30), <2>1, <2>2 DEF Marked
  <2>4. ~Marking(h, job) /\ ~Marking(h, job')
    BY SMTT(30), <2>1 DEF Marking
  <2> QED BY SMTT(30), <1>1, <2>1, <2>3, <2>4
<1>5. CASE CancelFailedTransactions
  <2>1. job.at = "fail" /\ job'.at = "attempt" /\ UNCHANGED <<mailbox, futures, rowid>>
    BY SMTT(30), <1>5, CarriedTypes DEF CancelFailedTransactions, GoDown, GoOn
  <2> DEFINE after(g) == IF g.rowid \in RowidsOf(job.failures)
                         THEN [g EXCEPT !.process_error = "ERROR"] ELSE g
  <2>2. fingerprints' = {after(g) : g \in fingerprints}
    BY Zenon, <1>5 DEF CancelFailedTransactions
  <2>3. \A g \in fingerprints : after(g).rowid = g.rowid /\ after(g).hash = g.hash
    BY SMTT(30) DEF TypeOK, Fingerprints
  <2> HIDE DEF after
  <2>4. Marked(w, h)' <=> Marked(w, h)
    BY SMTT(30), <2>1, <2>2, <2>3 DEF Marked
  <2>5. ~Marking(h, job) /\ ~Marking(h, job')
    BY SMTT(30), <2>1 DEF Marking
  <2> QED BY SMTT(30), <1>1, <2>1, <2>4, <2>5
<1>6. CASE UpdateRemainingFingerprints
  <2>1. job.at = "attempt" /\ job' = NoJob /\ UNCHANGED <<mailbox, futures, rowid, fingerprints>>
    BY SMTT(30), <1>6 DEF UpdateRemainingFingerprints, GoDown, database
  <2>2. ~Marking(h, job) /\ ~Marking(h, job') /\ (Marked(w, h)' <=> Marked(w, h))
    BY SMTT(30), <2>1 DEF Marking, NoJob, Marked
  <2> QED BY SMTT(30), <1>1, <2>1, <2>2
<1> QED BY SMTT(30), <1>2, <1>3, <1>4, <1>5, <1>6 DEF ContinueJob
\* ... nor while a future goes on, until the chain takes its batch.
LEMMA OpenFutures ==
    ASSUME TypeOK, NothingRefused, NEW s \in Slots, Continue(s), ~ChainTakesBatch(s),
           NEW w, NEW h
    PROVE  Open(w, h)' <=> Open(w, h)
<1>1. ASSUME Paying(h)' <=> Paying(h), UNCHANGED database
      PROVE  Open(w, h)' <=> Open(w, h)
  <2>1. Marked(w, h)' <=> Marked(w, h)
    BY SMTT(30), <1>1 DEF Marked, database
  <2> QED BY <1>1, <2>1 DEF Open
<1>2. ASSUME NEW m \in Messages, NEW f, Send(<<m>>), futures' = [futures EXCEPT ![s] = f],
             f.stage # "taken", UNCHANGED job, Sent(h, m) <=> Taken(h, futures[s])
      PROVE  Paying(h)' <=> Paying(h)
  <2>1. (\E i \in 1 .. Len(mailbox') : Sent(h, mailbox'[i]))
             <=> Sent(h, m) \/ \E i \in 1 .. Len(mailbox) : Sent(h, mailbox[i])
    BY ZenonT(30), <1>2, SentAfterSend
  <2>2. futures'[s] = f /\ \A r \in Slots : r # s => futures'[r] = futures[r]
    BY Zenon, <1>2, FuturesAfterStep
  <2>3. ~Taken(h, futures'[s])
    BY <1>2, <2>2 DEF Taken
  <2>4. (\E r \in Slots : Taken(h, futures[r]))
             <=> Taken(h, futures[s]) \/ \E r \in Slots : Taken(h, futures'[r])
    BY SMTT(30), <2>2, <2>3
  <2> QED BY ZenonT(30), <1>2, <2>1, <2>4 DEF Paying
<1>3. ASSUME NEW m \in Messages, Complete(s, <<m>>), Sent(h, m) <=> Taken(h, futures[s])
      PROVE  Open(w, h)' <=> Open(w, h)
  <2>1. /\ Send(<<m>>) /\ futures' = [futures EXCEPT ![s] = NoFuture]
        /\ UNCHANGED job /\ UNCHANGED database
    BY SMTT(30), <1>3 DEF Complete
  <2>2. NoFuture.stage # "taken"
    BY SMTT(30) DEF NoFuture
  <2>3. Paying(h)' <=> Paying(h)
    BY ZenonT(30), <1>2, <1>3, <2>1, <2>2
  <2> QED BY SMTT(30), <1>1, <2>1, <2>3
<1>4. CASE BuildBlockchainAgent(s)
  <2>1. /\ futures[s].accounts \in Seq(PayableAccounts) /\ futures[s].stage = "agent"
        /\ "Payables" \in ScanTypes
    BY ZenonT(30), <1>4, CarriedTypes DEF BuildBlockchainAgent, ScanTypes
  <2>2. /\ AgentWithContext(futures[s].accounts) \in Messages
        /\ ScanError("Payables") \in Messages
    BY SMTT(30), <2>1, SentTypes
  <2>3. /\ ~Sent(h, AgentWithContext(futures[s].accounts))
        /\ ~Sent(h, ScanError("Payables"))
        /\ ~Taken(h, futures[s])
    BY SMTT(30), <2>1 DEF Sent, Taken, AgentWithContext, ScanError
  <2> QED BY Zenon, <1>3, <1>4, <2>2, <2>3 DEF BuildBlockchainAgent
<1>5. CASE BatchAnswered(s)
  <2> DEFINE oks == futures[s].taken
             errs == Refused(futures[s].batch, futures[s].taken)
  <2>1. /\ oks \in SUBSET Hashes /\ errs \in SUBSET Hashes
        /\ Complete(s, <<SentPayables(oks, errs)>>)
    BY ZenonT(30), <1>5, CarriedTypes, RangeType DEF BatchAnswered, Refused
  <2>2. Taken(h, futures[s]) <=> h \in oks
    BY Zenon, <1>5 DEF Taken, BatchAnswered
  <2> HIDE DEF oks, errs
  <2>3. SentPayables(oks, errs) \in Messages
    BY SMTT(30), <2>1, SentTypes
  <2>4. Sent(h, SentPayables(oks, errs)) <=> h \in oks
    BY SMTT(30) DEF Sent, SentPayables
  <2> QED BY SMTT(30), <1>3, <2>1, <2>2, <2>3, <2>4
<1>6. ~NonceQueryFails(s) /\ ~SubmitBatchFails(s)
  BY ZenonT(30) DEF NonceQueryFails, SubmitBatchFails, NothingRefused
<1>7. CASE SignAndSubmit(s)
  <2>1. UNCHANGED <<job, database>> /\ futures[s].stage = "nonce"
    BY SMTT(30), <1>7, SignStep
  <2>2. PICK batch \in Seq(Hashes) : /\ Send(<<Seeds(batch)>>)
                                     /\ futures' = [futures EXCEPT ![s] = Submitting(batch)]
    BY SMTT(30), <1>7, SignStep
  <2>3. ~Sent(h, Seeds(batch)) /\ ~Taken(h, futures[s]) /\ Submitting(batch).stage # "taken"
    BY ZenonT(30), <2>1 DEF Sent, Taken, Seeds, Submitting
  <2>4. Seeds(batch) \in Messages
    BY SMTT(30), <2>2, SentTypes
  <2>5. Paying(h)' <=> Paying(h)
    BY ZenonT(30), <1>2, <2>1, <2>2, <2>3, <2>4
  <2> QED BY ZenonT(30), <1>1, <2>1, <2>5
<1>8. CASE ProcessTransactionReceipts(s)
  <2>1. /\ futures[s].fps \subseteq Fingerprints /\ "PendingPayables" \in ScanTypes
        /\ futures[s].stage = "receipts"
    BY ZenonT(30), <1>8, CarriedTypes DEF ProcessTransactionReceipts, ScanTypes
  <2>2. \/ \E ok, failed, still \in SUBSET Fingerprints :
               Complete(s, <<ReportTransactionReceipts(ok, failed, still)>>)
        \/ Complete(s, <<ScanError("PendingPayables")>>)
    BY ZenonT(30), <1>8, <2>1 DEF ProcessTransactionReceipts
  <2>3. /\ \A ok, failed, still : ~Sent(h, ReportTransactionReceipts(ok, failed, still))
        /\ ~Sent(h, ScanError("PendingPayables"))
        /\ ~Taken(h, futures[s])
    BY SMTT(30), <2>1 DEF Sent, Taken, ReportTransactionReceipts, ScanError
  <2> QED BY Zenon, <1>3, <2>1, <2>2, <2>3, SentTypes
<1> QED BY SMTT(30), <1>4, <1>5, <1>6, <1>7, <1>8 DEF Continue

\* The books stay right while the open payments and the amounts stay as they are.
LEMMA BooksKept ==
    ASSUME TypeOK, BooksInv, UNCHANGED <<balance, charged, chain, committed>>,
           \A w \in Wallets, h \in Hashes : Open(w, h)' <=> Open(w, h)
    PROVE  BooksInv'
<1>1. ASSUME NEW tx \in chain', tx.status = "pending" PROVE Open(tx.hash.to, tx.hash)'
  <2>1. tx.hash \in Hashes /\ tx.hash.to \in Wallets
    BY SMTT(30), <1>1 DEF TypeOK, Hashes
  <2> QED BY SMTT(30), <1>1, <2>1 DEF BooksInv
<1>2. ASSUME NEW w \in Wallets PROVE WalletBooks(w)'
  <2>1. WalletBooks(w)
    BY SMTT(30) DEF BooksInv
  <2> QED BY Zenon, <2>1 DEF WalletBooks
<1> QED BY SMTT(30), <1>1, <1>2 DEF BooksInv

\* While the books are right, no debt is overpaid.
LEMMA BooksCover ==
    ASSUME TypeOK, BooksInv
    PROVE  NoOverpayment
<1> SUFFICES ASSUME NEW w \in Wallets PROVE committed[w] <= charged[w]
  BY SMTT(30) DEF NoOverpayment
<1>1. WalletBooks(w) /\ balance[w] \in Int /\ charged[w] \in Int /\ committed[w] \in Int
  BY SMTT(30) DEF BooksInv, TypeOK
<1>2. CASE \A h \in Hashes : ~Open(w, h)
  BY SMTT(30), <1>1, <1>2 DEF WalletBooks
<1>3. ASSUME NEW h \in Hashes, Open(w, h) PROVE committed[w] <= charged[w]
  <2>1. PICK tx \in chain : /\ tx.hash = h
                            /\ h.amount \in 0 .. balance[w]
                            /\ committed[w] = charged[w] - balance[w] + Outstanding(tx)
    BY SMTT(30), <1>1, <1>3 DEF WalletBooks
  <2>2. Outstanding(tx) \in 0 .. balance[w]
    BY SMTT(30), <1>1, <2>1 DEF Outstanding
  <2> QED BY SMTT(30), <1>1, <2>1, <2>2
<1> QED BY SMTT(30), <1>2, <1>3
\* The chain takes a batch: for each payee, one payment is open from now on, of
\* an amount that is owed.
LEMMA BooksTake ==
    ASSUME TypeOK, NothingRefused, ScanInv("Payables"), FreshInv, KnownInv, OwedInv, BooksInv,
           NEW s \in Slots, ChainTakesBatch(s)
    PROVE  BooksInv'
<1> DEFINE batch == Range(futures[s].batch)
           added == {[hash |-> h, status |-> "pending"] : h \in batch}
<1>1. /\ futures[s].stage = "submit"
      /\ batch \subseteq Hashes
      /\ chain' = chain \cup added
      /\ committed' = [w \in Wallets |-> committed[w] + Amount(batch, w)]
      /\ futures' = [futures EXCEPT ![s] = Submitted(futures[s].batch, batch)]
      /\ UNCHANGED <<balance, charged, rowid, fingerprints, mailbox, job>>
  BY ZenonT(30), TakenWhole DEF ChainTakesBatch, database
<1>2. FreshHashes(batch, rowid) /\ \A h \in batch : h.amount \in 0 .. balance[h.to]
  BY Zenon, <1>1 DEF FreshInv, FreshFuture, OwedInv, OwedFuture
<1>3. Submitted(futures[s].batch, batch).stage = "taken" /\ Submitted(futures[s].batch, batch).taken = batch
  BY DEF Submitted
<1> HIDE DEF batch
<1>4. ASSUME NEW h PROVE ~Paying(h)
  <2>1. ScanFuture("Payables", s)
    BY SMTT(30), <1>1 DEF ScanFuture, StagesOf
  <2>2. \A r \in Slots : ~Taken(h, futures[r])
    BY ZenonT(30), <1>1, <2>1 DEF ScanInv, ScanFuture, StagesOf, Taken
  <2>3. ~Marking(h, job)
    BY SMTT(30), <2>1 DEF ScanInv, ScanJob, JobsOf, Marking
  <2>4. \A i \in 1 .. Len(mailbox) : i \in Nat /\ ~EndsPayableScan(mailbox[i])
    BY SMTT(30), <2>1 DEF ScanInv, ScanMessage, EndsScan, TypeOK
  <2>5. \A i \in 1 .. Len(mailbox) : ~Sent(h, mailbox[i])
    BY SMTT(30), <2>4 DEF EndsPayableScan, Sent
  <2> QED BY SMTT(30), <2>2, <2>3, <2>5 DEF Paying
<1>5. ASSUME NEW h PROVE Paying(h)' <=> h \in batch
  <2>1. futures'[s] = Submitted(futures[s].batch, batch) /\ \A r \in Slots : r # s => futures'[r] = futures[r]
    BY ZenonT(30), <1>1, FuturesAfterStep
  <2>2. Taken(h, futures'[s]) <=> h \in batch
    BY <1>3, <2>1 DEF Taken
  <2>3. /\ \A r \in Slots : ~Taken(h, futures[r])
        /\ \A i \in 1 .. Len(mailbox) : ~Sent(h, mailbox[i])
        /\ ~Marking(h, job)
    BY SMTT(30), <1>4 DEF Paying
  <2>4. (\E r \in Slots : Taken(h, futures'[r])) <=> h \in batch
    BY ZenonT(30), <2>1, <2>2, <2>3
  <2> QED BY ZenonT(30), <1>1, <2>3, <2>4 DEF Paying
<1>6. ASSUME NEW w, NEW h PROVE Open(w, h)' <=> Open(w, h) \/ (h.to = w /\ h \in batch)
  <2>1. Marked(w, h)' <=> Marked(w, h)
    BY ZenonT(30), <1>1 DEF Marked
  <2> QED BY SMTT(30), <1>4, <1>5, <2>1 DEF Open
<1>7. ASSUME NEW tx \in chain', tx.status = "pending" PROVE Open(tx.hash.to, tx.hash)'
  <2>1. CASE tx \in chain
    BY ZenonT(30), <1>6, <1>7, <2>1 DEF BooksInv
  <2>2. CASE tx \in added
    BY SMTT(60), <1>6, <2>2
  <2> QED BY SMTT(30), <1>1, <2>1, <2>2
<1>8. ASSUME NEW w \in Wallets PROVE WalletBooks(w)'
  <2>1. WalletBooks(w) /\ balance[w] \in Int /\ charged[w] \in Int /\ committed[w] \in Int
    BY DEF BooksInv, TypeOK
  <2>2. committed'[w] = committed[w] + Amount(batch, w)
    BY SMTT(30), <1>1
  <2>3. CASE \E h \in batch : h.to = w
    <3>1. PICK g \in batch : g.to = w
      BY SMTT(30), <2>3
    <3>2. {h \in batch : h.to = w} = {g}
      BY <1>2, <3>1 DEF FreshHashes
    <3>3. Amount(batch, w) = g.amount
      BY SMTT(30), <3>2 DEF Amount
    <3>4. \A h \in Hashes : ~Open(w, h)
      BY SMTT(30), <1>2, <1>4, <3>1 DEF Open, Marked, FreshHashes
    <3>5. \A h \in Hashes : Open(w, h)' <=> h = g
      BY ZenonT(30), <1>1, <1>6, <3>1, <3>2, <3>4
    <3>6. g \in Hashes /\ g.amount \in Int /\ g.amount \in 0 .. balance[w]
      BY ZenonT(30), <1>1, <1>2, <3>1 DEF Hashes
    <3> DEFINE tx == [hash |-> g, status |-> "pending"]
    <3>7. tx \in chain' /\ tx.hash = g /\ Outstanding(tx) = g.amount
      BY ZenonT(30), <1>1, <3>1 DEF Outstanding
    <3> HIDE DEF tx
    <3>8. committed'[w] = charged[w] - balance[w] + Outstanding(tx)
      BY ZenonT(30), <2>1, <2>2, <3>3, <3>4, <3>6, <3>7 DEF WalletBooks
    <3>9. balance[w] >= 0
      BY ZenonT(30), <2>1 DEF WalletBooks
    <3> QED BY ZenonT(30), <1>1, <3>5, <3>6, <3>7, <3>8, <3>9 DEF WalletBooks
  <2>4. CASE ~ \E h \in batch : h.to = w
    <3>1. {h \in batch : h.to = w} = {}
      BY <2>4
    <3>2. committed'[w] = committed[w]
      BY <2>1, <2>2, <3>1 DEF Amount
    <3>3. \A h \in Hashes : Open(w, h)' <=> Open(w, h)
      BY <1>6, <2>4
    <3> QED BY Zenon, <1>1, <2>1, <3>2, <3>3 DEF WalletBooks
  <2> QED BY <2>3, <2>4
<1> QED BY SMTT(30), <1>7, <1>8 DEF BooksInv

\* A transaction is mined: the payment it stands for stays open, and pays
\* nothing if it failed.
LEMMA BooksMine ==
    ASSUME TypeOK, ScanInv("Payables"), FreshInv, KnownInv, BooksInv, Mine
    PROVE  BooksInv'
<1>1. PICK tx \in chain, status \in {"ok", "failed"} :
        /\ tx.status = "pending"
        /\ tx \in [hash : Hashes, status : {"pending", "ok", "failed"}]
        /\ chain' = (chain \ {tx}) \cup {[hash |-> tx.hash, status |-> status]}
        /\ committed' = IF status = "ok" THEN committed
                        ELSE [committed EXCEPT ![tx.hash.to] = @ - tx.hash.amount]
  BY ZenonT(30), NoncesAfterMining
<1> DEFINE mined == [hash |-> tx.hash, status |-> status]
<1>2. /\ mined \in chain' /\ mined.hash = tx.hash /\ mined.status # "pending"
      /\ \A t \in chain' : t \in chain \/ t = mined
      /\ \A t \in chain : t # tx => t \in chain'
      /\ Outstanding(mined) = IF status = "ok" THEN tx.hash.amount ELSE 0
  BY <1>1 DEF Outstanding
<1> HIDE DEF mined
<1>3. UNCHANGED <<balance, charged, rowid, fingerprints, mailbox, job, futures>>
  BY DEF Mine, database
<1>4. ASSUME NEW w, NEW h PROVE Open(w, h)' <=> Open(w, h)
  BY Zenon, <1>3 DEF Open, Paying, Marked
<1>5. ASSUME NEW t \in chain', t.status = "pending" PROVE Open(t.hash.to, t.hash)'
  BY SMTT(30), <1>2, <1>4, <1>5 DEF BooksInv
<1>6. tx.hash \in Hashes /\ tx.hash.to \in Wallets /\ tx.hash.amount \in Int
      /\ Open(tx.hash.to, tx.hash)
  BY <1>1 DEF Hashes, BooksInv
<1>7. ASSUME NEW w \in Wallets PROVE WalletBooks(w)'
  <2>1. WalletBooks(w) /\ balance[w] \in Int /\ charged[w] \in Int /\ committed[w] \in Int
    BY SMTT(30) DEF BooksInv, TypeOK
  <2>2. CASE w = tx.hash.to
    <3>1. \A h \in Hashes : Open(w, h)' <=> h = tx.hash
      BY ZenonT(30), <1>4, <1>6, <2>2, OpenOne DEF KnownInv
    <3>2. PICK t \in chain : /\ t.hash = tx.hash
                             /\ tx.hash.amount \in 0 .. balance[w]
                             /\ committed[w] = charged[w] - balance[w] + Outstanding(t)
      BY SMTT(30), <1>6, <2>1, <2>2 DEF WalletBooks
    <3>3. t = tx
      BY SMTT(30), <3>2 DEF KnownInv, HashesDiffer
    <3>4. committed[w] = charged[w] - balance[w] + tx.hash.amount
      BY ZenonT(30), <1>1, <3>2, <3>3 DEF Outstanding
    <3>5. committed'[w] = IF status = "ok" THEN committed[w] ELSE committed[w] - tx.hash.amount
      BY ZenonT(30), <1>1, <2>2 DEF TypeOK
    <3>6. committed'[w] = charged[w] - balance[w] + Outstanding(mined)
      BY SMTT(60), <1>2, <1>6, <2>1, <3>4, <3>5
    <3>7. balance[w] >= 0
      BY ZenonT(30), <2>1 DEF WalletBooks
    <3> QED BY ZenonT(30), <1>2, <1>3, <1>6, <3>1, <3>2, <3>6, <3>7 DEF WalletBooks
  <2>3. CASE w # tx.hash.to
    <3>1. committed'[w] = committed[w]
      BY ZenonT(30), <1>1, <2>3 DEF TypeOK
    <3>2. ASSUME NEW h \in Hashes, Open(w, h)
          PROVE  \E t \in chain' : /\ t.hash = h
                                   /\ h.amount \in 0 .. balance[w]
                                   /\ committed[w] = charged[w] - balance[w] + Outstanding(t)
      <4>1. PICK t \in chain : /\ t.hash = h
                               /\ h.amount \in 0 .. balance[w]
                               /\ committed[w] = charged[w] - balance[w] + Outstanding(t)
        BY SMTT(30), <2>1, <3>2 DEF WalletBooks
      <4>2. t # tx
        BY SMTT(30), <2>3, <3>2, <4>1 DEF Open
      <4> QED BY ZenonT(30), <1>2, <4>1, <4>2
    <3> QED BY ZenonT(30), <1>3, <1>4, <2>1, <3>1, <3>2 DEF WalletBooks
  <2> QED BY SMTT(30), <2>2, <2>3
<1> QED BY <1>5, <1>7 DEF BooksInv

\* A confirmation closes the payment of its payee, and the balance falls by
\* what the contract paid.
LEMMA BooksConfirm ==
    ASSUME TypeOK, ScanInv("Payables"), FreshInv, MarksHaveFingerprints, KnownInv, BooksInv,
           TransactionConfirmed, node' = "up"
    PROVE  BooksInv' /\ \A w \in Wallets : balance'[w] >= balance[w] \/ rowid[w] # 0
<1>1. PICK fp \in job.confirmed, v \in Wallets :
        LET rows == {w \in Wallets : rowid[w] = fp.rowid}
        IN  /\ rows = {v}
            /\ balance' = [w \in Wallets |->
                              IF w \in rows THEN Credited(balance[w], fp) ELSE balance[w]]
            /\ rowid' = [w \in Wallets |-> IF w \in rows THEN 0 ELSE rowid[w]]
            /\ GoOn([job EXCEPT !.confirmed = @ \ {fp}, !.settled = @ \cup {fp}])
  BY Zenon DEF TransactionConfirmed, GoDown
<1>2. /\ rowid[v] = fp.rowid
      /\ balance' = [w \in Wallets |-> IF w = v THEN balance[w] - fp.hash.amount ELSE balance[w]]
      /\ rowid' = [w \in Wallets |-> IF w = v THEN 0 ELSE rowid[w]]
  BY <1>1 DEF Credited
<1>3. /\ UNCHANGED <<chain, committed, charged, fingerprints, mailbox, futures>>
      /\ job.at = "confirm" /\ job'.at = "confirm"
  BY ZenonT(30), <1>1, CarriedTypes DEF TransactionConfirmed, GoOn, external
<1>4. fp \in Fingerprints /\ fp.rowid # 0 /\ rowid[v] # 0 /\ fp.hash \in Hashes /\ fp.hash.amount \in Int
  <2>1. fp \in Fingerprints
    BY ZenonT(30), <1>3, CarriedTypes
  <2> QED BY SMTT(30), <1>2, <2>1 DEF Fingerprints, Hashes
<1>5. Known(fp, fingerprints) /\ Mined(fp, chain)
  BY <1>3 DEF KnownInv, CarriedKnown, KnownJob
<1>6. PICK f \in fingerprints : f.rowid = fp.rowid /\ f.hash = fp.hash
  BY SMTT(30), <1>5 DEF Known
<1>7. fp.hash.to = v
  BY SMTT(30), <1>2, <1>4, <1>6 DEF MarksHaveFingerprints, KnownInv, RowidsDiffer
<1>8. Open(v, fp.hash)
  BY ZenonT(30), <1>2, <1>4, <1>6, <1>7 DEF Open, Marked
<1>9. PICK tx \in chain : tx.hash = fp.hash /\ tx.status = "ok"
  BY ZenonT(30), <1>5 DEF Mined
<1>10. ASSUME NEW h PROVE Paying(h)' <=> Paying(h)
  BY ZenonT(30), <1>3 DEF Paying, Marking
<1>11. ASSUME NEW h PROVE ~Open(v, h)'
  <2>1. ~Marked(v, h)'
    BY SMTT(30), <1>2 DEF Marked
  <2>2. h.to = v => ~Paying(h)
    BY SMTT(30), <1>4, PayingUnmarked
  <2> QED BY SMTT(30), <1>10, <2>1, <2>2 DEF Open
<1>12. ASSUME NEW w \in Wallets, w # v, NEW h PROVE Open(w, h)' <=> Open(w, h)
  <2>1. Marked(w, h)' <=> Marked(w, h)
    BY SMTT(30), <1>2, <1>3, <1>12 DEF Marked
  <2> QED BY SMTT(30), <1>10, <2>1 DEF Open
<1>13. ASSUME NEW t \in chain', t.status = "pending" PROVE Open(t.hash.to, t.hash)'
  <2>1. t \in chain /\ t.hash.to \in Wallets /\ Open(t.hash.to, t.hash)
    BY ZenonT(30), <1>3, <1>13 DEF BooksInv, TypeOK, Hashes
  <2>2. t.hash.to # v
    <3> SUFFICES ASSUME t.hash.to = v PROVE FALSE
      BY SMTT(30)
    <3>1. t.hash = fp.hash
      BY SMTT(30), <1>8, <2>1, OpenOne DEF KnownInv
    <3>2. t = tx
      BY SMTT(30), <1>9, <2>1, <3>1 DEF KnownInv, HashesDiffer
    <3> QED BY <1>9, <1>13, <3>2
  <2> QED BY ZenonT(30), <1>12, <2>1, <2>2
<1>14. ASSUME NEW w \in Wallets PROVE WalletBooks(w)'
  <2>1. WalletBooks(w) /\ balance[w] \in Int /\ charged[w] \in Int /\ committed[w] \in Int
    BY SMTT(30) DEF BooksInv, TypeOK
  <2>2. CASE w = v
    <3>1. PICK t \in chain : /\ t.hash = fp.hash
                             /\ fp.hash.amount \in 0 .. balance[w]
                             /\ committed[w] = charged[w] - balance[w] + Outstanding(t)
      BY SMTT(30), <1>4, <1>8, <2>1, <2>2 DEF WalletBooks
    <3>2. t = tx
      BY SMTT(30), <1>9, <3>1 DEF KnownInv, HashesDiffer
    <3>3. committed[w] = charged[w] - balance[w] + fp.hash.amount
      BY SMTT(30), <1>9, <3>1, <3>2 DEF Outstanding
    <3>4. balance'[w] = balance[w] - fp.hash.amount
      BY ZenonT(30), <1>2, <2>2
    <3>5. balance'[w] >= 0 /\ committed'[w] = charged'[w] - balance'[w]
      <4>1. /\ balance[w] \in Int /\ charged[w] \in Int /\ fp.hash.amount \in 0 .. balance[w]
            /\ charged'[w] = charged[w] /\ committed'[w] = committed[w]
        BY Zenon, <1>2, <1>3, <1>4, <2>1, <3>1
      <4> QED BY SMTT(30), <3>3, <3>4, <4>1
    <3> QED BY ZenonT(30), <1>11, <2>2, <3>5 DEF WalletBooks
  <2>3. CASE w # v
    <3>1. balance'[w] = balance[w]
      BY ZenonT(30), <1>2, <2>3
    <3> QED BY SMTT(60), <1>3, <1>12, <2>1, <2>3, <3>1 DEF WalletBooks
  <2> QED BY ZenonT(30), <2>2, <2>3
<1>15. \A w \in Wallets : balance'[w] >= balance[w] \/ rowid[w] # 0
  BY SMTT(30), <1>2, <1>4 DEF TypeOK
<1> QED BY ZenonT(30), <1>13, <1>14, <1>15 DEF BooksInv
\* A service is charged.
LEMMA BooksCharge ==
    ASSUME TypeOK, BooksInv, NEW v \in Wallets, RecordServiceConsumed(v)
    PROVE  BooksInv' /\ \A w \in Wallets : balance'[w] >= balance[w]
<1>1. /\ charged' = [charged EXCEPT ![v] = @ + 1]
      /\ balance' = [balance EXCEPT ![v] = @ + 1]
      /\ UNCHANGED <<chain, committed, rowid, fingerprints, mailbox, futures, job>>
  BY ZenonT(30) DEF RecordServiceConsumed, external
<1>2. ASSUME NEW w, NEW h PROVE Open(w, h)' <=> Open(w, h)
  BY ZenonT(30), <1>1 DEF Open, Paying, Marked
<1>3. ASSUME NEW w \in Wallets
      PROVE  /\ balance[w] \in Int /\ balance'[w] \in Int /\ balance'[w] >= balance[w]
             /\ charged'[w] - balance'[w] = charged[w] - balance[w]
  BY SMTT(30), <1>1 DEF TypeOK
<1>4. ASSUME NEW w \in Wallets PROVE WalletBooks(w)'
  <2>1. WalletBooks(w)
    BY ZenonT(30) DEF BooksInv
  <2>2. balance'[w] >= 0 /\ 0 .. balance[w] \subseteq 0 .. balance'[w]
    BY SMTT(60), <1>3, <2>1 DEF WalletBooks
  <2>3. ASSUME NEW h \in Hashes, Open(w, h)
        PROVE  \E tx \in chain' : /\ tx.hash = h
                                  /\ h.amount \in 0 .. balance'[w]
                                  /\ committed'[w] = charged'[w] - balance'[w] + Outstanding(tx)
    <3>1. PICK tx \in chain : /\ tx.hash = h
                              /\ h.amount \in 0 .. balance[w]
                              /\ committed[w] = charged[w] - balance[w] + Outstanding(tx)
      BY ZenonT(30), <2>1, <2>3 DEF WalletBooks
    <3> QED BY Zenon, <1>1, <1>3, <2>2, <3>1
  <2>4. (\A h \in Hashes : ~Open(w, h)) => committed'[w] = charged'[w] - balance'[w]
    BY ZenonT(30), <1>1, <1>3, <2>1 DEF WalletBooks
  <2> QED BY Zenon, <1>2, <2>2, <2>3, <2>4 DEF WalletBooks
<1>5. \A tx \in chain' : tx.status = "pending" => Open(tx.hash.to, tx.hash)'
  BY ZenonT(30), <1>1, <1>2 DEF BooksInv
<1> QED BY SMTT(30), <1>3, <1>4, <1>5 DEF BooksInv

\* A step of a Node that is up and stays up.
LEMMA PaidOnceUp ==
    ASSUME TypeOK, TypeOK', Faults = {}, ScanInv("Payables"), FreshInv, MarksHaveFingerprints,
           KnownInv, OwedInv, BooksInv, [Next]_vars, node = "up", node' = "up"
    PROVE  OwedInv' /\ BooksInv'
<1>1. NothingRefused
  BY SMTT(30) DEF NothingRefused
<1>2. \A w \in Wallets : balance[w] >= 0
  BY ZenonT(30) DEF BooksInv, WalletBooks
<1>3. ASSUME NEW w \in Wallets, RecordServiceConsumed(w) PROVE OwedInv' /\ BooksInv'
  <2>1. UNCHANGED <<mailbox, futures>>
    BY Zenon, <1>3 DEF RecordServiceConsumed
  <2> QED BY ZenonT(30), <1>3, <2>1, BooksCharge, OwedBalances
<1>4. ASSUME UNCHANGED <<balance, rowid, fingerprints, job, mailbox, futures, chain, charged, committed>>
      PROVE  OwedInv' /\ BooksInv'
  <2>1. \A w \in Wallets, h \in Hashes : Open(w, h)' <=> Open(w, h)
    BY Zenon, <1>4 DEF Open, Paying, Marked
  <2> QED BY SMTT(30), <1>4, <2>1, BooksKept, OwedFrom
<1>5. CASE ScanForPayables \/ ScanForPendingPayables \/ HandleMessage
  <2>1. UNCHANGED <<balance, charged, chain, committed>>
    BY Zenon, <1>5 DEF ScanForPayables, ScanForPendingPayables, HandleMessage, HandlePayablePaymentSetup,
       HandleNewPendingPayableFingerprints, HandleSentPayables, HandleScanError,
       HandleReportTransactionReceipts, database, external
  <2>2. \A w \in Wallets, h \in Hashes : Open(w, h)' <=> Open(w, h)
    BY SMTT(30), <1>5, OpenHandlers
  <2>3. OwedInv'
    BY SMTT(30), <1>2, <1>5, OwedHandlers
  <2> QED BY SMTT(30), <2>1, <2>2, <2>3, BooksKept
<1>6. CASE TransactionConfirmed
  <2>1. UNCHANGED <<mailbox, futures>>
    BY SMTT(30), <1>6 DEF TransactionConfirmed, GoOn, GoDown
  <2> QED BY SMTT(30), <1>6, <2>1, BooksConfirm, OwedBalances
<1>7. CASE ContinueJob /\ ~TransactionConfirmed
  <2>1. UNCHANGED <<balance, charged, chain, committed>>
    BY ZenonT(30), <1>7 DEF ContinueJob, MarkPendingPayable, DiscardFailedTransactions, DeleteConfirmed,
       CancelFailedTransactions, UpdateRemainingFingerprints, database, external
  <2>2. UNCHANGED <<mailbox, futures>>
    BY SMTT(30), <1>7 DEF ContinueJob, MarkPendingPayable, DiscardFailedTransactions, DeleteConfirmed,
       CancelFailedTransactions, UpdateRemainingFingerprints, GoOn, GoDown
  <2>3. \A w \in Wallets, h \in Hashes : Open(w, h)' <=> Open(w, h)
    BY SMTT(30), <1>7, OpenJobs
  <2> QED BY SMTT(30), <2>1, <2>2, <2>3, BooksKept, OwedFrom
<1>8. ASSUME NEW s \in Slots, ChainTakesBatch(s) PROVE OwedInv' /\ BooksInv'
  BY SMTT(30), <1>1, <1>8, BooksTake, OwedFutures DEF Continue
<1>9. ASSUME NEW s \in Slots, Continue(s), ~ChainTakesBatch(s) PROVE OwedInv' /\ BooksInv'
  <2>1. UNCHANGED <<balance, charged, chain, committed>>
    BY Zenon, <1>9 DEF Continue, BuildBlockchainAgent, SignAndSubmit, NonceQueryFails, BatchAnswered,
       SubmitBatchFails, ProcessTransactionReceipts, Complete, database, external
  <2>2. \A w \in Wallets, h \in Hashes : Open(w, h)' <=> Open(w, h)
    BY SMTT(30), <1>1, <1>9, OpenFutures
  <2>3. OwedInv'
    BY SMTT(30), <1>1, <1>9, OwedFutures
  <2> QED BY SMTT(30), <2>1, <2>2, <2>3, BooksKept
<1>10. CASE Mine
  <2>1. UNCHANGED <<balance, mailbox, futures>>
    BY SMTT(30), <1>10 DEF Mine, database
  <2> QED BY SMTT(30), <1>10, <2>1, BooksMine, OwedFrom
<1>11. ~Crash /\ ~Restart
  BY DEF Crash, Restart
<1> QED BY SMTT(30), <1>3, <1>4, <1>5, <1>6, <1>7, <1>8, <1>9, <1>10, <1>11
        DEF Next, ContinueJob, Mature, vars, external

\* The Node goes down by a panic: what the contract pays was charged.
LEMMA PaidOnceGoesDown ==
    ASSUME TypeOK, Faults = {}, BooksInv, [Next]_vars, node = "up", node' # "up"
    PROVE  DownInv'
<1>1. \E how : GoDown(how)
  <2>1. CASE HandleMessage
    BY ZenonT(30), <2>1 DEF HandleMessage, HandlePayablePaymentSetup, HandleNewPendingPayableFingerprints,
       HandleSentPayables, HandleScanError, HandleReportTransactionReceipts
  <2>2. CASE ContinueJob
    BY ZenonT(30), <2>2 DEF ContinueJob, MarkPendingPayable, DiscardFailedTransactions, TransactionConfirmed,
       DeleteConfirmed, CancelFailedTransactions, UpdateRemainingFingerprints, GoOn
  <2>3. CASE \E s \in Slots : Continue(s)
    BY Zenon, <2>3 DEF Continue, BuildBlockchainAgent, SignAndSubmit, NonceQueryFails, ChainTakesBatch,
       BatchAnswered, SubmitBatchFails, ProcessTransactionReceipts, Complete
  <2> QED BY ZenonT(30), <2>1, <2>2, <2>3
          DEF Next, RecordServiceConsumed, Mature, ScanForPayables, ScanForPendingPayables, Mine,
          Crash, Restart, vars
<1>2. job' = NoJob /\ mailbox' = <<>> /\ \A s \in Slots : futures'[s] = NoFuture
  BY SMTT(30), <1>1 DEF GoDown
<1>3. UNCHANGED <<charged, committed>>
  <2>1. CASE ContinueJob
    BY ZenonT(30), <2>1 DEF ContinueJob, MarkPendingPayable, DiscardFailedTransactions, TransactionConfirmed,
       DeleteConfirmed, CancelFailedTransactions, UpdateRemainingFingerprints, external
  <2>2. CASE HandleMessage
    BY ZenonT(30), <2>2 DEF HandleMessage, HandlePayablePaymentSetup, HandleNewPendingPayableFingerprints,
       HandleSentPayables, HandleScanError, HandleReportTransactionReceipts, external
  <2>3. CASE \E s \in Slots : Continue(s)
    BY ZenonT(30), <2>3 DEF Continue, BuildBlockchainAgent, SignAndSubmit, NonceQueryFails, ChainTakesBatch,
       BatchAnswered, SubmitBatchFails, ProcessTransactionReceipts, Complete
  <2> QED BY ZenonT(30), <2>1, <2>2, <2>3
          DEF Next, RecordServiceConsumed, Mature, ScanForPayables, ScanForPendingPayables, Mine,
          Crash, Restart, vars, external
<1>4. NoOverpayment'
  BY SMTT(30), <1>3, BooksCover DEF NoOverpayment
<1> QED BY SMTT(30), <1>2, <1>4 DEF DownInv

\* A Node that is down does nothing; its transactions are mined all the same.
LEMMA PaidOnceDown ==
    ASSUME TypeOK, TypeOK', DownInv, \A tx \in chain : tx.hash.amount >= 0, [Next]_vars,
           node # "up", node' # "up"
    PROVE  DownInv'
<1>1. job.at = "idle" /\ \A s \in Slots : futures[s].stage = "idle"
  BY SMTT(60) DEF DownInv, NoJob, NoFuture
<1>2. ASSUME UNCHANGED <<job, mailbox, futures, charged, committed>> PROVE DownInv'
  BY SMTT(30), <1>2 DEF DownInv, NoOverpayment
<1>3. CASE Mine
  <2>1. PICK tx \in chain, status \in {"ok", "failed"} :
          /\ tx \in [hash : Hashes, status : {"pending", "ok", "failed"}]
          /\ committed' = IF status = "ok" THEN committed
                          ELSE [committed EXCEPT ![tx.hash.to] = @ - tx.hash.amount]
    BY Zenon, <1>3, NoncesAfterMining
  <2>2. tx.hash.amount \in Nat
    BY <2>1 DEF Hashes
  <2>3. \A w \in Wallets : committed'[w] <= committed[w]
    BY SMTT(30), <2>1, <2>2 DEF TypeOK
  <2>4. committed \in [Wallets -> Int] /\ committed' \in [Wallets -> Int]
    BY DEF TypeOK
  <2>5. UNCHANGED <<job, mailbox, futures, charged>>
    BY SMTT(30), <1>3 DEF Mine
  <2>6. NoOverpayment'
    BY SMTT(30), <2>3, <2>4, <2>5 DEF NoOverpayment, DownInv, TypeOK
  <2> QED BY SMTT(30), <2>5, <2>6 DEF DownInv
<1>4. ~ContinueJob
  BY SMTT(30), <1>1 DEF ContinueJob, MarkPendingPayable, DiscardFailedTransactions, TransactionConfirmed,
     DeleteConfirmed, CancelFailedTransactions, UpdateRemainingFingerprints
<1>5. ~HandleMessage
  BY ZenonT(30) DEF HandleMessage, HandlePayablePaymentSetup, HandleNewPendingPayableFingerprints,
     HandleSentPayables, HandleScanError, HandleReportTransactionReceipts, Receive, Idle
<1>6. \A s \in Slots : ~Continue(s)
  BY ZenonT(30), <1>1 DEF Continue, BuildBlockchainAgent, SignAndSubmit, NonceQueryFails, ChainTakesBatch,
     BatchAnswered, SubmitBatchFails, ProcessTransactionReceipts
<1> QED BY ZenonT(30), <1>2, <1>3, <1>4, <1>5, <1>6
        DEF Next, RecordServiceConsumed, Mature, ScanForPayables, ScanForPendingPayables, MayBegin,
        Idle, Crash, Restart, vars, external
\* What the chain takes is never negative.
LEMMA AmountsStep ==
    ASSUME TypeOK, NothingRefused, KnownInv, \A tx \in chain : tx.hash.amount >= 0,
           node = "up" => OwedInv, node # "up" => DownInv, [Next]_vars
    PROVE  \A tx \in chain' : tx.hash.amount >= 0
<1>1. ASSUME NEW s \in Slots, ChainTakesBatch(s) PROVE \A tx \in chain' : tx.hash.amount >= 0
  <2> DEFINE batch == Range(futures[s].batch)
  <2>1. /\ futures[s].stage = "submit"
        /\ chain' = chain \cup {[hash |-> h, status |-> "pending"] : h \in batch}
    BY Zenon, <1>1, TakenWhole
  <2>2. OwedInv
    BY SMTT(60), <2>1 DEF DownInv, NoFuture
  <2>3. \A h \in batch : h.amount >= 0
    BY SMTT(60), <2>1, <2>2 DEF OwedInv, OwedFuture
  <2> HIDE DEF batch
  <2> QED BY SMTT(60), <2>1, <2>3
<1>2. CASE Mine
  <2>1. PICK tx \in chain, status \in {"ok", "failed"} :
          chain' = (chain \ {tx}) \cup {[hash |-> tx.hash, status |-> status]}
    BY ZenonT(30), <1>2, NoncesAfterMining
  <2> QED BY <2>1
<1>3. CASE HandleMessage
  BY Zenon, <1>3 DEF HandleMessage, HandlePayablePaymentSetup, HandleNewPendingPayableFingerprints,
     HandleSentPayables, HandleScanError, HandleReportTransactionReceipts, external
<1>4. CASE ContinueJob
  BY ZenonT(30), <1>4 DEF ContinueJob, MarkPendingPayable, DiscardFailedTransactions, TransactionConfirmed,
     DeleteConfirmed, CancelFailedTransactions, UpdateRemainingFingerprints, external
<1>5. CASE \E s \in Slots : Continue(s)
  BY Zenon, <1>1, <1>5 DEF Continue, BuildBlockchainAgent, SignAndSubmit, NonceQueryFails, BatchAnswered,
     SubmitBatchFails, ProcessTransactionReceipts, external
<1> QED BY ZenonT(30), <1>2, <1>3, <1>4, <1>5
        DEF Next, RecordServiceConsumed, Mature, ScanForPayables, ScanForPendingPayables,
        Crash, Restart, vars, external

\* The first life of a Node to which nothing goes wrong stays the first one.
LEMMA FairBefore ==
    ASSUME TypeOK, [Next]_vars, FairSoFar'
    PROVE  FairSoFar /\ (node # "up" => node' # "up")
<1>1. Faults = {} /\ restarts' = 0
  BY SMTT(30), SceneFixed DEF FairSoFar, Faults
<1>2. restarts \in Nat
  BY DEF TypeOK
<1>3. ~Restart
  BY SMTT(30), <1>1, <1>2 DEF Restart
<1>4. restarts' = restarts /\ (node' = node \/ node = "up" \/ \E how \in Endings : node' = how)
  <2>1. CASE HandleMessage
    BY ZenonT(30), <2>1 DEF HandleMessage, HandlePayablePaymentSetup, HandleNewPendingPayableFingerprints,
       HandleSentPayables, HandleScanError, HandleReportTransactionReceipts
  <2>2. CASE ContinueJob
    BY ZenonT(30), <2>2 DEF ContinueJob, MarkPendingPayable, DiscardFailedTransactions, TransactionConfirmed,
       DeleteConfirmed, CancelFailedTransactions, UpdateRemainingFingerprints, GoOn, GoDown, Endings
  <2>3. CASE \E s \in Slots : Continue(s)
    BY Zenon, <2>3 DEF Continue, BuildBlockchainAgent, SignAndSubmit, NonceQueryFails, ChainTakesBatch,
       BatchAnswered, SubmitBatchFails, ProcessTransactionReceipts, Complete
  <2> QED BY ZenonT(30), <1>3, <2>1, <2>2, <2>3
          DEF Next, RecordServiceConsumed, Mature, ScanForPayables, ScanForPendingPayables, Mine,
          MayBegin, Idle, Crash, vars
<1> QED BY Zenon, <1>1, <1>4 DEF FairSoFar, Endings

\* While nothing has gone wrong, no debt is paid twice, and once nothing is in
\* flight the payable table agrees with the contract: for any number of
\* wallets, charges, scans and receipts, in every order of the answers.
THEOREM EveryDebtPaidOnce == Spec => [](FairSoFar => DebtsPaidOnce)
<1> DEFINE Inv == FairSoFar => PaidOnceInv
<1>1. Init => Inv
  <2> SUFFICES ASSUME Init PROVE PaidOnceInv
    OBVIOUS
  <2>1. /\ node = "up" /\ chain = {} /\ mailbox = <<>> /\ job = NoJob
        /\ futures = [s \in Slots |-> NoFuture] /\ fingerprints = {}
        /\ balance = [w \in Wallets |-> 0] /\ charged = [w \in Wallets |-> 0]
        /\ committed = [w \in Wallets |-> 0]
    BY SMTT(30) DEF Init
  <2>2. \A w, h : ~Open(w, h)
    BY SMTT(60), <2>1 DEF Open, Paying, Taken, Sent, Marking, Marked, NoFuture, NoJob
  <2>3. BooksInv
    BY SMTT(60), <2>1, <2>2 DEF BooksInv, WalletBooks
  <2>4. OwedInv
    BY <2>1 DEF OwedInv, OwedFuture, NoFuture
  <2> QED BY <2>1, <2>3, <2>4 DEF PaidOnceInv
<1>2. /\ TypeOK /\ TypeOK' /\ (PaymentsAnswered => ScanInv("Payables"))
      /\ (PaymentsAnswered => FreshInv /\ MarksHaveFingerprints)
      /\ (NothingRefused => KnownInv) /\ Inv /\ [Next]_vars
      => Inv'
  <2> SUFFICES ASSUME TypeOK, TypeOK', PaymentsAnswered => ScanInv("Payables"),
                      PaymentsAnswered => FreshInv /\ MarksHaveFingerprints,
                      NothingRefused => KnownInv, Inv, [Next]_vars, FairSoFar'
               PROVE  PaidOnceInv'
    OBVIOUS
  <2>1. FairSoFar /\ (node # "up" => node' # "up")
    BY FairBefore
  <2>2. Faults = {} /\ NothingRefused /\ PaymentsAnswered
    BY <2>1 DEF FairSoFar, NothingRefused, PaymentsAnswered
  <2>3. PaidOnceInv /\ ScanInv("Payables") /\ FreshInv /\ MarksHaveFingerprints /\ KnownInv
    BY SMTT(30), <2>1, <2>2
  <2>4. \A tx \in chain' : tx.hash.amount >= 0
    BY SMTT(30), <2>2, <2>3, AmountsStep DEF PaidOnceInv
  <2>5. CASE node = "up" /\ node' = "up"
    <3>1. OwedInv' /\ BooksInv'
      BY ZenonT(30), <2>2, <2>3, <2>5, PaidOnceUp DEF PaidOnceInv
    <3> QED BY ZenonT(30), <2>4, <2>5, <3>1 DEF PaidOnceInv
  <2>6. CASE node = "up" /\ node' # "up"
    <3>1. DownInv'
      BY SMTT(30), <2>2, <2>3, <2>6, PaidOnceGoesDown DEF PaidOnceInv
    <3> QED BY ZenonT(30), <2>4, <2>6, <3>1 DEF PaidOnceInv
  <2>7. CASE node # "up"
    <3>1. DownInv'
      BY SMTT(30), <2>1, <2>3, <2>7, PaidOnceDown DEF PaidOnceInv
    <3> QED BY SMTT(30), <2>1, <2>4, <2>7, <3>1 DEF PaidOnceInv
  <2> QED BY <2>5, <2>6, <2>7
<1>3. TypeOK /\ Inv => (FairSoFar => DebtsPaidOnce)
  <2> SUFFICES ASSUME TypeOK, PaidOnceInv PROVE DebtsPaidOnce
    OBVIOUS
  <2>1. NoOverpayment
    BY SMTT(30), BooksCover DEF PaidOnceInv, DownInv
  <2>2. ASSUME Quiet, fingerprints = {}, NEW w \in Wallets
        PROVE  balance[w] = charged[w] - committed[w]
    <3>1. \A h \in Hashes : ~Open(w, h)
      BY SMTT(30), <2>2 DEF Quiet, Open, Paying, Taken, Sent, Marking, Marked, NoFuture, NoJob
    <3>2. WalletBooks(w)
      BY SMTT(30), <2>2 DEF Quiet, PaidOnceInv, BooksInv
    <3>3. committed[w] = charged[w] - balance[w]
      BY <3>1, <3>2 DEF WalletBooks
    <3> QED BY SMTT(30), <3>3 DEF TypeOK
  <2> QED BY <2>1, <2>2 DEF DebtsPaidOnce, BooksAgreeWithChain
<1> QED BY <1>1, <1>2, <1>3, TypeCorrect, PayableScanInvariant, MarksInvariant, KnownInvariant, PTL
        DEF Spec
=============================================================================
