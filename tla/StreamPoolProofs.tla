-------------------------- MODULE StreamPoolProofs --------------------------
(***************************************************************************)
(* For any peers, packets and faults: the entries of the StreamHandlerPool *)
(* name streams of their own peer, and an unpopulated entry always has a   *)
(* connection attempt, or the message it ended with, that will replace it. *)
(* Each of the two is inductive by itself, the second given the first.     *)
(* Packets are in one place: an invariant that names the place of each.    *)
(* Without faults none is lost: an invariant on the order in the mailbox.  *)
(***************************************************************************)
EXTENDS StreamPool, TLAPS

USE DEF Peers, Streams

-----------------------------------------------------------------------------
(* Messages                                                                *)

LEMMA MessageTypes ==
  /\ \A p \in Packets : TransmitMsg(p) \in Messages /\ TransmitMsg(p).type = "transmit"
  /\ \A s \in Streams, k \in Peers : AddMsg(s, k) \in Messages /\ AddMsg(s, k).type = "add"
        /\ AddMsg(s, k).stream = s /\ AddMsg(s, k).peer = k
  /\ \A k \in Peers : RemoveMsg(k) \in Messages /\ RemoveMsg(k).type = "remove" /\ RemoveMsg(k).peer = k
  /\ \A k \in Peers : GoneMsg(k) \in NeighborhoodMessages /\ GoneMsg(k) \in ShutdownMessages
  /\ \A p \in Packets : QueryMsg(p) \in NeighborhoodMessages
BY DEF TransmitMsg, ResponseMsg, AddMsg, RemoveMsg, GoneMsg, QueryMsg, Messages, NeighborhoodMessages, ShutdownMessages

LEMMA ResponseType ==
  ASSUME NEW p \in Packets, NEW found \in BOOLEAN
  PROVE  ResponseMsg(p, found) \in Messages /\ ResponseMsg(p, found).type = "response"
BY DEF ResponseMsg, Messages

LEMMA MessageFields ==
  ASSUME NEW m \in Messages
  PROVE  /\ m.type \in {"transmit", "response", "add", "remove"}
         /\ m.type \in {"transmit", "response"} => m.packet \in Packets
         /\ m.type = "response" => m.found \in BOOLEAN
         /\ m.type = "add" => m.stream \in Streams
         /\ m.type \in {"add", "remove"} => m.peer \in Peers
BY DEF Messages

LEMMA NewStreamType == \A k \in Peers : NewStream(k) \in StreamRecords /\ NewStream(k).peer = k
BY DEF NewStream, StreamRecords

LEMMA LoseType ==
  ASSUME PoolTypeOK, NEW ps, Lose(ps)
  PROVE  fate' \in [Packets -> {"unsent", "pending", "written", "lost"}]
BY DEF PoolTypeOK, Lose

\* Streams keep their places and their peers.
PeersKept ==
    /\ Len(streams) <= Len(streams')
    /\ \A s \in 1 .. Len(streams) : streams'[s].peer = streams[s].peer

LEMMA SameStreams ==
  ASSUME PoolTypeOK, UNCHANGED streams
  PROVE  PeersKept
<1>1. Len(streams) \in Nat
  BY DEF PoolTypeOK
<1> QED BY <1>1 DEF PeersKept

LEMMA EntriesKept ==
  ASSUME PoolTypeOK, PeersKept,
         \A k \in Peers : streamWriters'[k] \in {streamWriters[k], Absent, Opening}
  PROVE  EntriesBelong'
<1> SUFFICES ASSUME NEW k \in Peers, streamWriters'[k] \in Streams
             PROVE  streamWriters'[k] <= Len(streams') /\ streams'[streamWriters'[k]].peer = k
  BY DEF EntriesBelong
<1>1. streamWriters'[k] = streamWriters[k]
  BY PoolAssumption
<1>2. streamWriters[k] \in 1 .. Len(streams) /\ streams[streamWriters[k]].peer = k
  BY <1>1, PoolAssumption DEF PoolTypeOK, EntriesBelong
<1>3. Len(streams) <= Len(streams') /\ Len(streams) \in Nat
  BY DEF PeersKept, PoolTypeOK
<1>4. streams'[streamWriters[k]].peer = k
  BY <1>2 DEF PeersKept
<1> QED BY <1>1, <1>2, <1>3, <1>4, SMT DEF PeersKept

LEMMA AddKept ==
  ASSUME PoolTypeOK, PeersKept, NEW i \in DOMAIN mail, mail[i].type = "add"
  PROVE  mail[i].stream <= Len(streams') /\ streams'[mail[i].stream].peer = mail[i].peer
<1>1. mail[i] \in Messages
  BY DEF PoolTypeOK
<1>2. mail[i].stream \in 1 .. Len(streams) /\ streams[mail[i].stream].peer = mail[i].peer
  BY <1>1, MessageFields, PoolAssumption DEF PoolTypeOK, AddsBelong
<1>3. Len(streams) <= Len(streams') /\ Len(streams) \in Nat
  BY DEF PeersKept, PoolTypeOK
<1>4. streams'[mail[i].stream].peer = mail[i].peer
  BY <1>2 DEF PeersKept
<1> QED BY <1>2, <1>3, <1>4, SMT DEF PeersKept

\* What is taken off the mailbox, or put behind it, leaves the other messages as they are.
LEMMA MailKept ==
  ASSUME PoolTypeOK, PeersKept, UNCHANGED mail
  PROVE  mail' \in Seq(Messages) /\ AddsBelong'
BY AddKept DEF PoolTypeOK, AddsBelong

LEMMA TailBelongs ==
  ASSUME PoolTypeOK, mail # <<>>, PeersKept, mail' = Tail(mail)
  PROVE  mail' \in Seq(Messages) /\ AddsBelong'
<1>1. mail' \in Seq(Messages)
  BY DEF PoolTypeOK
<1>2. \A i \in DOMAIN mail' : i + 1 \in DOMAIN mail /\ mail'[i] = mail[i + 1]
  BY DEF PoolTypeOK
<1> QED BY <1>1, <1>2, AddKept DEF AddsBelong

LEMMA AppendBelongs ==
  ASSUME PoolTypeOK, NEW m \in Messages, PeersKept, mail' = Append(mail, m),
         m.type = "add" => m.stream <= Len(streams') /\ streams'[m.stream].peer = m.peer
  PROVE  mail' \in Seq(Messages) /\ AddsBelong'
<1>1. mail' \in Seq(Messages)
  BY DEF PoolTypeOK
<1>2. \A i \in DOMAIN mail' : IF i = Len(mail) + 1 THEN mail'[i] = m
                                 ELSE i \in DOMAIN mail /\ mail'[i] = mail[i]
  BY DEF PoolTypeOK
<1> QED BY <1>1, <1>2, AddKept DEF AddsBelong

\* Changing a stream's reader, writer or channel
LEMMA StreamUpdate ==
  ASSUME PoolTypeOK, NEW s \in DOMAIN streams, NEW r \in StreamRecords,
         r.peer = streams[s].peer, streams' = [streams EXCEPT ![s] = r]
  PROVE  streams' \in Seq(StreamRecords) /\ Len(streams') = Len(streams) /\ PeersKept
BY DEF PoolTypeOK, PeersKept

LEMMA StreamAppend ==
  ASSUME PoolTypeOK, NEW k \in Peers, Len(streams) < MaxStreams,
         streams' = Append(streams, NewStream(k))
  PROVE  /\ streams' \in Seq(StreamRecords)
         /\ Len(streams') = Len(streams) + 1
         /\ Len(streams) + 1 \in Streams
         /\ streams'[Len(streams) + 1].peer = k
         /\ PeersKept
BY NewStreamType, PoolAssumption DEF PoolTypeOK, PeersKept

-----------------------------------------------------------------------------
(* Type correctness                                                        *)

LEMMA InitTypeOK == PoolInit => PoolTypeOK
BY PoolAssumption DEF PoolInit, PoolTypeOK, EntriesBelong, AddsBelong

LEMMA PacketSteps ==
  ASSUME PoolTypeOK, NEW p \in Packets, Transmit(p) \/ Resubmit(p)
  PROVE  PoolTypeOK'
<1>1. PeersKept
  BY Zenon, SameStreams DEF Transmit, Resubmit
<1>2. EntriesBelong'
  BY Zenon, <1>1, EntriesKept DEF Transmit, Resubmit
<1>3. mail' \in Seq(Messages) /\ AddsBelong'
  <2>1. CASE Transmit(p)
    BY <2>1, <1>1, AppendBelongs, MessageTypes DEF Transmit
  <2>2. CASE Resubmit(p)
    BY Zenon, <2>2, <1>1, AppendBelongs, ResponseType DEF Resubmit
  <2> QED BY <2>1, <2>2
<1> QED BY Zenon, <1>2, <1>3 DEF PoolTypeOK, Transmit, Resubmit, neighborhoodVars

LEMMA ConnectSteps ==
  ASSUME PoolTypeOK, NEW p \in Packets, ConnectEnds(p)
  PROVE  PoolTypeOK'
<1>k. To[p] \in Peers
  BY PoolAssumption
<1>1. CASE ConnectSucceeds(p)
  <2> DEFINE s == Len(streams) + 1
             add == AddMsg(s, To[p])
             response == ResponseMsg(p, TRUE)
  <2>1. /\ streams' \in Seq(StreamRecords) /\ Len(streams') = s /\ s \in Streams
        /\ streams'[s].peer = To[p] /\ PeersKept
    BY <1>1, <1>k, StreamAppend DEF ConnectSucceeds
  <2>2. EntriesBelong'
    BY <1>1, <2>1, EntriesKept DEF ConnectSucceeds
  <2>3. add \in Messages /\ add.type = "add" /\ add.stream = s /\ add.peer = To[p]
    BY <2>1, <1>k, MessageTypes
  <2>r. response \in Messages /\ response.type = "response"
    BY Zenon, ResponseType
  <2>4. mail' = mail \o <<add, response>>
    BY <1>1 DEF ConnectSucceeds
  <2> HIDE DEF s, add, response
  <2>5. mail' \in Seq(Messages)
    BY <2>3, <2>r, <2>4 DEF PoolTypeOK
  <2>6. \A i \in DOMAIN mail' : IF i \in DOMAIN mail THEN mail'[i] = mail[i] /\ mail[i] \in Messages
                                 ELSE mail'[i] \in {add, response}
    BY <2>3, <2>r, <2>4 DEF PoolTypeOK
  <2>7. AddsBelong'
    BY <2>1, <2>3, <2>r, <2>6, AddKept DEF AddsBelong
  <2>8. Len(streams') <= MaxStreams
    BY <2>1, PoolAssumption
  <2> QED BY Zenon, <1>1, <2>1, <2>2, <2>5, <2>7, <2>8 DEF PoolTypeOK, ConnectSucceeds, neighborhoodVars
<1>2. CASE ConnectFails(p)
  <2>1. PeersKept
    BY <1>2, SameStreams DEF ConnectFails
  <2>2. EntriesBelong'
    BY <1>2, <2>1, EntriesKept DEF ConnectFails
  <2>3. mail' \in Seq(Messages) /\ AddsBelong'
    BY <1>2, <1>k, <2>1, AppendBelongs, MessageTypes DEF ConnectFails
  <2>4. fate' \in [Packets -> {"unsent", "pending", "written", "lost"}]
    BY <1>2, LoseType DEF ConnectFails
  <2>5. neighborhood' \in Seq(NeighborhoodMessages)
    BY <1>2, <1>k, MessageTypes DEF ConnectFails, PoolTypeOK
  <2> QED BY <1>2, <2>2, <2>3, <2>4, <2>5 DEF PoolTypeOK, ConnectFails
<1> QED BY <1>1, <1>2 DEF ConnectEnds

LEMMA AcceptStep ==
  ASSUME PoolTypeOK, NEW k \in Peers, Accept(k)
  PROVE  PoolTypeOK'
<1> DEFINE s == Len(streams) + 1
<1>1. /\ streams' \in Seq(StreamRecords) /\ Len(streams') = s /\ s \in Streams
      /\ streams'[s].peer = k /\ PeersKept
  BY StreamAppend DEF Accept
<1>2. EntriesBelong'
  BY <1>1, EntriesKept DEF Accept
<1>3. AddMsg(s, k) \in Messages /\ AddMsg(s, k).stream = s /\ AddMsg(s, k).peer = k
  BY <1>1, MessageTypes
<1>4. mail' = Append(mail, AddMsg(s, k))
  BY DEF Accept
<1> HIDE DEF s
<1>5. s <= Len(streams')
  BY <1>1, PoolAssumption
<1>6. mail' \in Seq(Messages) /\ AddsBelong'
  BY <1>1, <1>3, <1>4, <1>5, AppendBelongs
<1>7. Len(streams') <= MaxStreams
  BY <1>1, PoolAssumption
<1> QED BY <1>1, <1>2, <1>6, <1>7 DEF PoolTypeOK, Accept, neighborhoodVars

\* The message at the head of the mailbox
LEMMA HeadIsMessage ==
  ASSUME PoolTypeOK, mail # <<>>
  PROVE  Head(mail) \in Messages /\ 1 \in DOMAIN mail /\ Head(mail) = mail[1]
BY DEF PoolTypeOK

LEMMA TransmitHandled ==
  ASSUME PoolTypeOK, HandleTransmitDataMsg
  PROVE  PoolTypeOK'
<1> DEFINE p == Head(mail).packet
<1>1. mail # <<>> /\ p \in Packets
  BY HeadIsMessage, MessageFields DEF HandleTransmitDataMsg, Receive
<1>2. PeersKept
  BY SameStreams DEF HandleTransmitDataMsg
<1>3. EntriesBelong'
  BY <1>2, EntriesKept DEF HandleTransmitDataMsg
<1>4. CASE p \in BySocket
  <2>1. mail' = Append(Tail(mail), ResponseMsg(p, TRUE)) /\ UNCHANGED neighborhood
    BY Zenon, <1>4 DEF HandleTransmitDataMsg
  <2> DEFINE r == ResponseMsg(p, TRUE)
  <2>2. r \in Messages /\ r.type = "response"
    BY Zenon, <1>1, ResponseType
  <2>3. mail' = Append(Tail(mail), r)
    BY <2>1
  <2> HIDE DEF r
  <2>4. mail' \in Seq(Messages) /\ \A i \in DOMAIN mail' :
           IF i = Len(mail) THEN mail'[i] = r ELSE i + 1 \in DOMAIN mail /\ mail'[i] = mail[i + 1]
    <3>1. /\ Tail(mail) \in Seq(Messages) /\ Len(Tail(mail)) = Len(mail) - 1
          /\ \A i \in 1 .. Len(mail) - 1 : Tail(mail)[i] = mail[i + 1] /\ i + 1 \in DOMAIN mail
          /\ Len(mail) \in Nat \ {0}
      BY <1>1 DEF PoolTypeOK
    <3> QED BY <2>2, <2>3, <3>1
  <2>5. AddsBelong'
    BY <1>2, <2>2, <2>4, AddKept DEF AddsBelong
  <2> QED BY Zenon, <1>3, <2>1, <2>4, <2>5 DEF PoolTypeOK, HandleTransmitDataMsg
<1>5. CASE p \notin BySocket
  <2>1. mail' = Tail(mail) /\ neighborhood' = Append(neighborhood, QueryMsg(p))
    BY <1>5 DEF HandleTransmitDataMsg
  <2>2. neighborhood' \in Seq(NeighborhoodMessages)
    BY <1>1, <2>1, MessageTypes DEF PoolTypeOK
  <2>3. mail' \in Seq(Messages) /\ AddsBelong'
    BY <1>1, <1>2, <2>1, TailBelongs
  <2> QED BY <1>3, <2>2, <2>3 DEF PoolTypeOK, HandleTransmitDataMsg
<1> QED BY <1>4, <1>5

LEMMA AddHandled ==
  ASSUME PoolTypeOK, HandleAddStreamMsg
  PROVE  PoolTypeOK'
<1> DEFINE m == Head(mail)
           s == m.stream
           r == [streams[s] EXCEPT !.reader = "running", !.writer = "running"]
<1>1. /\ mail # <<>> /\ m \in Messages /\ m.type = "add" /\ 1 \in DOMAIN mail /\ m = mail[1]
      /\ m.peer \in Peers /\ s \in Streams
  BY HeadIsMessage, MessageFields DEF HandleAddStreamMsg, Receive
<1>2. s \in DOMAIN streams /\ streams[s].peer = m.peer /\ s <= Len(streams)
  BY <1>1, PoolAssumption DEF PoolTypeOK, AddsBelong
<1>3. r \in StreamRecords /\ r.peer = streams[s].peer
  <2>1. streams[s] \in StreamRecords
    BY <1>2 DEF PoolTypeOK
  <2> QED BY Zenon, <2>1 DEF StreamRecords
<1>4. streams' = [streams EXCEPT ![s] = r]
  BY Zenon, <1>2 DEF HandleAddStreamMsg, PoolTypeOK
<1>5. streams' \in Seq(StreamRecords) /\ Len(streams') = Len(streams) /\ PeersKept
  BY Zenon, <1>2, <1>3, <1>4, StreamUpdate
<1>6. streamWriters' = [k \in Peers |-> IF k = m.peer THEN s ELSE streamWriters[k]]
  BY DEF HandleAddStreamMsg, SameKey
<1>7. streamWriters' \in [Peers -> Streams \cup {Absent, Opening}]
  BY <1>1, <1>6 DEF PoolTypeOK
<1>8. EntriesBelong'
  <2> SUFFICES ASSUME NEW k \in Peers, streamWriters'[k] \in Streams
               PROVE  streamWriters'[k] <= Len(streams') /\ streams'[streamWriters'[k]].peer = k
    BY SMTT(30) DEF EntriesBelong
  <2>1. CASE k = m.peer
    BY <2>1, <1>2, <1>3, <1>4, <1>5, <1>6
  <2>2. CASE k # m.peer
    <3>1. streamWriters'[k] = streamWriters[k]
      BY <2>2, <1>6
    <3>2. streamWriters[k] \in 1 .. Len(streams) /\ streams[streamWriters[k]].peer = k
      BY <3>1, PoolAssumption DEF PoolTypeOK, EntriesBelong
    <3> QED BY <3>1, <3>2, <1>5 DEF PeersKept
  <2> QED BY <2>1, <2>2
<1>9. mail' \in Seq(Messages) /\ AddsBelong'
  BY <1>1, <1>5, TailBelongs DEF HandleAddStreamMsg
<1> QED BY <1>5, <1>7, <1>8, <1>9 DEF PoolTypeOK, HandleAddStreamMsg, neighborhoodVars

LEMMA RemoveHandled ==
  ASSUME PoolTypeOK, HandleRemoveStreamMsg
  PROVE  PoolTypeOK'
<1>1. mail # <<>> /\ Head(mail).peer \in Peers
  BY HeadIsMessage, MessageFields DEF HandleRemoveStreamMsg, Receive
<1>2. PeersKept
  BY SameStreams DEF HandleRemoveStreamMsg
<1>3. streamWriters' = [streamWriters EXCEPT ![Head(mail).peer] = Absent]
  BY DEF HandleRemoveStreamMsg, WithoutEntry
<1>4. streamWriters' \in [Peers -> Streams \cup {Absent, Opening}]
  BY Zenon, <1>3 DEF PoolTypeOK
<1>5. \A k \in Peers : streamWriters'[k] \in {streamWriters[k], Absent, Opening}
  BY <1>3 DEF PoolTypeOK
<1>6. EntriesBelong'
  BY <1>2, <1>5, EntriesKept
<1>7. mail' \in Seq(Messages) /\ AddsBelong'
  BY <1>1, <1>2, TailBelongs DEF HandleRemoveStreamMsg
<1>8. dispatcher' \in Seq(ShutdownMessages)
  BY <1>1, MessageTypes DEF HandleRemoveStreamMsg, PoolTypeOK
<1> QED BY <1>4, <1>6, <1>7, <1>8 DEF PoolTypeOK, HandleRemoveStreamMsg

LEMMA ResponseHandled ==
  ASSUME PoolTypeOK, HandleNodeQueryResponse
  PROVE  PoolTypeOK'
<1> DEFINE p == Head(mail).packet
           T == /\ fate' \in [Packets -> {"unsent", "pending", "written", "lost"}]
                /\ streamWriters' \in [Peers -> Streams \cup {Absent, Opening}]
                /\ \A k \in Peers : streamWriters'[k] \in {streamWriters[k], Absent, Opening}
                /\ connecting' \subseteq Packets
                /\ delayed' \subseteq Packets
                /\ streams' \in Seq(StreamRecords)
                /\ Len(streams') <= MaxStreams
                /\ PeersKept
<1>1. mail # <<>> /\ p \in Packets
  BY HeadIsMessage, MessageFields DEF HandleNodeQueryResponse, Receive
<1>2. To[p] \in Peers
  BY <1>1, PoolAssumption
<1> HIDE DEF p
<1>3. DiscardPacket(p) => T
  BY LoseType, SameStreams DEF DiscardPacket, PoolTypeOK
<1>4. DelayPacket(p) => T
  BY <1>1, SameStreams DEF DelayPacket, PoolTypeOK
<1>5. OpenNewStream(p) => T
  BY <1>1, <1>2, SameStreams DEF OpenNewStream, PoolTypeOK
<1>6. ASSUME NEW s \in Streams, streamWriters[To[p]] = s, SendOnOpenStream(p, s)
      PROVE  T
  <2>1. streamWriters' \in {streamWriters, [streamWriters EXCEPT ![To[p]] = Absent]}
    BY <1>6 DEF SendOnOpenStream
  <2>2. /\ streamWriters' \in [Peers -> Streams \cup {Absent, Opening}]
        /\ \A k \in Peers : streamWriters'[k] \in {streamWriters[k], Absent, Opening}
    BY SMTT(30), <1>2, <2>1 DEF PoolTypeOK
  <2>3. UNCHANGED <<connecting, delayed>>
    BY <1>6 DEF SendOnOpenStream
  <2>4. CASE streams[s].writer = "ended"
    BY <1>6, <2>2, <2>3, <2>4, LoseType, SameStreams DEF SendOnOpenStream, PoolTypeOK
  <2>5. CASE streams[s].writer # "ended"
    <3> DEFINE r == [streams[s] EXCEPT !.channel = Append(@, p)]
    <3>1. s \in DOMAIN streams
      <4>1. s <= Len(streams)
        BY SMTT(30), <1>2, <1>6 DEF PoolTypeOK, EntriesBelong
      <4>2. DOMAIN streams = 1 .. Len(streams) /\ Len(streams) \in Nat
        BY DEF PoolTypeOK
      <4> QED BY <4>1, <4>2, PoolAssumption
    <3>2. r \in StreamRecords /\ r.peer = streams[s].peer
      <4>1. streams[s] \in StreamRecords
        BY <3>1 DEF PoolTypeOK
      <4>2. Append(streams[s].channel, p) \in Seq(Packets)
        BY <1>1, <4>1 DEF StreamRecords
      <4> QED BY Zenon, <4>1, <4>2 DEF StreamRecords
    <3>3. streams' = [streams EXCEPT ![s] = r] /\ UNCHANGED fate
      BY <1>6, <2>5 DEF SendOnOpenStream
    <3>4. streams' \in Seq(StreamRecords) /\ Len(streams') = Len(streams) /\ PeersKept
      BY Zenon, <3>1, <3>2, <3>3, StreamUpdate
    <3> QED BY <2>2, <2>3, <3>3, <3>4 DEF PoolTypeOK
  <2> QED BY <2>4, <2>5
<1>7. T
  BY Zenon, <1>3, <1>4, <1>5, <1>6 DEF HandleNodeQueryResponse, SendOrQueuePacket, p
<1>8. EntriesBelong'
  BY <1>7, EntriesKept
<1>9. mail' \in Seq(Messages) /\ AddsBelong'
  BY <1>1, <1>7, TailBelongs DEF HandleNodeQueryResponse
<1> QED BY <1>7, <1>8, <1>9 DEF PoolTypeOK, HandleNodeQueryResponse, neighborhoodVars

LEMMA ReaderStep ==
  ASSUME PoolTypeOK, NEW s \in Streams, ReaderEnds(s)
  PROVE  PoolTypeOK'
<1> DEFINE r == [streams[s] EXCEPT !.reader = "ended"]
<1>1. s \in DOMAIN streams /\ streams[s] \in StreamRecords
  BY DEF ReaderEnds, PoolTypeOK
<1>2. r \in StreamRecords /\ r.peer = streams[s].peer /\ r.peer \in Peers
  BY <1>1 DEF StreamRecords
<1>3. streams' = [streams EXCEPT ![s] = r]
  BY DEF ReaderEnds
<1>4. streams' \in Seq(StreamRecords) /\ Len(streams') = Len(streams) /\ PeersKept
  BY Zenon, <1>1, <1>2, <1>3, StreamUpdate
<1>5. EntriesBelong'
  BY <1>4, EntriesKept DEF ReaderEnds
<1>6. mail' \in Seq(Messages) /\ AddsBelong'
  BY <1>2, <1>4, MessageTypes, AppendBelongs DEF ReaderEnds
<1> QED BY <1>4, <1>5, <1>6 DEF PoolTypeOK, ReaderEnds, neighborhoodVars

LEMMA WriterStep ==
  ASSUME PoolTypeOK, NEW s \in Streams, WriterProceeds(s)
  PROVE  PoolTypeOK'
<1>1. s \in DOMAIN streams /\ streams[s] \in StreamRecords
  BY DEF WriterProceeds, WriterWrites, WriterBreaks, WriterEnds, WriterRuns, PoolTypeOK
<1>2. PICK r \in StreamRecords : r.peer = streams[s].peer /\ streams' = [streams EXCEPT ![s] = r]
  <2>1. CASE WriterWrites(s)
    <3>1. [streams[s] EXCEPT !.channel = Tail(@)] \in StreamRecords
      <4>1. Tail(streams[s].channel) \in Seq(Packets)
        BY <1>1, <2>1 DEF StreamRecords, WriterWrites
      <4> QED BY Zenon, <1>1, <4>1 DEF StreamRecords
    <3> QED BY Zenon, <1>1, <2>1, <3>1 DEF WriterWrites, StreamRecords
  <2>2. CASE WriterBreaks(s)
    <3>1. [streams[s] EXCEPT !.writer = "ended", !.channel = <<>>] \in StreamRecords
      <4>1. <<>> \in Seq(Packets)
        OBVIOUS
      <4> QED BY Zenon, <1>1, <4>1 DEF StreamRecords
    <3> QED BY Zenon, <1>1, <2>2, <3>1 DEF WriterBreaks, StreamRecords, PoolTypeOK
  <2>3. CASE WriterEnds(s)
    <3>1. [streams[s] EXCEPT !.writer = "ended"] \in StreamRecords
      BY <1>1 DEF StreamRecords
    <3> QED BY Zenon, <1>1, <2>3, <3>1 DEF WriterEnds, StreamRecords
  <2> QED BY <2>1, <2>2, <2>3 DEF WriterProceeds
<1>3. streams' \in Seq(StreamRecords) /\ Len(streams') = Len(streams) /\ PeersKept
  BY Zenon, <1>1, <1>2, StreamUpdate
<1>4. UNCHANGED <<poolVars, neighborhoodVars>>
  BY DEF WriterProceeds, WriterWrites, WriterBreaks, WriterEnds
<1>5. fate' \in [Packets -> {"unsent", "pending", "written", "lost"}]
  BY Zenon, LoseType DEF WriterProceeds, WriterWrites, WriterBreaks, WriterEnds, PoolTypeOK
<1>6. EntriesBelong'
  BY <1>3, <1>4, EntriesKept DEF poolVars
<1>7. mail' \in Seq(Messages) /\ AddsBelong'
  BY <1>3, <1>4, MailKept DEF poolVars
<1> QED BY <1>3, <1>4, <1>5, <1>6, <1>7 DEF PoolTypeOK, poolVars, neighborhoodVars

LEMMA NeighborhoodSteps ==
  ASSUME PoolTypeOK, RelayStreamShutdown \/ HandleNodeQuery \/ RemoveNeighbor \/ \E n \in Neighbors : Learn(n)
  PROVE  PoolTypeOK'
<1>1. PeersKept /\ EntriesBelong'
  BY SameStreams, EntriesKept DEF RelayStreamShutdown, HandleNodeQuery, RemoveNeighbor, Learn, poolVars
<1>2. CASE RelayStreamShutdown
  <2>1. mail' \in Seq(Messages) /\ AddsBelong'
    BY <1>1, <1>2, MailKept DEF RelayStreamShutdown, poolVars
  <2>2. Head(dispatcher) \in NeighborhoodMessages
    <3>1. Head(dispatcher) \in ShutdownMessages
      BY <1>2 DEF RelayStreamShutdown, PoolTypeOK
    <3> QED BY <3>1 DEF NeighborhoodMessages
  <2>3. neighborhood' \in Seq(NeighborhoodMessages)
    BY <1>2, <2>2 DEF RelayStreamShutdown, PoolTypeOK
  <2> QED BY <1>1, <1>2, <2>1, <2>3 DEF PoolTypeOK, RelayStreamShutdown, poolVars
<1>3. CASE HandleNodeQuery
  <2> DEFINE p == Head(neighborhood).packet
  <2>1. p \in Packets
    <3>1. Head(neighborhood) \in NeighborhoodMessages
      BY <1>3 DEF HandleNodeQuery, PoolTypeOK
    <3> QED BY <1>3, <3>1 DEF HandleNodeQuery, NeighborhoodMessages, ShutdownMessages
  <2> DEFINE found == To[p] \in known
  <2>f. found \in BOOLEAN
    OBVIOUS
  <2>m. mail' = Append(mail, ResponseMsg(p, found))
    BY <1>3 DEF HandleNodeQuery
  <2> HIDE DEF p, found
  <2>2. ResponseMsg(p, found) \in Messages /\ ResponseMsg(p, found).type = "response"
    BY <2>1, <2>f, ResponseType
  <2>3. mail' \in Seq(Messages) /\ AddsBelong'
    BY <1>1, <2>m, <2>2, AppendBelongs
  <2>4. neighborhood' \in Seq(NeighborhoodMessages)
    BY <1>3 DEF HandleNodeQuery, PoolTypeOK
  <2> QED BY <1>1, <1>3, <2>3, <2>4 DEF PoolTypeOK, HandleNodeQuery
<1>4. CASE RemoveNeighbor
  <2>1. mail' \in Seq(Messages) /\ AddsBelong'
    BY <1>1, <1>4, MailKept DEF RemoveNeighbor, poolVars
  <2> QED BY <1>1, <1>4, <2>1 DEF PoolTypeOK, RemoveNeighbor, poolVars
<1>5. CASE \E n \in Neighbors : Learn(n)
  <2>1. mail' \in Seq(Messages) /\ AddsBelong'
    BY <1>1, <1>5, MailKept DEF Learn, poolVars
  <2> QED BY ZenonT(30), <1>1, <1>5, <2>1 DEF PoolTypeOK, Learn, poolVars
<1> QED BY <1>2, <1>3, <1>4, <1>5

LEMMA NextTypeOK ==
  ASSUME PoolTypeOK, [PoolNext]_spVars
  PROVE  PoolTypeOK'
<1>1. CASE Handlers
  BY <1>1, TransmitHandled, ResponseHandled, AddHandled, RemoveHandled DEF Handlers
<1>2. CASE UNCHANGED spVars
  <2>1. PeersKept /\ EntriesBelong'
    BY <1>2, SameStreams, EntriesKept DEF spVars, poolVars
  <2>2. AddsBelong'
    BY <1>2, <2>1, MailKept DEF spVars, poolVars
  <2> QED BY <1>2, <2>1, <2>2 DEF PoolTypeOK, spVars, poolVars, neighborhoodVars
<1> QED BY <1>1, <1>2, PacketSteps, ConnectSteps, AcceptStep, ReaderStep, WriterStep, NeighborhoodSteps
        DEF PoolNext

\* stream_writers, the mailbox and the connection futures never name a stream
\* that does not exist or that belongs to another peer.
THEOREM PoolTypeCorrect == PoolSpec => []PoolTypeOK
BY InitTypeOK, NextTypeOK, PTL DEF PoolSpec

-----------------------------------------------------------------------------
(* Unpopulated entries                                                     *)

\* Messages that replace or remove an entry stay in the mailbox.
ReplacersKept == \A i \in DOMAIN mail : mail[i].type \in {"add", "remove"} =>
    \E j \in DOMAIN mail' : mail'[j] = mail[i]

LEMMA AppendKeeps ==
  ASSUME PoolTypeOK, NEW m, mail' = Append(mail, m)
  PROVE  ReplacersKept
<1>1. \A i \in DOMAIN mail : i \in DOMAIN mail' /\ mail'[i] = mail[i]
  BY DEF PoolTypeOK
<1> QED BY <1>1 DEF ReplacersKept

\* All messages but the first stay when the first is taken.
LEMMA TailKeeps ==
  ASSUME PoolTypeOK, mail # <<>>, mail' = Tail(mail),
         NEW i \in DOMAIN mail, mail[i] # Head(mail)
  PROVE  \E j \in DOMAIN mail' : mail'[j] = mail[i]
<1>1. /\ Len(mail) \in Nat /\ DOMAIN mail = 1 .. Len(mail) /\ Head(mail) = mail[1]
      /\ DOMAIN mail' = 1 .. Len(mail) - 1
      /\ \A j \in 1 .. Len(mail) - 1 : mail'[j] = mail[j + 1]
  BY DEF PoolTypeOK
<1>2. i - 1 \in 1 .. Len(mail) - 1 /\ (i - 1) + 1 = i
  BY <1>1
<1> QED BY <1>1, <1>2

LEMMA CauseKept ==
  ASSUME PoolTypeOK, OpeningHasCause, ReplacersKept, connecting \subseteq connecting',
         \A k \in Peers : streamWriters'[k] = Opening => streamWriters[k] = Opening
  PROVE  OpeningHasCause'
BY DEF OpeningHasCause, ReplacersKept

LEMMA SameMail ==
  ASSUME UNCHANGED mail
  PROVE  ReplacersKept
BY DEF ReplacersKept

LEMMA ConnectCause ==
  ASSUME PoolTypeOK, OpeningHasCause, NEW p \in Packets, ConnectEnds(p)
  PROVE  OpeningHasCause'
<1>1. \E j \in DOMAIN mail' : mail'[j].type \in {"add", "remove"} /\ mail'[j].peer = To[p]
  <2>1. CASE ConnectSucceeds(p)
    <3> DEFINE add == AddMsg(Len(streams) + 1, To[p])
               response == ResponseMsg(p, TRUE)
    <3>1. add.type = "add" /\ add.peer = To[p]
      BY DEF AddMsg
    <3>2. mail' = mail \o <<add, response>>
      BY <2>1 DEF ConnectSucceeds
    <3> HIDE DEF add, response
    <3>3. Len(mail) + 1 \in DOMAIN mail' /\ mail'[Len(mail) + 1] = add
      BY <3>2 DEF PoolTypeOK
    <3> QED BY <3>1, <3>3
  <2>2. CASE ConnectFails(p)
    <3>1. RemoveMsg(To[p]).type = "remove" /\ RemoveMsg(To[p]).peer = To[p]
      BY DEF RemoveMsg
    <3>2. Len(mail) + 1 \in DOMAIN mail' /\ mail'[Len(mail) + 1] = RemoveMsg(To[p])
      BY <2>2 DEF ConnectFails, PoolTypeOK
    <3> QED BY <3>1, <3>2
  <2> QED BY <2>1, <2>2 DEF ConnectEnds
<1>2. ReplacersKept
  <2>1. CASE ConnectSucceeds(p)
    <3> DEFINE two == <<AddMsg(Len(streams) + 1, To[p]), ResponseMsg(p, TRUE)>>
    <3>1. mail' = mail \o two /\ Len(two) = 2
      BY <2>1 DEF ConnectSucceeds
    <3>2. two \in Seq({two[1], two[2]})
      OBVIOUS
    <3> HIDE DEF two
    <3>3. \A i \in DOMAIN mail : i \in DOMAIN mail' /\ mail'[i] = mail[i]
      BY <3>1, <3>2 DEF PoolTypeOK
    <3> QED BY <3>3 DEF ReplacersKept
  <2>2. CASE ConnectFails(p)
    BY <2>2, AppendKeeps DEF ConnectFails
  <2> QED BY <2>1, <2>2 DEF ConnectEnds
<1>3. connecting' = connecting \ {p} /\ UNCHANGED streamWriters
  BY DEF ConnectEnds, ConnectSucceeds, ConnectFails
<1> QED BY <1>1, <1>2, <1>3 DEF OpeningHasCause, ReplacersKept

\* An entry that is replaced or removed is no longer unpopulated.
LEMMA ReplacedCause ==
  ASSUME PoolTypeOK, OpeningHasCause, HandleAddStreamMsg \/ HandleRemoveStreamMsg
  PROVE  OpeningHasCause'
<1> DEFINE m == Head(mail)
<1>1. mail # <<>> /\ m \in Messages /\ m.type \in {"add", "remove"} /\ m.peer \in Peers
  BY HeadIsMessage, MessageFields DEF HandleAddStreamMsg, HandleRemoveStreamMsg, Receive
<1>2. m.type = "add" => m.stream \in Streams
  BY <1>1, MessageFields
<1>3. mail' = Tail(mail) /\ UNCHANGED connecting
  BY DEF HandleAddStreamMsg, HandleRemoveStreamMsg
<1>4. streamWriters'[m.peer] # Opening
  <2>1. CASE HandleAddStreamMsg
    <3>1. m.type = "add"
      BY <2>1 DEF HandleAddStreamMsg, Receive
    <3>2. streamWriters'[m.peer] = m.stream
      BY <1>1, <2>1 DEF HandleAddStreamMsg, SameKey
    <3> QED BY <1>2, <3>1, <3>2, PoolAssumption
  <2>2. CASE HandleRemoveStreamMsg
    <3>1. streamWriters'[m.peer] = Absent
      BY <1>1, <2>2 DEF HandleRemoveStreamMsg, WithoutEntry, PoolTypeOK
    <3> QED BY <3>1, PoolAssumption
  <2> QED BY <2>1, <2>2
<1>5. \A k \in Peers : k # m.peer => streamWriters'[k] = streamWriters[k]
  BY DEF HandleAddStreamMsg, HandleRemoveStreamMsg, SameKey, WithoutEntry, PoolTypeOK
<1> HIDE DEF m
<1>6. SUFFICES ASSUME NEW k \in Peers, streamWriters'[k] = Opening
               PROVE  \/ \E p \in connecting' : To[p] = k
                      \/ \E j \in DOMAIN mail' : mail'[j].type \in {"add", "remove"} /\ mail'[j].peer = k
  BY DEF OpeningHasCause
<1>7. k # m.peer /\ streamWriters[k] = Opening
  BY <1>4, <1>5, <1>6
<1>8. CASE \E p \in connecting : To[p] = k
  BY <1>3, <1>8
<1>9. CASE \E i \in DOMAIN mail : mail[i].type \in {"add", "remove"} /\ mail[i].peer = k
  <2>1. PICK i \in DOMAIN mail : mail[i].type \in {"add", "remove"} /\ mail[i].peer = k
    BY <1>9
  <2>2. mail[i] # Head(mail)
    BY <1>7, <2>1 DEF m
  <2>3. PICK j \in DOMAIN mail' : mail'[j] = mail[i]
    BY <1>1, <1>3, <2>2, TailKeeps
  <2> QED BY <2>1, <2>3
<1> QED BY <1>7, <1>8, <1>9 DEF OpeningHasCause

\* A message of another kind takes no cause with it.
LEMMA OtherHeadKeeps ==
  ASSUME PoolTypeOK, mail # <<>>, Head(mail).type \notin {"add", "remove"}, mail' = Tail(mail)
  PROVE  ReplacersKept
BY TailKeeps DEF ReplacersKept

LEMMA TransmitCause ==
  ASSUME PoolTypeOK, OpeningHasCause, HandleTransmitDataMsg
  PROVE  OpeningHasCause'
<1> DEFINE r == ResponseMsg(Head(mail).packet, TRUE)
<1>1. mail # <<>> /\ Head(mail).type \notin {"add", "remove"}
  BY DEF HandleTransmitDataMsg, Receive
<1>2. mail' = Tail(mail) \/ mail' = Append(Tail(mail), r)
  BY Zenon DEF HandleTransmitDataMsg
<1> HIDE DEF r
<1>3. ReplacersKept
  <2>1. CASE mail' = Tail(mail)
    BY <1>1, <2>1, OtherHeadKeeps
  <2>2. CASE mail' = Append(Tail(mail), r)
    <3>1. /\ Len(mail) \in Nat /\ DOMAIN mail = 1 .. Len(mail) /\ Head(mail) = mail[1]
          /\ DOMAIN mail' = 1 .. Len(mail)
          /\ \A j \in 1 .. Len(mail) - 1 : mail'[j] = mail[j + 1]
      BY <1>1, <2>2 DEF PoolTypeOK
    <3> SUFFICES ASSUME NEW i \in DOMAIN mail, mail[i].type \in {"add", "remove"}
                 PROVE  \E j \in DOMAIN mail' : mail'[j] = mail[i]
      BY DEF ReplacersKept
    <3>2. i - 1 \in 1 .. Len(mail) - 1 /\ (i - 1) + 1 = i
      BY <1>1, <3>1
    <3> QED BY <3>1, <3>2
  <2> QED BY <1>2, <2>1, <2>2
<1> QED BY <1>3, CauseKept DEF HandleTransmitDataMsg

LEMMA ResponseCause ==
  ASSUME PoolTypeOK, OpeningHasCause, HandleNodeQueryResponse
  PROVE  OpeningHasCause'
<1> DEFINE p == Head(mail).packet
<1>1. mail # <<>> /\ Head(mail).type \notin {"add", "remove"} /\ mail' = Tail(mail) /\ p \in Packets
  BY HeadIsMessage, MessageFields DEF HandleNodeQueryResponse, Receive
<1>2. ReplacersKept
  BY <1>1, OtherHeadKeeps
<1>3. To[p] \in Peers
  BY SMTT(30), <1>1, PoolAssumption
<1>4. DiscardPacket(p) \/ DelayPacket(p) \/ OpenNewStream(p) \/ \E s \in Streams : SendOnOpenStream(p, s)
  BY DEF HandleNodeQueryResponse, SendOrQueuePacket
<1> HIDE DEF p
<1>5. CASE OpenNewStream(p)
  <2>1. /\ connecting' = connecting \cup {p}
        /\ \A k \in Peers : streamWriters'[k] = Opening => k = To[p] \/ streamWriters[k] = Opening
    BY <1>3, <1>5 DEF OpenNewStream, PoolTypeOK
  <2> QED BY <1>2, <2>1 DEF OpeningHasCause, ReplacersKept
<1>6. CASE DiscardPacket(p) \/ DelayPacket(p)
  BY <1>2, <1>6, CauseKept DEF DiscardPacket, DelayPacket
<1>7. CASE \E s \in Streams : SendOnOpenStream(p, s)
  <2>1. UNCHANGED connecting /\ streamWriters' \in {streamWriters, [streamWriters EXCEPT ![To[p]] = Absent]}
    BY <1>7 DEF SendOnOpenStream
  <2>2. \A k \in Peers : streamWriters'[k] = Opening => streamWriters[k] = Opening
    BY <1>3, <2>1, PoolAssumption DEF PoolTypeOK
  <2> QED BY <1>2, <2>1, <2>2, CauseKept
<1> QED BY <1>4, <1>5, <1>6, <1>7

LEMMA OtherCause ==
  ASSUME PoolTypeOK, OpeningHasCause,
         \/ \E p \in Packets : Transmit(p) \/ Resubmit(p)
         \/ \E k \in Peers : Accept(k)
         \/ \E s \in Streams : ReaderEnds(s) \/ WriterProceeds(s)
         \/ RelayStreamShutdown \/ HandleNodeQuery \/ RemoveNeighbor
         \/ \E n \in Neighbors : Learn(n)
         \/ UNCHANGED spVars
  PROVE  OpeningHasCause'
<1>1. UNCHANGED mail \/ \E m : mail' = Append(mail, m)
  BY Zenon DEF Transmit, Resubmit, Accept, ReaderEnds, WriterProceeds, WriterWrites, WriterBreaks, WriterEnds,
         RelayStreamShutdown, HandleNodeQuery, RemoveNeighbor, Learn, spVars, poolVars
<1>2. UNCHANGED <<connecting, streamWriters>>
  BY Zenon DEF Transmit, Resubmit, Accept, ReaderEnds, WriterProceeds, WriterWrites, WriterBreaks, WriterEnds,
         RelayStreamShutdown, HandleNodeQuery, RemoveNeighbor, Learn, spVars, poolVars
<1>3. ReplacersKept
  BY <1>1, SameMail, AppendKeeps
<1> QED BY SMTT(30), <1>2, <1>3, CauseKept

\* An unpopulated entry of stream_writers always has a connection attempt, or the
\* message it ended with, that replaces it, so that delay_packet_for_opening_stream()
\* does not resubmit packets in vain.
THEOREM OpeningAlwaysHasCause == PoolSpec => []OpeningHasCause
<1>1. PoolInit => PoolTypeOK /\ OpeningHasCause
  <2>1. PoolInit => OpeningHasCause
    BY PoolAssumption DEF PoolInit, OpeningHasCause
  <2> QED BY <2>1, InitTypeOK
<1>2. PoolTypeOK /\ OpeningHasCause /\ [PoolNext]_spVars => PoolTypeOK' /\ OpeningHasCause'
  <2> SUFFICES ASSUME PoolTypeOK, OpeningHasCause, [PoolNext]_spVars
               PROVE  PoolTypeOK' /\ OpeningHasCause'
    OBVIOUS
  <2>1. PoolTypeOK'
    BY NextTypeOK
  <2>2. OpeningHasCause'
    BY TransmitCause, ResponseCause, ReplacedCause, ConnectCause, OtherCause DEF PoolNext, Handlers
  <2> QED BY <2>1, <2>2
<1> QED BY <1>1, <1>2, PTL DEF PoolSpec

-----------------------------------------------------------------------------
(* Packets are in one place                                                *)

\* No element of the sequence q is in H, or exactly one is.
None(q, H) == \A j \in DOMAIN q : q[j] \notin H
One(q, H) == \E j \in DOMAIN q : q[j] \in H /\ \A k \in DOMAIN q : q[k] \in H => k = j

SeqKept(q, r, H) == (None(q, H) => None(r, H)) /\ (One(q, H) => One(r, H))

LEMMA AppendPlace ==
  ASSUME NEW S, NEW q \in Seq(S), NEW e \in S, NEW H
  PROVE  /\ e \notin H => SeqKept(q, Append(q, e), H)
         /\ e \in H /\ None(q, H) => One(Append(q, e), H)
<1> DEFINE r == Append(q, e)
<1>1. /\ Len(q) \in Nat /\ DOMAIN q = 1 .. Len(q) /\ DOMAIN r = 1 .. Len(q) + 1
      /\ r[Len(q) + 1] = e /\ \A j \in 1 .. Len(q) : r[j] = q[j]
  OBVIOUS
<1> HIDE DEF r
<1>2. /\ Len(q) + 1 \in DOMAIN r
      /\ \A j \in DOMAIN r : j \in DOMAIN q \/ j = Len(q) + 1
      /\ \A j \in DOMAIN q : j \in DOMAIN r /\ r[j] = q[j]
  BY <1>1
<1>3. e \notin H => SeqKept(q, r, H)
  BY Zenon, <1>1, <1>2 DEF SeqKept, None, One
<1>4. e \in H /\ None(q, H) => One(r, H)
  BY <1>1, <1>2 DEF None, One
<1> QED BY <1>3, <1>4 DEF r

LEMMA TailPlace ==
  ASSUME NEW S, NEW q \in Seq(S), q # <<>>, NEW H
  PROVE  /\ Tail(q) \in Seq(S) /\ Head(q) \in S
         /\ None(q, H) => Head(q) \notin H
         /\ Head(q) \notin H => SeqKept(q, Tail(q), H)
         /\ Head(q) \in H /\ One(q, H) => None(Tail(q), H)
<1> DEFINE r == Tail(q)
<1>1. /\ Len(q) \in Nat \ {0} /\ DOMAIN q = 1 .. Len(q) /\ DOMAIN r = 1 .. Len(q) - 1
      /\ Head(q) = q[1] /\ r \in Seq(S) /\ \A j \in 1 .. Len(q) - 1 : r[j] = q[j + 1]
  OBVIOUS
<1> HIDE DEF r
<1>2. /\ 1 \in DOMAIN q /\ q[1] \in S
      /\ \A j \in DOMAIN r : j + 1 \in DOMAIN q /\ j + 1 # 1 /\ r[j] = q[j + 1]
      /\ \A j \in DOMAIN q : j # 1 => j - 1 \in DOMAIN r /\ r[j - 1] = q[j]
  BY <1>1
<1>3. None(q, H) => Head(q) \notin H
  BY <1>1, <1>2 DEF None
<1>4. None(q, H) => None(r, H)
  BY <1>2 DEF None
<1>5. ASSUME Head(q) \notin H, One(q, H) PROVE One(r, H)
  <2>1. PICK j \in DOMAIN q : q[j] \in H /\ \A k \in DOMAIN q : q[k] \in H => k = j
    BY <1>5 DEF One
  <2>2. j - 1 \in DOMAIN r /\ r[j - 1] \in H
    BY <1>1, <1>2, <1>5, <2>1
  <2>3. \A k \in DOMAIN r : r[k] \in H => k = j - 1
    BY <1>1, <1>2, <2>1
  <2> QED BY <2>2, <2>3 DEF One
<1>6. Head(q) \in H /\ One(q, H) => None(r, H)
  BY <1>1, <1>2 DEF One, None
<1> QED BY <1>1, <1>2, <1>3, <1>4, <1>5, <1>6 DEF r, SeqKept

LEMMA SameSeq == \A q, H : SeqKept(q, q, H)
BY DEF SeqKept

LEMMA KeptTwice ==
  ASSUME NEW q, NEW r, NEW t, NEW H, SeqKept(q, r, H), SeqKept(r, t, H)
  PROVE  SeqKept(q, t, H)
BY DEF SeqKept

\* The messages that carry the packet p.
MailOf(p) == {m \in Messages : m.type \in {"transmit", "response"} /\ m.packet = p}
QueriesOf(p) == {m \in NeighborhoodMessages : m.type = "query" /\ m.packet = p}

PlaceNames == {"none", "mail", "query", "delayed", "connecting", "channel"}

\* p is in this place and in no other; c is the stream of the channel.
Located(p, place, c) ==
    /\ IF place = "mail" THEN One(mail, MailOf(p)) ELSE None(mail, MailOf(p))
    /\ IF place = "query" THEN One(neighborhood, QueriesOf(p)) ELSE None(neighborhood, QueriesOf(p))
    /\ p \in delayed <=> place = "delayed"
    /\ p \in connecting <=> place = "connecting"
    /\ \A s \in DOMAIN streams : IF place = "channel" /\ s = c THEN One(streams[s].channel, {p})
                                 ELSE None(streams[s].channel, {p})
    /\ place = "channel" => c \in DOMAIN streams

PlaceInv(p) ==
    \E place \in PlaceNames, c \in Nat :
        /\ Located(p, place, c)
        /\ fate[p] = "pending" <=> place # "none"

LEMMA Counted ==
  ASSUME NEW q, NEW H, NEW J \in SUBSET DOMAIN q, \A j \in DOMAIN q : j \in J <=> q[j] \in H
  PROVE  /\ None(q, H) => J = {}
         /\ One(q, H) => \E i : J = {i}
<1>1. None(q, H) => J = {}
  BY DEF None
<1>2. ASSUME One(q, H) PROVE \E i : J = {i}
  <2>1. PICK i \in DOMAIN q : q[i] \in H /\ \A k \in DOMAIN q : q[k] \in H => k = i
    BY <1>2 DEF One
  <2>2. J = {i}
    BY <2>1
  <2> QED BY <2>2
<1> QED BY <1>1, <1>2

\* The places of the runs' property, from places told apart.
LEMMA PlaceIsOne ==
  ASSUME PoolTypeOK, NEW p \in Packets, PlaceInv(p)
  PROVE  /\ fate[p] = "pending" => \E x : Places(p) = {x}
         /\ fate[p] # "pending" => Places(p) = {}
<1>1. PICK place \in PlaceNames, c \in Nat : Located(p, place, c) /\ (fate[p] = "pending" <=> place # "none")
  BY DEF PlaceInv
<1> DEFINE inMail == {j \in DOMAIN mail : mail[j].type \in {"transmit", "response"} /\ mail[j].packet = p}
           inQuery == {j \in DOMAIN neighborhood : neighborhood[j].type = "query" /\ neighborhood[j].packet = p}
           inChannel(s) == {j \in DOMAIN streams[s].channel : streams[s].channel[j] = p}
<1>2. /\ \A j \in DOMAIN mail : j \in inMail <=> mail[j] \in MailOf(p)
      /\ \A j \in DOMAIN neighborhood : j \in inQuery <=> neighborhood[j] \in QueriesOf(p)
      /\ \A s \in DOMAIN streams : \A j \in DOMAIN streams[s].channel :
            j \in inChannel(s) <=> streams[s].channel[j] \in {p}
      /\ inMail \subseteq DOMAIN mail /\ inQuery \subseteq DOMAIN neighborhood
      /\ \A s \in DOMAIN streams : inChannel(s) \subseteq DOMAIN streams[s].channel
  <2>1. \A j \in DOMAIN mail : mail[j] \in Messages
    BY DEF PoolTypeOK
  <2>2. \A j \in DOMAIN neighborhood : neighborhood[j] \in NeighborhoodMessages
    BY DEF PoolTypeOK
  <2> QED BY <2>1, <2>2 DEF MailOf, QueriesOf
<1>3. ASSUME NEW x
      PROVE  x \in Places(p) <=> \/ \E i \in inMail : x = <<"mail", i>>
                                 \/ \E i \in inQuery : x = <<"neighborhood", i>>
                                 \/ p \in delayed /\ x = <<"delayed", p>>
                                 \/ p \in connecting /\ x = <<"connecting", p>>
                                 \/ \E s \in DOMAIN streams : \E i \in inChannel(s) : x = <<"stream", s, i>>
  BY DEF Places
<1> HIDE DEF inMail, inQuery, inChannel
<1>4. /\ IF place = "mail" THEN \E i : inMail = {i} ELSE inMail = {}
      /\ IF place = "query" THEN \E i : inQuery = {i} ELSE inQuery = {}
      /\ \A s \in DOMAIN streams : IF place = "channel" /\ s = c THEN \E i : inChannel(s) = {i}
                                   ELSE inChannel(s) = {}
  <2>1. IF place = "mail" THEN \E i : inMail = {i} ELSE inMail = {}
    <3> DEFINE H == MailOf(p)
    <3>1. /\ inMail \in SUBSET DOMAIN mail
          /\ \A j \in DOMAIN mail : j \in inMail <=> mail[j] \in H
          /\ IF place = "mail" THEN One(mail, H) ELSE None(mail, H)
      BY <1>1, <1>2 DEF Located
    <3> HIDE DEF H
    <3> QED BY Zenon, <3>1, Counted
  <2>2. IF place = "query" THEN \E i : inQuery = {i} ELSE inQuery = {}
    <3> DEFINE H == QueriesOf(p)
    <3>1. /\ inQuery \in SUBSET DOMAIN neighborhood
          /\ \A j \in DOMAIN neighborhood : j \in inQuery <=> neighborhood[j] \in H
          /\ IF place = "query" THEN One(neighborhood, H) ELSE None(neighborhood, H)
      BY <1>1, <1>2 DEF Located
    <3> HIDE DEF H
    <3> QED BY Zenon, <3>1, Counted
  <2>3. ASSUME NEW s \in DOMAIN streams
        PROVE  IF place = "channel" /\ s = c THEN \E i : inChannel(s) = {i} ELSE inChannel(s) = {}
    <3> DEFINE q == streams[s].channel
               J == inChannel(s)
    <3>1. /\ J \subseteq DOMAIN q
          /\ \A j \in DOMAIN q : j \in J <=> q[j] \in {p}
          /\ IF place = "channel" /\ s = c THEN One(q, {p}) ELSE None(q, {p})
      BY Zenon, <1>1, <1>2 DEF Located
    <3> HIDE DEF q, J
    <3>2. IF place = "channel" /\ s = c THEN \E i : J = {i} ELSE J = {}
      BY Zenon, <3>1, Counted
    <3> QED BY Zenon, <3>2 DEF J
  <2> QED BY Zenon, <2>1, <2>2, <2>3
<1>5. place = "none" => Places(p) = {}
  BY <1>1, <1>3, <1>4 DEF Located
<1>6. place # "none" => \E x : Places(p) = {x}
  <2>1. CASE place = "mail"
    <3>1. PICK i : inMail = {i}
      BY <1>4, <2>1
    <3> DEFINE y == <<"mail", i>>
    <3>2. \A x : x \in Places(p) <=> x = y
      BY <1>1, <1>3, <1>4, <2>1, <3>1 DEF Located
    <3> HIDE DEF y
    <3>9. Places(p) = {y}
      BY <3>2
    <3> QED BY <3>9
  <2>2. CASE place = "query"
    <3>1. PICK i : inQuery = {i}
      BY <1>4, <2>2
    <3> DEFINE y == <<"neighborhood", i>>
    <3>2. \A x : x \in Places(p) <=> x = y
      BY SMTT(30), <1>1, <1>3, <1>4, <2>2, <3>1 DEF Located
    <3> HIDE DEF y
    <3>9. Places(p) = {y}
      BY <3>2
    <3> QED BY <3>9
  <2>3. CASE place = "delayed"
    <3> DEFINE y == <<"delayed", p>>
    <3>2. \A x : x \in Places(p) <=> x = y
      BY <1>1, <1>3, <1>4, <2>3 DEF Located
    <3> HIDE DEF y
    <3>9. Places(p) = {y}
      BY <3>2
    <3> QED BY <3>9
  <2>4. CASE place = "connecting"
    <3> DEFINE y == <<"connecting", p>>
    <3>2. \A x : x \in Places(p) <=> x = y
      BY <1>1, <1>3, <1>4, <2>4 DEF Located
    <3> HIDE DEF y
    <3>9. Places(p) = {y}
      BY <3>2
    <3> QED BY <3>9
  <2>5. CASE place = "channel"
    <3>1. c \in DOMAIN streams
      BY <1>1, <2>5 DEF Located
    <3>2. PICK i : inChannel(c) = {i}
      BY Zenon, <1>4, <2>5, <3>1
    <3> DEFINE y == <<"stream", c, i>>
    <3>3. \A x : x \in Places(p) <=> x = y
      BY <1>1, <1>3, <1>4, <2>5, <3>1, <3>2 DEF Located
    <3> HIDE DEF y
    <3>9. Places(p) = {y}
      BY <3>3
    <3> QED BY <3>9
  <2> QED BY Zenon, <1>1, <2>1, <2>2, <2>3, <2>4, <2>5 DEF PlaceNames
<1> QED BY Zenon, <1>1, <1>5, <1>6
\* What happens to the packet p leaves it where it is.
ChannelsKept(p) ==
    /\ DOMAIN streams \subseteq DOMAIN streams'
    /\ \A s \in DOMAIN streams : SeqKept(streams[s].channel, streams'[s].channel, {p})
    /\ \A s \in DOMAIN streams' : s \notin DOMAIN streams => None(streams'[s].channel, {p})

PacketKept(p) ==
    /\ SeqKept(mail, mail', MailOf(p))
    /\ SeqKept(neighborhood, neighborhood', QueriesOf(p))
    /\ p \in delayed' <=> p \in delayed
    /\ p \in connecting' <=> p \in connecting
    /\ ChannelsKept(p)
    /\ fate'[p] = fate[p]

LEMMA PlaceKept ==
  ASSUME NEW p \in Packets, PlaceInv(p), PacketKept(p)
  PROVE  PlaceInv(p)'
<1>1. PICK place \in PlaceNames, c \in Nat : Located(p, place, c) /\ (fate[p] = "pending" <=> place # "none")
  BY DEF PlaceInv
<1>2. Located(p, place, c)'
  <2>1. IF place = "mail" THEN One(mail', MailOf(p)) ELSE None(mail', MailOf(p))
    BY SMTT(30), <1>1 DEF Located, PacketKept, SeqKept
  <2>2. IF place = "query" THEN One(neighborhood', QueriesOf(p)) ELSE None(neighborhood', QueriesOf(p))
    BY SMTT(30), <1>1 DEF Located, PacketKept, SeqKept
  <2>3. \A s \in DOMAIN streams' : IF place = "channel" /\ s = c THEN One(streams'[s].channel, {p})
                                   ELSE None(streams'[s].channel, {p})
    BY Zenon, <1>1 DEF Located, PacketKept, ChannelsKept, SeqKept
  <2>4. place = "channel" => c \in DOMAIN streams'
    BY <1>1 DEF Located, PacketKept, ChannelsKept
  <2>5. (p \in delayed' <=> place = "delayed") /\ (p \in connecting' <=> place = "connecting")
    BY <1>1 DEF Located, PacketKept
  <2> QED BY SMTT(30), <2>1, <2>2, <2>3, <2>4, <2>5 DEF Located
<1>3. fate'[p] = "pending" <=> place # "none"
  BY <1>1 DEF PacketKept
<1> QED BY <1>2, <1>3 DEF PlaceInv

LEMMA PlaceNew ==
  ASSUME NEW p \in Packets, NEW place \in PlaceNames, NEW c \in Nat,
         Located(p, place, c)', fate'[p] = "pending" <=> place # "none"
  PROVE  PlaceInv(p)'
BY DEF PlaceInv

LEMMA WhoseMessage ==
  ASSUME NEW p \in Packets, NEW q \in Packets
  PROVE  /\ TransmitMsg(q) \in MailOf(p) <=> q = p
         /\ \A found \in BOOLEAN : ResponseMsg(q, found) \in MailOf(p) <=> q = p
         /\ \A s \in Streams, k \in Peers : AddMsg(s, k) \notin MailOf(p)
         /\ \A k \in Peers : RemoveMsg(k) \notin MailOf(p)
         /\ QueryMsg(q) \in QueriesOf(p) <=> q = p
         /\ \A m \in ShutdownMessages : m \notin QueriesOf(p)
<1>1. TransmitMsg(q) \in MailOf(p) <=> q = p
  BY MessageTypes DEF MailOf, TransmitMsg
<1>2. ASSUME NEW found \in BOOLEAN PROVE ResponseMsg(q, found) \in MailOf(p) <=> q = p
  <2>1. ResponseMsg(q, found) \in Messages
    BY ResponseType
  <2> QED BY <2>1 DEF MailOf, ResponseMsg
<1>3. \A s \in Streams, k \in Peers : AddMsg(s, k) \notin MailOf(p)
  BY DEF MailOf, AddMsg
<1>4. \A k \in Peers : RemoveMsg(k) \notin MailOf(p)
  BY DEF MailOf, RemoveMsg
<1>5. QueryMsg(q) \in QueriesOf(p) <=> q = p
  BY MessageTypes DEF QueriesOf, QueryMsg
<1>6. \A m \in ShutdownMessages : m \notin QueriesOf(p)
  BY DEF QueriesOf, ShutdownMessages
<1> QED BY SMTT(30), <1>1, <1>2, <1>3, <1>4, <1>5, <1>6

\* The head of the mailbox is about one packet, or about none.
LEMMA HeadsPacket ==
  ASSUME NEW m \in Messages, NEW p \in Packets
  PROVE  m \in MailOf(p) <=> m.type \in {"transmit", "response"} /\ m.packet = p
BY DEF MailOf

LEMMA SameChannels ==
  ASSUME UNCHANGED streams, NEW p
  PROVE  ChannelsKept(p)
BY SameSeq DEF ChannelsKept

LEMMA NewChannel ==
  ASSUME PoolTypeOK, NEW k \in Peers, streams' = Append(streams, NewStream(k)), NEW p
  PROVE  ChannelsKept(p)
<1>1. /\ Len(streams) \in Nat /\ DOMAIN streams = 1 .. Len(streams) /\ DOMAIN streams' = 1 .. Len(streams) + 1
      /\ \A s \in DOMAIN streams : streams'[s] = streams[s]
      /\ streams'[Len(streams) + 1] = NewStream(k)
  BY DEF PoolTypeOK
<1>2. None(NewStream(k).channel, {p})
  BY DEF NewStream, None
<1>3. \A s \in DOMAIN streams' : s \notin DOMAIN streams => s = Len(streams) + 1
  BY <1>1
<1> QED BY SMTT(30), <1>1, <1>2, <1>3, SameSeq DEF ChannelsKept

LEMMA ChannelUpdate ==
  ASSUME PoolTypeOK, NEW s \in DOMAIN streams, NEW r, streams' = [streams EXCEPT ![s] = r],
         NEW p, SeqKept(streams[s].channel, r.channel, {p})
  PROVE  ChannelsKept(p)
<1>1. DOMAIN streams' = DOMAIN streams /\ streams'[s] = r /\ \A u \in DOMAIN streams : u # s => streams'[u] = streams[u]
  BY DEF PoolTypeOK
<1> QED BY <1>1, SameSeq DEF ChannelsKept
AllPlaced == \A p \in Packets : PlaceInv(p)

LEMMA MailPut ==
  ASSUME PoolTypeOK, NEW m \in Messages, mail' = Append(mail, m), NEW p \in Packets
  PROVE  /\ m \notin MailOf(p) => SeqKept(mail, mail', MailOf(p))
         /\ m \in MailOf(p) /\ None(mail, MailOf(p)) => One(mail', MailOf(p))
<1>1. mail \in Seq(Messages)
  BY DEF PoolTypeOK
<1> QED BY <1>1, AppendPlace

LEMMA MailTaken ==
  ASSUME PoolTypeOK, mail # <<>>, NEW p \in Packets
  PROVE  /\ Tail(mail) \in Seq(Messages) /\ Head(mail) \in Messages
         /\ None(mail, MailOf(p)) => Head(mail) \notin MailOf(p)
         /\ Head(mail) \notin MailOf(p) => SeqKept(mail, Tail(mail), MailOf(p))
         /\ Head(mail) \in MailOf(p) /\ One(mail, MailOf(p)) => None(Tail(mail), MailOf(p))
<1>1. mail \in Seq(Messages)
  BY DEF PoolTypeOK
<1> DEFINE H == MailOf(p)
<1> HIDE DEF H
<1>2. /\ Tail(mail) \in Seq(Messages) /\ Head(mail) \in Messages
      /\ None(mail, H) => Head(mail) \notin H
      /\ Head(mail) \notin H => SeqKept(mail, Tail(mail), H)
      /\ Head(mail) \in H /\ One(mail, H) => None(Tail(mail), H)
  BY <1>1, TailPlace
<1> QED BY <1>2 DEF H

LEMMA QueryPut ==
  ASSUME PoolTypeOK, NEW m \in NeighborhoodMessages, neighborhood' = Append(neighborhood, m), NEW p \in Packets
  PROVE  /\ m \notin QueriesOf(p) => SeqKept(neighborhood, neighborhood', QueriesOf(p))
         /\ m \in QueriesOf(p) /\ None(neighborhood, QueriesOf(p)) => One(neighborhood', QueriesOf(p))
<1>1. neighborhood \in Seq(NeighborhoodMessages)
  BY DEF PoolTypeOK
<1> QED BY <1>1, AppendPlace

LEMMA QueryTaken ==
  ASSUME PoolTypeOK, neighborhood # <<>>, neighborhood' = Tail(neighborhood), NEW p \in Packets
  PROVE  /\ Head(neighborhood) \in NeighborhoodMessages
         /\ None(neighborhood, QueriesOf(p)) => Head(neighborhood) \notin QueriesOf(p)
         /\ Head(neighborhood) \notin QueriesOf(p) => SeqKept(neighborhood, neighborhood', QueriesOf(p))
         /\ Head(neighborhood) \in QueriesOf(p) /\ One(neighborhood, QueriesOf(p)) =>
               None(neighborhood', QueriesOf(p))
<1>1. neighborhood \in Seq(NeighborhoodMessages)
  BY DEF PoolTypeOK
<1> DEFINE H == QueriesOf(p)
<1> HIDE DEF H
<1>2. /\ Head(neighborhood) \in NeighborhoodMessages
      /\ None(neighborhood, H) => Head(neighborhood) \notin H
      /\ Head(neighborhood) \notin H => SeqKept(neighborhood, Tail(neighborhood), H)
      /\ Head(neighborhood) \in H /\ One(neighborhood, H) => None(Tail(neighborhood), H)
  BY <1>1, TailPlace
<1> QED BY <1>2 DEF H

\* A packet is handed to the pool, or resubmitted.
LEMMA PlaceSubmit ==
  ASSUME PoolTypeOK, AllPlaced, NEW q \in Packets, Transmit(q) \/ Resubmit(q)
  PROVE  AllPlaced'
<1> SUFFICES ASSUME NEW p \in Packets PROVE PlaceInv(p)'
  BY DEF AllPlaced
<1>1. PICK m \in Messages : mail' = Append(mail, m) /\ (m \in MailOf(p) <=> q = p)
  <2>1. CASE Transmit(q)
    BY <2>1, MessageTypes, WhoseMessage DEF Transmit
  <2>2. CASE Resubmit(q)
    <3>1. ResponseMsg(q, TRUE) \in Messages /\ (ResponseMsg(q, TRUE) \in MailOf(p) <=> q = p)
      BY Zenon, ResponseType, WhoseMessage
    <3> QED BY Zenon, <2>2, <3>1 DEF Resubmit
  <2> QED BY SMTT(30), <2>1, <2>2
<1>2. UNCHANGED <<connecting, streams, neighborhood>> /\ ChannelsKept(p)
  BY Zenon, SameChannels DEF Transmit, Resubmit, neighborhoodVars
<1>3. CASE p # q
  <2>1. (p \in delayed' <=> p \in delayed) /\ fate'[p] = fate[p]
    BY Zenon, <1>3 DEF Transmit, Resubmit, PoolTypeOK
  <2>2. SeqKept(mail, mail', MailOf(p))
    BY <1>1, <1>3, MailPut
  <2>3. PacketKept(p)
    BY <1>2, <2>1, <2>2, SameSeq DEF PacketKept
  <2> QED BY <2>3, PlaceKept DEF AllPlaced
<1>4. CASE p = q
  <2>1. PICK place \in PlaceNames, c \in Nat : Located(p, place, c) /\ (fate[p] = "pending" <=> place # "none")
    BY SMTT(30) DEF AllPlaced, PlaceInv
  <2>2. place \in {"none", "delayed"} /\ p \notin delayed' /\ fate'[p] = "pending"
    BY Zenon, <1>4, <2>1 DEF Transmit, Resubmit, PoolTypeOK, Located
  <2>3. One(mail', MailOf(p))
    BY SMTT(30), <1>1, <1>4, <2>1, <2>2, MailPut DEF Located
  <2>4. Located(p, "mail", 0)'
    BY <1>2, <2>1, <2>2, <2>3 DEF Located
  <2> QED BY <2>2, <2>4, PlaceNew DEF PlaceNames
<1> QED BY <1>3, <1>4

LEMMA PlaceConnected ==
  ASSUME PoolTypeOK, AllPlaced, NEW q \in Packets, ConnectSucceeds(q)
  PROVE  AllPlaced'
<1> SUFFICES ASSUME NEW p \in Packets PROVE PlaceInv(p)'
  BY DEF AllPlaced
<1> DEFINE s == Len(streams) + 1
           add == AddMsg(s, To[q])
           response == ResponseMsg(q, TRUE)
           mid == Append(mail, add)
<1>1. To[q] \in Peers /\ s \in Streams
  BY SMTT(30), PoolAssumption, StreamAppend DEF ConnectSucceeds
<1>2. /\ add \in Messages /\ response \in Messages /\ add \notin MailOf(p)
      /\ response \in MailOf(p) <=> q = p
  BY Zenon, <1>1, MessageTypes, ResponseType, WhoseMessage
<1>3. mail \in Seq(Messages) /\ mail' = mail \o <<add, response>>
  BY DEF ConnectSucceeds, PoolTypeOK
<1>4. ChannelsKept(p)
  BY <1>1, NewChannel DEF ConnectSucceeds
<1> HIDE DEF s, add, response
<1>5. mid \in Seq(Messages) /\ mail' = Append(mid, response)
  BY <1>2, <1>3
<1> HIDE DEF mid
<1>6. SeqKept(mail, mid, MailOf(p))
  BY <1>2, <1>3, AppendPlace DEF mid
<1>7. /\ q # p => SeqKept(mid, mail', MailOf(p))
      /\ q = p /\ None(mid, MailOf(p)) => One(mail', MailOf(p))
  BY <1>2, <1>5, AppendPlace
<1>8. UNCHANGED <<delayed, neighborhood, fate>> /\ connecting' = connecting \ {q} /\ q \in connecting
  BY DEF ConnectSucceeds, neighborhoodVars
<1>9. CASE p # q
  <2>1. SeqKept(mail, mail', MailOf(p))
    BY <1>6, <1>7, <1>9, KeptTwice
  <2>2. PacketKept(p)
    BY <1>4, <1>8, <1>9, <2>1, SameSeq DEF PacketKept
  <2> QED BY <2>2, PlaceKept DEF AllPlaced
<1>10. CASE p = q
  <2>1. PICK place \in PlaceNames, c \in Nat : Located(p, place, c) /\ (fate[p] = "pending" <=> place # "none")
    BY DEF AllPlaced, PlaceInv
  <2>2. place = "connecting" /\ p \notin connecting' /\ fate'[p] = "pending"
    BY SMTT(30), <1>8, <1>10, <2>1 DEF Located
  <2>3. One(mail', MailOf(p))
    BY SMTT(30), <1>6, <1>7, <1>10, <2>1, <2>2 DEF Located, SeqKept
  <2>4. \A u \in DOMAIN streams' : None(streams'[u].channel, {p})
    BY Zenon, <1>4, <2>1, <2>2 DEF Located, ChannelsKept, SeqKept
  <2>5. Located(p, "mail", 0)'
    BY Zenon, <1>8, <2>1, <2>2, <2>3, <2>4 DEF Located
  <2> QED BY <2>2, <2>5, PlaceNew DEF PlaceNames
<1> QED BY <1>9, <1>10

LEMMA PlaceRefused ==
  ASSUME PoolTypeOK, AllPlaced, NEW q \in Packets, ConnectFails(q)
  PROVE  AllPlaced'
<1> SUFFICES ASSUME NEW p \in Packets PROVE PlaceInv(p)'
  BY DEF AllPlaced
<1>1. To[q] \in Peers
  BY SMTT(30), PoolAssumption
<1>2. SeqKept(mail, mail', MailOf(p))
  BY Zenon, <1>1, MessageTypes, WhoseMessage, MailPut DEF ConnectFails
<1>3. SeqKept(neighborhood, neighborhood', QueriesOf(p))
  <2>1. GoneMsg(To[q]) \in NeighborhoodMessages /\ GoneMsg(To[q]) \notin QueriesOf(p)
    BY <1>1, MessageTypes, WhoseMessage
  <2>2. neighborhood' = neighborhood \/ neighborhood' = Append(neighborhood, GoneMsg(To[q]))
    BY DEF ConnectFails
  <2> QED BY ZenonT(30), <2>1, <2>2, QueryPut, SameSeq
<1>4. ChannelsKept(p)
  BY SameChannels DEF ConnectFails
<1>5. UNCHANGED <<delayed, streams>> /\ connecting' = connecting \ {q} /\ q \in connecting
  BY DEF ConnectFails
<1>6. CASE p # q
  <2>1. fate'[p] = fate[p]
    BY SMTT(30), <1>6 DEF ConnectFails, Lose
  <2>2. PacketKept(p)
    BY <1>2, <1>3, <1>4, <1>5, <1>6, <2>1 DEF PacketKept
  <2> QED BY <2>2, PlaceKept DEF AllPlaced
<1>7. CASE p = q
  <2>1. PICK place \in PlaceNames, c \in Nat : Located(p, place, c) /\ (fate[p] = "pending" <=> place # "none")
    BY DEF AllPlaced, PlaceInv
  <2>2. place = "connecting" /\ p \notin connecting' /\ fate'[p] = "lost"
    BY SMTT(30), <1>5, <1>7, <2>1 DEF Located, ConnectFails, Lose
  <2>3. Located(p, "none", 0)'
    BY Zenon, <1>2, <1>3, <1>5, <2>1, <2>2 DEF Located, SeqKept
  <2> QED BY SMTT(30), <2>2, <2>3, PlaceNew DEF PlaceNames
<1> QED BY <1>6, <1>7
\* A packet at the head of the mailbox is nowhere else, and is taken off it.
LEMMA HeadPlaced ==
  ASSUME PoolTypeOK, AllPlaced, mail # <<>>, NEW p \in Packets, Head(mail) \in MailOf(p)
  PROVE  /\ Located(p, "mail", 0) /\ fate[p] = "pending"
         /\ None(Tail(mail), MailOf(p))
<1>1. PICK place \in PlaceNames, c \in Nat : Located(p, place, c) /\ (fate[p] = "pending" <=> place # "none")
  BY SMTT(30) DEF AllPlaced, PlaceInv
<1>2. place = "mail"
  BY <1>1, MailTaken DEF Located
<1>3. One(mail, MailOf(p)) /\ Located(p, "mail", 0) /\ fate[p] = "pending"
  BY Zenon, <1>1, <1>2 DEF Located
<1> QED BY <1>3, MailTaken

LEMMA PlaceTransmitHandled ==
  ASSUME PoolTypeOK, AllPlaced, HandleTransmitDataMsg
  PROVE  AllPlaced'
<1> SUFFICES ASSUME NEW p \in Packets PROVE PlaceInv(p)'
  BY DEF AllPlaced
<1> DEFINE q == Head(mail).packet
           response == ResponseMsg(q, TRUE)
           rest == Tail(mail)
<1>1. mail # <<>> /\ Head(mail).type = "transmit" /\ Head(mail) \in Messages /\ q \in Packets
  BY ZenonT(30), HeadIsMessage, MessageFields DEF HandleTransmitDataMsg, Receive
<1>2. Head(mail) \in MailOf(p) <=> q = p
  BY <1>1, HeadsPacket
<1>3. UNCHANGED <<fate, connecting, delayed, streams>> /\ ChannelsKept(p)
  BY SMTT(30), SameChannels DEF HandleTransmitDataMsg
<1>4. response \in Messages /\ (response \in MailOf(p) <=> q = p)
  BY Zenon, <1>1, ResponseType, WhoseMessage
<1>5. QueryMsg(q) \in NeighborhoodMessages /\ (QueryMsg(q) \in QueriesOf(p) <=> q = p)
  BY SMTT(30), <1>1, MessageTypes, WhoseMessage
<1>6. rest \in Seq(Messages) /\ (q # p => SeqKept(mail, rest, MailOf(p)))
  BY Zenon, <1>1, <1>2, MailTaken
<1>7. \/ mail' = Append(rest, response) /\ UNCHANGED neighborhood
      \/ mail' = rest /\ neighborhood' = Append(neighborhood, QueryMsg(q))
  BY Zenon DEF HandleTransmitDataMsg
<1>8. q = p => None(rest, MailOf(p)) /\ Located(p, "mail", 0) /\ fate[p] = "pending"
  BY <1>1, <1>2, HeadPlaced
<1> HIDE DEF q, response, rest
<1>9. CASE mail' = Append(rest, response) /\ UNCHANGED neighborhood
  <2>1. /\ q # p => SeqKept(rest, mail', MailOf(p))
        /\ q = p => One(mail', MailOf(p))
    BY <1>4, <1>6, <1>8, <1>9, AppendPlace
  <2>2. CASE q # p
    <3>1. SeqKept(mail, mail', MailOf(p))
      BY <1>6, <2>1, <2>2, KeptTwice
    <3>2. PacketKept(p)
      BY <1>3, <1>9, <3>1, SameSeq DEF PacketKept
    <3> QED BY <3>2, PlaceKept DEF AllPlaced
  <2>3. CASE q = p
    <3>1. Located(p, "mail", 0)'
      BY Zenon, <1>3, <1>8, <1>9, <2>1, <2>3 DEF Located
    <3> QED BY SMTT(30), <1>3, <1>8, <2>3, <3>1, PlaceNew DEF PlaceNames
  <2> QED BY <2>2, <2>3
<1>10. CASE mail' = rest /\ neighborhood' = Append(neighborhood, QueryMsg(q))
  <2>1. /\ q # p => SeqKept(neighborhood, neighborhood', QueriesOf(p))
        /\ q = p /\ None(neighborhood, QueriesOf(p)) => One(neighborhood', QueriesOf(p))
    BY <1>5, <1>10, QueryPut
  <2>2. CASE q # p
    <3>1. PacketKept(p)
      BY SMTT(30), <1>3, <1>6, <1>10, <2>1, <2>2 DEF PacketKept
    <3> QED BY <3>1, PlaceKept DEF AllPlaced
  <2>3. CASE q = p
    <3>1. Located(p, "query", 0)'
      BY Zenon, <1>3, <1>8, <1>10, <2>1, <2>3 DEF Located
    <3> QED BY SMTT(30), <1>3, <1>8, <2>3, <3>1, PlaceNew DEF PlaceNames
  <2> QED BY <2>2, <2>3
<1> QED BY <1>7, <1>9, <1>10

\* The Neighborhood answers a query.
LEMMA PlaceAnswered ==
  ASSUME PoolTypeOK, AllPlaced, HandleNodeQuery
  PROVE  AllPlaced'
<1> SUFFICES ASSUME NEW p \in Packets PROVE PlaceInv(p)'
  BY DEF AllPlaced
<1> DEFINE q == Head(neighborhood).packet
           found == To[q] \in known
           response == ResponseMsg(q, found)
<1>1. /\ neighborhood # <<>> /\ neighborhood' = Tail(neighborhood) /\ Head(neighborhood).type = "query"
      /\ mail' = Append(mail, response)
      /\ UNCHANGED <<fate, connecting, delayed, streams>>
  BY DEF HandleNodeQuery
<1>2. Head(neighborhood) \in NeighborhoodMessages
  BY <1>1, QueryTaken
<1>3. q \in Packets /\ (Head(neighborhood) \in QueriesOf(p) <=> q = p)
  BY <1>1, <1>2 DEF NeighborhoodMessages, ShutdownMessages, QueriesOf
<1>f. found \in BOOLEAN
  OBVIOUS
<1> HIDE DEF q, found
<1>4. response \in Messages /\ (response \in MailOf(p) <=> q = p)
  BY <1>3, <1>f, ResponseType, WhoseMessage
<1> HIDE DEF response
<1>5. ChannelsKept(p)
  BY SMTT(30), <1>1, SameChannels
<1>6. CASE q # p
  <2>1. SeqKept(neighborhood, neighborhood', QueriesOf(p)) /\ SeqKept(mail, mail', MailOf(p))
    BY SMTT(30), <1>1, <1>3, <1>4, <1>6, QueryTaken, MailPut
  <2>2. PacketKept(p)
    BY <1>1, <1>5, <2>1 DEF PacketKept
  <2> QED BY <2>2, PlaceKept DEF AllPlaced
<1>7. CASE q = p
  <2>1. PICK place \in PlaceNames, c \in Nat : Located(p, place, c) /\ (fate[p] = "pending" <=> place # "none")
    BY ZenonT(30) DEF AllPlaced, PlaceInv
  <2>2. place = "query"
    BY SMTT(30), <1>1, <1>3, <1>7, <2>1, QueryTaken DEF Located
  <2>3. None(neighborhood', QueriesOf(p)) /\ One(mail', MailOf(p))
    BY ZenonT(30), <1>1, <1>3, <1>4, <1>7, <2>1, <2>2, QueryTaken, MailPut DEF Located
  <2>4. Located(p, "mail", 0)'
    BY ZenonT(30), <1>1, <2>1, <2>2, <2>3 DEF Located
  <2> QED BY <1>1, <2>1, <2>2, <2>4, PlaceNew DEF PlaceNames
<1> QED BY <1>6, <1>7

LEMMA PlaceResponseHandled ==
  ASSUME PoolTypeOK, AllPlaced, HandleNodeQueryResponse
  PROVE  AllPlaced'
<1> SUFFICES ASSUME NEW p \in Packets PROVE PlaceInv(p)'
  BY DEF AllPlaced
<1> DEFINE q == Head(mail).packet
<1>1. /\ mail # <<>> /\ Head(mail).type = "response" /\ Head(mail) \in Messages /\ q \in Packets
      /\ mail' = Tail(mail) /\ UNCHANGED neighborhood
  BY HeadIsMessage, MessageFields DEF HandleNodeQueryResponse, Receive, neighborhoodVars
<1>2. Head(mail) \in MailOf(p) <=> q = p
  BY ZenonT(30), <1>1, HeadsPacket
<1>3. /\ q # p => SeqKept(mail, mail', MailOf(p))
      /\ q = p => None(mail', MailOf(p)) /\ Located(p, "mail", 0) /\ fate[p] = "pending"
  BY ZenonT(30), <1>1, <1>2, MailTaken, HeadPlaced
<1>4. \/ DiscardPacket(q) \/ DelayPacket(q) \/ OpenNewStream(q)
      \/ \E s \in Streams : streamWriters[To[q]] = s /\ SendOnOpenStream(q, s)
  BY ZenonT(30) DEF HandleNodeQueryResponse, SendOrQueuePacket
<1> HIDE DEF q
<1>5. ASSUME NEW s \in Streams, streamWriters[To[q]] = s, SendOnOpenStream(q, s)
      PROVE  /\ UNCHANGED <<connecting, delayed>>
             /\ \/ Lose({q}) /\ UNCHANGED streams
                \/ /\ s \in DOMAIN streams /\ UNCHANGED fate
                   /\ streams' = [streams EXCEPT ![s] = [streams[s] EXCEPT !.channel = Append(@, q)]]
  <2>1. s \in DOMAIN streams
    <3>1. To[q] \in Peers
      BY SMTT(30), <1>1, PoolAssumption
    <3>2. s <= Len(streams)
      BY Zenon, <1>5, <3>1 DEF PoolTypeOK, EntriesBelong
    <3>3. DOMAIN streams = 1 .. Len(streams) /\ Len(streams) \in Nat
      BY DEF PoolTypeOK
    <3> QED BY <3>2, <3>3, PoolAssumption
  <2> QED BY <1>5, <2>1 DEF SendOnOpenStream
<1>6. CASE q # p
  <2>1. /\ p \in delayed' <=> p \in delayed
        /\ p \in connecting' <=> p \in connecting
        /\ fate'[p] = fate[p]
    BY <1>4, <1>5, <1>6 DEF DiscardPacket, DelayPacket, OpenNewStream, Lose
  <2>2. ChannelsKept(p)
    <3>1. CASE UNCHANGED streams
      BY <3>1, SameChannels
    <3>2. ASSUME NEW s \in DOMAIN streams,
                 streams' = [streams EXCEPT ![s] = [streams[s] EXCEPT !.channel = Append(@, q)]]
          PROVE  ChannelsKept(p)
      <4> DEFINE r == [streams[s] EXCEPT !.channel = Append(@, q)]
      <4>1. streams[s].channel \in Seq(Packets) /\ r.channel = Append(streams[s].channel, q)
        <5>1. streams[s] \in StreamRecords
          BY <3>2 DEF PoolTypeOK
        <5> QED BY <5>1 DEF StreamRecords
      <4>2. SeqKept(streams[s].channel, r.channel, {p})
        BY <1>1, <1>6, <4>1, AppendPlace
      <4>3. streams' = [streams EXCEPT ![s] = r]
        BY ZenonT(30), <3>2
      <4> HIDE DEF r
      <4> QED BY Zenon, <4>2, <4>3, ChannelUpdate
    <3> QED BY <1>4, <1>5, <3>1, <3>2 DEF DiscardPacket, DelayPacket, OpenNewStream
  <2>3. PacketKept(p)
    BY SMTT(30), <1>1, <1>3, <1>6, <2>1, <2>2, SameSeq DEF PacketKept
  <2> QED BY <2>3, PlaceKept DEF AllPlaced
<1>7. CASE q = p
  <2>1. None(mail', MailOf(p)) /\ Located(p, "mail", 0) /\ fate[p] = "pending"
    BY <1>3, <1>7
  <2>2. CASE Lose({q}) /\ UNCHANGED <<connecting, delayed, streams>>
    <3>1. fate'[p] = "lost"
      BY <1>7, <2>2 DEF Lose
    <3>2. Located(p, "none", 0)'
      BY Zenon, <1>1, <2>1, <2>2 DEF Located
    <3> QED BY <3>1, <3>2, PlaceNew DEF PlaceNames
  <2>3. CASE DelayPacket(q)
    <3>1. fate'[p] = "pending"
      BY SMTT(30), <2>1, <2>3 DEF DelayPacket
    <3>2. Located(p, "delayed", 0)'
      BY Zenon, <1>1, <1>7, <2>1, <2>3 DEF Located, DelayPacket
    <3> QED BY <3>1, <3>2, PlaceNew DEF PlaceNames
  <2>4. CASE OpenNewStream(q)
    <3>1. fate'[p] = "pending"
      BY <2>1, <2>4 DEF OpenNewStream
    <3>2. Located(p, "connecting", 0)'
      BY Zenon, <1>1, <1>7, <2>1, <2>4 DEF Located, OpenNewStream
    <3> QED BY <3>1, <3>2, PlaceNew DEF PlaceNames
  <2>5. ASSUME NEW s \in DOMAIN streams, UNCHANGED <<fate, connecting, delayed>>,
               streams' = [streams EXCEPT ![s] = [streams[s] EXCEPT !.channel = Append(@, q)]]
        PROVE  PlaceInv(p)'
    <3> DEFINE ch == streams[s].channel
    <3>0. streams[s] \in StreamRecords /\ s \in Nat
      BY <2>5 DEF PoolTypeOK
    <3>1. ch \in Seq(Packets) /\ s \in Nat
      BY <3>0 DEF StreamRecords
    <3>2. /\ DOMAIN streams' = DOMAIN streams /\ streams'[s].channel = Append(ch, p)
          /\ \A u \in DOMAIN streams : u # s => streams'[u] = streams[u]
      <4> DEFINE r == [streams[s] EXCEPT !.channel = Append(@, q)]
      <4>1. r.channel = Append(ch, p)
        BY <1>7, <3>0 DEF StreamRecords
      <4>2. streams' = [streams EXCEPT ![s] = r]
        BY <2>5
      <4> HIDE DEF r
      <4> QED BY <4>1, <4>2 DEF PoolTypeOK
    <3>3. None(ch, {p})
      BY SMTT(30), <2>1 DEF Located
    <3> HIDE DEF ch
    <3>4. One(streams'[s].channel, {p})
      BY <3>1, <3>2, <3>3, AppendPlace
    <3>5. Located(p, "channel", s)'
      BY Zenon, <1>1, <2>1, <2>5, <3>2, <3>4 DEF Located
    <3> QED BY <2>1, <2>5, <3>1, <3>5, PlaceNew DEF PlaceNames
  <2> QED BY ZenonT(30), <1>4, <1>5, <2>2, <2>3, <2>4, <2>5 DEF DiscardPacket
<1> QED BY <1>6, <1>7
\* A writer writes the head of its channel, or breaks with all that is in it.
LEMMA PlaceWritten ==
  ASSUME PoolTypeOK, AllPlaced, NEW s \in Streams, WriterProceeds(s)
  PROVE  AllPlaced'
<1> SUFFICES ASSUME NEW p \in Packets PROVE PlaceInv(p)'
  BY DEF AllPlaced
<1> DEFINE ch == streams[s].channel
<1>1. s \in DOMAIN streams /\ streams[s] \in StreamRecords /\ ch \in Seq(Packets)
  <2>1. s \in DOMAIN streams /\ streams[s] \in StreamRecords
    BY DEF WriterProceeds, WriterWrites, WriterBreaks, WriterEnds, WriterRuns, PoolTypeOK
  <2> QED BY <2>1 DEF StreamRecords
<1>2. UNCHANGED <<mail, delayed, connecting, neighborhood>>
  BY SMTT(30) DEF WriterProceeds, WriterWrites, WriterBreaks, WriterEnds, poolVars, neighborhoodVars
<1>3. PICK r : /\ streams' = [streams EXCEPT ![s] = r]
               /\ \/ ch # <<>> /\ r.channel = Tail(ch) /\ fate' = [fate EXCEPT ![Head(ch)] = "written"]
                  \/ r.channel = <<>> /\ Lose({ch[i] : i \in DOMAIN ch})
                  \/ r.channel = ch /\ UNCHANGED fate
  <2>1. CASE WriterWrites(s)
    <3> DEFINE r == [streams[s] EXCEPT !.channel = Tail(@)]
    <3>1. r.channel = Tail(ch)
      BY <1>1 DEF StreamRecords
    <3>2. /\ streams' = [streams EXCEPT ![s] = r]
          /\ ch # <<>> /\ fate' = [fate EXCEPT ![Head(ch)] = "written"]
      BY <1>1, <2>1 DEF WriterWrites
    <3> HIDE DEF r, ch
    <3> QED BY Zenon, <3>1, <3>2
  <2>2. CASE WriterBreaks(s)
    <3> DEFINE r == [streams[s] EXCEPT !.writer = "ended", !.channel = <<>>]
    <3>1. r.channel = <<>>
      BY <1>1 DEF StreamRecords
    <3>2. streams' = [streams EXCEPT ![s] = r] /\ Lose({ch[i] : i \in DOMAIN ch})
      BY Zenon, <1>1, <2>2 DEF WriterBreaks, PoolTypeOK
    <3> HIDE DEF r, ch
    <3> QED BY Zenon, <3>1, <3>2
  <2>3. CASE WriterEnds(s)
    <3> DEFINE r == [streams[s] EXCEPT !.writer = "ended"]
    <3>1. r.channel = ch
      BY <1>1 DEF StreamRecords
    <3>2. streams' = [streams EXCEPT ![s] = r] /\ UNCHANGED fate
      BY <1>1, <2>3 DEF WriterEnds
    <3> HIDE DEF r, ch
    <3> QED BY Zenon, <3>1, <3>2
  <2> QED BY Zenon, <2>1, <2>2, <2>3 DEF WriterProceeds
<1>4. /\ DOMAIN streams' = DOMAIN streams /\ streams'[s].channel = r.channel
      /\ \A u \in DOMAIN streams : u # s => streams'[u] = streams[u]
  BY <1>1, <1>3 DEF PoolTypeOK
<1>n. s \in Nat
  BY PoolAssumption
<1>k. ch = streams[s].channel
  OBVIOUS
<1> HIDE DEF ch
<1>5. PICK place \in PlaceNames, c \in Nat : Located(p, place, c) /\ (fate[p] = "pending" <=> place # "none")
  BY DEF AllPlaced, PlaceInv
<1>6. ASSUME SeqKept(ch, r.channel, {p}), fate'[p] = fate[p]
      PROVE  PlaceInv(p)'
  <2>1. ChannelsKept(p)
    BY ZenonT(30), <1>1, <1>3, <1>6, <1>k, ChannelUpdate
  <2>2. PacketKept(p)
    BY <1>2, <1>6, <2>1, SameSeq DEF PacketKept
  <2> QED BY SMTT(30), <2>2, PlaceKept DEF AllPlaced
<1>7. ASSUME One(ch, {p}), None(r.channel, {p}), fate'[p] # "pending"
      PROVE  PlaceInv(p)'
  <2>1. place = "channel" /\ s = c
    BY SMTT(30), <1>1, <1>5, <1>7, <1>k DEF Located, One, None
  <2>2. \A u \in DOMAIN streams' : None(streams'[u].channel, {p})
    BY ZenonT(30), <1>4, <1>5, <1>7, <2>1 DEF Located
  <2>3. Located(p, "none", 0)'
    BY SMTT(30), <1>2, <1>5, <2>1, <2>2 DEF Located
  <2> QED BY SMTT(30), <1>7, <2>3, PlaceNew DEF PlaceNames
<1>8. One(ch, {p}) \/ None(ch, {p})
  BY Zenon, <1>1, <1>5, <1>k DEF Located
<1>9. CASE ch # <<>> /\ r.channel = Tail(ch) /\ fate' = [fate EXCEPT ![Head(ch)] = "written"]
  <2>1. /\ Head(ch) \in Packets
        /\ None(ch, {p}) => Head(ch) \notin {p}
        /\ Head(ch) \notin {p} => SeqKept(ch, Tail(ch), {p})
        /\ Head(ch) \in {p} /\ One(ch, {p}) => None(Tail(ch), {p})
    BY SMTT(30), <1>1, <1>9, TailPlace
  <2>2. fate'[p] = IF p = Head(ch) THEN "written" ELSE fate[p]
    BY <1>9 DEF PoolTypeOK
  <2> QED BY <1>6, <1>7, <1>8, <1>9, <2>1, <2>2
<1>10. CASE r.channel = <<>> /\ Lose({ch[i] : i \in DOMAIN ch})
  <2>1. None(r.channel, {p})
    BY SMTT(30), <1>10 DEF None
  <2>2. fate'[p] = IF p \in {ch[i] : i \in DOMAIN ch} THEN "lost" ELSE fate[p]
    BY SMTT(30), <1>10 DEF Lose
  <2>3. CASE One(ch, {p})
    <3>1. p \in {ch[i] : i \in DOMAIN ch}
      BY SMTT(30), <2>3 DEF One
    <3> QED BY SMTT(30), <1>7, <2>1, <2>2, <2>3, <3>1
  <2>4. CASE None(ch, {p})
    <3>1. p \notin {ch[i] : i \in DOMAIN ch} /\ ~One(ch, {p})
      BY SMTT(30), <2>4 DEF One, None
    <3>2. SeqKept(ch, r.channel, {p})
      BY <2>1, <3>1 DEF SeqKept
    <3> QED BY SMTT(30), <1>6, <2>2, <3>1, <3>2
  <2> QED BY SMTT(30), <1>8, <2>3, <2>4
<1>11. CASE r.channel = ch /\ UNCHANGED fate
  BY <1>6, <1>11, SameSeq
<1> QED BY <1>3, <1>9, <1>10, <1>11

\* The other steps move no packet.
LEMMA PlaceOther ==
  ASSUME PoolTypeOK, AllPlaced,
         \/ HandleAddStreamMsg \/ HandleRemoveStreamMsg
         \/ \E k \in Peers : Accept(k)
         \/ \E s \in Streams : ReaderEnds(s)
         \/ RelayStreamShutdown \/ RemoveNeighbor
         \/ \E n \in Neighbors : Learn(n)
         \/ UNCHANGED spVars
  PROVE  AllPlaced'
<1> SUFFICES ASSUME NEW p \in Packets PROVE PlaceInv(p)'
  BY SMTT(30) DEF AllPlaced
<1>1. UNCHANGED <<fate, connecting, delayed>>
  BY SMTT(30) DEF HandleAddStreamMsg, HandleRemoveStreamMsg, Accept, ReaderEnds, RelayStreamShutdown, RemoveNeighbor, Learn,
         spVars, poolVars
<1>2. SeqKept(mail, mail', MailOf(p))
  <2>1. CASE HandleAddStreamMsg \/ HandleRemoveStreamMsg
    <3>1. mail # <<>> /\ Head(mail).type \in {"add", "remove"} /\ mail' = Tail(mail)
      BY <2>1 DEF HandleAddStreamMsg, HandleRemoveStreamMsg, Receive
    <3>2. Head(mail) \notin MailOf(p)
      BY SMTT(30), <3>1, HeadIsMessage, HeadsPacket
    <3> QED BY SMTT(30), <3>1, <3>2, MailTaken
  <2>2. ASSUME NEW k \in Peers, Accept(k)
        PROVE  SeqKept(mail, mail', MailOf(p))
    <3>1. Len(streams) + 1 \in Streams /\ mail' = Append(mail, AddMsg(Len(streams) + 1, k))
      BY SMTT(30), <2>2, StreamAppend DEF Accept
    <3> QED BY SMTT(30), <3>1, MessageTypes, WhoseMessage, MailPut
  <2>3. ASSUME NEW s \in Streams, ReaderEnds(s)
        PROVE  SeqKept(mail, mail', MailOf(p))
    <3>1. streams[s] \in StreamRecords /\ mail' = Append(mail, RemoveMsg(streams[s].peer))
      BY SMTT(30), <2>3 DEF ReaderEnds, PoolTypeOK
    <3>2. streams[s].peer \in Peers
      BY Zenon, <3>1 DEF StreamRecords
    <3> QED BY Zenon, <3>1, <3>2, MessageTypes, WhoseMessage, MailPut
  <2>4. CASE UNCHANGED mail
    BY <2>4, SameSeq
  <2> QED BY SMTT(30), <2>1, <2>2, <2>3, <2>4 DEF RelayStreamShutdown, RemoveNeighbor, Learn, spVars, poolVars
<1>3. SeqKept(neighborhood, neighborhood', QueriesOf(p))
  <2>1. CASE RelayStreamShutdown
    <3>1. Head(dispatcher) \in ShutdownMessages
      BY <2>1 DEF RelayStreamShutdown, PoolTypeOK
    <3>2. Head(dispatcher) \in NeighborhoodMessages /\ Head(dispatcher) \notin QueriesOf(p)
      BY <3>1, WhoseMessage DEF NeighborhoodMessages
    <3>3. UNCHANGED neighborhood \/ neighborhood' = Append(neighborhood, Head(dispatcher))
      BY <2>1 DEF RelayStreamShutdown
    <3> QED BY SMTT(30), <3>2, <3>3, QueryPut, SameSeq
  <2>2. CASE RemoveNeighbor
    <3>1. neighborhood # <<>> /\ neighborhood' = Tail(neighborhood) /\ Head(neighborhood).type = "gone"
      BY <2>2 DEF RemoveNeighbor
    <3>2. Head(neighborhood) \notin QueriesOf(p)
      BY SMTT(30), <3>1 DEF QueriesOf
    <3> QED BY SMTT(30), <3>1, <3>2, QueryTaken
  <2>3. CASE UNCHANGED neighborhood
    BY <2>3, SameSeq
  <2> QED BY SMTT(30), <2>1, <2>2, <2>3 DEF HandleAddStreamMsg, HandleRemoveStreamMsg, Accept, ReaderEnds, Learn,
                                  spVars, neighborhoodVars
<1>4. ChannelsKept(p)
  <2>1. CASE UNCHANGED streams
    BY <2>1, SameChannels
  <2>2. ASSUME NEW k \in Peers, Accept(k) PROVE ChannelsKept(p)
    BY <2>2, NewChannel DEF Accept
  <2>3. ASSUME NEW s \in Streams, ReaderEnds(s) PROVE ChannelsKept(p)
    <3> DEFINE r == [streams[s] EXCEPT !.reader = "ended"]
    <3>1. s \in DOMAIN streams /\ streams[s] \in StreamRecords /\ streams' = [streams EXCEPT ![s] = r]
      BY <2>3 DEF ReaderEnds, PoolTypeOK
    <3>2. SeqKept(streams[s].channel, r.channel, {p})
      BY <3>1, SameSeq DEF StreamRecords
    <3> HIDE DEF r
    <3> QED BY Zenon, <3>1, <3>2, ChannelUpdate
  <2>4. CASE HandleAddStreamMsg
    <3> DEFINE s == Head(mail).stream
               r == [streams[s] EXCEPT !.reader = "running", !.writer = "running"]
    <3>1. /\ mail # <<>> /\ Head(mail) \in Messages /\ Head(mail).type = "add"
          /\ 1 \in DOMAIN mail /\ Head(mail) = mail[1] /\ s \in Streams
      BY <2>4, HeadIsMessage, MessageFields DEF HandleAddStreamMsg, Receive
    <3>2. s \in DOMAIN streams
      BY SMTT(30), <3>1, PoolAssumption DEF PoolTypeOK, AddsBelong
    <3>3. streams[s] \in StreamRecords
      BY <3>2 DEF PoolTypeOK
    <3>4. streams' = [streams EXCEPT ![s] = r]
      BY Zenon, <2>4, <3>2 DEF HandleAddStreamMsg, PoolTypeOK
    <3>5. SeqKept(streams[s].channel, r.channel, {p})
      BY <3>3, SameSeq DEF StreamRecords
    <3> HIDE DEF r, s
    <3> QED BY Zenon, <3>2, <3>4, <3>5, ChannelUpdate
  <2> QED BY <2>1, <2>2, <2>3, <2>4 DEF HandleRemoveStreamMsg, RelayStreamShutdown, RemoveNeighbor, Learn, spVars
<1>5. PacketKept(p)
  BY <1>1, <1>2, <1>3, <1>4 DEF PacketKept
<1> QED BY <1>5, PlaceKept DEF AllPlaced

LEMMA InitPlaced == PoolInit => AllPlaced
<1> SUFFICES ASSUME PoolInit, NEW p \in Packets PROVE PlaceInv(p)
  BY DEF AllPlaced
<1>1. Located(p, "none", 0) /\ fate[p] = "unsent"
  BY DEF Located, None, PoolInit
<1> QED BY <1>1 DEF PlaceInv, PlaceNames

LEMMA NextPlaced ==
  ASSUME PoolTypeOK, AllPlaced, [PoolNext]_spVars
  PROVE  AllPlaced'
BY PlaceSubmit, PlaceConnected, PlaceRefused, PlaceTransmitHandled, PlaceAnswered, PlaceResponseHandled,
   PlaceWritten, PlaceOther DEF PoolNext, Handlers, ConnectEnds
-----------------------------------------------------------------------------
(* Nothing is lost unless something fails                                  *)

\* With no faults: what the messages in a mailbox are like.
QuietMail(q) == \A i \in DOMAIN q : q[i].type # "remove" /\ (q[i].type = "response" => q[i].found = TRUE)

\* A stream is added once, and before its writer runs.
AddsNew(q, st) == \A i \in DOMAIN q : q[i].type = "add" =>
    /\ st[q[i].stream].writer = "new"
    /\ \A j \in DOMAIN q : q[j].type = "add" /\ q[j].stream = q[i].stream => j = i

Carries(m, b) == m.type \in {"transmit", "response"} /\ To[m.packet] = b
AddsPeer(m, b) == m.type = "add" /\ m.peer = b

\* A packet for a browser is behind the message that adds its stream.
Served(q, sw) == \A b \in Browsers : \A i \in DOMAIN q : Carries(q[i], b) =>
    \/ sw[b] \in Streams
    \/ \E j \in DOMAIN q : j < i /\ AddsPeer(q[j], b)

\* Nothing for a browser comes after its last data.  A "transmit" goes to the end of
\* the mailbox once more, as a "response".
InOrder(q) == \A b \in Browsers : \A i, j \in DOMAIN q :
    Carries(q[i], b) /\ Carries(q[j], b) /\ q[i].packet \in Last /\ i # j =>
        \/ q[j].type = "response" /\ q[i].type = "transmit"
        \/ q[j].type = q[i].type /\ j < i

Present(q, sw, b) == sw[b] \in Streams \/ \E j \in DOMAIN q : AddsPeer(q[j], b)

\* A browser that connected keeps its entry until its last data is handed over.
BrowsersKept(q, sw, st, ft) == \A b \in Browsers :
    (\E s \in DOMAIN st : st[s].peer = b) =>
        Present(q, sw, b) \/ \E p \in Last : To[p] = b /\ ft[p] # "unsent"

WritersRun(sw, st) == \A k \in Peers : sw[k] \in Streams => st[sw[k]].writer = "running"

\* Only packets for neighbors wait for a connection or an answer.
NeighborsWait ==
    /\ \A p \in delayed \cup connecting : To[p] \in Neighbors
    /\ \A b \in Browsers : streamWriters[b] # Opening
    /\ known = Neighbors /\ dispatcher = <<>>
    /\ \A i \in DOMAIN neighborhood : neighborhood[i].type = "query" /\ neighborhood[i].packet \notin BySocket

\* Together with NothingLost, inductive without faults.
QuietInv ==
    /\ QuietMail(mail) /\ AddsNew(mail, streams) /\ Served(mail, streamWriters) /\ InOrder(mail)
    /\ BrowsersKept(mail, streamWriters, streams, fate) /\ WritersRun(streamWriters, streams)
    /\ NeighborsWait


LEMMA AppendQuiet ==
  ASSUME NEW q \in Seq(Messages), NEW m \in Messages, NEW r, r = Append(q, m), NEW sw, NEW st
  PROVE  /\ QuietMail(q) /\ m.type # "remove" /\ (m.type = "response" => m.found = TRUE) => QuietMail(r)
         /\ /\ AddsNew(q, st)
            /\ m.type = "add" => /\ st[m.stream].writer = "new"
                                 /\ \A j \in DOMAIN q : q[j].type = "add" => q[j].stream # m.stream
            => AddsNew(r, st)
         /\ Served(q, sw) /\ (\A b \in Browsers : Carries(m, b) => Present(q, sw, b)) => Served(r, sw)
         /\ /\ InOrder(q)
            /\ \A b \in Browsers, j \in DOMAIN q : Carries(m, b) /\ Carries(q[j], b) =>
                  /\ q[j].packet \in Last => q[j].type = "transmit" /\ m.type = "response"
                  /\ m.packet \in Last => m.type = "transmit" \/ q[j].type = "response"
            => InOrder(r)
         /\ \A b \in Browsers : Present(q, sw, b) \/ AddsPeer(m, b) => Present(r, sw, b)
<1>1. PICK n \in Nat : /\ n + 1 \in DOMAIN r /\ r[n + 1] = m
                       /\ \A j \in DOMAIN r : j \in Nat /\ (j = n + 1 \/ j \in DOMAIN q)
                       /\ \A j \in DOMAIN q : j \in DOMAIN r /\ r[j] = q[j] /\ j \in Nat /\ j <= n
  <2>1. /\ Len(q) \in Nat /\ DOMAIN q = 1 .. Len(q) /\ DOMAIN r = 1 .. Len(q) + 1
        /\ r[Len(q) + 1] = m /\ \A j \in 1 .. Len(q) : r[j] = q[j]
    OBVIOUS
  <2> QED BY SMTT(60), <2>1
<1>2. QuietMail(q) /\ m.type # "remove" /\ (m.type = "response" => m.found = TRUE) => QuietMail(r)
  BY SMTT(30), <1>1 DEF QuietMail
<1>3. ASSUME AddsNew(q, st),
             m.type = "add" => /\ st[m.stream].writer = "new"
                               /\ \A j \in DOMAIN q : q[j].type = "add" => q[j].stream # m.stream
      PROVE  AddsNew(r, st)
  BY SMTT(30), <1>1, <1>3 DEF AddsNew
<1>4. ASSUME Served(q, sw), \A b \in Browsers : Carries(m, b) => Present(q, sw, b)
      PROVE  Served(r, sw)
  <2> SUFFICES ASSUME NEW b \in Browsers, NEW i \in DOMAIN r, Carries(r[i], b), sw[b] \notin Streams
               PROVE  \E j \in DOMAIN r : j < i /\ AddsPeer(r[j], b)
    BY DEF Served
  <2>1. CASE i = n + 1
    <3>1. PICK j \in DOMAIN q : AddsPeer(q[j], b)
      BY SMTT(30), <1>1, <1>4, <2>1 DEF Present
    <3> QED BY SMTT(30), <1>1, <2>1, <3>1
  <2>2. CASE i \in DOMAIN q
    <3>1. PICK j \in DOMAIN q : j < i /\ AddsPeer(q[j], b)
      BY ZenonT(30), <1>1, <1>4, <2>2 DEF Served
    <3> QED BY ZenonT(30), <1>1, <3>1
  <2> QED BY <1>1, <2>1, <2>2
<1>5. ASSUME InOrder(q),
             \A b \in Browsers, j \in DOMAIN q : Carries(m, b) /\ Carries(q[j], b) =>
                  /\ q[j].packet \in Last => q[j].type = "transmit" /\ m.type = "response"
                  /\ m.packet \in Last => m.type = "transmit" \/ q[j].type = "response"
      PROVE  InOrder(r)
  <2> SUFFICES ASSUME NEW b \in Browsers, NEW i \in DOMAIN r, NEW j \in DOMAIN r,
                      Carries(r[i], b), Carries(r[j], b), r[i].packet \in Last, i # j
               PROVE  \/ r[j].type = "response" /\ r[i].type = "transmit"
                      \/ r[j].type = r[i].type /\ j < i
    BY ZenonT(30) DEF InOrder
  <2>1. CASE i \in DOMAIN q /\ j \in DOMAIN q
    BY SMTT(30), <1>1, <1>5, <2>1 DEF InOrder
  <2>2. CASE i = n + 1 /\ j \in DOMAIN q
    <3>1. m.type = "transmit" \/ q[j].type = "response"
      BY ZenonT(30), <1>1, <1>5, <2>2
    <3>2. q[j].type \in {"transmit", "response"} /\ m.type \in {"transmit", "response"}
      BY ZenonT(30), <1>1, <2>2 DEF Carries
    <3> QED BY SMTT(30), <1>1, <2>2, <3>1, <3>2
  <2>3. CASE i \in DOMAIN q /\ j = n + 1
    BY ZenonT(30), <1>1, <1>5, <2>3
  <2> QED BY SMTT(30), <1>1, <2>1, <2>2, <2>3
<1>6. \A b \in Browsers : Present(q, sw, b) \/ AddsPeer(m, b) => Present(r, sw, b)
  BY ZenonT(30), <1>1 DEF Present
<1> QED BY ZenonT(30), <1>2, <1>3, <1>4, <1>5, <1>6

LEMMA TailOrder ==
  ASSUME NEW q \in Seq(Messages), q # <<>>, NEW r, r = Tail(q), NEW h, h = Head(q), InOrder(q)
  PROVE  /\ InOrder(r)
         /\ \A b \in Browsers, j \in DOMAIN r : Carries(h, b) /\ Carries(r[j], b) =>
               /\ h.packet \in Last => h.type = "transmit" /\ r[j].type = "response"
               /\ r[j].packet \in Last => h.type = "response" \/ r[j].type = "transmit"
<1>1. /\ 1 \in DOMAIN q /\ h = q[1] /\ h \in Messages /\ r \in Seq(Messages)
      /\ \A j \in DOMAIN r : j \in Nat /\ j + 1 \in DOMAIN q /\ j + 1 # 1 /\ 1 < j + 1 /\ r[j] = q[j + 1]
      /\ \A j \in DOMAIN q : j \in Nat /\ ~(j < 1) /\ (j # 1 => j - 1 \in DOMAIN r /\ r[j - 1] = q[j])
  <2>1. /\ Len(q) \in Nat \ {0} /\ DOMAIN q = 1 .. Len(q) /\ DOMAIN r = 1 .. Len(q) - 1
        /\ h = q[1] /\ r \in Seq(Messages) /\ \A j \in 1 .. Len(q) - 1 : r[j] = q[j + 1]
    OBVIOUS
  <2>2. 1 \in DOMAIN q /\ q[1] \in Messages
    BY <2>1
  <2> QED BY <2>1, <2>2
<1>2. ASSUME NEW b \in Browsers, NEW i \in DOMAIN r, NEW j \in DOMAIN r,
             Carries(r[i], b), Carries(r[j], b), r[i].packet \in Last, i # j
      PROVE  \/ r[j].type = "response" /\ r[i].type = "transmit"
             \/ r[j].type = r[i].type /\ j < i
  <2>1. i + 1 \in DOMAIN q /\ j + 1 \in DOMAIN q /\ i + 1 # j + 1 /\ r[i] = q[i + 1] /\ r[j] = q[j + 1]
    BY SMTT(30), <1>1, <1>2
  <2>2. \/ q[j + 1].type = "response" /\ q[i + 1].type = "transmit"
        \/ q[j + 1].type = q[i + 1].type /\ j + 1 < i + 1
    BY SMTT(30), <1>2, <2>1 DEF InOrder
  <2> QED BY <1>1, <2>1, <2>2
<1>3. ASSUME NEW b \in Browsers, NEW j \in DOMAIN r, Carries(h, b), Carries(r[j], b)
      PROVE  /\ h.packet \in Last => h.type = "transmit" /\ r[j].type = "response"
             /\ r[j].packet \in Last => h.type = "response" \/ r[j].type = "transmit"
  <2>1. 1 \in DOMAIN q /\ j + 1 \in DOMAIN q /\ 1 # j + 1 /\ h = q[1] /\ r[j] = q[j + 1] /\ ~(j + 1 < 1)
    BY <1>1
  <2>2. h.packet \in Last => h.type = "transmit" /\ r[j].type = "response"
    BY <1>3, <2>1 DEF InOrder
  <2>3. r[j].packet \in Last => h.type = "response" \/ r[j].type = h.type
    BY SMTT(30), <1>3, <2>1 DEF InOrder
  <2> QED BY <1>3, <2>2, <2>3 DEF Carries
<1> QED BY <1>2, <1>3 DEF InOrder

LEMMA TailQuiet ==
  ASSUME NEW q \in Seq(Messages), q # <<>>, NEW r, r = Tail(q), NEW h, h = Head(q), NEW sw, NEW st
  PROVE  /\ QuietMail(q) => QuietMail(r) /\ h.type # "remove" /\ (h.type = "response" => h.found = TRUE)
         /\ AddsNew(q, st) =>
               /\ AddsNew(r, st)
               /\ h.type = "add" => /\ st[h.stream].writer = "new"
                                    /\ \A j \in DOMAIN r : r[j].type = "add" => r[j].stream # h.stream
         /\ Served(q, sw) => \A b \in Browsers : Carries(h, b) => sw[b] \in Streams
         /\ \A b \in Browsers : Present(q, sw, b) /\ ~AddsPeer(h, b) => Present(r, sw, b)
<1>1. /\ 1 \in DOMAIN q /\ h = q[1] /\ h \in Messages /\ r \in Seq(Messages)
      /\ \A j \in DOMAIN r : j \in Nat /\ j + 1 \in DOMAIN q /\ j + 1 # 1 /\ 1 < j + 1 /\ r[j] = q[j + 1]
      /\ \A j \in DOMAIN q : j \in Nat /\ ~(j < 1) /\ (j # 1 => j - 1 \in DOMAIN r /\ r[j - 1] = q[j])
  <2>1. /\ Len(q) \in Nat \ {0} /\ DOMAIN q = 1 .. Len(q) /\ DOMAIN r = 1 .. Len(q) - 1
        /\ h = q[1] /\ r \in Seq(Messages) /\ \A j \in 1 .. Len(q) - 1 : r[j] = q[j + 1]
    OBVIOUS
  <2>2. 1 \in DOMAIN q /\ q[1] \in Messages
    BY <2>1
  <2> QED BY <2>1, <2>2
<1>2. QuietMail(q) => QuietMail(r) /\ h.type # "remove" /\ (h.type = "response" => h.found = TRUE)
  BY SMTT(30), <1>1 DEF QuietMail
<1>3. ASSUME AddsNew(q, st)
      PROVE  /\ AddsNew(r, st)
             /\ h.type = "add" => /\ st[h.stream].writer = "new"
                                  /\ \A j \in DOMAIN r : r[j].type = "add" => r[j].stream # h.stream
  <2>1. AddsNew(r, st)
    <3> SUFFICES ASSUME NEW i \in DOMAIN r, r[i].type = "add"
                 PROVE  /\ st[r[i].stream].writer = "new"
                        /\ \A j \in DOMAIN r : r[j].type = "add" /\ r[j].stream = r[i].stream => j = i
      BY ZenonT(30) DEF AddsNew
    <3>1. /\ st[q[i + 1].stream].writer = "new"
          /\ \A j \in DOMAIN q : q[j].type = "add" /\ q[j].stream = q[i + 1].stream => j = i + 1
      BY SMTT(30), <1>1, <1>3 DEF AddsNew
    <3>2. \A j \in DOMAIN r : r[j].type = "add" /\ r[j].stream = r[i].stream => j + 1 = i + 1
      BY SMTT(30), <1>1, <3>1
    <3> QED BY SMTT(30), <1>1, <3>1, <3>2
  <2>2. h.type = "add" => st[h.stream].writer = "new"
    BY SMTT(30), <1>1, <1>3 DEF AddsNew
  <2>3. ASSUME h.type = "add", NEW j \in DOMAIN r, r[j].type = "add" PROVE r[j].stream # h.stream
    BY SMTT(30), <1>1, <1>3, <2>3 DEF AddsNew
  <2> QED BY ZenonT(30), <2>1, <2>2, <2>3
<1>4. Served(q, sw) => \A b \in Browsers : Carries(h, b) => sw[b] \in Streams
  BY SMTT(30), <1>1 DEF Served
<1>5. \A b \in Browsers : Present(q, sw, b) /\ ~AddsPeer(h, b) => Present(r, sw, b)
  BY ZenonT(30), <1>1 DEF Present
<1> QED BY SMTT(30), <1>2, <1>3, <1>4, <1>5
LEMMA TailServed ==
  ASSUME NEW q \in Seq(Messages), q # <<>>, NEW r, r = Tail(q), NEW h, h = Head(q), NEW sw, NEW sw2,
         Served(q, sw),
         \A b \in Browsers : \/ sw[b] \in Streams \/ AddsPeer(h, b) => sw2[b] \in Streams
                             \/ \A j \in DOMAIN r : ~Carries(r[j], b)
  PROVE  Served(r, sw2)
<1>1. /\ h = q[1]
      /\ \A j \in DOMAIN r : j \in Nat /\ j + 1 \in DOMAIN q /\ r[j] = q[j + 1]
      /\ \A j \in DOMAIN q : j \in Nat /\ (j # 1 => j - 1 \in DOMAIN r /\ r[j - 1] = q[j])
  <2>1. /\ Len(q) \in Nat \ {0} /\ DOMAIN q = 1 .. Len(q) /\ DOMAIN r = 1 .. Len(q) - 1
        /\ h = q[1] /\ \A j \in 1 .. Len(q) - 1 : r[j] = q[j + 1]
    BY SMTT(30)
  <2> QED BY SMTT(30), <2>1
<1> SUFFICES ASSUME NEW b \in Browsers, NEW i \in DOMAIN r, Carries(r[i], b), sw2[b] \notin Streams
             PROVE  \E j \in DOMAIN r : j < i /\ AddsPeer(r[j], b)
  BY SMTT(30) DEF Served
<1>2. sw[b] \notin Streams /\ ~AddsPeer(h, b)
  BY SMTT(30)
<1>3. PICK j \in DOMAIN q : j < i + 1 /\ AddsPeer(q[j], b)
  BY ZenonT(30), <1>1, <1>2 DEF Served
<1>4. j # 1
  BY ZenonT(30), <1>1, <1>2, <1>3
<1>5. j - 1 \in DOMAIN r /\ r[j - 1] = q[j] /\ j - 1 < i
  BY SMTT(30), <1>1, <1>3, <1>4
<1> QED BY Zenon, <1>3, <1>5

\* Streams named by messages and entries exist.
LEMMA NamedStreams ==
  ASSUME PoolTypeOK
  PROVE  /\ \A i \in DOMAIN mail : mail[i].type = "add" => mail[i].stream \in DOMAIN streams
         /\ \A k \in Peers : streamWriters[k] \in Streams =>
               streamWriters[k] \in DOMAIN streams /\ streams[streamWriters[k]].peer = k
         /\ \A s \in DOMAIN streams : s \in Streams /\ streams[s] \in StreamRecords
<1>1. /\ DOMAIN streams = 1 .. Len(streams) /\ Len(streams) \in Nat /\ Len(streams) <= MaxStreams
      /\ \A s \in DOMAIN streams : streams[s] \in StreamRecords
  BY DEF PoolTypeOK
<1>2. ASSUME NEW i \in DOMAIN mail, mail[i].type = "add" PROVE mail[i].stream \in DOMAIN streams
  <2>1. mail[i].stream \in Streams /\ mail[i].stream <= Len(streams)
    BY SMTT(30), <1>2, MessageFields DEF PoolTypeOK, AddsBelong
  <2> QED BY SMTT(30), <1>1, <2>1, PoolAssumption
<1>3. ASSUME NEW k \in Peers, streamWriters[k] \in Streams
      PROVE  streamWriters[k] \in DOMAIN streams /\ streams[streamWriters[k]].peer = k
  <2>1. streamWriters[k] <= Len(streams) /\ streams[streamWriters[k]].peer = k
    BY SMTT(30), <1>3 DEF PoolTypeOK, EntriesBelong
  <2> QED BY SMTT(30), <1>1, <1>3, <2>1, PoolAssumption
<1>4. \A s \in DOMAIN streams : s \in Streams
  BY SMTT(30), <1>1, PoolAssumption
<1> QED BY SMTT(30), <1>1, <1>2, <1>3, <1>4

LEMMA AddsKept ==
  ASSUME PoolTypeOK, AddsNew(mail, streams), NEW st,
         \A s \in DOMAIN streams : streams[s].writer = "new" => st[s].writer = "new"
  PROVE  AddsNew(mail, st)
BY SMTT(30), NamedStreams DEF AddsNew

LEMMA RunKept ==
  ASSUME PoolTypeOK, WritersRun(streamWriters, streams), NEW sw, NEW st,
         \A k \in Peers : sw[k] \in {streamWriters[k], Absent, Opening},
         \A k \in Peers : streamWriters[k] \in Streams /\ streams[streamWriters[k]].writer = "running" =>
            st[streamWriters[k]].writer = "running"
  PROVE  WritersRun(sw, st)
<1> SUFFICES ASSUME NEW k \in Peers, sw[k] \in Streams PROVE st[sw[k]].writer = "running"
  BY ZenonT(30) DEF WritersRun
<1>1. sw[k] = streamWriters[k]
  BY SMTT(30), PoolAssumption
<1> QED BY SMTT(30), <1>1 DEF WritersRun

LEMMA MailPending ==
  ASSUME PoolTypeOK, AllPlaced, NEW j \in DOMAIN mail, mail[j].type \in {"transmit", "response"}
  PROVE  mail[j].packet \in Packets /\ fate[mail[j].packet] = "pending"
<1> DEFINE p == mail[j].packet
<1>1. mail[j] \in Messages
  BY SMTT(30) DEF PoolTypeOK
<1>2. p \in Packets /\ mail[j] \in MailOf(p)
  BY SMTT(30), <1>1, MessageFields, HeadsPacket
<1> HIDE DEF p
<1>3. PICK place \in PlaceNames, c \in Nat : Located(p, place, c) /\ (fate[p] = "pending" <=> place # "none")
  BY ZenonT(30), <1>2 DEF AllPlaced, PlaceInv
<1>4. place = "mail"
  BY SMTT(30), <1>2, <1>3 DEF Located, None
<1> QED BY SMTT(30), <1>2, <1>3, <1>4 DEF p

LEMMA QuietTransmit ==
  ASSUME PoolTypeOK, AllPlaced, QuietInv, NothingLost, NEW p \in Packets, Transmit(p)
  PROVE  QuietInv' /\ NothingLost'
<1> DEFINE m == TransmitMsg(p)
<1>1. m \in Messages /\ m.type = "transmit" /\ m.packet = p /\ mail \in Seq(Messages)
  BY SMTT(30), MessageTypes DEF TransmitMsg, PoolTypeOK
<1>2. mail' = Append(mail, m) /\ UNCHANGED <<streamWriters, connecting, delayed, streams, neighborhood, dispatcher, known>>
  BY SMTT(30) DEF Transmit, neighborhoodVars
<1> HIDE DEF m
<1>3. /\ \A x \in Packets : fate'[x] # "lost"
      /\ \A x \in Packets : fate[x] # "unsent" => fate'[x] # "unsent"
  BY SMTT(30) DEF Transmit, PoolTypeOK, NothingLost
<1>4. To[p] \in Browsers => Present(mail, streamWriters, To[p])
  <2> SUFFICES ASSUME To[p] \in Browsers, ~Present(mail, streamWriters, To[p]) PROVE FALSE
    BY ZenonT(30)
  <2>1. \E s \in DOMAIN streams : streams[s].peer = To[p]
    BY SMTT(30) DEF Transmit
  <2>2. PICK x \in Last : To[x] = To[p] /\ fate[x] # "unsent"
    BY ZenonT(30), <2>1 DEF QuietInv, BrowsersKept
  <2> QED BY <2>2 DEF Transmit
<1>5. \A b \in Browsers : Carries(m, b) => Present(mail, streamWriters, b)
  BY ZenonT(30), <1>1, <1>4 DEF Carries
<1>6. ASSUME NEW b \in Browsers, NEW j \in DOMAIN mail, Carries(m, b), Carries(mail[j], b)
      PROVE  mail[j].packet \notin Last
  <2>1. fate[mail[j].packet] = "pending" /\ To[mail[j].packet] = To[p]
    BY SMTT(30), <1>1, <1>6, MailPending DEF Carries
  <2> QED BY SMTT(30), <2>1 DEF Transmit
<1>7. /\ QuietMail(mail') /\ AddsNew(mail', streams) /\ Served(mail', streamWriters) /\ InOrder(mail')
      /\ \A b \in Browsers : Present(mail, streamWriters, b) => Present(mail', streamWriters, b)
  <2>1. QuietMail(mail')
    BY ZenonT(30), <1>1, <1>2, AppendQuiet DEF QuietInv
  <2>2. AddsNew(mail', streams)
    BY ZenonT(30), <1>1, <1>2, AppendQuiet DEF QuietInv
  <2>3. Served(mail', streamWriters)
    BY ZenonT(30), <1>1, <1>2, <1>5, AppendQuiet DEF QuietInv
  <2>4. InOrder(mail')
    BY ZenonT(30), <1>1, <1>2, <1>6, AppendQuiet DEF QuietInv
  <2>5. \A b \in Browsers : Present(mail, streamWriters, b) => Present(mail', streamWriters, b)
    BY ZenonT(30), <1>1, <1>2, AppendQuiet
  <2> QED BY SMTT(30), <2>1, <2>2, <2>3, <2>4, <2>5
<1>8. BrowsersKept(mail', streamWriters, streams, fate')
  <2>1. Last \subseteq Packets
    BY SMTT(30), PoolAssumption
  <2> QED BY ZenonT(30), <1>3, <1>7, <2>1 DEF QuietInv, BrowsersKept
<1> QED BY ZenonT(30), <1>2, <1>3, <1>7, <1>8 DEF QuietInv, NeighborsWait, NothingLost

\* A response about a packet for a neighbor is put behind the mailbox.
LEMMA ResponsePut ==
  ASSUME NEW q \in Seq(Messages), NEW p \in Packets, To[p] \in Neighbors,
         NEW sw, NEW st, NEW ft, NEW r, r = Append(q, ResponseMsg(p, TRUE)),
         QuietMail(q), AddsNew(q, st), Served(q, sw), InOrder(q), BrowsersKept(q, sw, st, ft)
  PROVE  QuietMail(r) /\ AddsNew(r, st) /\ Served(r, sw) /\ InOrder(r) /\ BrowsersKept(r, sw, st, ft)
<1> DEFINE m == ResponseMsg(p, TRUE)
<1>1. m \in Messages /\ m.type = "response" /\ m.packet = p /\ m.found = TRUE
  BY ZenonT(30), ResponseType DEF ResponseMsg
<1>2. r = Append(q, m)
  OBVIOUS
<1> HIDE DEF m
<1>3. \A b \in Browsers : ~Carries(m, b)
  BY <1>1, PoolAssumption DEF Carries
<1>4. QuietMail(r)
  BY ZenonT(30), <1>1, <1>2, AppendQuiet
<1>5. AddsNew(r, st)
  BY ZenonT(30), <1>1, <1>2, AppendQuiet
<1>6. Served(r, sw)
  BY ZenonT(30), <1>1, <1>2, <1>3, AppendQuiet
<1>7. InOrder(r)
  BY ZenonT(30), <1>1, <1>2, <1>3, AppendQuiet
<1>8. \A b \in Browsers : Present(q, sw, b) => Present(r, sw, b)
  BY ZenonT(30), <1>1, <1>2, AppendQuiet
<1>9. BrowsersKept(r, sw, st, ft)
  BY ZenonT(30), <1>8 DEF BrowsersKept
<1> QED BY Zenon, <1>4, <1>5, <1>6, <1>7, <1>9

LEMMA QuietResubmit ==
  ASSUME PoolTypeOK, QuietInv, NothingLost, NEW p \in Packets, Resubmit(p)
  PROVE  QuietInv' /\ NothingLost'
<1>1. /\ p \in delayed /\ mail' = Append(mail, ResponseMsg(p, TRUE)) /\ delayed' = delayed \ {p}
      /\ UNCHANGED <<fate, streamWriters, connecting, streams, neighborhood, dispatcher, known>>
  BY SMTT(30) DEF Resubmit, neighborhoodVars
<1>2. To[p] \in Neighbors /\ mail \in Seq(Messages)
  BY ZenonT(30), <1>1 DEF QuietInv, NeighborsWait, PoolTypeOK
<1>3. /\ QuietMail(mail') /\ AddsNew(mail', streams) /\ Served(mail', streamWriters) /\ InOrder(mail')
      /\ BrowsersKept(mail', streamWriters, streams, fate)
  BY Zenon, <1>1, <1>2, ResponsePut DEF QuietInv
<1> QED BY Zenon, <1>1, <1>3 DEF QuietInv, NeighborsWait, NothingLost

LEMMA QuietAnswer ==
  ASSUME PoolTypeOK, QuietInv, NothingLost, HandleNodeQuery
  PROVE  QuietInv' /\ NothingLost'
<1> DEFINE p == Head(neighborhood).packet
<1>1. /\ neighborhood # <<>> /\ neighborhood \in Seq(NeighborhoodMessages)
      /\ Head(neighborhood).type = "query" /\ neighborhood' = Tail(neighborhood)
      /\ UNCHANGED <<fate, streamWriters, connecting, delayed, streams, dispatcher, known>>
      /\ mail' = Append(mail, ResponseMsg(p, To[p] \in known))
  BY DEF HandleNodeQuery, PoolTypeOK
<1>2. /\ 1 \in DOMAIN neighborhood /\ Head(neighborhood) = neighborhood[1]
      /\ Head(neighborhood) \in NeighborhoodMessages
      /\ \A i \in DOMAIN neighborhood' : i + 1 \in DOMAIN neighborhood /\ neighborhood'[i] = neighborhood[i + 1]
  BY SMTT(30), <1>1
<1>3. p \in Packets /\ p \notin BySocket
  BY Zenon, <1>1, <1>2 DEF QuietInv, NeighborsWait, NeighborhoodMessages, ShutdownMessages
<1>4. To[p] \in Neighbors
  BY ZenonT(30), <1>3, PoolAssumption
<1>5. (To[p] \in known) = TRUE
  BY SMTT(30), <1>4 DEF QuietInv, NeighborsWait
<1>6. mail' = Append(mail, ResponseMsg(p, TRUE)) /\ mail \in Seq(Messages)
  BY Zenon, <1>1, <1>5 DEF PoolTypeOK
<1> HIDE DEF p
<1>7. /\ QuietMail(mail') /\ AddsNew(mail', streams) /\ Served(mail', streamWriters) /\ InOrder(mail')
      /\ BrowsersKept(mail', streamWriters, streams, fate)
  BY ZenonT(30), <1>3, <1>4, <1>6, ResponsePut DEF QuietInv
<1> QED BY ZenonT(30), <1>1, <1>2, <1>7 DEF QuietInv, NeighborsWait, NothingLost

\* A stream is opened, by this Node or by its peer, and the message that adds it sent.
LEMMA StreamOpened ==
  ASSUME PoolTypeOK, QuietInv, NEW k \in Peers, Len(streams) < MaxStreams,
         streams' = Append(streams, NewStream(k)), NEW r, r = Append(mail, AddMsg(Len(streams) + 1, k))
  PROVE  /\ r \in Seq(Messages)
         /\ QuietMail(r) /\ AddsNew(r, streams') /\ Served(r, streamWriters) /\ InOrder(r)
         /\ BrowsersKept(r, streamWriters, streams', fate) /\ WritersRun(streamWriters, streams')
<1> DEFINE n == Len(streams) + 1
           m == AddMsg(n, k)
<1>1. /\ Len(streams) \in Nat /\ DOMAIN streams = 1 .. Len(streams) /\ DOMAIN streams' = 1 .. n
      /\ \A s \in DOMAIN streams : streams'[s] = streams[s]
      /\ streams'[n] = NewStream(k) /\ n \notin DOMAIN streams /\ n \in Streams
  BY SMTT(30), PoolAssumption DEF PoolTypeOK
<1>2. NewStream(k).peer = k /\ NewStream(k).writer = "new"
  BY ZenonT(30) DEF NewStream
<1>3. m \in Messages /\ m.type = "add" /\ m.stream = n /\ m.peer = k /\ mail \in Seq(Messages)
  BY SMTT(60), <1>1, MessageTypes DEF PoolTypeOK
<1>4. r = Append(mail, m)
  OBVIOUS
<1> HIDE DEF m, n
<1>5. \A b \in Browsers : ~Carries(m, b)
  BY <1>3 DEF Carries
<1>6. r \in Seq(Messages)
  BY <1>3, <1>4
<1>7. QuietMail(r)
  BY ZenonT(30), <1>3, <1>4, AppendQuiet DEF QuietInv
<1>8. AddsNew(r, streams')
  <2>1. AddsNew(mail, streams')
    BY ZenonT(30), <1>1, AddsKept DEF QuietInv
  <2>2. \A j \in DOMAIN mail : mail[j].type = "add" => mail[j].stream # m.stream
    BY ZenonT(30), <1>1, <1>3, NamedStreams
  <2>3. streams'[m.stream].writer = "new"
    BY SMTT(30), <1>1, <1>2, <1>3
  <2> QED BY ZenonT(30), <1>3, <1>4, <2>1, <2>2, <2>3, AppendQuiet
<1>9. Served(r, streamWriters)
  BY ZenonT(30), <1>3, <1>4, <1>5, AppendQuiet DEF QuietInv
<1>10. InOrder(r)
  BY ZenonT(30), <1>3, <1>4, <1>5, AppendQuiet DEF QuietInv
<1>11. BrowsersKept(r, streamWriters, streams', fate)
  <2>1. \A b \in Browsers : Present(mail, streamWriters, b) \/ AddsPeer(m, b) => Present(r, streamWriters, b)
    BY Zenon, <1>3, <1>4, AppendQuiet
  <2>2. AddsPeer(m, k)
    BY <1>3 DEF AddsPeer
  <2>3. \A s \in DOMAIN streams' : s \in DOMAIN streams \/ streams'[s].peer = k
    BY SMTT(30), <1>1, <1>2 DEF n
  <2>4. ASSUME NEW b \in Browsers, NEW s \in DOMAIN streams', streams'[s].peer = b
        PROVE  Present(r, streamWriters, b) \/ \E p \in Last : To[p] = b /\ fate[p] # "unsent"
    <3>1. CASE s \in DOMAIN streams
      <4>1. streams[s].peer = b
        BY Zenon, <1>1, <2>4, <3>1
      <4> QED BY Zenon, <2>1, <3>1, <4>1 DEF QuietInv, BrowsersKept
    <3>2. CASE b = k
      BY Zenon, <2>1, <2>2, <3>2
    <3> QED BY Zenon, <2>3, <2>4, <3>1, <3>2
  <2> QED BY Zenon, <2>4 DEF BrowsersKept
<1>12. WritersRun(streamWriters, streams')
  <2>1. \A x \in Peers : streamWriters[x] \in Streams /\ streams[streamWriters[x]].writer = "running" =>
            streams'[streamWriters[x]].writer = "running"
    BY SMTT(30), <1>1, NamedStreams
  <2> QED BY Zenon, <2>1, RunKept DEF QuietInv
<1> QED BY ZenonT(30), <1>6, <1>7, <1>8, <1>9, <1>10, <1>11, <1>12

LEMMA QuietAccept ==
  ASSUME PoolTypeOK, QuietInv, NothingLost, NEW k \in Peers, Accept(k)
  PROVE  QuietInv' /\ NothingLost'
<1>1. /\ QuietMail(mail') /\ AddsNew(mail', streams') /\ Served(mail', streamWriters) /\ InOrder(mail')
      /\ BrowsersKept(mail', streamWriters, streams', fate) /\ WritersRun(streamWriters, streams')
  BY Zenon, StreamOpened DEF Accept
<1>2. UNCHANGED <<fate, streamWriters, connecting, delayed, neighborhood, dispatcher, known>>
  BY DEF Accept, neighborhoodVars
<1> QED BY Zenon, <1>1, <1>2 DEF QuietInv, NeighborsWait, NothingLost

LEMMA QuietConnected ==
  ASSUME PoolTypeOK, QuietInv, NothingLost, NEW p \in Packets, ConnectSucceeds(p)
  PROVE  QuietInv' /\ NothingLost'
<1> DEFINE add == AddMsg(Len(streams) + 1, To[p])
           response == ResponseMsg(p, TRUE)
           mid == Append(mail, add)
<1>1. /\ p \in connecting /\ connecting' = connecting \ {p} /\ mail' = mail \o <<add, response>>
      /\ Len(streams) < MaxStreams /\ streams' = Append(streams, NewStream(To[p]))
      /\ UNCHANGED <<fate, streamWriters, delayed, neighborhood, dispatcher, known>>
  BY SMTT(30) DEF ConnectSucceeds, neighborhoodVars
<1>2. To[p] \in Neighbors /\ mail \in Seq(Messages)
  BY ZenonT(30), <1>1 DEF QuietInv, NeighborsWait, PoolTypeOK
<1>3. add \in Messages /\ response \in Messages
  BY ZenonT(30), <1>1, <1>2, StreamAppend, MessageTypes, ResponseType
<1>4. /\ mid \in Seq(Messages)
      /\ QuietMail(mid) /\ AddsNew(mid, streams') /\ Served(mid, streamWriters) /\ InOrder(mid)
      /\ BrowsersKept(mid, streamWriters, streams', fate) /\ WritersRun(streamWriters, streams')
  BY Zenon, <1>1, <1>2, StreamOpened
<1> HIDE DEF add
<1>5. mail' = Append(mid, ResponseMsg(p, TRUE))
  <2> HIDE DEF response
  <2>1. mail' = Append(mid, response)
    BY <1>1, <1>2, <1>3
  <2> QED BY <2>1 DEF response
<1> HIDE DEF mid
<1>6. /\ QuietMail(mail') /\ AddsNew(mail', streams') /\ Served(mail', streamWriters) /\ InOrder(mail')
      /\ BrowsersKept(mail', streamWriters, streams', fate)
  BY ZenonT(30), <1>2, <1>4, <1>5, ResponsePut
<1> QED BY Zenon, <1>1, <1>4, <1>6 DEF QuietInv, NeighborsWait, NothingLost

\* A message about a packet is taken off the mailbox.
LEMMA PacketTaken ==
  ASSUME PoolTypeOK, QuietInv, mail # <<>>, Head(mail).type \in {"transmit", "response"},
         NEW r, r = Tail(mail)
  PROVE  /\ r \in Seq(Messages) /\ QuietMail(r) /\ AddsNew(r, streams) /\ InOrder(r)
         /\ Served(r, streamWriters)
         /\ Head(mail).type = "response" => Head(mail).found = TRUE
         /\ \A b \in Browsers : Carries(Head(mail), b) => streamWriters[b] \in Streams
         /\ \A sw : \A b \in Browsers : Present(mail, sw, b) => Present(r, sw, b)
         /\ \A b \in Browsers, j \in DOMAIN r : Carries(Head(mail), b) /\ Carries(r[j], b) =>
               /\ Head(mail).packet \in Last => Head(mail).type = "transmit" /\ r[j].type = "response"
               /\ r[j].packet \in Last => Head(mail).type = "response" \/ r[j].type = "transmit"
<1> DEFINE h == Head(mail)
<1>1. mail \in Seq(Messages) /\ r \in Seq(Messages) /\ h = Head(mail) /\ h.type \in {"transmit", "response"}
  BY DEF PoolTypeOK
<1> HIDE DEF h
<1>2. \A b \in Browsers : ~AddsPeer(h, b)
  BY SMTT(30), <1>1 DEF AddsPeer
<1>3. QuietMail(r) /\ (h.type = "response" => h.found = TRUE)
  BY ZenonT(30), <1>1, TailQuiet DEF QuietInv
<1>4. AddsNew(r, streams)
  BY Zenon, <1>1, TailQuiet DEF QuietInv
<1>5. InOrder(mail)
  BY SMTT(30) DEF QuietInv
<1>6. /\ InOrder(r)
      /\ \A b \in Browsers, j \in DOMAIN r : Carries(h, b) /\ Carries(r[j], b) =>
            /\ h.packet \in Last => h.type = "transmit" /\ r[j].type = "response"
            /\ r[j].packet \in Last => h.type = "response" \/ r[j].type = "transmit"
  <2> DEFINE q == mail
  <2>1. q \in Seq(Messages) /\ q # <<>> /\ r = Tail(q) /\ h = Head(q) /\ InOrder(q)
    BY <1>1, <1>5
  <2> HIDE DEF q
  <2>2. InOrder(r)
    BY <2>1, TailOrder, Zenon
  <2>3. ASSUME NEW b \in Browsers, NEW j \in DOMAIN r, Carries(h, b), Carries(r[j], b)
        PROVE  /\ h.packet \in Last => h.type = "transmit" /\ r[j].type = "response"
               /\ r[j].packet \in Last => h.type = "response" \/ r[j].type = "transmit"
    BY SMTT(30), <2>1, <2>3, TailOrder
  <2> QED BY <2>2, <2>3
<1>7. Served(r, streamWriters)
  <2>1. Served(mail, streamWriters)
    BY DEF QuietInv
  <2>2. \A b \in Browsers : streamWriters[b] \in Streams \/ AddsPeer(h, b) => streamWriters[b] \in Streams
    BY <1>2
  <2> QED BY Zenon, <1>1, <2>1, <2>2, TailServed
<1>8. \A b \in Browsers : Carries(h, b) => streamWriters[b] \in Streams
  BY ZenonT(30), <1>1, TailQuiet DEF QuietInv
<1>9. \A sw : \A b \in Browsers : Present(mail, sw, b) => Present(r, sw, b)
  BY ZenonT(30), <1>1, <1>2, TailQuiet
<1> QED BY SMTT(30), <1>1, <1>3, <1>4, <1>6, <1>7, <1>8, <1>9

LEMMA QuietTransmitHandled ==
  ASSUME PoolTypeOK, QuietInv, NothingLost, HandleTransmitDataMsg
  PROVE  QuietInv' /\ NothingLost'
<1> DEFINE h == Head(mail)
           p == h.packet
           rest == Tail(mail)
           m == ResponseMsg(p, TRUE)
<1>1. /\ mail # <<>> /\ h.type = "transmit" /\ h \in Messages /\ p \in Packets /\ rest \in Seq(Messages)
      /\ UNCHANGED <<fate, streamWriters, connecting, delayed, streams, dispatcher, known>>
  BY SMTT(30), HeadIsMessage, MessageFields DEF HandleTransmitDataMsg, Receive, PoolTypeOK
<1>2. \/ p \in BySocket /\ mail' = Append(rest, m) /\ UNCHANGED neighborhood
      \/ p \notin BySocket /\ mail' = rest /\ neighborhood' = Append(neighborhood, QueryMsg(p))
  BY ZenonT(30) DEF HandleTransmitDataMsg
<1>3. m \in Messages /\ m.type = "response" /\ m.packet = p /\ m.found = TRUE
  BY Zenon, <1>1, ResponseType DEF ResponseMsg
<1>4. QuietMail(rest) /\ AddsNew(rest, streams) /\ Served(rest, streamWriters) /\ InOrder(rest)
  BY Zenon, <1>1, PacketTaken
<1>5. ASSUME NEW b \in Browsers
      PROVE  /\ Carries(h, b) => streamWriters[b] \in Streams
             /\ Present(mail, streamWriters, b) => Present(rest, streamWriters, b)
             /\ \A j \in DOMAIN rest : Carries(h, b) /\ Carries(rest[j], b) =>
                   /\ p \in Last => rest[j].type = "response"
                   /\ rest[j].packet \in Last => rest[j].type = "transmit"
  BY ZenonT(30), <1>1, PacketTaken
<1>6. \A b \in Browsers : Carries(m, b) => Carries(h, b)
  BY ZenonT(30), <1>1, <1>3 DEF Carries
<1>7. BrowsersKept(rest, streamWriters, streams, fate)
  BY Zenon, <1>5 DEF QuietInv, BrowsersKept
<1> HIDE DEF rest, m, p, h
<1>8. CASE p \in BySocket /\ mail' = Append(rest, m) /\ UNCHANGED neighborhood
  <2>1. QuietMail(mail')
    BY ZenonT(30), <1>1, <1>3, <1>4, <1>8, AppendQuiet
  <2>2. AddsNew(mail', streams)
    BY ZenonT(30), <1>1, <1>3, <1>4, <1>8, AppendQuiet
  <2>3. Served(mail', streamWriters)
    <3>1. \A b \in Browsers : Carries(m, b) => Present(rest, streamWriters, b)
      BY ZenonT(30), <1>5, <1>6 DEF Present
    <3> QED BY ZenonT(30), <1>1, <1>3, <1>4, <1>8, <3>1, AppendQuiet
  <2>4. InOrder(mail')
    <3>1. \A b \in Browsers, j \in DOMAIN rest : Carries(m, b) /\ Carries(rest[j], b) =>
             /\ rest[j].packet \in Last => rest[j].type = "transmit" /\ m.type = "response"
             /\ m.packet \in Last => m.type = "transmit" \/ rest[j].type = "response"
      BY SMTT(30), <1>3, <1>5, <1>6
    <3> QED BY ZenonT(30), <1>1, <1>3, <1>4, <1>8, <3>1, AppendQuiet
  <2>5. \A b \in Browsers : Present(rest, streamWriters, b) => Present(mail', streamWriters, b)
    BY ZenonT(30), <1>1, <1>3, <1>8, AppendQuiet
  <2>6. BrowsersKept(mail', streamWriters, streams, fate)
    BY ZenonT(30), <1>7, <2>5 DEF BrowsersKept
  <2> QED BY ZenonT(30), <1>1, <1>8, <2>1, <2>2, <2>3, <2>4, <2>6 DEF QuietInv, NeighborsWait, NothingLost
<1>9. CASE p \notin BySocket /\ mail' = rest /\ neighborhood' = Append(neighborhood, QueryMsg(p))
  <2>1. QueryMsg(p).type = "query" /\ QueryMsg(p).packet = p
    BY DEF QueryMsg
  <2>2. neighborhood \in Seq(NeighborhoodMessages)
    BY DEF PoolTypeOK
  <2>3. \A i \in DOMAIN neighborhood' : \/ i \in DOMAIN neighborhood /\ neighborhood'[i] = neighborhood[i]
                                        \/ neighborhood'[i] = QueryMsg(p)
    BY SMTT(30), <1>9, <2>2
  <2>4. \A i \in DOMAIN neighborhood' : neighborhood'[i].type = "query" /\ neighborhood'[i].packet \notin BySocket
    BY SMTT(30), <1>9, <2>1, <2>3 DEF QuietInv, NeighborsWait
  <2> QED BY ZenonT(30), <1>1, <1>4, <1>7, <1>9, <2>4 DEF QuietInv, NeighborsWait, NothingLost
<1> QED BY ZenonT(30), <1>2, <1>8, <1>9

\* A packet finds its stream, waits for it or asks for it.
LEMMA QuietResponseHandled ==
  ASSUME PoolFaults = {}, PoolTypeOK, AllPlaced, QuietInv, NothingLost, HandleNodeQueryResponse
  PROVE  QuietInv' /\ NothingLost'
<1> DEFINE h == Head(mail)
           p == h.packet
           k == To[p]
<1>1. /\ mail # <<>> /\ h.type = "response" /\ h \in Messages /\ p \in Packets /\ mail' = Tail(mail)
      /\ UNCHANGED <<neighborhood, dispatcher, known>>
  BY ZenonT(30), HeadIsMessage, MessageFields DEF HandleNodeQueryResponse, Receive, neighborhoodVars
<1>2. k \in Peers /\ fate[p] = "pending"
  <2>1. 1 \in DOMAIN mail /\ h = mail[1]
    BY SMTT(30), <1>1, HeadIsMessage
  <2> QED BY SMTT(30), <1>1, <2>1, PoolAssumption, MailPending
<1>3. /\ QuietMail(mail') /\ AddsNew(mail', streams) /\ InOrder(mail') /\ Served(mail', streamWriters)
      /\ h.found = TRUE
      /\ \A b \in Browsers : Carries(h, b) => streamWriters[b] \in Streams
      /\ \A sw : \A b \in Browsers : Present(mail, sw, b) => Present(mail', sw, b)
      /\ \A b \in Browsers, j \in DOMAIN mail' : Carries(h, b) /\ Carries(mail'[j], b) => p \notin Last
  BY ZenonT(30), <1>1, PacketTaken
<1>4. k \in Browsers => streamWriters[k] \in Streams
  BY SMTT(30), <1>1, <1>3 DEF Carries
<1>5. SendOrQueuePacket(p)
  BY Zenon, <1>3 DEF HandleNodeQueryResponse
<1>6. Carries(h, k)
  BY <1>1 DEF Carries
<1>7. Neighbors \cap Browsers = {} /\ Absent \notin Streams /\ Opening \notin Streams
  BY SMTT(30), PoolAssumption
<1>p. p \in Last => k \in Browsers
  BY SMTT(30), PoolAssumption
<1> HIDE DEF h, p, k
<1>8. ASSUME NEW s \in Streams, streamWriters[k] = s, SendOnOpenStream(p, s)
      PROVE  QuietInv' /\ NothingLost'
  <2> DEFINE r == [streams[s] EXCEPT !.channel = Append(@, p)]
  <2>1. s \in DOMAIN streams /\ streams[s] \in StreamRecords /\ streams[s].writer = "running"
    <3>1. s \in DOMAIN streams
      BY SMTT(30), <1>2, <1>8, NamedStreams
    <3>2. streams[s].writer = "running"
      BY Zenon, <1>2, <1>8 DEF QuietInv, WritersRun
    <3> QED BY ZenonT(30), <3>1, <3>2, NamedStreams
  <2>2. /\ UNCHANGED <<fate, connecting, delayed>>
        /\ streams' = [streams EXCEPT ![s] = r]
        /\ streamWriters' = IF p \in Last THEN [streamWriters EXCEPT ![k] = Absent] ELSE streamWriters
    BY <1>8, <2>1 DEF SendOnOpenStream, k
  <2>3. r.writer = streams[s].writer /\ r.peer = streams[s].peer
    BY SMTT(30), <2>1 DEF StreamRecords
  <2> HIDE DEF r
  <2>4. /\ DOMAIN streams' = DOMAIN streams
        /\ \A u \in DOMAIN streams : streams'[u].writer = streams[u].writer /\ streams'[u].peer = streams[u].peer
    BY ZenonT(30), <2>1, <2>2, <2>3 DEF PoolTypeOK
  <2>5. \A x \in Peers : /\ streamWriters'[x] = IF p \in Last /\ x = k THEN Absent ELSE streamWriters[x]
                         /\ streamWriters'[x] \in {streamWriters[x], Absent, Opening}
    BY SMTT(30), <1>2, <2>2 DEF PoolTypeOK
  <2>6. AddsNew(mail', streams')
    <3>1. AddsNew(mail, streams')
      BY Zenon, <2>4, AddsKept DEF QuietInv
    <3>2. mail \in Seq(Messages)
      BY SMTT(30) DEF PoolTypeOK
    <3> QED BY ZenonT(30), <1>1, <3>1, <3>2, TailQuiet
  <2>7. WritersRun(streamWriters', streams')
    <3>1. \A x \in Peers : streamWriters[x] \in Streams /\ streams[streamWriters[x]].writer = "running" =>
              streams'[streamWriters[x]].writer = "running"
      BY SMTT(30), <2>4, NamedStreams
    <3> QED BY ZenonT(30), <2>5, <3>1, RunKept DEF QuietInv
  <2>8. Served(mail', streamWriters')
    <3> SUFFICES ASSUME NEW b \in Browsers, NEW i \in DOMAIN mail', Carries(mail'[i], b)
                 PROVE  \/ streamWriters'[b] \in Streams
                        \/ \E j \in DOMAIN mail' : j < i /\ AddsPeer(mail'[j], b)
      BY DEF Served
    <3>1. ~(p \in Last /\ b = k)
      BY ZenonT(30), <1>3, <1>6
    <3>2. streamWriters'[b] = streamWriters[b]
      BY ZenonT(30), <2>5, <3>1
    <3> QED BY Zenon, <1>3, <3>2 DEF Served
  <2>9. BrowsersKept(mail', streamWriters', streams', fate)
    <3> SUFFICES ASSUME NEW b \in Browsers, NEW u \in DOMAIN streams', streams'[u].peer = b
                 PROVE  Present(mail', streamWriters', b) \/ \E x \in Last : To[x] = b /\ fate[x] # "unsent"
      BY SMTT(30) DEF BrowsersKept
    <3>1. CASE p \in Last /\ b = k
      BY SMTT(30), <1>2, <3>1 DEF k
    <3>2. CASE ~(p \in Last /\ b = k)
      <4>1. streamWriters'[b] = streamWriters[b]
        BY ZenonT(30), <2>5, <3>2
      <4>2. Present(mail, streamWriters, b) \/ \E x \in Last : To[x] = b /\ fate[x] # "unsent"
        BY ZenonT(30), <2>4 DEF QuietInv, BrowsersKept
      <4>3. Present(mail', streamWriters, b) => Present(mail', streamWriters', b)
        BY SMTT(30), <4>1 DEF Present
      <4> QED BY ZenonT(30), <1>3, <4>2, <4>3
    <3> QED BY ZenonT(30), <3>1, <3>2
  <2>10. \A b \in Browsers : streamWriters'[b] # Opening
    BY ZenonT(30), <2>5, PoolAssumption DEF QuietInv, NeighborsWait
  <2> QED BY ZenonT(30), <1>1, <1>3, <2>2, <2>6, <2>7, <2>8, <2>9, <2>10 DEF QuietInv, NeighborsWait, NothingLost
<1>9. BrowsersKept(mail', streamWriters, streams, fate)
  BY ZenonT(30), <1>3 DEF QuietInv, BrowsersKept
<1>10. ASSUME streamWriters[k] = Opening, DelayPacket(p)
       PROVE  QuietInv' /\ NothingLost'
  <2>1. k \in Neighbors
    BY ZenonT(30), <1>2, <1>10 DEF QuietInv, NeighborsWait
  <2>2. \A x \in delayed' \cup connecting' : To[x] \in Neighbors
    BY ZenonT(30), <1>10, <2>1 DEF DelayPacket, QuietInv, NeighborsWait, k
  <2> QED BY ZenonT(30), <1>1, <1>3, <1>9, <1>10, <2>2 DEF DelayPacket, QuietInv, NeighborsWait, NothingLost
<1>11. ASSUME k \in Neighbors, OpenNewStream(p)
       PROVE  QuietInv' /\ NothingLost'
  <2>1. /\ UNCHANGED <<fate, delayed, streams>> /\ connecting' = connecting \cup {p}
        /\ streamWriters' = [streamWriters EXCEPT ![k] = Opening]
    BY SMTT(30), <1>11 DEF OpenNewStream, k
  <2>2. /\ \A b \in Browsers : streamWriters'[b] = streamWriters[b]
        /\ \A x \in Peers : streamWriters'[x] \in {streamWriters[x], Absent, Opening}
    BY ZenonT(30), <1>7, <1>11, <2>1 DEF PoolTypeOK
  <2>3. \A x \in delayed' \cup connecting' : To[x] \in Neighbors
    BY SMTT(30), <1>11, <2>1 DEF QuietInv, NeighborsWait, k
  <2>4. WritersRun(streamWriters', streams)
    BY ZenonT(30), <2>2, RunKept DEF QuietInv
  <2>5. Served(mail', streamWriters') /\ BrowsersKept(mail', streamWriters', streams, fate)
    BY ZenonT(30), <1>3, <1>9, <2>2 DEF Served, BrowsersKept, Present
  <2> QED BY ZenonT(30), <1>1, <1>3, <2>1, <2>2, <2>3, <2>4, <2>5 DEF QuietInv, NeighborsWait, NothingLost
<1> QED BY ZenonT(30), <1>4, <1>5, <1>7, <1>8, <1>10, <1>11 DEF SendOrQueuePacket, k

\* An entry takes the stream that is added, whose writer starts.
LEMMA QuietAddHandled ==
  ASSUME PoolTypeOK, QuietInv, NothingLost, HandleAddStreamMsg
  PROVE  QuietInv' /\ NothingLost'
<1> DEFINE m == Head(mail)
           s == m.stream
           r == [streams[s] EXCEPT !.reader = "running", !.writer = "running"]
<1>1. /\ mail # <<>> /\ m \in Messages /\ m.type = "add" /\ 1 \in DOMAIN mail /\ m = mail[1]
      /\ m.peer \in Peers /\ s \in Streams /\ mail' = Tail(mail) /\ mail \in Seq(Messages)
      /\ UNCHANGED <<fate, connecting, delayed, neighborhood, dispatcher, known>>
  BY SMTT(30), HeadIsMessage, MessageFields DEF HandleAddStreamMsg, Receive, PoolTypeOK, neighborhoodVars
<1>2. s \in DOMAIN streams /\ streams[s] \in StreamRecords
  BY Zenon, <1>1, NamedStreams
<1>3. streams' = [streams EXCEPT ![s] = r]
  BY ZenonT(30), <1>2 DEF HandleAddStreamMsg, PoolTypeOK
<1>4. r.writer = "running" /\ r.peer = streams[s].peer
  BY <1>2 DEF StreamRecords
<1>5. \A k \in Peers : streamWriters'[k] = IF k = m.peer THEN s ELSE streamWriters[k]
  BY ZenonT(30) DEF HandleAddStreamMsg, SameKey
<1> HIDE DEF r
<1>6. /\ DOMAIN streams' = DOMAIN streams /\ streams'[s].writer = "running"
      /\ \A u \in DOMAIN streams : streams'[u].peer = streams[u].peer
      /\ \A u \in DOMAIN streams : u # s => streams'[u] = streams[u]
  BY <1>2, <1>3, <1>4 DEF PoolTypeOK
<1>k. m.stream = s /\ m = Head(mail)
  BY SMTT(30)
<1> HIDE DEF s, m
<1>7. QuietMail(mail')
  BY ZenonT(30), <1>1, <1>k, TailQuiet DEF QuietInv
<1>8. InOrder(mail')
  BY ZenonT(30), <1>1, <1>k, TailOrder DEF QuietInv
<1>9. AddsNew(mail', streams')
  <2>1. AddsNew(mail, streams)
    BY SMTT(30) DEF QuietInv
  <2>2. AddsNew(mail', streams) /\ \A j \in DOMAIN mail' : mail'[j].type = "add" => mail'[j].stream # s
    <3>1. AddsNew(mail', streams)
      BY ZenonT(30), <1>1, <1>k, <2>1, TailQuiet
    <3>2. ASSUME NEW j \in DOMAIN mail', mail'[j].type = "add" PROVE mail'[j].stream # s
      <4>1. j + 1 \in DOMAIN mail /\ j + 1 # 1 /\ mail'[j] = mail[j + 1]
        BY SMTT(30), <1>1
      <4> QED BY ZenonT(30), <1>1, <1>k, <2>1, <3>2, <4>1 DEF AddsNew
    <3> QED BY SMTT(30), <3>1, <3>2
  <2>3. \A j \in DOMAIN mail' : \E i \in DOMAIN mail : mail'[j] = mail[i]
    BY SMTT(30), <1>1
  <2>4. \A j \in DOMAIN mail' : mail'[j].type = "add" => mail'[j].stream \in DOMAIN streams
    BY <2>3, NamedStreams
  <2> QED BY SMTT(30), <1>6, <2>2, <2>4 DEF AddsNew
<1>10. WritersRun(streamWriters', streams')
  <2> SUFFICES ASSUME NEW k \in Peers, streamWriters'[k] \in Streams
               PROVE  streams'[streamWriters'[k]].writer = "running"
    BY SMTT(30) DEF WritersRun
  <2>1. CASE k = m.peer
    BY SMTT(30), <1>5, <1>6, <2>1
  <2>2. CASE k # m.peer
    <3>1. streamWriters'[k] = streamWriters[k] /\ streamWriters[k] \in DOMAIN streams
      BY ZenonT(30), <1>5, <2>2, NamedStreams
    <3>2. streams[streamWriters[k]].writer = "running"
      BY ZenonT(30), <3>1 DEF QuietInv, WritersRun
    <3> QED BY ZenonT(30), <1>6, <3>1, <3>2
  <2> QED BY SMTT(30), <2>1, <2>2
<1>11. \A b \in Browsers : streamWriters[b] \in Streams \/ AddsPeer(m, b) => streamWriters'[b] \in Streams
  BY SMTT(30), <1>1, <1>5 DEF AddsPeer
<1>12. Served(mail', streamWriters')
  <2>1. Served(mail, streamWriters)
    BY DEF QuietInv
  <2> QED BY Zenon, <1>1, <1>11, <1>k, <2>1, TailServed
<1>13. BrowsersKept(mail', streamWriters', streams', fate)
  <2>1. \A b \in Browsers : Present(mail, streamWriters, b) => Present(mail', streamWriters', b)
    <3>1. \A b \in Browsers : Present(mail, streamWriters, b) /\ ~AddsPeer(m, b) => Present(mail', streamWriters, b)
      BY Zenon, <1>1, <1>k, TailQuiet
    <3> QED BY <1>11, <3>1 DEF Present
  <2> QED BY ZenonT(30), <1>6, <2>1 DEF QuietInv, BrowsersKept
<1>14. \A b \in Browsers : streamWriters'[b] # Opening
  <2>1. \A b \in Browsers : b \in Peers /\ streamWriters[b] # Opening
    BY ZenonT(30), PoolAssumption DEF QuietInv, NeighborsWait, Peers
  <2>2. s # Opening
    BY Zenon, <1>1, PoolAssumption
  <2> QED BY Zenon, <1>5, <2>1, <2>2
<1> QED BY ZenonT(30), <1>1, <1>7, <1>8, <1>9, <1>10, <1>12, <1>13, <1>14 DEF QuietInv, NeighborsWait, NothingLost

LEMMA QuietWriter ==
  ASSUME PoolFaults = {}, PoolTypeOK, QuietInv, NothingLost, NEW s \in Streams, WriterProceeds(s)
  PROVE  QuietInv' /\ NothingLost'
<1>1. s \in DOMAIN streams /\ streams[s] \in StreamRecords /\ streams[s].writer = "running"
  BY NamedStreams DEF WriterProceeds, WriterWrites, WriterBreaks, WriterEnds, WriterRuns
<1>2. UNCHANGED <<mail, streamWriters, delayed, connecting, neighborhood, dispatcher, known>>
  BY DEF WriterProceeds, WriterWrites, WriterBreaks, WriterEnds, poolVars, neighborhoodVars
<1>3. PICK r : /\ streams' = [streams EXCEPT ![s] = r] /\ r.peer = streams[s].peer
               /\ r.writer = "running" \/ ~Held(s)
  <2>1. CASE WriterWrites(s)
    <3> DEFINE r == [streams[s] EXCEPT !.channel = Tail(@)]
    <3>1. r.peer = streams[s].peer /\ r.writer = "running"
      BY <1>1 DEF StreamRecords
    <3>2. streams' = [streams EXCEPT ![s] = r]
      BY <2>1 DEF WriterWrites
    <3> HIDE DEF r
    <3> QED BY Zenon, <3>1, <3>2
  <2>2. CASE WriterEnds(s)
    <3> DEFINE r == [streams[s] EXCEPT !.writer = "ended"]
    <3>1. r.peer = streams[s].peer
      BY <1>1 DEF StreamRecords
    <3>2. streams' = [streams EXCEPT ![s] = r] /\ ~Held(s)
      BY <2>2 DEF WriterEnds, MayEnd
    <3> HIDE DEF r
    <3> QED BY ZenonT(30), <3>1, <3>2
  <2> QED BY <2>1, <2>2 DEF WriterProceeds, WriterBreaks
<1>4. /\ DOMAIN streams' = DOMAIN streams /\ streams'[s] = r
      /\ \A u \in DOMAIN streams : streams'[u].peer = streams[u].peer
      /\ \A u \in DOMAIN streams : u # s => streams'[u] = streams[u]
  BY <1>1, <1>3 DEF PoolTypeOK
<1>5. \A x \in Packets : fate'[x] # "lost" /\ (fate[x] # "unsent" => fate'[x] # "unsent")
  <2>1. UNCHANGED fate \/ fate' = [fate EXCEPT ![Head(streams[s].channel)] = "written"]
    BY SMTT(30) DEF WriterProceeds, WriterWrites, WriterBreaks, WriterEnds
  <2> QED BY SMTT(30), <2>1 DEF NothingLost, PoolTypeOK
<1>6. AddsNew(mail, streams')
  <2>1. \A u \in DOMAIN streams : streams[u].writer = "new" => streams'[u].writer = "new"
    BY SMTT(30), <1>1, <1>4
  <2> QED BY ZenonT(30), <2>1, AddsKept DEF QuietInv
<1>7. WritersRun(streamWriters, streams')
  <2>1. ASSUME NEW k \in Peers, streamWriters[k] \in Streams, streams[streamWriters[k]].writer = "running"
        PROVE  streams'[streamWriters[k]].writer = "running"
    <3>1. streamWriters[k] \in DOMAIN streams /\ streams[streamWriters[k]].peer = k
      BY SMTT(30), <2>1, NamedStreams
    <3>2. streamWriters[k] = s => Held(s)
      BY ZenonT(30), <3>1 DEF Held
    <3> QED BY ZenonT(30), <1>3, <1>4, <2>1, <3>1, <3>2
  <2> QED BY ZenonT(30), <2>1, RunKept DEF QuietInv
<1>8. BrowsersKept(mail, streamWriters, streams', fate')
  <2>1. Last \subseteq Packets
    BY PoolAssumption
  <2>2. ASSUME NEW b \in Browsers, NEW u \in DOMAIN streams', streams'[u].peer = b
        PROVE  Present(mail, streamWriters, b) \/ \E p \in Last : To[p] = b /\ fate'[p] # "unsent"
    <3>1. u \in DOMAIN streams /\ streams[u].peer = b
      BY Zenon, <1>4, <2>2
    <3>2. Present(mail, streamWriters, b) \/ \E p \in Last : To[p] = b /\ fate[p] # "unsent"
      BY Zenon, <3>1 DEF QuietInv, BrowsersKept
    <3> QED BY Zenon, <1>5, <2>1, <3>2
  <2> QED BY Zenon, <2>2 DEF BrowsersKept
<1> QED BY Zenon, <1>2, <1>5, <1>6, <1>7, <1>8 DEF QuietInv, NeighborsWait, NothingLost

\* Nothing refuses, closes or shuts down.
LEMMA NothingFails ==
  ASSUME PoolFaults = {}, PoolTypeOK, QuietInv
  PROVE  /\ ~HandleRemoveStreamMsg /\ ~RelayStreamShutdown /\ ~RemoveNeighbor
         /\ \A p \in Packets : ~ConnectFails(p)
         /\ \A s \in Streams : ~ReaderEnds(s)
         /\ \A n \in Neighbors : ~Learn(n)
<1>1. ~HandleRemoveStreamMsg
  BY HeadIsMessage DEF HandleRemoveStreamMsg, Receive, QuietInv, QuietMail
<1>2. ~RelayStreamShutdown /\ \A n \in Neighbors : ~Learn(n)
  BY ZenonT(30) DEF RelayStreamShutdown, Learn, QuietInv, NeighborsWait
<1>3. ASSUME RemoveNeighbor PROVE FALSE
  <2>1. 1 \in DOMAIN neighborhood /\ neighborhood[1].type = "gone"
    BY <1>3 DEF RemoveNeighbor, PoolTypeOK
  <2> QED BY ZenonT(30), <2>1 DEF QuietInv, NeighborsWait
<1>4. (\A p \in Packets : ~ConnectFails(p)) /\ (\A s \in Streams : ~ReaderEnds(s))
  BY DEF ConnectFails, ReaderEnds
<1> QED BY <1>1, <1>2, <1>3, <1>4

\* Where no stream or connection attempt fails, no packet is lost: two streams to the
\* same peer, unpopulated entries and the entry that goes with the last data for a
\* browser never make handle_node_query_response() discard one.
THEOREM NothingLostUnlessFaults == PoolSpec /\ PoolFaults = {} => []NothingLost
<1> SUFFICES ASSUME PoolFaults = {} PROVE PoolSpec => []NothingLost
  OBVIOUS
<1> DEFINE Inv == PoolTypeOK /\ AllPlaced /\ QuietInv /\ NothingLost
<1>1. PoolInit => Inv
  <2> SUFFICES ASSUME PoolInit PROVE Inv
    OBVIOUS
  <2>1. PoolTypeOK /\ AllPlaced
    BY ZenonT(30), InitTypeOK, InitPlaced
  <2>2. QuietMail(mail) /\ AddsNew(mail, streams) /\ Served(mail, streamWriters) /\ InOrder(mail)
    BY SMTT(30) DEF PoolInit, QuietMail, AddsNew, Served, InOrder
  <2>3. BrowsersKept(mail, streamWriters, streams, fate) /\ WritersRun(streamWriters, streams)
    BY SMTT(30), PoolAssumption DEF PoolInit, BrowsersKept, WritersRun
  <2>4. NeighborsWait /\ NothingLost
    BY PoolAssumption DEF PoolInit, NeighborsWait, NothingLost
  <2> QED BY SMTT(30), <2>1, <2>2, <2>3, <2>4 DEF QuietInv
<1>2. Inv /\ [PoolNext]_spVars => Inv'
  <2> SUFFICES ASSUME PoolTypeOK, AllPlaced, QuietInv, NothingLost, [PoolNext]_spVars
               PROVE  PoolTypeOK' /\ AllPlaced' /\ QuietInv' /\ NothingLost'
    OBVIOUS
  <2>1. PoolTypeOK' /\ AllPlaced'
    BY SMTT(30), NextTypeOK, NextPlaced
  <2>2. CASE UNCHANGED spVars
    BY ZenonT(30), <2>1, <2>2 DEF spVars, poolVars, neighborhoodVars, QuietInv, NeighborsWait, NothingLost
  <2>3. CASE PoolNext
    BY ZenonT(30), <2>1, <2>3, QuietTransmit, QuietResubmit, QuietAnswer, QuietAccept, QuietConnected, QuietTransmitHandled,
       QuietResponseHandled, QuietAddHandled, QuietWriter, NothingFails DEF PoolNext, Handlers, ConnectEnds
  <2> QED BY SMTT(30), <2>1, <2>2, <2>3
<1> QED BY <1>1, <1>2, PTL DEF PoolSpec
-----------------------------------------------------------------------------
(* Counting the places of a packet                                         *)

INSTANCE FiniteSetTheorems

LEMMA PlaceCounted ==
  ASSUME PoolTypeOK, NEW p \in Packets, PlaceInv(p)
  PROVE  Cardinality(Places(p)) = IF fate[p] = "pending" THEN 1 ELSE 0
BY Zenon, PlaceIsOne, FS_EmptySet, FS_Singleton

\* A packet on its way is in one mailbox, timer, connection attempt or channel, and
\* nowhere before and after: resubmission, a connection that succeeds or fails and a
\* second stream to the same peer neither duplicate a packet nor drop it silently.
THEOREM PacketsAlwaysInOnePlace == PoolSpec => []PacketsInOnePlace
<1>1. PoolInit => PoolTypeOK /\ AllPlaced
  BY SMTT(30), InitTypeOK, InitPlaced
<1>2. PoolTypeOK /\ AllPlaced /\ [PoolNext]_spVars => PoolTypeOK' /\ AllPlaced'
  BY SMTT(30), NextTypeOK, NextPlaced
<1>3. PoolTypeOK /\ AllPlaced => PacketsInOnePlace
  BY SMTT(30), PlaceCounted DEF AllPlaced, PacketsInOnePlace
<1> QED BY <1>1, <1>2, <1>3, PTL DEF PoolSpec
=============================================================================
