----------------------------- MODULE StreamPool -----------------------------
(***************************************************************************)
(* The StreamHandlerPool, which owns the TCP streams of a Node: clandestine *)
(* ones to neighbors, opened on demand or by the neighbor, and those that  *)
(* browsers opened to the ProxyServer.  The pool's handlers run one at a   *)
(* time off one FIFO mailbox; connection attempts, resubmission timers,    *)
(* stream readers and writers, the Dispatcher and the Neighborhood run     *)
(* beside it.                                                              *)
(*                                                                         *)
(* A StreamWriterKey is the IP address of a neighbor, or the address and   *)
(* port of a browser: here it is the peer itself.  A packet is named by a  *)
(* number; what it carries, masking and framing are left out.              *)
(***************************************************************************)
EXTENDS Integers, Sequences, FiniteSets

CONSTANTS
    Neighbors,   \* peers on other machines
    Browsers,    \* peers on this machine
    Packets,     \* what is to be transmitted
    To,          \* the peer of each packet
    Last,        \* the packets with last_data
    BySocket,    \* the packets addressed to a socket, not to a public key
    Absent,      \* no entry in stream_writers
    Opening,     \* an unpopulated entry
    PoolFaults,      \* "refused", "close", "break", "unmaskable", "stranger"
    MaxStreams   \* bound: streams ever opened

Peers == Neighbors \cup Browsers
Streams == 1 .. MaxStreams

ASSUME PoolAssumption ==
    /\ Neighbors \cap Browsers = {}
    /\ To \in [Packets -> Peers]
    /\ Last \subseteq {p \in Packets : To[p] \in Browsers}
    /\ {p \in Packets : To[p] \in Browsers} \subseteq BySocket
    /\ MaxStreams \in Nat
    /\ Absent \notin Streams /\ Opening \notin Streams /\ Absent # Opening
    /\ PoolFaults \subseteq {"refused", "close", "break", "unmaskable", "stranger"}

VARIABLES
    fate,          \* each packet: "unsent", "pending", "written" or "lost"
    streamWriters, \* stream_writers
    mail,          \* the mailbox of the pool
    connecting,    \* the packets whose connection attempts are under way
    delayed,       \* the packets scheduled for resubmission
    streams,       \* the streams opened so far, in order
    neighborhood,  \* the mailbox of the Neighborhood
    dispatcher,    \* shutdown messages in the mailbox of the Dispatcher
    known          \* the neighbors whose address the Neighborhood has

poolVars == <<streamWriters, mail, connecting, delayed>>
neighborhoodVars == <<neighborhood, dispatcher, known>>
spVars == <<fate, poolVars, streams, neighborhoodVars>>

-----------------------------------------------------------------------------
(* Messages and streams                                                    *)

TransmitMsg(p) == [type |-> "transmit", packet |-> p]
ResponseMsg(p, found) == [type |-> "response", packet |-> p, found |-> found]
AddMsg(s, peer) == [type |-> "add", stream |-> s, peer |-> peer]
RemoveMsg(peer) == [type |-> "remove", peer |-> peer]
QueryMsg(p) == [type |-> "query", packet |-> p]
GoneMsg(peer) == [type |-> "gone", peer |-> peer]

Receive(type) == mail # <<>> /\ Head(mail).type = type

\* A TCP stream: who is at its other end, whether its StreamReader runs, how far
\* its StreamWriter is, and what waits in the channel between pool and writer.
NewStream(peer) == [peer |-> peer, reader |-> "new", writer |-> "new", channel |-> <<>>]

\* The pool holds the sending end of the stream's channel.
Held(s) == streamWriters[streams[s].peer] = s

Lose(ps) == fate' = [p \in Packets |-> IF p \in ps THEN "lost" ELSE fate[p]]

-----------------------------------------------------------------------------
(* Packets find their stream                                               *)

\* Hopper, ProxyServer or Neighborhood hand a packet to the Dispatcher.  The
\* ProxyServer answers browsers that are connected, until last_data.
Transmit(p) ==
    /\ fate[p] = "unsent"
    /\ To[p] \in Browsers => \E s \in DOMAIN streams : streams[s].peer = To[p]
    /\ \A q \in Last : To[q] = To[p] => fate[q] = "unsent"
    /\ fate' = [fate EXCEPT ![p] = "pending"]
    /\ mail' = Append(mail, TransmitMsg(p))
    /\ UNCHANGED <<streamWriters, connecting, delayed, streams, neighborhoodVars>>

\* The Neighborhood is asked where the Node with a public key is.
HandleTransmitDataMsg ==
    /\ Receive("transmit")
    /\ LET p == Head(mail).packet IN
       IF p \in BySocket
       THEN /\ mail' = Append(Tail(mail), ResponseMsg(p, TRUE))
            /\ UNCHANGED neighborhood
       ELSE /\ mail' = Tail(mail)
            /\ neighborhood' = Append(neighborhood, QueryMsg(p))
    /\ UNCHANGED <<fate, streamWriters, connecting, delayed, streams, dispatcher, known>>

OpenNewStream(p) ==
    /\ streamWriters' = [streamWriters EXCEPT ![To[p]] = Opening]
    /\ connecting' = connecting \cup {p}
    /\ UNCHANGED <<fate, delayed, streams>>

\* Slip: the packet is forgotten.
DelayPacketNever(p) == UNCHANGED <<fate, streamWriters, connecting, delayed, streams>>

\* Slip: the packet is discarded.
DelayPacketDiscards(p) ==
    /\ Lose({p})
    /\ UNCHANGED <<streamWriters, connecting, delayed, streams>>

DelayPacket(p) ==
    /\ delayed' = delayed \cup {p}
    /\ UNCHANGED <<fate, streamWriters, connecting, streams>>

DiscardPacket(p) ==
    /\ Lose({p})
    /\ UNCHANGED <<streamWriters, connecting, delayed, streams>>

\* The entry goes with a packet that has last_data, and with one that finds
\* the StreamWriter gone.
SendOnOpenStream(p, s) ==
    LET disabled == streams[s].writer = "ended"
    IN  /\ IF disabled
           THEN Lose({p}) /\ UNCHANGED streams
           ELSE streams' = [streams EXCEPT ![s].channel = Append(@, p)] /\ UNCHANGED fate
        /\ streamWriters' = IF disabled \/ p \in Last
                            THEN [streamWriters EXCEPT ![To[p]] = Absent] ELSE streamWriters
        /\ UNCHANGED <<connecting, delayed>>

SendOrQueuePacket(p) ==
    LET entry == streamWriters[To[p]] IN
    \/ entry \in Streams /\ SendOnOpenStream(p, entry)
    \/ entry \in Streams /\ To[p] \in Neighbors /\ "unmaskable" \in PoolFaults /\ DiscardPacket(p)
    \/ entry = Opening /\ DelayPacket(p)
    \/ entry = Absent /\ To[p] \in Browsers /\ DiscardPacket(p)
    \/ entry = Absent /\ To[p] \in Neighbors /\ OpenNewStream(p)

HandleNodeQueryResponse ==
    /\ Receive("response")
    /\ LET m == Head(mail) IN
       \/ m.found /\ SendOrQueuePacket(m.packet)
       \/ ~m.found /\ DiscardPacket(m.packet)
    /\ mail' = Tail(mail)
    /\ UNCHANGED neighborhoodVars

\* The 100 ms of delay_packet_for_opening_stream() are over.
Resubmit(p) ==
    /\ p \in delayed
    /\ delayed' = delayed \ {p}
    /\ mail' = Append(mail, ResponseMsg(p, TRUE))
    /\ UNCHANGED <<fate, streamWriters, connecting, streams, neighborhoodVars>>

-----------------------------------------------------------------------------
(* Streams come and go                                                     *)

\* The stream is added before the packet that asked for it is sent again.
ConnectSucceeds(p) ==
    /\ p \in connecting
    /\ Len(streams) < MaxStreams
    /\ connecting' = connecting \ {p}
    /\ streams' = Append(streams, NewStream(To[p]))
    /\ mail' = mail \o <<AddMsg(Len(streams) + 1, To[p]), ResponseMsg(p, TRUE)>>
    /\ UNCHANGED <<fate, streamWriters, delayed, neighborhoodVars>>

\* The packet is discarded, the entry removed and the Neighborhood told, which
\* knows no Node by the empty key of a packet addressed to a socket.
ConnectFails(p) ==
    /\ p \in connecting
    /\ "refused" \in PoolFaults
    /\ connecting' = connecting \ {p}
    /\ Lose({p})
    /\ mail' = Append(mail, RemoveMsg(To[p]))
    /\ neighborhood' = IF p \in BySocket THEN neighborhood
                       ELSE Append(neighborhood, GoneMsg(To[p]))
    /\ UNCHANGED <<streamWriters, delayed, streams, dispatcher, known>>

\* A listener accepts a connection of a neighbor or of a browser.
Accept(peer) ==
    /\ Len(streams) < MaxStreams
    /\ peer \in Browsers => \A s \in DOMAIN streams : streams[s].peer # peer
    /\ streams' = Append(streams, NewStream(peer))
    /\ mail' = Append(mail, AddMsg(Len(streams) + 1, peer))
    /\ UNCHANGED <<fate, streamWriters, connecting, delayed, neighborhoodVars>>

\* Whether the StreamWriterKey of an address is that of a peer
SameKey(k, peer) == k = peer

\* A second stream to the same peer takes the entry of the first.
HandleAddStreamMsg ==
    /\ Receive("add")
    /\ LET m == Head(mail) IN
       /\ streamWriters' = [k \in Peers |-> IF SameKey(k, m.peer) THEN m.stream ELSE streamWriters[k]]
       /\ streams' = [streams EXCEPT ![m.stream].reader = "running",
                                     ![m.stream].writer = "running"]
    /\ mail' = Tail(mail)
    /\ UNCHANGED <<fate, connecting, delayed, neighborhoodVars>>

\* Slip: an unpopulated entry is left where it is.
WithoutEntryIfPopulated(peer) ==
    IF streamWriters[peer] = Opening THEN streamWriters
    ELSE [streamWriters EXCEPT ![peer] = Absent]

WithoutEntry(peer) == [streamWriters EXCEPT ![peer] = Absent]

\* Whatever entry the peer has is removed, be it that of another stream.
HandleRemoveStreamMsg ==
    /\ Receive("remove")
    /\ LET peer == Head(mail).peer IN
       /\ streamWriters' = WithoutEntry(peer)
       /\ dispatcher' = Append(dispatcher, GoneMsg(peer))
    /\ mail' = Tail(mail)
    /\ UNCHANGED <<fate, connecting, delayed, streams, neighborhood, known>>

\* The StreamReader reads the end of the stream, or finds it dead.
ReaderEnds(s) ==
    /\ "close" \in PoolFaults
    /\ s \in DOMAIN streams
    /\ streams[s].reader = "running"
    /\ streams' = [streams EXCEPT ![s].reader = "ended"]
    /\ mail' = Append(mail, RemoveMsg(streams[s].peer))
    /\ UNCHANGED <<fate, streamWriters, connecting, delayed, neighborhoodVars>>

-----------------------------------------------------------------------------
(* Stream writers                                                          *)

\* The channel tells the writer that it is closed once it is empty.
MayEnd(s) == ~Held(s) /\ streams[s].channel = <<>>

WriterRuns(s) == s \in DOMAIN streams /\ streams[s].writer = "running"

WriterWrites(s) ==
    /\ WriterRuns(s)
    /\ streams[s].channel # <<>>
    /\ fate' = [fate EXCEPT ![Head(streams[s].channel)] = "written"]
    /\ streams' = [streams EXCEPT ![s].channel = Tail(@)]
    /\ UNCHANGED <<poolVars, neighborhoodVars>>

\* Writing to a dead stream ends the writer, and the channel with it.
WriterBreaks(s) ==
    /\ "break" \in PoolFaults
    /\ WriterRuns(s)
    /\ streams[s].channel # <<>>
    /\ Lose({streams[s].channel[i] : i \in DOMAIN streams[s].channel})
    /\ streams' = [streams EXCEPT ![s].writer = "ended", ![s].channel = <<>>]
    /\ UNCHANGED <<poolVars, neighborhoodVars>>

WriterEnds(s) ==
    /\ WriterRuns(s)
    /\ MayEnd(s)
    /\ streams' = [streams EXCEPT ![s].writer = "ended"]
    /\ UNCHANGED <<fate, poolVars, neighborhoodVars>>

-----------------------------------------------------------------------------
(* Dispatcher and Neighborhood                                             *)

\* The Neighborhood hears of clandestine streams, the ProxyServer of the others.
RelayStreamShutdown ==
    /\ dispatcher # <<>>
    /\ neighborhood' = IF Head(dispatcher).peer \in Neighbors
                       THEN Append(neighborhood, Head(dispatcher)) ELSE neighborhood
    /\ dispatcher' = Tail(dispatcher)
    /\ UNCHANGED <<fate, poolVars, streams, known>>

HandleNodeQuery ==
    /\ neighborhood # <<>>
    /\ Head(neighborhood).type = "query"
    /\ LET p == Head(neighborhood).packet
       IN  mail' = Append(mail, ResponseMsg(p, To[p] \in known))
    /\ neighborhood' = Tail(neighborhood)
    /\ UNCHANGED <<fate, streamWriters, connecting, delayed, streams, dispatcher, known>>

\* A neighbor that cannot be reached, or whose stream ended, loses its address.
RemoveNeighbor ==
    /\ neighborhood # <<>>
    /\ Head(neighborhood).type = "gone"
    /\ known' = known \ {Head(neighborhood).peer}
    /\ neighborhood' = Tail(neighborhood)
    /\ UNCHANGED <<fate, poolVars, streams, dispatcher>>

\* Gossip tells the address of a neighbor.
Learn(n) ==
    /\ n \notin known
    /\ known' = known \cup {n}
    /\ UNCHANGED <<fate, poolVars, streams, neighborhood, dispatcher>>

-----------------------------------------------------------------------------
(* The specification                                                       *)

PoolInit ==
    /\ fate = [p \in Packets |-> "unsent"]
    /\ streamWriters = [k \in Peers |-> Absent]
    /\ mail = <<>>
    /\ connecting = {}
    /\ delayed = {}
    /\ streams = <<>>
    /\ neighborhood = <<>>
    /\ dispatcher = <<>>
    /\ known = IF "stranger" \in PoolFaults THEN {} ELSE Neighbors

Handlers ==
    \/ HandleTransmitDataMsg
    \/ HandleNodeQueryResponse
    \/ HandleAddStreamMsg
    \/ HandleRemoveStreamMsg

ConnectEnds(p) == ConnectSucceeds(p) \/ ConnectFails(p)

WriterProceeds(s) == WriterWrites(s) \/ WriterBreaks(s) \/ WriterEnds(s)

PoolNext ==
    \/ Handlers
    \/ \E p \in Packets : Transmit(p) \/ Resubmit(p) \/ ConnectEnds(p)
    \/ \E k \in Peers : Accept(k)
    \/ \E s \in Streams : ReaderEnds(s) \/ WriterProceeds(s)
    \/ RelayStreamShutdown \/ HandleNodeQuery \/ RemoveNeighbor
    \/ \E n \in Neighbors : Learn(n)

PoolSpec == PoolInit /\ [][PoolNext]_spVars

\* Mailboxes are worked off, timers fire, connection attempts come to an end and
\* sockets take what is written to them.
PoolFairness ==
    /\ WF_spVars(Handlers)
    /\ WF_spVars(HandleNodeQuery \/ RemoveNeighbor)
    /\ \A p \in Packets : WF_spVars(Resubmit(p)) /\ WF_spVars(ConnectEnds(p))
    /\ \A s \in Streams : WF_spVars(WriterProceeds(s))

PoolFairSpec == PoolSpec /\ PoolFairness

-----------------------------------------------------------------------------
(* Properties                                                              *)

StreamRecords == [peer : Peers, reader : {"new", "running", "ended"},
                  writer : {"new", "running", "ended"}, channel : Seq(Packets)]

Messages ==
    [type : {"transmit"}, packet : Packets] \cup
    [type : {"response"}, packet : Packets, found : BOOLEAN] \cup
    [type : {"add"}, stream : Streams, peer : Peers] \cup
    [type : {"remove"}, peer : Peers]

ShutdownMessages == [type : {"gone"}, peer : Peers]
NeighborhoodMessages == [type : {"query"}, packet : Packets] \cup ShutdownMessages

EntriesBelong == \A k \in Peers : streamWriters[k] \in Streams =>
    streamWriters[k] <= Len(streams) /\ streams[streamWriters[k]].peer = k

AddsBelong == \A i \in DOMAIN mail : mail[i].type = "add" =>
    mail[i].stream <= Len(streams) /\ streams[mail[i].stream].peer = mail[i].peer

\* The streams that entries and messages name exist and belong to their peer.
PoolTypeOK ==
    /\ fate \in [Packets -> {"unsent", "pending", "written", "lost"}]
    /\ streamWriters \in [Peers -> Streams \cup {Absent, Opening}]
    /\ mail \in Seq(Messages)
    /\ connecting \subseteq Packets
    /\ delayed \subseteq Packets
    /\ streams \in Seq(StreamRecords)
    /\ Len(streams) <= MaxStreams
    /\ neighborhood \in Seq(NeighborhoodMessages)
    /\ dispatcher \in Seq(ShutdownMessages)
    /\ known \subseteq Neighbors
    /\ EntriesBelong
    /\ AddsBelong

\* Where a packet is: in a mailbox, with a timer or a connection attempt, or in a channel
Places(p) ==
    {<<"mail", i>> : i \in {j \in DOMAIN mail :
        mail[j].type \in {"transmit", "response"} /\ mail[j].packet = p}} \cup
    {<<"neighborhood", i>> : i \in {j \in DOMAIN neighborhood :
        neighborhood[j].type = "query" /\ neighborhood[j].packet = p}} \cup
    {<<"delayed", i>> : i \in {p} \cap delayed} \cup
    {<<"connecting", i>> : i \in {p} \cap connecting} \cup
    UNION {{<<"stream", s, i>> : i \in {j \in DOMAIN streams[s].channel :
        streams[s].channel[j] = p}} : s \in DOMAIN streams}

\* While a packet is on its way it is in exactly one place, and nowhere before
\* and after: resubmitting, reconnecting and replacing streams neither
\* duplicate a packet nor drop it unaccounted for.
PacketsInOnePlace == \A p \in Packets :
    Cardinality(Places(p)) = IF fate[p] = "pending" THEN 1 ELSE 0

\* An unpopulated entry is one that a connection attempt, or the message it ended
\* with, is going to replace: packets are not resubmitted in vain for ever.
OpeningHasCause == \A k \in Peers : streamWriters[k] = Opening =>
    \/ \E p \in connecting : To[p] = k
    \/ \E i \in DOMAIN mail : mail[i].type \in {"add", "remove"} /\ mail[i].peer = k

\* As long as no stream or connection attempt fails no packet is lost, though
\* the two ends may connect to each other at the same time.
NothingLost == \A p \in Packets : fate[p] # "lost"

\* Every packet is written to a socket or given up.
PacketsSettle == \A p \in Packets : fate[p] = "pending" ~> fate[p] \in {"written", "lost"}

\* A StreamWriter whose stream lost its entry ends.
ReplacedWritersEnd == \A s \in Streams :
    (WriterRuns(s) /\ ~Held(s)) ~> (s \in DOMAIN streams /\ (streams[s].writer = "ended" \/ Held(s)))

=============================================================================
