------------------------------ MODULE ExitPool ------------------------------
(***************************************************************************)
(* The exit side of a stream: the ProxyClient actor and the pool of        *)
(* connections to servers that it drives (node/src/proxy_client).          *)
(*                                                                         *)
(* A packet of a client arrives as a message of the ProxyClient.  Its      *)
(* handler remembers where answers go (stream_contexts) and calls          *)
(* process_package, which first does the housekeeping (streams reported    *)
(* dead leave stream_writer_channels, new streams enter it) and then       *)
(* either hands the packet to the writer of the key's stream or starts a   *)
(* future that resolves the host and opens one.  Readers, writers and the  *)
(* futures run on the arbiter of the ProxyClient: every poll and every     *)
(* handler is one step, and they interleave.                               *)
(*                                                                         *)
(* A packet is its number: a client sends ExitPackets packets of data, and *)
(* then the empty one with last_data that the ProxyServer sends when the   *)
(* browser has gone.  What a writer does with its packets is the subject   *)
(* of SequencedWriter; here it holds a set of packets and writes those     *)
(* that are due.                                                           *)
(***************************************************************************)
EXTENDS Integers, Sequences, FiniteSets, SequencesExt

CONSTANTS
  Keys,             \* stream keys
  ExitPackets,      \* packets of data a client sends on a key
  MaxReplies,       \* bound: pieces of data a server sends on one stream
  MaxExitStreams,   \* bound: connections opened in a behaviour
  ExitFaults,       \* subset of PossibleExitFaults
  NoStream          \* no entry in stream_writer_channels

\* "flurry": a packet arrives while an earlier one of its key waits for its
\* connection.  "reorder": packets overtake each other on the way.
\* "resolve": a look-up or a connection fails.  "reset": a writer finds its
\* connection dead.
PossibleExitFaults == {"flurry", "reorder", "resolve", "reset"}

ASSUME ExitAssumption ==
  /\ ExitPackets \in Nat \ {0}
  /\ MaxReplies \in Nat
  /\ MaxExitStreams \in Nat
  /\ ExitFaults \subseteq PossibleExitFaults
  /\ NoStream \notin Nat

VARIABLES
  unsent,       \* unsent[k]: packets of k that have not reached the exit Node
  exitMail,     \* mailbox of the ProxyClient
  contexts,     \* keys of stream_contexts
  channels,     \* stream_writer_channels: stream of a key, or NoStream
  establishing, \* packets whose future opens a stream
  tending,      \* spawned remainders of write_and_tend
  failing,      \* spawned calls of clean_up_bad_stream
  adder,        \* channel of stream_adder_rx
  killer,       \* channel of stream_killer_rx
  streams,      \* every connection opened so far, with its reader and writer
  relayed       \* relayed[k]: answers sent back to the client, in order

exitVars == <<unsent, exitMail, contexts, channels, establishing, tending,
              failing, adder, killer, streams, relayed>>

PacketNumbers == 0 .. ExitPackets
IsLastData(n) == n = ExitPackets
IsEmptyData(n) == n = ExitPackets

StreamIds == 1 .. MaxExitStreams

\* A stream just established: sent counts the pieces of data its reader has
\* passed on, held is what its writer was given, written how many of the
\* packets 0, 1, ... the server has got.
NewStream(k, n) ==
  [key |-> k, reader |-> "reading", told |-> FALSE, sent |-> 0,
   writer |-> "open", held |-> {n}, written |-> 0]

\* Messages of the ProxyClient.
Request(k, n) == [type |-> "request", key |-> k, num |-> n]
OtherRequest == [type |-> "other"]
ServerData(k, s, n, last) ==
  [type |-> "data", key |-> k, stream |-> s, num |-> n, last |-> last]
DnsFailure(k) == [type |-> "dns", key |-> k]

ExitInit ==
  /\ unsent = [k \in Keys |-> PacketNumbers]
  /\ exitMail = <<>>
  /\ contexts = {}
  /\ channels = [k \in Keys |-> NoStream]
  /\ establishing = {}
  /\ tending = {}
  /\ failing = {}
  /\ adder = <<>>
  /\ killer = <<>>
  /\ streams = <<>>
  /\ relayed = [k \in Keys |-> <<>>]

-----------------------------------------------------------------------------
(* Packets arrive.                                                         *)

Waiting(k) ==
  \/ \E e \in establishing : e.key = k
  \/ \E i \in DOMAIN exitMail :
       exitMail[i].type = "request" /\ exitMail[i].key = k

\* The Hopper hands the ProxyClient a packet of k.
PacketArrives(k) ==
  /\ "flurry" \in ExitFaults \/ ~Waiting(k)
  /\ \E n \in unsent[k] :
       /\ "reorder" \in ExitFaults \/ \A m \in unsent[k] : n <= m
       /\ unsent' = [unsent EXCEPT ![k] = @ \ {n}]
       /\ exitMail' = Append(exitMail, Request(k, n))
  /\ UNCHANGED <<contexts, channels, establishing, tending, failing, adder,
                 killer, streams, relayed>>

\* A packet of a stream outside this model: it matters for its housekeeping.
OtherPacketArrives ==
  /\ \A i \in DOMAIN exitMail : exitMail[i] # OtherRequest
  /\ exitMail' = Append(exitMail, OtherRequest)
  /\ UNCHANGED <<unsent, contexts, channels, establishing, tending, failing,
                 adder, killer, streams, relayed>>

-----------------------------------------------------------------------------
(* do_housekeeping: clean_up_dead_streams, then add_new_streams.           *)

\* Shutting a reader down only leaves a signal in its channel.
Signalled(ss, ids) ==
  [s \in DOMAIN ss |-> IF s \in ids THEN [ss[s] EXCEPT !.told = TRUE] ELSE ss[s]]

Killed == {killer[i].key : i \in DOMAIN killer}

\* The kill of index i finds an entry: no earlier one has removed it.
FindsEntry(i) ==
  /\ channels[killer[i].key] # NoStream
  /\ \A j \in 1 .. i - 1 : killer[j].key # killer[i].key

\* The server-drop reports of clean_up_dead_streams, in order.
DropReports ==
  LET found == SelectSeq([i \in DOMAIN killer |-> i], FindsEntry)
  IN  [j \in DOMAIN found |->
         ServerData(killer[found[j]].key, killer[found[j]].stream,
                    killer[found[j]].num, TRUE)]

AfterKills == [k \in Keys |-> IF k \in Killed THEN NoStream ELSE channels[k]]

\* add_new_streams: an entry overwrites the one before.
AfterAdds(chs) ==
  [k \in Keys |->
     LET mine == SelectSeq(adder, LAMBDA a : a.key = k)
     IN  IF mine = <<>> THEN chs[k] ELSE Last(mine).stream]

HousekeptChannels == AfterAdds(AfterKills)

HousekeptStreams == Signalled(streams, {channels[k] : k \in Killed})

\* StreamHandlerPoolReal::process_package of packet n of k, after the
\* housekeeping.
ProcessPackage(k, n) ==
  LET s == HousekeptChannels[k] IN
  \/ /\ s # NoStream
     /\ streams[s].writer = "open"
     /\ streams' = [HousekeptStreams EXCEPT ![s].held = @ \cup {n}]
     /\ tending' = tending \cup {[key |-> k, num |-> n]}
     /\ UNCHANGED <<establishing, failing>>
  \/ /\ s # NoStream
     /\ streams[s].writer # "open"
     /\ failing' = failing \cup {[key |-> k, num |-> n]}
     /\ streams' = HousekeptStreams
     /\ UNCHANGED <<establishing, tending>>
  \/ /\ s = NoStream
     /\ establishing' = IF IsEmptyData(n) THEN establishing
                        ELSE establishing \cup {[key |-> k, num |-> n]}
     /\ streams' = HousekeptStreams
     /\ UNCHANGED <<tending, failing>>

HandleRequest ==
  /\ exitMail # <<>>
  /\ Head(exitMail).type = "request"
  /\ LET k == Head(exitMail).key IN
     /\ contexts' = contexts \cup {k}
     /\ channels' = HousekeptChannels
     /\ ProcessPackage(k, Head(exitMail).num)
  /\ exitMail' = Tail(exitMail) \o DropReports
  /\ adder' = <<>>
  /\ killer' = <<>>
  /\ UNCHANGED <<unsent, relayed>>

HandleOtherRequest ==
  /\ exitMail # <<>>
  /\ Head(exitMail) = OtherRequest
  /\ channels' = HousekeptChannels
  /\ streams' = HousekeptStreams
  /\ exitMail' = Tail(exitMail) \o DropReports
  /\ adder' = <<>>
  /\ killer' = <<>>
  /\ UNCHANGED <<unsent, contexts, establishing, tending, failing, relayed>>

-----------------------------------------------------------------------------
(* The spawned futures.                                                    *)

\* The connection is made, its stream goes to the adder channel, and the
\* packet that asked for it to its writer.  The rest of write_and_tend has
\* nothing to do, for a packet with last_data is empty and opens no stream.
StreamEstablished(e) ==
  /\ e \in establishing
  /\ Len(streams) < MaxExitStreams
  /\ establishing' = establishing \ {e}
  /\ streams' = Append(streams, NewStream(e.key, e.num))
  /\ adder' = Append(adder, [key |-> e.key, stream |-> Len(streams) + 1])
  /\ UNCHANGED <<unsent, exitMail, contexts, channels, tending, failing,
                 killer, relayed>>

\* Mutant: the entry goes, its reader is not told.
CleanUpBadStreamLeavingReader(k, mail) ==
  /\ channels' = [channels EXCEPT ![k] = NoStream]
  /\ exitMail' = Append(mail, ServerData(k, NoStream, 0, TRUE))
  /\ UNCHANGED streams

\* clean_up_bad_stream: whatever stream the key has now is removed, and the
\* client is sent a terminating packet numbered 0.
CleanUpBadStream(k, mail) ==
  /\ streams' = Signalled(streams, {channels[k]})
  /\ channels' = [channels EXCEPT ![k] = NoStream]
  /\ exitMail' = Append(mail, ServerData(k, NoStream, 0, TRUE))

\* lookup_dns, with its DnsResolveFailure.
LookupFails(e) ==
  /\ "resolve" \in ExitFaults
  /\ e \in establishing
  /\ establishing' = establishing \ {e}
  /\ CleanUpBadStream(e.key, Append(exitMail, DnsFailure(e.key)))
  /\ UNCHANGED <<unsent, contexts, tending, failing, adder, killer, relayed>>

\* handle_ip: a host that is an address needs no look-up.
ConnectionFails(e) ==
  /\ "resolve" \in ExitFaults
  /\ e \in establishing
  /\ establishing' = establishing \ {e}
  /\ CleanUpBadStream(e.key, exitMail)
  /\ UNCHANGED <<unsent, contexts, tending, failing, adder, killer, relayed>>

WriteFailed(f) ==
  /\ f \in failing
  /\ failing' = failing \ {f}
  /\ CleanUpBadStream(f.key, exitMail)
  /\ UNCHANGED <<unsent, contexts, establishing, tending, adder, killer,
                 relayed>>

\* The end of write_and_tend: after the last packet the entry goes.
Tend(t) ==
  /\ t \in tending
  /\ tending' = tending \ {t}
  /\ channels' = IF IsLastData(t.num) THEN [channels EXCEPT ![t.key] = NoStream]
                 ELSE channels
  /\ streams' = IF IsLastData(t.num) THEN Signalled(streams, {channels[t.key]})
                ELSE streams
  /\ UNCHANGED <<unsent, exitMail, contexts, establishing, failing, adder,
                 killer, relayed>>

-----------------------------------------------------------------------------
(* Readers and writers.                                                    *)

\* The server has sent something, and the reader has not been shut down.
ReaderReads(s) ==
  /\ streams[s].reader = "reading"
  /\ ~streams[s].told
  /\ streams[s].sent < MaxReplies
  /\ exitMail' = Append(exitMail, ServerData(streams[s].key, s, streams[s].sent, FALSE))
  /\ streams' = [streams EXCEPT ![s].sent = @ + 1]
  /\ UNCHANGED <<unsent, contexts, channels, establishing, tending, failing,
                 adder, killer, relayed>>

\* The server has closed the stream, or the read fails for good.
ReaderEnds(s) ==
  /\ streams[s].reader = "reading"
  /\ ~streams[s].told
  /\ killer' = Append(killer, [key |-> streams[s].key, num |-> streams[s].sent,
                               stream |-> s])
  /\ streams' = [streams EXCEPT ![s].reader = "ended"]
  /\ UNCHANGED <<unsent, exitMail, contexts, channels, establishing, tending,
                 failing, adder, relayed>>

\* Something happens on the socket and the reader finds its signal.
ReaderShutDown(s) ==
  /\ streams[s].reader = "reading"
  /\ streams[s].told
  /\ streams' = [streams EXCEPT ![s].reader = "ended"]
  /\ UNCHANGED <<unsent, exitMail, contexts, channels, establishing, tending,
                 failing, adder, killer, relayed>>

\* What is due of the packets a writer holds has been written.
WrittenAfter(st) ==
  CHOOSE w \in st.written .. ExitPackets + 1 :
    /\ \A n \in st.written .. w - 1 : n \in st.held
    /\ w \notin st.held

\* Senders to the writer are in stream_writer_channels and in the adder.
HasSender(s) ==
  \/ channels[streams[s].key] = s
  \/ \E i \in DOMAIN adder : adder[i].stream = s


\* A poll of the writer: what is due is written; it ends when the last
\* packet is written, or when all its senders are gone.
WriterPolled(s) ==
  LET w == WrittenAfter(streams[s])
      ends == w = ExitPackets + 1 \/ ~HasSender(s)
  IN  /\ streams[s].writer = "open"
      /\ w # streams[s].written \/ ends
      /\ streams' = [streams EXCEPT ![s].written = w,
                                    ![s].writer = IF ends THEN "ended" ELSE "open"]
      /\ UNCHANGED <<unsent, exitMail, contexts, channels, establishing,
                     tending, failing, adder, killer, relayed>>

WriterDies(s) ==
  /\ "reset" \in ExitFaults
  /\ streams[s].writer = "open"
  /\ streams[s].held \cap (streams[s].written .. ExitPackets) # {}
  /\ streams' = [streams EXCEPT ![s].writer = "dead"]
  /\ UNCHANGED <<unsent, exitMail, contexts, channels, establishing, tending,
                 failing, adder, killer, relayed>>

-----------------------------------------------------------------------------
(* Answers.                                                                *)

\* Handler<InboundServerData>: an answer without a context is dropped.
HandleServerData ==
  /\ exitMail # <<>>
  /\ Head(exitMail).type = "data"
  /\ LET m == Head(exitMail) IN
     /\ relayed' = IF m.key \in contexts
                   THEN [relayed EXCEPT ![m.key] = Append(@, m)] ELSE relayed
     /\ contexts' = IF m.last THEN contexts \ {m.key} ELSE contexts
  /\ exitMail' = Tail(exitMail)
  /\ UNCHANGED <<unsent, channels, establishing, tending, failing, adder,
                 killer, streams>>

\* Handler<DnsResolveFailure_0v1>.
HandleDnsFailure ==
  /\ exitMail # <<>>
  /\ Head(exitMail).type = "dns"
  /\ LET m == Head(exitMail) IN
     /\ relayed' = IF m.key \in contexts
                   THEN [relayed EXCEPT ![m.key] = Append(@, m)] ELSE relayed
     /\ contexts' = contexts \ {m.key}
  /\ exitMail' = Tail(exitMail)
  /\ UNCHANGED <<unsent, channels, establishing, tending, failing, adder,
                 killer, streams>>

\* The ProxyClient handles one message at a time, in the order of arrival.
HandleMail == HandleRequest \/ HandleOtherRequest \/ HandleServerData \/ HandleDnsFailure

ExitNext ==
  \/ \E k \in Keys : PacketArrives(k)
  \/ OtherPacketArrives
  \/ HandleMail
  \/ \E e \in establishing : StreamEstablished(e) \/ LookupFails(e) \/ ConnectionFails(e)
  \/ \E f \in failing : WriteFailed(f)
  \/ \E t \in tending : Tend(t)
  \/ \E s \in DOMAIN streams :
       ReaderReads(s) \/ ReaderEnds(s) \/ ReaderShutDown(s)
         \/ WriterPolled(s) \/ WriterDies(s)

ExitSpec == ExitInit /\ [][ExitNext]_exitVars

\* The arbiter polls what is ready and runs every handler, TCP delivers what
\* was written, and the exit Node goes on receiving packets of some stream.
\* A server owes nobody an answer, and a client nobody a packet.
ExitFairness ==
  /\ WF_exitVars(HandleMail) /\ WF_exitVars(OtherPacketArrives)
  /\ WF_exitVars(\E e \in establishing :
        StreamEstablished(e) \/ LookupFails(e) \/ ConnectionFails(e))
  /\ WF_exitVars(\E f \in failing : WriteFailed(f))
  /\ WF_exitVars(\E t \in tending : Tend(t))
  /\ \A s \in StreamIds :
       WF_exitVars(s \in DOMAIN streams /\ (WriterPolled(s) \/ WriterDies(s)))

ExitFairSpec == ExitSpec /\ ExitFairness

-----------------------------------------------------------------------------
(* Properties.                                                             *)

ExitMessages ==
  [type : {"request"}, key : Keys, num : PacketNumbers]
    \cup {OtherRequest}
    \cup [type : {"data"}, key : Keys, stream : StreamIds \cup {NoStream},
          num : 0 .. MaxReplies, last : BOOLEAN]
    \cup [type : {"dns"}, key : Keys]

ExitTypeOK ==
  /\ unsent \in [Keys -> SUBSET PacketNumbers]
  /\ exitMail \in Seq(ExitMessages)
  /\ contexts \subseteq Keys
  /\ channels \in [Keys -> StreamIds \cup {NoStream}]
  /\ establishing \subseteq [key : Keys, num : PacketNumbers]
  /\ tending \subseteq [key : Keys, num : PacketNumbers]
  /\ failing \subseteq [key : Keys, num : PacketNumbers]
  /\ adder \in Seq([key : Keys, stream : StreamIds])
  /\ killer \in Seq([key : Keys, num : 0 .. MaxReplies, stream : StreamIds])
  /\ streams \in Seq([key : Keys, reader : {"reading", "ended"}, told : BOOLEAN,
                      sent : 0 .. MaxReplies, writer : {"open", "ended", "dead"},
                      held : SUBSET PacketNumbers, written : 0 .. ExitPackets + 1])
  /\ relayed \in [Keys -> Seq(ExitMessages)]

\* An answer that tells the client that its stream has ended.
IsFinal(m) == m.type = "dns" \/ m.last

ToldOfEnd(k) == \E i \in DOMAIN relayed[k] : IsFinal(relayed[k][i])

ClientHasGone(k) == ExitPackets \notin unsent[k]

\* Until the client is told that its stream has ended, or has ended it, the
\* answers relayed to it are numbered 0, 1, 2, ... without gap or repetition,
\* the report of the server's end included: reader, killer channel,
\* housekeeping and mailbox keep the order the server answered in.  (The
\* terminating packet of clean_up_bad_stream is numbered 0 whatever was
\* relayed before, and is no part of the order.)
RepliesInOrder ==
  \A k \in Keys : \A i \in DOMAIN relayed[k] :
    \/ relayed[k][i].type = "dns"
    \/ relayed[k][i].stream = NoStream
    \/ relayed[k][i].num = i - 1
    \/ ClientHasGone(k)
    \/ \E j \in 1 .. i - 1 : IsFinal(relayed[k][j])

\* The killer channel names a key, not a stream: still the entry that a kill
\* removes from stream_writer_channels is that of the stream that died, not
\* one opened since for the same key.
KillsTheirOwn ==
  \A i \in DOMAIN killer :
    FindsEntry(i) => channels[killer[i].key] = killer[i].stream

\* The streams that are opened for a key one after the other are kept apart,
\* in what the client is told and in what a death removes.
StreamsKeptApart == RepliesInOrder /\ KillsTheirOwn

Reached(k, n) ==
  \/ ToldOfEnd(k)
  \/ \E s \in DOMAIN streams :
       /\ streams[s].key = k
       /\ \/ streams[s].written > n
          \/ streams[s].reader = "ended" /\ ~streams[s].told
          \/ streams[s].writer = "dead"

\* The packets that the exit Node received are written to the key's server,
\* unless the connection has ended or the client was told it ended: time and
\* again none is left over, in whatever order they came.
PacketsReachServer ==
  \A k \in Keys : []<>(\A n \in PacketNumbers \ unsent[k] : Reached(k, n))

\* A server that closes a stream of stream_writer_channels is reported to
\* the client, as long as packets of any stream keep the housekeeping going.
\* (The kill of a stream that dies before the housekeeping has entered it is
\* dropped, and the dead stream is entered after it.)
EndReported ==
  \A k \in Keys :
    (\E i \in DOMAIN killer : channels[k] = killer[i].stream) ~>
      (ToldOfEnd(k) \/ ClientHasGone(k))

=============================================================================
