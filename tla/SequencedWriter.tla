--------------------------- MODULE SequencedWriter --------------------------
(***************************************************************************)
(* A stream writer with its SequenceBuffer, as the Node runs one per       *)
(* browser connection (StreamWriterSorted) and one per server connection   *)
(* of an exit Node (proxy_client::StreamWriter).  Packets reach it over a  *)
(* channel, out of order and repeatedly; it writes them in order to a      *)
(* socket that may take part of a packet, refuse for now, or die.  The     *)
(* writer is a future: it runs when it is woken, reads the channel until   *)
(* that is empty, then writes until it cannot.                             *)
(***************************************************************************)
EXTENDS Integers, Sequences, FiniteSets

CONSTANTS
    Packets,     \* how many packets the other end sends; the last one says last_data
    Start,       \* Start[n]: bytes sent before packet n; Start[Packets]: all bytes
    MaxCopies    \* bound: how often one packet reaches the channel

Numbers == 0 .. Packets - 1

ASSUME WriterAssumption ==
    /\ Packets \in Nat \ {0}
    /\ Start \in [0 .. Packets -> Nat]
    /\ Start[0] = 0
    /\ \A m, n \in 0 .. Packets : m <= n => Start[m] <= Start[n]
    /\ MaxCopies \in Nat

VARIABLES
    copies,    \* how often each packet was put on the channel
    channel,   \* rx_to_write: numbers of the packets on it
    closed,    \* the sending half was dropped
    buf,       \* the SequenceBuffer
    written,   \* bytes the socket took
    blocked,   \* the socket takes nothing for now
    woken,     \* the future is due to be polled
    pc,        \* where in poll() the writer is
    drained,   \* read_data_from_channel() saw the end of the channel
    status     \* "running", "shut" (shutdown after last_data), "done" or "dead"

swVars == <<copies, channel, closed, buf, written, blocked, woken, pc, drained, status>>

-----------------------------------------------------------------------------
(* The SequenceBuffer: a heap ordered by sequence number, the number that  *)
(* is due next, and the numbers it holds.                                  *)

\* What is left of packet number n, from byte position from to its end
SequencedPackets == [number : Numbers, from : Nat]

Buffers == [heap : SUBSET SequencedPackets, next : Nat, seen : SUBSET Numbers]

EmptyBuffer == [heap |-> {}, next |-> 0, seen |-> {}]

\* Neither written yet nor waiting in the buffer
IsNew(b, n) == n >= b.next /\ n \notin b.seen

Push(b, p) ==
    IF IsNew(b, p.number)
    THEN [b EXCEPT !.heap = @ \cup {p}, !.seen = @ \cup {p.number}]
    ELSE b

\* The first packet of the heap, if it is the one that is due
Due(b) == {p \in b.heap : p.number = b.next /\ \A q \in b.heap : q.number >= p.number}

Polled(b, p) == [heap |-> b.heap \ {p}, next |-> b.next + 1, seen |-> b.seen \ {p.number}]

\* Only ever of the packet just polled
Repush(b, p) == [heap |-> b.heap \cup {p}, next |-> p.number, seen |-> b.seen \cup {p.number}]

-----------------------------------------------------------------------------
(* The other end of the channel: a pool that passes packets on in the      *)
(* order the network brings them, and drops the sender after last_data.    *)

Deliver(n) ==
    /\ status = "running"
    /\ ~closed
    /\ copies[n] < MaxCopies
    /\ copies' = [copies EXCEPT ![n] = @ + 1]
    /\ channel' = Append(channel, n)
    /\ closed' = (n = Packets - 1)
    /\ woken' = TRUE
    /\ UNCHANGED <<buf, written, blocked, pc, drained, status>>

SocketReady ==
    /\ blocked
    /\ blocked' = FALSE
    /\ woken' = TRUE
    /\ UNCHANGED <<copies, channel, closed, buf, written, pc, drained, status>>

-----------------------------------------------------------------------------
(* poll() of the writer                                                    *)

Poll ==
    /\ status = "running"
    /\ pc = "idle"
    /\ woken
    /\ woken' = FALSE
    /\ pc' = "read"
    /\ UNCHANGED <<copies, channel, closed, buf, written, blocked, drained, status>>

\* Slip: one packet per poll.
AfterReadOnce == "write"

\* read_data_from_channel() goes on until the channel is empty.
AfterRead == "read"

ReadPacket ==
    /\ pc = "read"
    /\ channel # <<>>
    /\ buf' = Push(buf, [number |-> Head(channel), from |-> Start[Head(channel)] + 1])
    /\ channel' = Tail(channel)
    /\ pc' = AfterRead
    /\ UNCHANGED <<copies, closed, written, blocked, woken, drained, status>>

ReadEnds ==
    /\ pc = "read"
    /\ channel = <<>>
    /\ drained' = closed
    /\ pc' = "write"
    /\ UNCHANGED <<copies, channel, closed, buf, written, blocked, woken, status>>

\* Nothing is due: the future is done if no more can come.
NothingDue ==
    /\ pc = "write"
    /\ Due(buf) = {}
    /\ pc' = "idle"
    /\ status' = IF drained THEN "done" ELSE status
    /\ UNCHANGED <<copies, channel, closed, buf, written, blocked, woken, drained>>

\* poll_write() is NotReady: the rest goes back, and the socket will wake us.
SocketRefuses ==
    /\ pc = "write"
    /\ \E p \in Due(buf) : buf' = Repush(Polled(buf, p), p)
    /\ blocked' = TRUE
    /\ pc' = "idle"
    /\ UNCHANGED <<copies, channel, closed, written, woken, drained, status>>

\* An error that does not indicate a dead stream: the loop tries again.
WriteFailsForNow ==
    /\ pc = "write"
    /\ \E p \in Due(buf) : buf' = Repush(Polled(buf, p), p)
    /\ UNCHANGED <<copies, channel, closed, written, blocked, woken, pc, drained, status>>

StreamDies ==
    /\ pc = "write"
    /\ \E p \in Due(buf) : buf' = Polled(buf, p)
    /\ pc' = "idle"
    /\ status' = "dead"
    /\ UNCHANGED <<copies, channel, closed, written, blocked, woken, drained>>

\* What is left of p when k of its bytes were written
Rest(p, k) == [p EXCEPT !.from = @ + k]

\* Slip: the stream is shut down as soon as part of the last packet is written.
IsLastOfStreamAtOnce(p, k) == p.number = Packets - 1

\* The packet says last_data and was written to its end.
IsLastOfStream(p, k) == p.number = Packets - 1 /\ p.from + k - 1 = Start[Packets]

\* The socket takes k bytes of p.
Write(p, k) ==
    /\ pc = "write"
    /\ ~blocked
    /\ written' = written \o [i \in 1 .. k |-> p.from + i - 1]
    /\ buf' = IF p.from + k - 1 = Start[p.number + 1]
              THEN Polled(buf, p)
              ELSE Repush(Polled(buf, p), Rest(p, k))
    /\ IF IsLastOfStream(p, k)
       THEN status' = "shut" /\ pc' = "idle"
       ELSE UNCHANGED <<status, pc>>
    /\ UNCHANGED <<copies, channel, closed, blocked, woken, drained>>

WriteSome == \E p \in Due(buf) : \E k \in 0 .. Start[p.number + 1] + 1 - p.from : Write(p, k)

\* The socket takes all that is left of the packet that is due.
WriteAll == \E p \in Due(buf) : Write(p, Start[p.number + 1] + 1 - p.from)

-----------------------------------------------------------------------------
(* The specification                                                       *)

WriterInit ==
    /\ copies = [n \in Numbers |-> 0]
    /\ channel = <<>>
    /\ closed = FALSE
    /\ buf = EmptyBuffer
    /\ written = <<>>
    /\ blocked = FALSE
    /\ woken = FALSE
    /\ pc = "idle"
    /\ drained = FALSE
    /\ status = "running"

WriterNext ==
    \/ \E n \in Numbers : Deliver(n)
    \/ SocketReady
    \/ Poll
    \/ ReadPacket
    \/ ReadEnds
    \/ NothingDue
    \/ SocketRefuses
    \/ WriteFailsForNow
    \/ StreamDies
    \/ WriteSome

WriterSpec == WriterInit /\ [][WriterNext]_swVars

\* A blocked socket drains, a woken future is polled and its loop goes on; and a
\* socket that is asked again and again takes a whole packet at some time (its
\* peer reads).
WriterFairness ==
    /\ WF_swVars(SocketReady)
    /\ WF_swVars(Poll)
    /\ WF_swVars(ReadPacket \/ ReadEnds)
    /\ WF_swVars(NothingDue)
    /\ SF_swVars(WriteAll)

WriterFairSpec == WriterSpec /\ WriterFairness

-----------------------------------------------------------------------------
(* Properties                                                              *)

\* The buffer holds packets by number and rest, the socket has bytes by
\* position, and the writer is at one of the stations of poll().
WriterTypeOK ==
    /\ copies \in [Numbers -> Nat]
    /\ channel \in Seq(Numbers)
    /\ closed \in BOOLEAN
    /\ buf \in Buffers
    /\ written \in Seq(Nat)
    /\ blocked \in BOOLEAN
    /\ woken \in BOOLEAN
    /\ pc \in {"idle", "read", "write"}
    /\ drained \in BOOLEAN
    /\ status \in {"running", "shut", "done", "dead"}

\* The buffer holds one packet for every number it has seen, none that was
\* already written, and whole ones but for the packet that is due, of which it
\* holds exactly what the socket has not taken.  (poll() takes a packet out
\* before the write that finds the stream dead; nothing is written after that.)
BufferIsTheRest == status # "dead" =>
    /\ \A p, q \in buf.heap : p.number = q.number => p = q
    /\ buf.seen = {p.number : p \in buf.heap}
    /\ \A p \in buf.heap :
          /\ p.number >= buf.next
          /\ p.from = IF p.number = buf.next THEN Len(written) + 1 ELSE Start[p.number] + 1
    /\ Due(buf) = {} => Len(written) = Start[buf.next]

\* The bytes the socket took are the first bytes that were sent, each once and
\* in order, whatever the network repeats or reorders and however the socket
\* cuts the packets; and the stream is shut down only after the last of them.
Promise == INSTANCE ByteStream WITH
    Total <- Start[Packets],
    out <- written,
    outcome <- CASE status = "running" -> "open"
                 [] status = "shut" -> "complete"
                 [] OTHER -> "broken"

DeliversInOrder == Promise!StreamSpec

\* Once every packet has reached the channel, which none does after last_data,
\* all bytes are written and the stream is shut down, unless the socket dies: no
\* wake-up is lost.
EverythingWritten == (\A n \in Numbers : copies[n] > 0) ~> status \in {"shut", "dead"}
=============================================================================
