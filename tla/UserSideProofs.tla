--------------------------- MODULE UserSideProofs ---------------------------
(***************************************************************************)
(* What the user meets, for any number of packets, user interfaces,        *)
(* addresses, clients and processes: a sequenced writer keeps the promise  *)
(* of ByteStream, the Daemon runs one Node, and the maps of the UiGateway  *)
(* agree.  The three share no state; each has its inductive invariant,     *)
(* WriterInv, DaemonInv and MapsInv.                                       *)
(***************************************************************************)
EXTENDS SequencedWriter, Daemon, UiSupervisor, TLAPS

-----------------------------------------------------------------------------
(* SequencedWriter: the SequenceBuffer always holds exactly what the       *)
(* socket has yet to take of the packets that have arrived                 *)
(* (BufferIsTheRest), so that the packet that is due starts at the byte    *)
(* after the last one written.                                             *)

BytesInOrder == \A i \in 1 .. Len(written) : written[i] = i

Stations ==
    /\ buf.next <= Packets
    /\ status # "running" => pc = "idle"
    /\ status = "shut" => Len(written) = Start[Packets]

WriterInv == WriterTypeOK /\ BufferIsTheRest /\ BytesInOrder /\ Stations

\* Writing the next k bytes after the first ones leaves the first ones written.
LEMMA AppendRun ==
    ASSUME NEW s \in Seq(Nat), NEW k \in Nat, NEW f \in Nat,
           \A i \in 1 .. Len(s) : s[i] = i, f = Len(s) + 1,
           NEW t, t = s \o [i \in 1 .. k |-> f + i - 1]
    PROVE  /\ t \in Seq(Nat)
           /\ Len(t) = Len(s) + k
           /\ \A i \in 1 .. Len(t) : t[i] = i
<1> DEFINE r == [i \in 1 .. k |-> f + i - 1]
<1>1. r \in Seq(Nat) /\ Len(r) = k /\ \A i \in 1 .. k : r[i] = f + i - 1
  <2>1. \A i \in 1 .. k : f + i - 1 \in Nat
    OBVIOUS
  <2>2. r \in [1 .. k -> Nat]
    BY <2>1
  <2>3. r \in Seq(Nat)
    BY <2>2
  <2>4. Len(r) = k
    BY <2>3
  <2> QED BY <2>3, <2>4
<1>2. s \o r \in Seq(Nat) /\ Len(s \o r) = Len(s) + k
  <2>1. \A q \in Seq(Nat) : s \o q \in Seq(Nat) /\ Len(s \o q) = Len(s) + Len(q)
    OBVIOUS
  <2> HIDE DEF r
  <2> QED BY Zenon, <1>1, <2>1
<1> HIDE DEF r
<1>3. ASSUME NEW i \in 1 .. Len(s \o r) PROVE (s \o r)[i] = i
  <2>1. CASE i <= Len(s)
    BY <1>1, <1>2, <2>1
  <2>2. CASE i > Len(s)
    <3>1. (s \o r)[i] = r[i - Len(s)] /\ i - Len(s) \in 1 .. k
      BY <1>1, <1>2, <2>2
    <3> QED BY <3>1, <1>1
  <2> QED BY <1>2, <2>1, <2>2
<1> QED BY <1>2, <1>3 DEF r

\* The packet that is due starts at the byte after the last one written.
LEMMA DueStartsNext ==
    ASSUME WriterTypeOK, BufferIsTheRest, status # "dead", NEW p \in Due(buf)
    PROVE  /\ p \in buf.heap
           /\ p.number \in Numbers
           /\ p.number = buf.next
           /\ p.from = Len(written) + 1
           /\ p.from \in Nat
BY DEF Due, WriterTypeOK, BufferIsTheRest, Buffers, SequencedPackets

\* In the initial state nothing was written and nothing waits.
LEMMA WriterInitially == WriterInit => WriterInv
<1> SUFFICES ASSUME WriterInit PROVE WriterInv
  OBVIOUS
<1> USE DEF WriterInit, EmptyBuffer
<1>1. WriterTypeOK
  <2>1. copies \in [Numbers -> Nat] /\ channel \in Seq(Numbers) /\ written \in Seq(Nat)
    BY DEF Numbers
  <2>2. buf \in Buffers
    BY DEF Buffers
  <2> QED BY Zenon, <2>1, <2>2 DEF WriterTypeOK
<1>2. BufferIsTheRest
  BY WriterAssumption DEF BufferIsTheRest
<1>3. BytesInOrder /\ Stations
  BY WriterAssumption DEF BytesInOrder, Stations
<1> QED BY <1>1, <1>2, <1>3 DEF WriterInv

\* A packet that is pushed waits whole, once, and not if it was written.
LEMMA PushKeepsInv ==
    ASSUME WriterInv, ReadPacket PROVE WriterInv'
<1> DEFINE n == Head(channel)
           p == [number |-> n, from |-> Start[n] + 1]
<1> USE DEF WriterInv
<1>1. n \in Numbers /\ Tail(channel) \in Seq(Numbers) /\ Start[n] \in Nat
  <2>1. channel \in Seq(Numbers) /\ channel # <<>>
    BY DEF ReadPacket, WriterTypeOK
  <2>2. n \in Numbers /\ Tail(channel) \in Seq(Numbers)
    BY <2>1
  <2>3. \A m \in Numbers : Start[m] \in Nat
    BY WriterAssumption DEF Numbers
  <2> QED BY <2>2, <2>3
<1>2. p \in SequencedPackets
  BY <1>1 DEF SequencedPackets
<1>3. WriterTypeOK'
  <2>1. buf' \in Buffers
    BY Zenon, <1>1, <1>2 DEF ReadPacket, Push, Buffers, WriterTypeOK
  <2>2. pc' \in {"idle", "read", "write"}
    BY DEF ReadPacket, AfterRead
  <2> QED BY <1>1, <2>1, <2>2 DEF ReadPacket, WriterTypeOK
<1>4. BufferIsTheRest'
  <2>1. CASE ~IsNew(buf, n)
    <3>1. UNCHANGED <<buf, written, status>>
      BY <2>1 DEF ReadPacket, Push
    <3> QED BY <3>1 DEF BufferIsTheRest, Due
  <2>2. CASE IsNew(buf, n) /\ status # "dead"
    <3>1. /\ buf'.heap = buf.heap \cup {p} /\ buf'.next = buf.next
          /\ buf'.seen = buf.seen \cup {n}
          /\ UNCHANGED <<written, status>>
      BY <2>2 DEF ReadPacket, Push, WriterTypeOK, Buffers
    <3>2. \A q \in buf.heap : q.number # n
      BY <2>2 DEF IsNew, BufferIsTheRest
    <3>3. \A q \in buf'.heap, r \in buf'.heap : q.number = r.number => q = r
      BY <3>1, <3>2, <2>2 DEF BufferIsTheRest
    <3>4. buf'.seen = {q.number : q \in buf'.heap}
      <4>1. buf.seen = {q.number : q \in buf.heap}
        BY <2>2 DEF BufferIsTheRest
      <4>2. p.number = n
        OBVIOUS
      <4> HIDE DEF p, n
      <4> QED BY <3>1, <4>1, <4>2
    <3>5. n = buf.next => p.from = Len(written) + 1
      <4>1. n = buf.next => Due(buf) = {}
        BY <3>2 DEF Due
      <4> QED BY <4>1, <1>1, <2>2 DEF BufferIsTheRest
    <3>6. \A q \in buf'.heap :
             /\ q.number >= buf'.next
             /\ q.from = IF q.number = buf'.next THEN Len(written') + 1
                         ELSE Start[q.number] + 1
      BY <3>1, <3>5, <2>2 DEF BufferIsTheRest, IsNew
    <3>7. Due(buf)' = {} => Due(buf) = {}
      BY <3>1, <3>6 DEF Due
    <3> QED BY Zenon, <3>1, <3>3, <3>4, <3>6, <3>7, <2>2 DEF BufferIsTheRest
  <2>3. CASE status = "dead"
    BY <2>3 DEF ReadPacket, BufferIsTheRest
  <2> QED BY <2>1, <2>2, <2>3
<1>5. BytesInOrder' /\ Stations'
  <2>1. buf'.next = buf.next
    BY DEF ReadPacket, Push, WriterTypeOK, Buffers
  <2>2. UNCHANGED <<written, status>> /\ status = "running"
    BY DEF ReadPacket, Stations
  <2> QED BY <2>1, <2>2 DEF BytesInOrder, Stations
<1> QED BY <1>3, <1>4, <1>5

\* A packet taken out and put back leaves the buffer as it was.
LEMMA PutBack ==
    ASSUME WriterTypeOK, BufferIsTheRest, status # "dead", NEW p \in Due(buf)
    PROVE  Repush(Polled(buf, p), p) = buf
<1>1. p \in buf.heap /\ p.number = buf.next /\ p.number \in buf.seen
  BY DueStartsNext DEF BufferIsTheRest
<1>2. buf = [heap |-> buf.heap, next |-> buf.next, seen |-> buf.seen]
  BY DEF WriterTypeOK, Buffers
<1> QED BY <1>1, <1>2 DEF Repush, Polled

\* Where a packet starts and where it ends.
LEMMA PacketPlaces ==
    ASSUME NEW n \in Numbers
    PROVE  /\ Start[n] \in Nat /\ Start[n + 1] \in Nat /\ Start[Packets] \in Nat
           /\ n + 1 \in 0 .. Packets /\ n \in Nat /\ Packets \in Nat
BY SMTT(30), WriterAssumption DEF Numbers

\* Writing k bytes of the packet that is due leaves exactly the rest of it.
LEMMA WriteKeepsInv ==
    ASSUME WriterInv, NEW p \in Due(buf), NEW k \in 0 .. Start[p.number + 1] + 1 - p.from,
           Write(p, k)
    PROVE  WriterInv' /\ Len(written') = Len(written) + k
<1> USE DEF WriterInv
<1> DEFINE n == p.number
<1>0. status = "running" /\ pc = "write" /\ UNCHANGED <<copies, channel, closed, blocked, woken, drained>>
  BY DEF Write, Stations
<1>1. /\ p \in buf.heap /\ n \in Numbers /\ n = buf.next
      /\ p.from = Len(written) + 1 /\ p.from \in Nat /\ p \in SequencedPackets
  BY <1>0, DueStartsNext DEF WriterTypeOK, Buffers
<1>2. /\ Start[n] \in Nat /\ Start[n + 1] \in Nat /\ n + 1 \in 0 .. Packets /\ n \in Nat
      /\ Packets \in Nat
  BY ZenonT(30), <1>1, PacketPlaces
<1>3. k \in Nat
  BY <1>1, <1>2
<1>4. written \in Seq(Nat) /\ BytesInOrder
  BY DEF WriterTypeOK
<1>5. written' \in Seq(Nat) /\ Len(written') = Len(written) + k /\ BytesInOrder'
  <2>1. written' = written \o [i \in 1 .. k |-> p.from + i - 1]
    BY Zenon DEF Write
  <2>2. \A i \in 1 .. Len(written) : written[i] = i
    BY Zenon, <1>4 DEF BytesInOrder
  <2>3. written \in Seq(Nat) /\ p.from \in Nat /\ p.from = Len(written) + 1
    BY Zenon, <1>1, <1>4
  <2> HIDE DEF WriterInv
  <2>4. /\ written' \in Seq(Nat) /\ Len(written') = Len(written) + k
        /\ \A i \in 1 .. Len(written') : written'[i] = i
    BY SMTT(60), <1>3, <2>1, <2>2, <2>3, AppendRun
  <2> QED BY Zenon, <2>4 DEF BytesInOrder
<1>6. /\ \A q, r \in buf.heap : q.number = r.number => q = r
      /\ buf.seen = {q.number : q \in buf.heap}
      /\ \A q \in buf.heap :
            /\ q.number >= buf.next
            /\ q.from = IF q.number = buf.next THEN Len(written) + 1 ELSE Start[q.number] + 1
  BY <1>0 DEF BufferIsTheRest
<1>7. buf.heap \subseteq SequencedPackets /\ buf.seen \subseteq Numbers /\ buf.next \in Nat
  BY DEF WriterTypeOK, Buffers
<1>8. CASE p.from + k - 1 = Start[n + 1]
  <2>1. /\ buf' = [heap |-> buf.heap \ {p}, next |-> n + 1, seen |-> buf.seen \ {n}]
    BY <1>8, <1>1 DEF Write, Polled
  <2>2. buf' \in Buffers
    BY <2>1, <1>7, <1>2 DEF Buffers
  <2>3. Len(written') = Start[n + 1]
    BY <1>8, <1>5, <1>1, <1>2, <1>3
  <2>4. \A q \in buf.heap \ {p} : q.number > n
    BY <1>1, <1>6, <1>7 DEF SequencedPackets, Numbers
  <2>5. buf'.seen = {q.number : q \in buf'.heap}
    BY <2>1, <2>4, <1>6, <1>1
  <2>6. \A q \in buf'.heap :
           /\ q.number >= buf'.next
           /\ q.from = IF q.number = buf'.next THEN Len(written') + 1
                       ELSE Start[q.number] + 1
    <3> SUFFICES ASSUME NEW q \in buf.heap \ {p}
                 PROVE  /\ q.number >= n + 1
                        /\ q.from = IF q.number = n + 1 THEN Len(written') + 1
                                    ELSE Start[q.number] + 1
      BY <2>1
    <3>1. q.number > n /\ q.number \in Nat
      BY <2>4, <1>7 DEF SequencedPackets, Numbers
    <3>2. q.from = Start[q.number] + 1
      BY SMTT(30), <3>1, <1>6, <1>1, <1>2
    <3> QED BY <3>1, <3>2, <2>3, <1>2
  <2>7. BufferIsTheRest'
    BY Zenon, <2>1, <2>3, <2>5, <2>6, <1>6 DEF BufferIsTheRest
  <2>8. status' \in {"running", "shut"} /\ pc' \in {"idle", "write"}
        /\ (status' = "shut" => n = Packets - 1 /\ pc' = "idle")
        /\ (status' # "running" => pc' = "idle")
    BY <1>0 DEF Write, IsLastOfStream
  <2>9. Stations'
    <3>1. buf'.next <= Packets
      BY <2>1, <1>2
    <3>2. status' = "shut" => Len(written') = Start[Packets]
      BY <2>3, <2>8, <1>2
    <3> QED BY <3>1, <3>2, <2>8 DEF Stations
  <2>10. WriterTypeOK'
    BY <2>2, <1>5, <1>0, <2>8 DEF WriterTypeOK
  <2> QED BY <1>5, <2>7, <2>9, <2>10
<1>9. CASE p.from + k - 1 # Start[n + 1]
  <2> DEFINE r == Rest(p, k)
  <2>1. r = [number |-> n, from |-> p.from + k] /\ r \in SequencedPackets
    BY <1>1, <1>3 DEF Rest, SequencedPackets
  <2>2. buf' = [heap |-> (buf.heap \ {p}) \cup {r}, next |-> n, seen |-> (buf.seen \ {n}) \cup {n}]
    BY <1>9, <2>1, <1>1 DEF Write, Polled, Repush
  <2>3. buf' \in Buffers
    BY <2>1, <2>2, <1>7, <1>2, <1>1 DEF Buffers
  <2>4. r.from = Len(written') + 1
    BY SMTT(30), <2>1, <1>1, <1>3, <1>5
  <2>5. \A q \in buf.heap \ {p} : q.number # n /\ q.number >= n
    BY <1>1, <1>6
  <2>6. buf'.seen = {q.number : q \in buf'.heap}
    <3>1. buf'.seen = buf.seen
      BY <2>2, <1>6, <1>1
    <3> QED BY SMTT(30), <3>1, <2>1, <2>2, <1>6, <1>1
  <2>7. \A q \in buf'.heap :
           /\ q.number >= buf'.next
           /\ q.from = IF q.number = buf'.next THEN Len(written') + 1
                       ELSE Start[q.number] + 1
    BY <2>1, <2>2, <2>4, <2>5, <1>1, <1>2, <1>6
  <2>8. \A q, t \in buf'.heap : q.number = t.number => q = t
    BY <2>1, <2>2, <2>5, <1>6
  <2>9. r \in Due(buf)'
    BY ZenonT(30), <2>1, <2>2, <2>7 DEF Due
  <2>10. BufferIsTheRest'
    BY <2>6, <2>7, <2>8, <2>9 DEF BufferIsTheRest
  <2>11. ~IsLastOfStream(p, k)
    BY <1>9, <1>2 DEF IsLastOfStream
  <2>12. UNCHANGED <<status, pc>>
    BY <2>11 DEF Write
  <2>13. Stations'
    BY <2>12, <2>2, <1>0, <1>2 DEF Stations
  <2>14. WriterTypeOK'
    BY <2>3, <2>12, <1>5, <1>0 DEF WriterTypeOK
  <2> QED BY <1>5, <2>10, <2>13, <2>14
<1> QED BY <1>8, <1>9

\* Every step keeps the invariant.
LEMMA WriterStep == WriterInv /\ [WriterNext]_swVars => WriterInv'
<1> SUFFICES ASSUME WriterInv, [WriterNext]_swVars PROVE WriterInv'
  BY ZenonT(30)
<1> USE DEF WriterInv
<1>a. ASSUME UNCHANGED <<buf, written, status>>, WriterTypeOK',
             status # "running" => pc' = "idle"
      PROVE  WriterInv'
  BY <1>a DEF BufferIsTheRest, Due, BytesInOrder, Stations
<1>b. ASSUME pc = "write", NEW p \in Due(buf), buf' = Repush(Polled(buf, p), p)
      PROVE  buf' = buf
  BY <1>b, PutBack DEF Stations
<1>1. ASSUME NEW n \in Numbers, Deliver(n) PROVE WriterInv'
  <2>1. copies' \in [Numbers -> Nat] /\ channel' \in Seq(Numbers)
    BY <1>1 DEF Deliver, WriterTypeOK
  <2>2. closed' \in BOOLEAN /\ woken' \in BOOLEAN
    BY <1>1 DEF Deliver
  <2>3. WriterTypeOK'
    BY <1>1, <2>1, <2>2 DEF Deliver, WriterTypeOK
  <2> QED BY <1>1, <2>3, <1>a DEF Deliver, Stations
<1>2. CASE SocketReady
  <2>1. WriterTypeOK'
    BY Zenon, <1>2 DEF SocketReady, WriterTypeOK
  <2> QED BY <1>2, <2>1, <1>a DEF SocketReady, Stations
<1>3. CASE Poll
  <2>1. WriterTypeOK'
    BY Zenon, <1>3 DEF Poll, WriterTypeOK
  <2> QED BY <1>3, <2>1, <1>a DEF Poll
<1>4. CASE ReadPacket
  BY <1>4, PushKeepsInv
<1>5. CASE ReadEnds
  <2>1. WriterTypeOK'
    BY ZenonT(30), <1>5 DEF ReadEnds, WriterTypeOK
  <2> QED BY <1>5, <2>1, <1>a DEF ReadEnds, Stations
<1>6. CASE NothingDue
  <2>1. status' \in {"running", "done"} /\ status = "running"
    BY <1>6 DEF NothingDue, Stations
  <2>2. WriterTypeOK'
    BY <1>6, <2>1 DEF NothingDue, WriterTypeOK
  <2> QED BY <1>6, <2>1, <2>2 DEF NothingDue, BufferIsTheRest, Due, BytesInOrder, Stations
<1>7. CASE SocketRefuses
  <2>1. buf' = buf
    BY <1>7, <1>b DEF SocketRefuses
  <2>2. WriterTypeOK'
    BY <1>7, <2>1 DEF SocketRefuses, WriterTypeOK
  <2> QED BY <1>7, <2>1, <2>2, <1>a DEF SocketRefuses
<1>8. CASE WriteFailsForNow
  <2>1. buf' = buf
    BY <1>8, <1>b DEF WriteFailsForNow
  <2>2. WriterTypeOK'
    BY ZenonT(30), <1>8, <2>1 DEF WriteFailsForNow, WriterTypeOK
  <2> QED BY <1>8, <2>1, <2>2, <1>a DEF WriteFailsForNow, Stations
<1>9. CASE StreamDies
  <2>0. status = "running"
    BY <1>9 DEF StreamDies, Stations
  <2>1. PICK p \in Due(buf) : buf' = Polled(buf, p)
    BY <1>9 DEF StreamDies
  <2>2. p.number \in Numbers /\ p.number = buf.next
    BY <2>0, DueStartsNext
  <2>3. buf' \in Buffers
    BY <2>1, <2>2 DEF Polled, Buffers, WriterTypeOK
  <2>4. buf'.next <= Packets
    BY <2>1, <2>2, WriterAssumption DEF Polled, Numbers
  <2>5. WriterTypeOK'
    BY <1>9, <2>3 DEF StreamDies, WriterTypeOK
  <2> QED BY Zenon, <1>9, <2>4, <2>5 DEF StreamDies, BufferIsTheRest, BytesInOrder, Stations
<1>10. CASE WriteSome
  BY <1>10, WriteKeepsInv DEF WriteSome
<1>11. CASE UNCHANGED swVars
  <2>1. WriterTypeOK'
    BY <1>11 DEF swVars, WriterTypeOK
  <2> QED BY <1>11, <2>1, <1>a DEF swVars, Stations
<1> QED BY <1>1, <1>2, <1>3, <1>4, <1>5, <1>6, <1>7, <1>8, <1>9, <1>10, <1>11 DEF WriterNext

LEMMA WriterInvariant == WriterSpec => []WriterInv
<1> QED BY WriterInitially, WriterStep, PTL DEF WriterSpec

\* What waits in the buffer is exactly what the socket has not taken of the
\* packets that arrived, for every number and size of packets and however
\* poll(), push() and repush() of stream_writer_sorted.rs, stream_writer.rs and
\* sequence_buffer.rs alternate with the network and the socket.
THEOREM BufferHoldsTheRest == WriterSpec => []BufferIsTheRest
<1> QED BY WriterInvariant, PTL DEF WriterInv

\* The writer implements ByteStream: the socket takes the bytes that were sent,
\* each once and in order, and the stream is shut down for last_data only when
\* it took them all.
THEOREM WriterKeepsPromise == WriterSpec => DeliversInOrder
<1> DEFINE outcome == CASE status = "running" -> "open"
                        [] status = "shut" -> "complete"
                        [] OTHER -> "broken"
<1>1. WriterInit => Promise!StreamInit
  BY DEF WriterInit, Promise!StreamInit
<1>2. WriterInv /\ WriterInv' /\ [WriterNext]_swVars
      => [Promise!Deliver \/ Promise!Break]_(Promise!streamVars)
  <2> SUFFICES ASSUME WriterInv, WriterInv', [WriterNext]_swVars
               PROVE  [Promise!Deliver \/ Promise!Break]_(Promise!streamVars)
    OBVIOUS
  <2> USE DEF WriterInv
  <2>a. ASSUME UNCHANGED <<written, status>>
        PROVE  UNCHANGED Promise!streamVars
    BY <2>a DEF Promise!streamVars
  <2>b. ASSUME status = "running", status' \in {"dead", "done"}, UNCHANGED written
        PROVE  Promise!Break
    BY <2>b DEF Promise!Break
  <2>1. ASSUME NEW n \in Numbers, Deliver(n) PROVE UNCHANGED <<written, status>>
    BY <2>1 DEF Deliver
  <2>2. CASE SocketReady \/ Poll \/ ReadPacket \/ ReadEnds \/ SocketRefuses \/ WriteFailsForNow
             \/ UNCHANGED swVars
    <3>1. UNCHANGED <<written, status>>
      BY <2>2 DEF SocketReady, Poll, ReadPacket, ReadEnds, SocketRefuses, WriteFailsForNow, swVars
    <3> QED BY ZenonT(30), <3>1, <2>a
  <2>3. CASE NothingDue
    <3>1. status = "running" /\ UNCHANGED written /\ status' \in {"running", "done"}
      BY <2>3 DEF NothingDue, Stations
    <3> QED BY <3>1, <2>a, <2>b
  <2>4. CASE StreamDies
    BY <2>4, <2>b DEF StreamDies, Stations
  <2>5. CASE WriteSome
    <3>0. PICK p \in Due(buf) : \E k \in 0 .. Start[p.number + 1] + 1 - p.from : Write(p, k)
      BY <2>5 DEF WriteSome
    <3>1. PICK k \in 0 .. Start[p.number + 1] + 1 - p.from : Write(p, k)
      BY <3>0
    <3>2. status = "running"
      BY <3>1 DEF Write, Stations
    <3>3. /\ p.number \in Numbers /\ p.from = Len(written) + 1 /\ p.from \in Nat
      BY <3>2, DueStartsNext
    <3>4. Len(written') = Len(written) + k
      BY <3>1, WriteKeepsInv
    <3>5. /\ Start[p.number + 1] \in Nat /\ Start[Packets] \in Nat
          /\ p.number + 1 \in 0 .. Packets /\ Packets \in Nat
      BY ZenonT(30), <3>3, PacketPlaces
    <3>6. written \in Seq(Nat) /\ written' \in Seq(Nat) /\ k \in Nat
      BY <3>3, <3>5 DEF WriterTypeOK
    <3>7. Len(written') <= Start[p.number + 1]
      BY <3>3, <3>4, <3>5, <3>6
    <3>8. Start[p.number + 1] <= Start[Packets]
      BY <3>5, WriterAssumption
    <3>9. Len(written') \in Len(written) .. Start[Packets]
      BY SMTT(30), <3>4, <3>5, <3>6, <3>7, <3>8
    <3>10. written' = [i \in 1 .. Len(written') |-> i]
      BY <3>6 DEF BytesInOrder
    <3>11. \/ status' = "running"
           \/ status' = "shut" /\ Len(written') = Start[Packets]
      BY <3>1, <3>2 DEF Write, Stations
    <3>12. outcome = "open" /\ outcome' = IF status' = "shut" THEN "complete" ELSE "open"
      BY <3>2, <3>11
    <3> QED BY <3>9, <3>10, <3>11, <3>12 DEF Promise!Deliver
  <2> QED BY <2>a, <2>1, <2>2, <2>3, <2>4, <2>5 DEF WriterNext
<1> QED BY <1>1, <1>2, WriterInvariant, PTL DEF WriterSpec, DeliversInOrder, Promise!StreamSpec
-----------------------------------------------------------------------------
(* Daemon: what the Daemon's letters, its processes and the launch under   *)
(* way have to do with one another while requests do not cross with ends   *)
(* of processes.                                                           *)

Letters ==
    [kind : {"setup", "start", "other", "crash"}, ui : Uis \union {"none"},
     pid : Nat, setup : Setups \union {EmptySetup}]

DaemonTyped ==
    /\ letters \in Seq(Letters)
    /\ node_process_id \in Processes \union {0}
    /\ \/ launch = NoLaunch
       \/ /\ launch \in [ui : Uis \union {"none"}, pid : Processes, phase : {"connect", "death"}]
          /\ node_process_id = 0
    /\ process \in [Processes -> Live \union {"unborn", "dead", "reaped"}]
    /\ DOMAIN setupOf = Processes

SetupTold == \A u \in Uis : told[u] # EmptySetup => told[u] = params

(* The process that may be alive: the one being launched or the known one. *)
TheNode == IF launch = NoLaunch THEN node_process_id ELSE launch.pid

Ended == (\E p \in Processes : process[p] = "dead")
         \/ \E i \in 1..Len(letters) : letters[i].kind = "crash"

NodeInv ==
    /\ \A p \in Processes : process[p] \in Live => p = TheNode /\ setupOf[p] = params
    /\ \A i \in 1..Len(letters) : letters[i].kind # "crash" => Len(letters) = 1 /\ Idle /\ ~Ended
    /\ Ended => \A p \in Processes : process[p] \notin Live

DaemonInv ==
    DaemonTyped /\ SetupTold /\ ("patient" \in weather /\ "stubborn" \notin weather => NodeInv)

(* The known process, when it is checked, is the Node if there is one. *)
LEMMA CheckedNode ==
  ASSUME DaemonTyped, Idle, NodeInv
  PROVE  /\ Checked(node_process_id) = 0 => \A p \in Processes : process[p] \notin Live
         /\ \A p \in Processes : process[p] \in Live => Checked(node_process_id) = p
<1>1. \A p \in Processes : process[p] \in Live => p = node_process_id /\ p # 0
  BY DEF NodeInv, TheNode, Idle, Processes
<1> QED BY <1>1 DEF Checked, ProcessIsRunning, Processes

LEMMA FirstLetter ==
  ASSUME DaemonTyped, NEW kind, Next1(kind)
  PROVE  /\ letters # <<>> /\ letters' = Tail(letters) /\ letters' \in Seq(Letters)
         /\ Head(letters) \in Letters /\ Head(letters) = letters[1] /\ letters[1].kind = kind
         /\ 1 \in 1..Len(letters) /\ Len(letters') = Len(letters) - 1
         /\ \A i \in 1..Len(letters') : i + 1 \in 1..Len(letters) /\ letters'[i] = letters[i + 1]
         /\ Idle
BY DEF Next1, DaemonTyped

(* A letter is taken from the mailbox and no process is touched. *)
LEMMA LetterTaken ==
  ASSUME DaemonTyped, NodeInv, NEW kind, Next1(kind), UNCHANGED <<launch, process>>,
         \A p \in Processes : process[p] \in Live =>
            p = node_process_id' /\ setupOf'[p] = params'
  PROVE  NodeInv'
<1>1. Idle /\ launch' = NoLaunch
  BY ZenonT(30) DEF Next1, Idle
<1>2. Ended' => Ended
  BY FirstLetter DEF Ended
<1>3. \A i \in 1..Len(letters') : letters'[i].kind = "crash"
  BY FirstLetter DEF NodeInv
<1>4. \A p \in Processes : process'[p] \in Live => p = TheNode' /\ setupOf'[p] = params'
  BY <1>1 DEF TheNode
<1> QED BY <1>2, <1>3, <1>4 DEF NodeInv

LEMMA RequestTyped ==
  ASSUME DaemonTyped, NEW kind, Next1(kind), PortIfNodeIsRunning,
         UNCHANGED <<launch, process, setupOf>>
  PROVE  DaemonTyped'
<1>1. node_process_id' \in Processes \union {0}
  BY DEF PortIfNodeIsRunning, Checked, DaemonTyped
<1>2. launch' = NoLaunch
  BY DEF Next1, Idle
<1> QED BY <1>1, <1>2, FirstLetter DEF DaemonTyped

(* Requests that the Daemon answers without a launch. *)
LEMMA NodeRequests ==
  ASSUME DaemonTyped, NodeInv,
         HandleSetup \/ HandleUnexpectedMessage \/ AlreadyRunning \/ CannotExecute
  PROVE  NodeInv'
<1>1. PICK kind \in {"setup", "other", "start"} : Next1(kind)
  BY ZenonT(30) DEF HandleSetup, HandleUnexpectedMessage, AlreadyRunning, CannotExecute
<1>2. /\ UNCHANGED <<launch, process, setupOf>>
      /\ node_process_id' = Checked(node_process_id)
      /\ Checked(node_process_id) # 0 => params' = params
  BY Zenon DEF HandleSetup, HandleUnexpectedMessage, AlreadyRunning, CannotExecute, PortIfNodeIsRunning
<1>3. Idle
  BY ZenonT(30), <1>1 DEF Next1
<1>4. \A p \in Processes : process[p] \in Live => p = node_process_id' /\ setupOf'[p] = params'
  BY ZenonT(30), <1>2, <1>3, CheckedNode DEF NodeInv, Processes
<1> QED BY ZenonT(30), <1>1, <1>2, <1>4, LetterTaken

LEMMA NodeCrashHandled ==
  ASSUME DaemonTyped, NodeInv, HandleCrashNotification
  PROVE  NodeInv'
<1>1. Next1("crash") /\ UNCHANGED <<launch, process, setupOf, params>>
  BY ZenonT(30) DEF HandleCrashNotification
<1>2. Ended
  BY Zenon, <1>1, FirstLetter DEF Ended
<1> QED BY <1>1, <1>2, LetterTaken DEF NodeInv

LEMMA NodeExec ==
  ASSUME DaemonTyped, NodeInv, Exec
  PROVE  NodeInv'
<1>1. Next1("start") /\ Checked(node_process_id) = 0 /\ UNCHANGED params
  BY DEF Exec
<1>2. PICK pid \in Processes :
         /\ process[pid] = "unborn"
         /\ process' = [process EXCEPT ![pid] = "booting"]
         /\ setupOf' = [setupOf EXCEPT ![pid] = params]
         /\ launch' = [ui |-> Head(letters).ui, pid |-> pid, phase |-> "connect"]
  BY Zenon DEF Exec
<1>3. \A p \in Processes : process[p] \notin Live
  BY <1>1, CheckedNode, FirstLetter
<1>4. Len(letters) = 1 /\ ~Ended
  BY <1>1, FirstLetter DEF NodeInv
<1>5. Len(letters') = 0
  BY <1>1, <1>4, FirstLetter
<1>6. launch' # NoLaunch /\ launch'.pid = pid
  BY <1>2 DEF NoLaunch
<1>7. \A p \in Processes : process'[p] \in Live => p = pid
  BY <1>2, <1>3 DEF DaemonTyped
<1>8. setupOf'[pid] = params'
  BY ZenonT(30), <1>1, <1>2 DEF DaemonTyped
<1>9. ~Ended'
  BY SMTT(30), <1>2, <1>4, <1>5 DEF Ended, DaemonTyped
<1> QED BY <1>5, <1>6, <1>7, <1>8, <1>9 DEF NodeInv, TheNode

(* The end of a launch: the process is known, or it is gone. *)
LEMMA NodeLaunchEnds ==
  ASSUME DaemonTyped, NodeInv, Launched \/ CleanFailure \/ DirtyFailure
  PROVE  NodeInv'
<1>1. /\ launch # NoLaunch /\ launch.pid \in Processes /\ launch' = NoLaunch
      /\ UNCHANGED <<letters, params, process, setupOf>>
  BY SMTT(30) DEF Launched, CleanFailure, DirtyFailure, LaunchEnds, DaemonTyped, NoLaunch
<1>2. \A p \in Processes : process[p] \in Live => p = launch.pid /\ setupOf[p] = params
  BY <1>1 DEF NodeInv, TheNode
<1>3. \A p \in Processes : process[p] \in Live => p = node_process_id'
  BY ZenonT(30), <1>1, <1>2 DEF Launched, CleanFailure, DirtyFailure, LaunchEnds, ProcessIsRunning, Processes
<1>4. (Ended' <=> Ended) /\ \A i \in 1..Len(letters) : letters[i].kind = "crash"
  BY ZenonT(30), <1>1 DEF Ended, NodeInv, Idle
<1> QED BY ZenonT(30), <1>1, <1>2, <1>3, <1>4 DEF NodeInv, TheNode

(* A process changes its state, alive or not as before. *)
LEMMA NodeStaysAlive ==
  ASSUME DaemonTyped, NodeInv,
         KillProcess \/ \E pid \in Processes : NodeServes(pid)
  PROVE  NodeInv'
<1>1. PICK pid \in Processes : /\ process[pid] \in Live
                               /\ \E st \in Live : process' = [process EXCEPT ![pid] = st]
  BY DEF KillProcess, NodeServes, DaemonTyped, NoLaunch, ProcessIsRunning, Live
<1>2. /\ UNCHANGED <<letters, params, node_process_id, setupOf>>
      /\ launch' = NoLaunch <=> launch = NoLaunch
      /\ launch'.pid = launch.pid
  BY DEF KillProcess, NodeServes, DaemonTyped, NoLaunch
<1>3. \A p \in Processes : process'[p] \in Live <=> process[p] \in Live
  BY <1>1 DEF DaemonTyped
<1>4. \A p \in Processes : process'[p] = "dead" <=> process[p] = "dead"
  BY <1>1 DEF DaemonTyped, Live
<1>5. Ended' <=> Ended
  BY ZenonT(30), <1>2, <1>4 DEF Ended
<1> QED BY Zenon, <1>2, <1>3, <1>5 DEF NodeInv, TheNode, Idle

LEMMA NodeEnded ==
  ASSUME DaemonTyped, NodeInv, "patient" \in weather, NEW pid \in Processes, NodeEnds(pid)
  PROVE  NodeInv'
<1>1. /\ process[pid] \in Live /\ process' = [process EXCEPT ![pid] = "dead"]
      /\ Len(letters') = 0
  BY SMTT(30) DEF NodeEnds
<1>2. \A p \in Processes : process'[p] \notin Live
  BY ZenonT(30), <1>1 DEF NodeInv, DaemonTyped, Live
<1> QED BY <1>1, <1>2 DEF NodeInv

LEMMA NodeReaped ==
  ASSUME DaemonTyped, NodeInv, NEW pid \in Processes, WaitWithOutput(pid)
  PROVE  NodeInv'
<1>1. /\ process[pid] = "dead" /\ process' = [process EXCEPT ![pid] = "reaped"]
      /\ letters' = Append(letters, Crash(pid))
  BY DEF WaitWithOutput
<1>2. Ended
  BY <1>1 DEF Ended
<1>3. \A p \in Processes : process'[p] \notin Live
  BY ZenonT(30), <1>1, <1>2 DEF NodeInv, DaemonTyped, Live
<1>4. \A i \in 1..Len(letters') : letters'[i].kind = "crash"
  BY SMTT(30), <1>1, <1>2 DEF NodeInv, DaemonTyped, Crash
<1> QED BY <1>3, <1>4 DEF NodeInv

LEMMA NodeRequested ==
  ASSUME DaemonTyped, NodeInv, "patient" \in weather, NEW u, NEW kind \in {"setup", "start", "other"},
         NEW setup, UiRequest(u, kind, setup)
  PROVE  NodeInv'
<1> DEFINE m == [kind |-> kind, ui |-> u, pid |-> 0, setup |-> setup]
<1>1. /\ Idle /\ letters = <<>> /\ \A p \in Processes : process[p] # "dead"
      /\ letters' = Append(letters, m)
      /\ UNCHANGED <<params, node_process_id, launch, process, setupOf>>
  BY DEF UiRequest, Quiet
<1>2. m.kind = kind
  OBVIOUS
<1> HIDE DEF m
<1>3. Len(letters') = 1 /\ letters'[1] = m
  BY SMTT(30), <1>1
<1>4. ~Ended'
  BY <1>1, <1>2, <1>3 DEF Ended
<1> QED BY ZenonT(30), <1>1, <1>3, <1>4 DEF NodeInv, TheNode, Idle

-----------------------------------------------------------------------------
(* The types, and the Setup the user interfaces have been told.            *)

LEMMA NextDaemonTyped ==
  ASSUME DaemonTyped, [DaemonNext]_daemonVars
  PROVE  DaemonTyped'
<1>1. CASE \/ \E u \in Uis, s \in Setups : UiRequest(u, "setup", s)
           \/ \E u \in Uis, kind \in {"start", "other"} : UiRequest(u, kind, EmptySetup)
  <2>1. PICK u \in Uis, kind \in {"setup", "start", "other"}, s \in Setups \union {EmptySetup} :
           UiRequest(u, kind, s)
    BY <1>1
  <2>2. [kind |-> kind, ui |-> u, pid |-> 0, setup |-> s] \in Letters
    BY ZenonT(30) DEF Letters
  <2> QED BY <2>1, <2>2 DEF UiRequest, DaemonTyped
<1>2. CASE HandleSetup \/ HandleUnexpectedMessage \/ AlreadyRunning \/ CannotExecute
  BY ZenonT(30), <1>2, RequestTyped DEF HandleSetup, HandleUnexpectedMessage, AlreadyRunning, CannotExecute
<1>3. CASE Exec
  <2>1. Next1("start") /\ node_process_id' = 0
    BY <1>3 DEF Exec, PortIfNodeIsRunning
  <2>2. letters' \in Seq(Letters) /\ Head(letters).ui \in Uis \union {"none"}
    BY Zenon, <2>1, FirstLetter DEF Letters
  <2>3. PICK pid \in Processes :
          /\ process' = [process EXCEPT ![pid] = "booting"]
          /\ setupOf' = [setupOf EXCEPT ![pid] = params]
          /\ launch' = [ui |-> Head(letters).ui, pid |-> pid, phase |-> "connect"]
    BY Zenon, <1>3 DEF Exec
  <2>4. /\ process' \in [Processes -> Live \union {"unborn", "dead", "reaped"}]
        /\ DOMAIN setupOf' = Processes
    BY ZenonT(30), <2>3 DEF DaemonTyped, Live
  <2>5. launch' \in [ui : Uis \union {"none"}, pid : Processes, phase : {"connect", "death"}]
    BY ZenonT(30), <2>2, <2>3
  <2> QED BY Zenon, <2>1, <2>2, <2>4, <2>5 DEF DaemonTyped
<1>4. CASE Launched \/ CleanFailure \/ DirtyFailure \/ InterventionRequired
  BY <1>4 DEF Launched, CleanFailure, DirtyFailure, InterventionRequired, LaunchEnds, DaemonTyped,
     NoLaunch
<1>5. CASE KillProcess
  <2>1. /\ launch \in [ui : Uis \union {"none"}, pid : Processes, phase : {"connect", "death"}]
        /\ launch' = [launch EXCEPT !.phase = "death"]
        /\ node_process_id = 0
    BY <1>5 DEF KillProcess, DaemonTyped, NoLaunch
  <2>2. launch' \in [ui : Uis \union {"none"}, pid : Processes, phase : {"connect", "death"}]
    BY ZenonT(30), <2>1
  <2> QED BY <1>5, <2>1, <2>2 DEF KillProcess, DaemonTyped, Live
<1>6. CASE HandleCrashNotification
  <2>1. Next1("crash") /\ launch' = NoLaunch /\ node_process_id' \in {0, node_process_id}
        /\ UNCHANGED <<process, setupOf>>
    BY ZenonT(30), <1>6 DEF HandleCrashNotification, CrashHandled, Next1, Idle
  <2> QED BY Zenon, <2>1, FirstLetter DEF DaemonTyped
<1>7. ASSUME NEW pid \in Processes, NodeServes(pid) \/ NodeEnds(pid) PROVE DaemonTyped'
  BY <1>7 DEF NodeServes, NodeEnds, DaemonTyped, Live
<1>8. ASSUME NEW pid \in Processes, WaitWithOutput(pid) PROVE DaemonTyped'
  <2>1. Crash(pid) \in Letters
    BY DEF Crash, Letters, Processes
  <2> QED BY <1>8, <2>1 DEF WaitWithOutput, DaemonTyped
<1>9. CASE UNCHANGED daemonVars
  BY <1>9 DEF daemonVars, DaemonTyped
<1> QED BY ZenonT(30), <1>1, <1>2, <1>3, <1>4, <1>5, <1>6, <1>7, <1>8, <1>9 DEF DaemonNext, DaemonStep

LEMMA NextSetupTold ==
  ASSUME SetupTold, [DaemonNext]_daemonVars
  PROVE  SetupTold'
<1>1. CASE HandleSetup
  BY <1>1 DEF HandleSetup, Told, SetupTold
<1>2. ASSUME UNCHANGED <<params, told>> PROVE SetupTold'
  BY <1>2 DEF SetupTold
<1>3. CASE ~HandleSetup
  <2>1. UNCHANGED <<params, told>>
    BY Zenon, <1>3 DEF DaemonNext, DaemonStep, UiRequest, HandleUnexpectedMessage, AlreadyRunning,
       CannotExecute, Exec, Launched, CleanFailure, KillProcess, DirtyFailure,
       InterventionRequired, LaunchEnds, HandleCrashNotification, NodeServes, NodeEnds,
       WaitWithOutput, daemonVars
  <2> QED BY ZenonT(30), <1>2, <2>1
<1> QED BY ZenonT(30), <1>1, <1>3

LEMMA NextNode ==
  ASSUME DaemonTyped, NodeInv, "patient" \in weather, "stubborn" \notin weather,
         [DaemonNext]_daemonVars
  PROVE  NodeInv'
<1>1. CASE \/ \E u \in Uis, s \in Setups : UiRequest(u, "setup", s)
           \/ \E u \in Uis, kind \in {"start", "other"} : UiRequest(u, kind, EmptySetup)
  BY <1>1, NodeRequested
<1>2. ~InterventionRequired
  BY ZenonT(30) DEF InterventionRequired
<1>3. CASE UNCHANGED daemonVars
  BY ZenonT(30), <1>3 DEF daemonVars, NodeInv, TheNode, Ended, Idle
<1> QED BY ZenonT(30), <1>1, <1>2, <1>3, NodeRequests, NodeCrashHandled, NodeExec, NodeLaunchEnds,
           NodeStaysAlive, NodeEnded, NodeReaped DEF DaemonNext, DaemonStep

INSTANCE FiniteSetTheorems

LEMMA NodeInvShows ==
  ASSUME DaemonInv
  PROVE  OneNodeWithItsSetup
<1> DEFINE alive == {p \in Processes : process[p] \in Live}
<1> SUFFICES ASSUME "patient" \in weather, "stubborn" \notin weather
             PROVE  /\ Cardinality(alive) <= 1
                    /\ \A p \in alive : launch.pid # p => node_process_id = p /\ setupOf[p] = params
  BY ZenonT(30) DEF DaemonInv, SetupTold, OneNodeWithItsSetup
<1>1. \A p \in alive : p = TheNode /\ setupOf[p] = params
  BY ZenonT(30) DEF DaemonInv, NodeInv
<1>2. alive = {} \/ alive = {TheNode}
  BY <1>1
<1> HIDE DEF alive
<1>3. Cardinality(alive) <= 1
  <2>1. Cardinality({}) = 0 /\ Cardinality({TheNode}) = 1
    BY Zenon, FS_EmptySet, FS_Singleton
  <2> QED BY <1>2, <2>1
<1> QED BY ZenonT(30), <1>1, <1>3 DEF TheNode

(* As long as requests do not cross with ends of processes and killed      *)
(* processes die, at most one Node runs, for any number of user            *)
(* interfaces, requests and launches; the Daemon knows it unless it is     *)
(* still launching it, and its Setup space is the one the Node was started *)
(* with.  In any weather, every user interface that was ever told the      *)
(* Setup space has been told the present one.                              *)
THEOREM OneNodeRuns == DaemonSpec => []OneNodeWithItsSetup
<1>1. DaemonInit => DaemonInv
  <2> SUFFICES ASSUME DaemonInit PROVE DaemonInv
    OBVIOUS
  <2>1. DaemonTyped /\ SetupTold
    BY DEF DaemonInit, DaemonTyped, SetupTold
  <2>2. NodeInv
    BY DEF DaemonInit, NodeInv, Ended, Live
  <2> QED BY ZenonT(30), <2>1, <2>2 DEF DaemonInv
<1>2. DaemonInv /\ [DaemonNext]_daemonVars => DaemonInv'
  <2> SUFFICES ASSUME DaemonInv, [DaemonNext]_daemonVars PROVE DaemonInv'
    OBVIOUS
  <2>1. weather' = weather
    BY Zenon DEF DaemonNext, DaemonStep, UiRequest, HandleSetup, HandleUnexpectedMessage, AlreadyRunning,
       CannotExecute, Exec, Launched, CleanFailure, KillProcess, DirtyFailure,
       InterventionRequired, LaunchEnds, HandleCrashNotification, NodeServes, NodeEnds,
       WaitWithOutput, daemonVars
  <2>2. DaemonTyped' /\ SetupTold'
    BY NextDaemonTyped, NextSetupTold DEF DaemonInv
  <2>3. "patient" \in weather /\ "stubborn" \notin weather => NodeInv'
    BY NextNode DEF DaemonInv
  <2> QED BY ZenonT(30), <2>1, <2>2, <2>3 DEF DaemonInv
<1>3. DaemonInv => OneNodeWithItsSetup
  BY NodeInvShows
<1> QED BY <1>1, <1>2, <1>3, PTL DEF DaemonSpec
-----------------------------------------------------------------------------
(* The maps of the WebSocketSupervisor, as values: the clients, the        *)
(* address of each, the client of each address, the connections.           *)

Agree(ids, addrOf, idOf, ln) ==
    /\ DOMAIN addrOf = ids
    /\ \A c \in ids : /\ addrOf[c] = ln[c].addr
                      /\ addrOf[c] \in DOMAIN idOf
                      /\ idOf[addrOf[c]] = c
    /\ \A a \in DOMAIN idOf : idOf[a] \in ids /\ addrOf[idOf[a]] = a

(* The client an address stands for is at that address. *)
LEMMA AgreeOwner ==
  ASSUME NEW ids, NEW addrOf, NEW idOf, NEW ln, NEW a \in DOMAIN idOf,
         Agree(ids, addrOf, idOf, ln)
  PROVE  idOf[a] \in ids /\ addrOf[idOf[a]] = a
BY ZenonT(30) DEF Agree

LEMMA OnlyAddress ==
  ASSUME NEW addrOf, NEW a, NEW n, addrOf[n] = a
  PROVE  {addrOf[d] : d \in {n}} = {a}
OBVIOUS

(* A fresh client at an address nobody has enters the maps. *)
LEMMA AgreeEnters ==
  ASSUME NEW ids, NEW addrOf, NEW idOf, NEW ln, NEW ln2, NEW n, NEW a,
         Agree(ids, addrOf, idOf, ln), n \notin ids, a \notin DOMAIN idOf,
         \A c \in ids : ln2[c].addr = ln[c].addr, ln2[n].addr = a
  PROVE  Agree(ids \union {n}, Enters(addrOf, n, a), Enters(idOf, a, n), ln2)
BY ZenonT(30) DEF Agree, Enters

(* Clients leave the maps together with their addresses. *)
LEMMA AgreeRemoved ==
  ASSUME NEW ids, NEW addrOf, NEW idOf, NEW ln, NEW ln2, NEW cs,
         Agree(ids, addrOf, idOf, ln), cs \subseteq ids,
         \A c \in ids : ln2[c].addr = ln[c].addr
  PROVE  Agree(ids \ cs, Restricted(addrOf, cs),
               Restricted(idOf, {addrOf[c] : c \in cs}), ln2)
<1> DEFINE as == {addrOf[c] : c \in cs}
<1>1. \A c \in ids \ cs : addrOf[c] \notin as
  BY DEF Agree
<1>2. \A a \in DOMAIN idOf \ as : idOf[a] \notin cs
  BY ZenonT(30) DEF Agree
<1> HIDE DEF as
<1>3. Agree(ids \ cs, Restricted(addrOf, cs), Restricted(idOf, as), ln2)
  BY Zenon, <1>1, <1>2 DEF Agree, Restricted, Restrict
<1> QED BY <1>3 DEF as

(* What changes only the connections' other fields leaves them alone. *)
LEMMA AgreeKept ==
  ASSUME NEW ids, NEW addrOf, NEW idOf, NEW ln, NEW ln2,
         Agree(ids, addrOf, idOf, ln), \A c \in ids : ln2[c].addr = ln[c].addr
  PROVE  Agree(ids, addrOf, idOf, ln2)
BY ZenonT(30) DEF Agree

(* Removing an address that is nobody's changes nothing. *)
LEMMA AgreeWithout ==
  ASSUME NEW ids, NEW addrOf, NEW idOf, NEW ln, NEW a,
         Agree(ids, addrOf, idOf, ln), a \notin DOMAIN idOf
  PROVE  Agree(ids, addrOf, Restricted(idOf, {a}), ln)
<1>1. DOMAIN Restricted(idOf, {a}) = DOMAIN idOf
  BY DEF Restricted, Restrict
<1>2. \A b \in DOMAIN idOf : Restricted(idOf, {a})[b] = idOf[b]
  BY SMTT(30) DEF Restricted, Restrict
<1> QED BY <1>1, <1>2 DEF Agree

(* Different clients have different addresses. *)
LEMMA AgreeCount ==
  ASSUME NEW ids, NEW addrOf, NEW idOf, NEW ln, NEW cs,
         Agree(ids, addrOf, idOf, ln), cs \subseteq ids, IsFiniteSet(cs)
  PROVE  Cardinality({addrOf[c] : c \in cs}) = Cardinality(cs)
<1> DEFINE as == {addrOf[c] : c \in cs}
           f  == [c \in cs |-> addrOf[c]]
<1>1. f \in [cs -> as]
  BY ZenonT(30)
<1>2. \A c, d \in cs : f[c] = f[d] => c = d
  BY ZenonT(30) DEF Agree
<1>3. \A a \in as : \E c \in cs : f[c] = a
  OBVIOUS
<1>4. f \in Bijection(cs, as)
  <2> HIDE DEF as, f
  <2> QED BY Zenon, <1>1, <1>2, <1>3 DEF Bijection, Injection, Surjection, IsInjective
<1>5. ExistsBijection(cs, as)
  BY <1>4 DEF ExistsBijection
<1> HIDE DEF as
<1>6. Cardinality(as) = Cardinality(cs)
  BY Zenon, <1>5, FS_Bijection
<1> QED BY ZenonT(30), <1>6 DEF as
-----------------------------------------------------------------------------
(* UiSupervisor: MapsAgree is inductive once the connections are typed.    *)

Links ==
    [addr : Addresses, alive : BOOLEAN, stream : BOOLEAN,
     inbox : Seq({"text", "bad", "ping", "close"})]

SameAddresses == \A c \in Made : link'[c].addr = link[c].addr

ClientsKnown ==
    /\ next_client_id \in Nat
    /\ link \in [Made -> Links]
    /\ client_by_id \subseteq Made

MapsInv == ClientsKnown /\ MapsAgree

LEMMA MapsAsValues ==
  ASSUME "reuse" \notin climate
  PROVE  MapsAgree <=> ~panicked /\ Agree(client_by_id, socket_addr_by_client_id,
                                          client_id_by_socket_addr, link)
BY ZenonT(30) DEF MapsAgree, Agree

LEMMA MapsAsValuesNext ==
  ASSUME "reuse" \notin climate'
  PROVE  MapsAgree' <=> ~panicked' /\ Agree(client_by_id', socket_addr_by_client_id',
                                            client_id_by_socket_addr', link')
BY DEF MapsAgree, Agree

(* A step of one connection leaves the addresses alone. *)
LEMMA LinkStep ==
  ASSUME ClientsKnown, UNCHANGED next_client_id, client_by_id' \subseteq client_by_id,
         NEW c \in Made, NEW q \in Seq({"text", "bad", "ping", "close"}),
         NEW a \in BOOLEAN, NEW s \in BOOLEAN,
         link' = [link EXCEPT ![c] = [link[c] EXCEPT !.inbox = q, !.alive = a, !.stream = s]]
  PROVE  ClientsKnown' /\ SameAddresses
<1> DEFINE r == [link[c] EXCEPT !.inbox = q, !.alive = a, !.stream = s]
<1>1. link[c] \in Links
  BY DEF ClientsKnown
<1>2. r \in Links /\ r.addr = link[c].addr
  BY ZenonT(30), <1>1 DEF Links
<1> HIDE DEF r
<1>3. link' = [link EXCEPT ![c] = r]
  BY DEF r
<1>4. Made' = Made
  BY DEF Made
<1> QED BY <1>2, <1>3, <1>4 DEF ClientsKnown, SameAddresses

LEMMA LinkChanged ==
  ASSUME ClientsKnown, UNCHANGED next_client_id, client_by_id' \subseteq client_by_id,
         NEW c \in Made, NEW q \in Seq({"text", "bad", "ping", "close"}),
         \/ link' = [link EXCEPT ![c].inbox = q]
         \/ link' = [link EXCEPT ![c].inbox = q, ![c].alive = FALSE]
         \/ q = link[c].inbox /\ link' = [link EXCEPT ![c].stream = FALSE]
  PROVE  ClientsKnown' /\ SameAddresses
<1> DEFINE r == link[c]
<1>1. r \in Links
  BY DEF ClientsKnown
<1>2. r.alive \in BOOLEAN /\ r.stream \in BOOLEAN
  BY <1>1 DEF Links
<1>3. CASE link' = [link EXCEPT ![c].inbox = q]
  <2>1. [r EXCEPT !.inbox = q] = [r EXCEPT !.inbox = q, !.alive = r.alive, !.stream = r.stream]
    BY Zenon, <1>1 DEF Links
  <2> DEFINE a == r.alive
             b == r.stream
  <2>2. a \in BOOLEAN /\ b \in BOOLEAN
        /\ link' = [link EXCEPT ![c] = [link[c] EXCEPT !.inbox = q, !.alive = a, !.stream = b]]
    BY ZenonT(30), <1>2, <1>3, <2>1 DEF ClientsKnown
  <2> HIDE DEF a, b
  <2> QED BY Zenon, <2>2, LinkStep
<1>4. CASE link' = [link EXCEPT ![c].inbox = q, ![c].alive = FALSE]
  <2>1. [r EXCEPT !.inbox = q, !.alive = FALSE] = [r EXCEPT !.inbox = q, !.alive = FALSE, !.stream = r.stream]
    BY Zenon, <1>1 DEF Links
  <2>2. link' = [link EXCEPT ![c] = [r EXCEPT !.inbox = q, !.alive = FALSE]]
    BY Zenon, <1>4 DEF ClientsKnown
  <2> DEFINE b == r.stream
  <2>3. b \in BOOLEAN
        /\ link' = [link EXCEPT ![c] = [link[c] EXCEPT !.inbox = q, !.alive = FALSE, !.stream = b]]
    BY Zenon, <1>2, <2>1, <2>2
  <2> HIDE DEF b
  <2> QED BY Zenon, <2>3, LinkStep
<1>5. CASE q = link[c].inbox /\ link' = [link EXCEPT ![c].stream = FALSE]
  <2>1. [r EXCEPT !.stream = FALSE] = [r EXCEPT !.inbox = q, !.alive = r.alive, !.stream = FALSE]
    BY Zenon, <1>1, <1>5 DEF Links
  <2> DEFINE a == r.alive
  <2>2. a \in BOOLEAN
        /\ link' = [link EXCEPT ![c] = [link[c] EXCEPT !.inbox = q, !.alive = a, !.stream = FALSE]]
    BY ZenonT(30), <1>2, <1>5, <2>1 DEF ClientsKnown
  <2> HIDE DEF a
  <2> QED BY Zenon, <2>2, LinkStep
<1> QED BY <1>3, <1>4, <1>5

LEMMA MapsLinkOnly ==
  ASSUME MapsInv, ClientsKnown', SameAddresses, UNCHANGED <<climate, maps, panicked>>
  PROVE  MapsInv'
<1> SUFFICES ASSUME "reuse" \notin climate' PROVE MapsAgree'
  BY DEF MapsInv, MapsAgree
<1>1. "reuse" \notin climate
  OBVIOUS
<1>2. ~panicked /\ Agree(client_by_id, socket_addr_by_client_id, client_id_by_socket_addr, link)
  BY <1>1, MapsAsValues DEF MapsInv
<1>3. \A c \in client_by_id : link'[c].addr = link[c].addr
  BY ZenonT(30) DEF SameAddresses, MapsInv, ClientsKnown
<1>4. Agree(client_by_id, socket_addr_by_client_id, client_id_by_socket_addr, link')
  BY Zenon, <1>2, <1>3, AgreeKept
<1> QED BY ZenonT(30), <1>2, <1>4, MapsAsValuesNext DEF maps

(* emergency_client_removal of clients that are in the maps. *)
LEMMA MapsRemoved ==
  ASSUME MapsInv, ClientsKnown', SameAddresses, UNCHANGED <<climate, panicked>>,
         NEW cs \in SUBSET client_by_id, EmergencyClientRemoval(cs)
  PROVE  MapsInv'
<1> SUFFICES ASSUME "reuse" \notin climate' PROVE MapsAgree'
  BY DEF MapsInv, MapsAgree
<1>1. "reuse" \notin climate
  OBVIOUS
<1>2. ~panicked /\ Agree(client_by_id, socket_addr_by_client_id, client_id_by_socket_addr, link)
  BY <1>1, MapsAsValues DEF MapsInv
<1>3. \A c \in client_by_id : link'[c].addr = link[c].addr
  BY ZenonT(30) DEF SameAddresses, MapsInv, ClientsKnown
<1>4. Agree(client_by_id \ cs, Restricted(socket_addr_by_client_id, cs),
            Restricted(client_id_by_socket_addr, {socket_addr_by_client_id[c] : c \in cs}), link')
  BY ZenonT(30), <1>2, <1>3, AgreeRemoved
<1>5. Agree(client_by_id', socket_addr_by_client_id', client_id_by_socket_addr', link')
  BY ZenonT(30), <1>4 DEF EmergencyClientRemoval, AddressesOf
<1> QED BY ZenonT(30), <1>2, <1>5, MapsAsValuesNext

(* The expectv of emergency_client_removal is out of reach. *)
LEMMA MapsCanRemove ==
  ASSUME MapsInv, "reuse" \notin climate, NEW cs \in SUBSET client_by_id
  PROVE  CanRemove(cs)
<1>1. Agree(client_by_id, socket_addr_by_client_id, client_id_by_socket_addr, link)
  BY MapsAsValues DEF MapsInv
<1>2. IsFiniteSet(Made)
  BY FS_Interval DEF MapsInv, ClientsKnown, Made
<1>3. IsFiniteSet(cs)
  <2>1. cs \in SUBSET Made
    BY ZenonT(30) DEF MapsInv, ClientsKnown
  <2> QED BY ZenonT(30), <1>2, <2>1, FS_Subset
<1>4. Cardinality({socket_addr_by_client_id[c] : c \in cs}) = Cardinality(cs)
  BY SMTT(30), <1>1, <1>3, AgreeCount
<1>5. {socket_addr_by_client_id[c] : c \in cs} \subseteq DOMAIN client_id_by_socket_addr
  BY ZenonT(30), <1>1 DEF Agree
<1> QED BY ZenonT(30), <1>4, <1>5 DEF CanRemove, AddressesOf

LEMMA NewLink ==
  \A addr \in Addresses :
    LET r == [addr |-> addr, alive |-> TRUE, stream |-> TRUE, inbox |-> <<>>]
    IN  r \in Links /\ r.addr = addr
BY DEF Links

(* handle_connection: without reuse the address is nobody's. *)
LEMMA MapsConnection ==
  ASSUME MapsInv, NEW addr \in Addresses, HandleConnection(addr)
  PROVE  MapsInv'
<1> DEFINE n == next_client_id
           r == [addr |-> addr, alive |-> TRUE, stream |-> TRUE, inbox |-> <<>>]
<1>1. /\ n \in Nat /\ n \notin Made /\ Made' = Made \union {n}
      /\ next_client_id' \in Nat
  <2>1. next_client_id \in Nat /\ next_client_id' = next_client_id + 1
    BY Zenon DEF MapsInv, ClientsKnown, HandleConnection, IdAfter
  <2> QED BY <2>1 DEF Made
<1>2. r \in Links /\ r.addr = addr
  BY Zenon, NewLink
<1> HIDE DEF r
<1>3. link' = [x \in DOMAIN link \union {n} |-> IF x = n THEN r ELSE link[x]]
  BY Zenon DEF HandleConnection, Enters, r
<1>4. link' \in [Made' -> Links] /\ (\A c \in Made : link'[c] = link[c]) /\ link'[n] = r
  BY ZenonT(30), <1>1, <1>2, <1>3 DEF MapsInv, ClientsKnown
<1>5. ClientsKnown'
  BY Zenon, <1>1, <1>4 DEF MapsInv, ClientsKnown, HandleConnection
<1> SUFFICES ASSUME "reuse" \notin climate' PROVE MapsAgree'
  BY <1>5 DEF MapsInv, MapsAgree
<1>6. "reuse" \notin climate /\ panicked' = panicked
  BY Zenon DEF HandleConnection
<1>7. ~panicked /\ Agree(client_by_id, socket_addr_by_client_id, client_id_by_socket_addr, link)
  BY ZenonT(30), <1>6, MapsAsValues DEF MapsInv
<1>8. addr \notin DOMAIN client_id_by_socket_addr
  <2> SUFFICES ASSUME addr \in DOMAIN client_id_by_socket_addr PROVE FALSE
    BY ZenonT(30)
  <2> DEFINE c == client_id_by_socket_addr[addr]
  <2>1. c \in client_by_id /\ socket_addr_by_client_id[c] = addr /\ link[c].addr = addr
        /\ DOMAIN socket_addr_by_client_id = client_by_id
    BY ZenonT(30), <1>7 DEF Agree
  <2>2. c \in Made /\ addr \in Range(socket_addr_by_client_id)
    BY <2>1 DEF MapsInv, ClientsKnown, Range
  <2> QED BY Zenon, <1>6, <2>1, <2>2 DEF HandleConnection
<1>9. n \notin client_by_id /\ \A c \in client_by_id : link'[c].addr = link[c].addr
  BY <1>1, <1>4 DEF MapsInv, ClientsKnown
<1>10. link'[n].addr = addr
  BY ZenonT(30), <1>2, <1>4
<1> HIDE DEF n
<1>11. Agree(client_by_id \union {n}, Enters(socket_addr_by_client_id, n, addr),
             Enters(client_id_by_socket_addr, addr, n), link')
  BY Zenon, <1>7, <1>8, <1>9, <1>10, AgreeEnters
<1>12. Agree(client_by_id', socket_addr_by_client_id', client_id_by_socket_addr', link')
  BY Zenon, <1>11 DEF HandleConnection, n
<1> QED BY ZenonT(30), <1>6, <1>7, <1>12, MapsAsValuesNext

(* The stream of a connection reads a message. *)
LEMMA ReadsKnown ==
  ASSUME ClientsKnown, NEW c \in Made, NEW what, Reads(c, what), UNCHANGED next_client_id,
         client_by_id' \subseteq client_by_id
  PROVE  ClientsKnown' /\ SameAddresses
<1> DEFINE q == Tail(link[c].inbox)
<1>1. link[c] \in Links /\ link[c].inbox # <<>> /\ link' = [link EXCEPT ![c].inbox = q]
  BY DEF ClientsKnown, Reads
<1>2. q \in Seq({"text", "bad", "ping", "close"})
  BY <1>1 DEF Links
<1> HIDE DEF q
<1> QED BY Zenon, <1>1, <1>2, LinkChanged

(* close_connection finds the client of the address in the stable. *)
LEMMA MapsClosed ==
  ASSUME MapsInv, NEW c \in Made, HandleCloseMessage(c)
  PROVE  MapsInv'
<1> DEFINE addr == link[c].addr
           id   == client_id_by_socket_addr[addr]
<1>1. ClientsKnown' /\ SameAddresses
  <2>1. client_by_id' \subseteq client_by_id /\ UNCHANGED next_client_id /\ Reads(c, "close")
    BY ZenonT(30) DEF HandleCloseMessage, CloseConnection
  <2> QED BY ZenonT(30), <2>1, ReadsKnown DEF MapsInv
<1> SUFFICES ASSUME "reuse" \notin climate' PROVE MapsAgree'
  BY ZenonT(30), <1>1 DEF MapsInv, MapsAgree
<1>2. "reuse" \notin climate
  BY Zenon DEF HandleCloseMessage
<1>3. ~panicked /\ Agree(client_by_id, socket_addr_by_client_id, client_id_by_socket_addr, link)
  BY <1>2, MapsAsValues DEF MapsInv
<1>4. \A d \in client_by_id : link'[d].addr = link[d].addr
  BY ZenonT(30), <1>1 DEF SameAddresses, MapsInv, ClientsKnown
<1>5. CASE addr \in DOMAIN client_id_by_socket_addr
  <2>0. id = client_id_by_socket_addr[addr]
    BY Zenon
  <2> HIDE DEF id, addr
  <2>1. id \in client_by_id /\ {socket_addr_by_client_id[d] : d \in {id}} = {addr}
    <3>1. /\ client_id_by_socket_addr[addr] \in client_by_id
          /\ socket_addr_by_client_id[client_id_by_socket_addr[addr]] = addr
      BY ZenonT(30), <1>3, <1>5, AgreeOwner
    <3>2. id \in client_by_id /\ socket_addr_by_client_id[id] = addr
      BY ZenonT(30), <2>0, <3>1
    <3> QED BY SMTT(30), <3>2, OnlyAddress
  <2>2. Agree(client_by_id \ {id}, Restricted(socket_addr_by_client_id, {id}),
              Restricted(client_id_by_socket_addr, {socket_addr_by_client_id[d] : d \in {id}}), link')
    BY ZenonT(30), <1>3, <1>4, <2>1, AgreeRemoved
  <2>3. Agree(client_by_id', socket_addr_by_client_id', client_id_by_socket_addr', link')
        /\ panicked' = (id \notin client_by_id)
    BY Zenon, <1>5, <2>1, <2>2 DEF HandleCloseMessage, CloseConnection, id, addr
  <2> QED BY Zenon, <2>1, <2>3, MapsAsValuesNext
<1>6. CASE addr \notin DOMAIN client_id_by_socket_addr
  <2>1. Agree(client_by_id, socket_addr_by_client_id, client_id_by_socket_addr, link')
    BY ZenonT(30), <1>3, <1>4, AgreeKept
  <2>2. /\ client_id_by_socket_addr' = Restricted(client_id_by_socket_addr, {addr})
        /\ client_by_id' = client_by_id /\ socket_addr_by_client_id' = socket_addr_by_client_id
        /\ panicked' = panicked
    BY ZenonT(30), <1>6 DEF HandleCloseMessage
  <2>3. Agree(client_by_id, socket_addr_by_client_id,
              Restricted(client_id_by_socket_addr, {addr}), link')
    BY ZenonT(30), <1>6, <2>1, AgreeWithout
  <2>4. Agree(client_by_id', socket_addr_by_client_id', client_id_by_socket_addr', link')
    BY <2>2, <2>3
  <2> QED BY ZenonT(30), <1>3, <2>2, <2>4, MapsAsValuesNext
<1> QED BY Zenon, <1>5, <1>6

(* send_msg and handle_bad_text: failed writes remove clients. *)
LEMMA MapsSent ==
  ASSUME MapsInv, HandleNodeToUiMessage
  PROVE  MapsInv'
<1>1. PICK failing \in SUBSET client_by_id : SendMsg(Head(to_ui), failing)
  BY ZenonT(30) DEF HandleNodeToUiMessage
<1>2. UNCHANGED <<climate, next_client_id, link>> /\ client_by_id' \subseteq client_by_id
  BY <1>1 DEF HandleNodeToUiMessage, SendMsg, EmergencyClientRemoval, maps
<1>3. ClientsKnown' /\ SameAddresses
  BY <1>2 DEF MapsInv, ClientsKnown, SameAddresses, Made
<1>4. CASE CanRemove(failing)
  BY ZenonT(30), <1>1, <1>2, <1>3, <1>4, MapsRemoved DEF SendMsg
<1>5. CASE "reuse" \in climate
  BY ZenonT(30), <1>2, <1>3, <1>5 DEF MapsInv, MapsAgree
<1> QED BY ZenonT(30), <1>4, <1>5, MapsCanRemove

LEMMA MapsBadText ==
  ASSUME MapsInv, NEW c \in Made, HandleBadText(c)
  PROVE  MapsInv'
<1>1. UNCHANGED <<climate, next_client_id, panicked>> /\ client_by_id' \subseteq client_by_id
      /\ Reads(c, "bad")
  BY Zenon DEF HandleBadText, EmergencyClientRemoval, maps
<1>2. ClientsKnown' /\ SameAddresses
  BY ZenonT(30), <1>1, ReadsKnown DEF MapsInv
<1>3. CASE \E failing \in SUBSET client_by_id : EmergencyClientRemoval(failing)
  BY ZenonT(30), <1>1, <1>2, <1>3, MapsRemoved
<1>4. CASE UNCHANGED maps
  BY ZenonT(30), <1>1, <1>2, <1>4, MapsLinkOnly
<1> QED BY ZenonT(30), <1>3, <1>4 DEF HandleBadText

(* What a user interface does, and the end of its stream. *)
LEMMA MapsUi ==
  ASSUME MapsInv, NEW c \in Made,
         \/ \E what \in {"text", "bad", "ping"} : UiSends(c, what)
         \/ UiCloses(c) \/ UiDies(c) \/ StreamEnds(c)
  PROVE  MapsInv'
<1>1. ClientsKnown /\ UNCHANGED <<climate, next_client_id, maps, panicked>>
      /\ client_by_id' \subseteq client_by_id
  BY ZenonT(30) DEF UiSends, UiCloses, UiDies, StreamEnds, maps, MapsInv
<1>2. link[c] \in Links /\ link[c].inbox \in Seq({"text", "bad", "ping", "close"})
  BY Zenon, <1>1 DEF ClientsKnown, Links
<1>3. ASSUME NEW what \in {"text", "bad", "ping"}, UiSends(c, what)
      PROVE  ClientsKnown' /\ SameAddresses
  <2> DEFINE q == Append(link[c].inbox, what)
  <2>1. q \in Seq({"text", "bad", "ping", "close"}) /\ link' = [link EXCEPT ![c].inbox = q]
    BY SMTT(30), <1>1, <1>2, <1>3 DEF UiSends, ClientsKnown
  <2> HIDE DEF q
  <2> QED BY Zenon, <1>1, <2>1, LinkChanged
<1>4. CASE UiCloses(c)
  <2> DEFINE q == Append(link[c].inbox, "close")
  <2>1. q \in Seq({"text", "bad", "ping", "close"})
        /\ link' = [link EXCEPT ![c].inbox = q, ![c].alive = FALSE]
    BY <1>1, <1>2, <1>4 DEF UiCloses, ClientsKnown
  <2> HIDE DEF q
  <2>2. ClientsKnown' /\ SameAddresses
    BY Zenon, <1>1, <2>1, LinkChanged
  <2> QED BY ZenonT(30), <1>1, <2>2, MapsLinkOnly
<1>5. CASE UiDies(c)
  <2> DEFINE q == <<>>
  <2>1. q \in Seq({"text", "bad", "ping", "close"})
        /\ link' = [link EXCEPT ![c].inbox = q, ![c].alive = FALSE]
    BY <1>5 DEF UiDies
  <2> HIDE DEF q
  <2>2. ClientsKnown' /\ SameAddresses
    BY Zenon, <1>1, <2>1, LinkChanged
  <2> QED BY <1>1, <2>2, MapsLinkOnly
<1>6. CASE StreamEnds(c)
  <2> DEFINE q == link[c].inbox
  <2>1. q \in Seq({"text", "bad", "ping", "close"}) /\ q = link[c].inbox
        /\ link' = [link EXCEPT ![c].stream = FALSE]
    BY <1>2, <1>6 DEF StreamEnds
  <2> HIDE DEF q
  <2>2. ClientsKnown' /\ SameAddresses
    BY Zenon, <1>1, <2>1, LinkChanged
  <2> QED BY <1>1, <2>2, MapsLinkOnly
<1> QED BY ZenonT(30), <1>1, <1>3, <1>4, <1>5, <1>6, MapsLinkOnly

LEMMA NextMaps ==
  ASSUME MapsInv, [SupNext]_supVars
  PROVE  MapsInv'
<1>1. ASSUME UNCHANGED <<climate, next_client_id, maps, link, panicked>> PROVE MapsInv'
  <2>1. ClientsKnown' /\ SameAddresses
    BY <1>1 DEF MapsInv, ClientsKnown, SameAddresses, Made, maps
  <2> QED BY ZenonT(30), <1>1, <2>1, MapsLinkOnly
<1>2. ASSUME NEW c \in Made, HandleTextMessage(c) \/ HandleOtherMessage(c) PROVE MapsInv'
  <2>1. /\ UNCHANGED <<climate, next_client_id, maps, panicked>>
        /\ client_by_id' \subseteq client_by_id
        /\ Reads(c, "text") \/ Reads(c, "ping")
    BY <1>2 DEF HandleTextMessage, HandleOtherMessage, maps
  <2>2. ClientsKnown' /\ SameAddresses
    BY ZenonT(30), <2>1, ReadsKnown DEF MapsInv
  <2> QED BY ZenonT(30), <2>1, <2>2, MapsLinkOnly
<1>3. CASE HandleNodeFromUiMessage \/ Broadcast \/ UNCHANGED supVars
  BY ZenonT(30), <1>1, <1>3 DEF HandleNodeFromUiMessage, Broadcast, supVars, maps
<1> QED BY ZenonT(30), <1>2, <1>3, MapsConnection, MapsUi, MapsSent, MapsBadText, MapsClosed
        DEF SupNext, StreamStep, GatewayStep

(* The three maps of the WebSocketSupervisor tell the same story as long   *)
(* as no dead client's address is used again: no order of connections,     *)
(* closings, deaths and failed writes reaches the expectv of               *)
(* emergency_client_removal or the panic of close_connection.              *)
THEOREM MapsAlwaysAgree == SupSpec => []MapsAgree
<1>1. SupInit => MapsInv
  <2> SUFFICES ASSUME SupInit PROVE MapsInv
    OBVIOUS
  <2>1. Made = {}
    BY DEF SupInit, Made
  <2> QED BY <2>1 DEF SupInit, MapsInv, ClientsKnown, MapsAgree
<1>2. MapsInv /\ [SupNext]_supVars => MapsInv'
  BY NextMaps
<1>3. MapsInv => MapsAgree
  BY DEF MapsInv
<1> QED BY <1>1, <1>2, <1>3, PTL DEF SupSpec
=============================================================================
