------------------------------- MODULE Framing -------------------------------
(***************************************************************************)
(* How a stream reader cuts the bytes of a stream into frames: the         *)
(* HTTP-request framer (browsers on the HTTP port, and CONNECT on the TLS  *)
(* port), the TLS framer and the JSON framer (clandestine streams), their  *)
(* discriminators, and the loop of StreamReaderReal that feeds them.  The  *)
(* network may cut the bytes anywhere, so nothing a framer does may depend *)
(* on where a read ends.                                                   *)
(*                                                                         *)
(* Bytes are numbers.  A method is two bytes long instead of up to seven,  *)
(* a header line that matters is one byte and its line end, and lengths    *)
(* are single digits.                                                      *)
(***************************************************************************)
EXTENDS Integers, Sequences, SequencesExt

CONSTANTS
    Wires,      \* what a peer may send: [port, units, cuts, sound], units byte strings
    MaxRead     \* bound: bytes that one read gives

(* A wire's cuts: "any", or "kind" when no read ends inside the first three *)
(* bytes of a TLS record and a CONNECT request is a read of its own: the    *)
(* client waits for its answer.  A wire is sound if it breaks no rule of    *)
(* its protocol; garbage between units (a unit that begins with 0) does not *)
(* make it unsound.                                                         *)

CR == 13
LF == 10
CRLF == <<CR, LF>>
DOUBLE_CRLF == CRLF \o CRLF
SP == 32
BadLength == 198                 \* "Content-Length:" and no number
Chunked == 199                   \* "Transfer-Encoding: chunked"
ContentLength(n) == 200 + n      \* "Content-Length: n"
Digit(n) == 48 + n
GET == <<71, 69>>
CONNECT == <<67, 79>>
METHODS == {GET, CONNECT}
LONGEST_METHOD_LEN == 2
BYTES_TO_PRESERVE == 2
PRESERVE_HEADER_LEN == 4
DQ == 34
SQ == 39
BS == 92
OB == 123
CB == 125
BODY == 98                       \* the key bodyText or bodyData, with a proper value

VARIABLES
    wire,        \* what the peer sends (never changes)
    coming,      \* bytes still to be read
    tls,         \* data_so_far of the TLS framer
    json,        \* data_so_far of the JSON framer
    http,        \* HttpFramerState of the HTTP framer
    reader,      \* "idle", "framing" after a read, "ended", "panicked"
    buf,         \* the bytes of poll()'s buffer that is_connect() looks at
    connecting,  \* is_connect of the read being framed
    sequencer,   \* the next sequence number
    frames       \* InboundClientData sent on: [data, number]

frVars == <<wire, coming, tls, json, http, reader, buf, connecting, sequencer,
           frames>>

NoNumber == -1
NoSize == -1
Zeros == [i \in 1 .. Len(CONNECT) + 1 |-> 0]

-----------------------------------------------------------------------------
(* index_of(), and split_off(): the first offset of a pattern, or -1        *)

IndexOf(data, pattern) ==
    LET at == {i \in 0 .. Len(data) - Len(pattern) :
                 SubSeq(data, i + 1, i + Len(pattern)) = pattern}
    IN  IF at = {} THEN -1 ELSE CHOOSE i \in at : \A j \in at : i <= j

From(data, offset) == SubSeq(data, offset + 1, Len(data))
Until(data, offset) == SubSeq(data, 1, offset)
LastBytes(data, kept) == From(data, IF Len(data) > kept THEN Len(data) - kept ELSE 0)

Bytes(units) == FlattenSeq(units)

-----------------------------------------------------------------------------
(* HttpRequestStartFinder and HttpPacketFramer.  The lines of the packet    *)
(* so far are kept joined.                                                  *)

HttpStart == [data |-> <<>>, progress |-> "PacketStart", length |-> 0,
              existence |-> "Standard", chunk |-> "None", size |-> NoSize, lines |-> <<>>]

SeekPacketStart(h) ==
    LET starts == {IndexOf(h.data, m) : m \in METHODS} \ {-1}
    IN  IF starts = {} THEN [h EXCEPT !.data = LastBytes(@, LONGEST_METHOD_LEN)]
        ELSE [h EXCEPT !.data = From(@, CHOOSE s \in starts : \A t \in starts : s <= t),
                       !.progress = "BodyStart", !.length = 0, !.lines = <<>>]

\* check_for_content_length(), check_for_transfer_encoding() and
\* check_for_zero_length().  A bad length discards the request, but not what
\* its other headers said.
HeaderLine(h, line) ==
    LET chunks == h.existence = "Standard" /\ line[1] = Chunked
        bad == h.length = 0 /\ line[1] = BadLength
    IN  [h EXCEPT !.lines = IF bad THEN line ELSE @ \o line,
                  !.length = IF @ = 0 /\ line[1] >= ContentLength(0)
                               THEN line[1] - ContentLength(0) ELSE @,
                  !.existence = IF chunks THEN "ChunkedResponse" ELSE @,
                  !.chunk = IF chunks THEN "LengthHeader" ELSE @,
                  !.size = IF chunks THEN NoSize ELSE @,
                  !.progress = IF bad THEN "PacketStart"
                               ELSE IF line = CRLF THEN "BodyEnd" ELSE @]

\* The headers, line by line, up to the empty one.
RECURSIVE SeekBodyStart(_)
SeekBodyStart(h) ==
    LET end == IndexOf(h.data, CRLF)
    IN  IF h.progress # "BodyStart" \/ end = -1 THEN h
        ELSE SeekBodyStart(HeaderLine([h EXCEPT !.data = From(@, end + 2)],
                                      Until(h.data, end + 2)))

SeekBodyEnd(h) ==
    IF Len(h.data) < h.length THEN [h |-> h, frame |-> <<>>]
    ELSE [h |-> [h EXCEPT !.data = From(@, h.length), !.lines = <<>>,
                          !.progress = "PacketStart", !.length = 0,
                          !.existence = IF @ = "ChunkedResponse" THEN "Chunk" ELSE "Standard",
                          !.chunk = IF h.existence = "ChunkedResponse"
                                      THEN "LengthHeader" ELSE @],
          frame |-> h.lines \o Until(h.data, h.length)]

TakePacketFrame(h) ==
    LET h1 == IF h.progress = "PacketStart" THEN SeekPacketStart(h) ELSE h
        h2 == SeekBodyStart(h1)
    IN  IF h2.progress = "BodyEnd" THEN SeekBodyEnd(h2) ELSE [h |-> h2, frame |-> <<>>]

\* find_chunk_offset_length(): the digits before the first line end that has some.
IsDigit(byte) == byte \in Digit(0) .. Digit(9)
ChunkOffsetLength(data) ==
    LET ends == {i \in 1 .. Len(data) - 2 : IsDigit(data[i]) /\ SubSeq(data, i + 1, i + 2) = CRLF}
        end == CHOOSE i \in ends : \A j \in ends : i <= j
        first == CHOOSE i \in 1 .. end :
                    /\ \A j \in i .. end : IsDigit(data[j])
                    /\ i = 1 \/ ~IsDigit(data[i - 1])
        value == FoldLeft(LAMBDA v, d : 16 * v + (d - Digit(0)), 0, SubSeq(data, first, end))
    IN  IF ends = {} THEN [offset |-> -1, length |-> 0]
        ELSE [offset |-> first - 1, length |-> value + Len(CRLF) + (end - first + 1)]

\* The byte that tells the final chunk is looked up at the offset in what
\* was already cut off there: out of range, the reader panics.
SeekLengthHeader(h) ==
    LET found == ChunkOffsetLength(h.data)
        data == From(h.data, found.offset)
        offset == found.offset
    IN  CASE offset = -1 -> [h EXCEPT !.data = LastBytes(@, BYTES_TO_PRESERVE)]
          [] offset # -1 /\ found.length = 3 /\ offset >= Len(data) ->
               [h EXCEPT !.data = data, !.chunk = "Panic"]
          [] offset # -1 /\ found.length = 3 /\ offset < Len(data) /\ data[offset + 1] = Digit(0) ->
               [h EXCEPT !.data = data, !.chunk = "EndOfFinalChunk", !.size = NoSize]
          [] OTHER -> [h EXCEPT !.data = data, !.chunk = "EndOfChunk", !.size = found.length]

\* A chunk that lacks its line end leaves the two bytes to the next.
SeekEndOfChunk(h) ==
    LET length == h.size + Len(CRLF)
        ended == SubSeq(h.data, h.size + 1, length) = CRLF
        taken == IF ended THEN length ELSE h.size
    IN  IF Len(h.data) < length THEN [h |-> h, frame |-> <<>>]
        ELSE [h |-> [h EXCEPT !.data = From(@, taken), !.chunk = "LengthHeader",
                              !.size = NoSize],
              frame |-> Until(h.data, taken)]

SeekEndOfFinalChunk(h) ==
    LET at == IndexOf(h.data, DOUBLE_CRLF)
    IN  IF at = -1 THEN [h |-> h, frame |-> <<>>]
        ELSE [h |-> [h EXCEPT !.data = From(@, at + 4), !.existence = "Standard",
                              !.chunk = "None", !.size = NoSize],
              frame |-> Until(h.data, at + 4)]

TakeChunkFrame(h) ==
    LET h1 == IF h.chunk = "LengthHeader" THEN SeekLengthHeader(h) ELSE h
    IN  CASE h1.chunk = "EndOfChunk" -> SeekEndOfChunk(h1)
          [] h1.chunk = "EndOfFinalChunk" -> SeekEndOfFinalChunk(h1)
          [] OTHER -> [h |-> h1, frame |-> <<>>]

TakeHttpFrame(h) == IF h.existence = "Chunk" THEN TakeChunkFrame(h) ELSE TakePacketFrame(h)

-----------------------------------------------------------------------------
(* TlsFramer                                                                *)

ValidHeader(data, offset) ==
    data[offset + 1] \in 20 .. 23 /\ data[offset + 2] = 3 /\ data[offset + 3] \in {1, 3}

\* find_frame_offset(): a candidate too close to the end ends the search.
RECURSIVE FindFrameOffset(_, _)
FindFrameOffset(data, from) ==
    LET possible == IndexOf(From(data, from), <<3>>)
        offset == from + possible - 1
    IN  CASE possible = -1 -> -1
          [] possible = 0 -> FindFrameOffset(data, from + 1)
          [] OTHER -> IF offset + 4 >= Len(data) THEN -1
                      ELSE IF ValidHeader(data, offset) THEN offset
                      ELSE FindFrameOffset(data, offset + 1)

\* With fewer bytes than PRESERVE_HEADER_LEN none is kept.
TakeTlsFrame(data) ==
    LET offset == FindFrameOffset(data, 0)
        rest == From(data, offset)
        length == 5 + rest[4] * 256 + rest[5]
    IN  CASE offset = -1 ->
               [data |-> IF Len(data) < PRESERVE_HEADER_LEN THEN <<>>
                         ELSE LastBytes(data, PRESERVE_HEADER_LEN), frame |-> <<>>]
          [] offset # -1 /\ length <= Len(rest) ->
               [data |-> From(rest, length), frame |-> Until(rest, length)]
          [] OTHER -> [data |-> rest, frame |-> <<>>]

-----------------------------------------------------------------------------
(* JsonFramer: every attempt scans from the first byte.                     *)

ScanStart == [start |-> 0, end |-> 0, nest |-> 0, single |-> FALSE, double |-> FALSE,
              escaped |-> FALSE]

HandleQuotes(s, byte) ==
    IF s.start = 0 THEN s
    ELSE IF byte = DQ /\ ~s.single THEN [s EXCEPT !.double = ~@]
    ELSE IF byte = SQ /\ ~s.double THEN [s EXCEPT !.single = ~@]
    ELSE s

HandleBraces(s, byte, i) ==
    CASE byte = OB -> IF s.nest = 0 THEN [ScanStart EXCEPT !.nest = 1, !.start = i]
                      ELSE [s EXCEPT !.nest = @ + 1]
      [] byte = CB -> IF s.nest = 0 THEN [s EXCEPT !.start = 0]
                      ELSE [s EXCEPT !.nest = @ - 1,
                                     !.end = IF s.nest = 1 /\ s.start # 0 THEN i ELSE @]
      [] OTHER -> s

\* Slip: the state between two bytes does not know of a backslash.
UpdateStateUnescaped(s, byte, i) ==
    LET q == HandleQuotes(s, byte)
    IN  IF ~q.single /\ ~q.double THEN HandleBraces(q, byte, i) ELSE q

UpdateState(s, byte, i) ==
    LET q == HandleQuotes(s, byte)
    IN  IF s.escaped THEN [s EXCEPT !.escaped = FALSE]
        ELSE IF ~q.single /\ ~q.double THEN HandleBraces(q, byte, i)
        ELSE IF byte = BS THEN [q EXCEPT !.escaped = TRUE]
        ELSE q

RECURSIVE Scan(_, _, _)
Scan(data, i, s) ==
    IF s.end # 0 \/ i > Len(data) THEN s
    ELSE Scan(data, i + 1, UpdateState(s, data[i], i))

TakeJsonFrame(data) ==
    LET s == Scan(data, 1, ScanStart)
    IN  CASE s.end # 0   -> [data |-> From(data, s.end),
                             frame |-> SubSeq(data, s.start, s.end)]
          [] s.end = 0 /\ s.start = 0 -> [data |-> <<>>, frame |-> <<>>]
          [] OTHER -> [data |-> From(data, s.start - 1), frame |-> <<>>]

\* JsonMasquerader::try_unmask(): an object without a body is refused.
Unmasks(frame) == \E i \in DOMAIN frame : frame[i] = BODY

\* Discriminator::take_chunk(); the NullMasquerader takes any frame.
Unmasked(framer, frame) == frame # <<>> /\ (framer = "json" => Unmasks(frame))

-----------------------------------------------------------------------------
(* StreamReaderReal                                                         *)

FrInit ==
    /\ wire \in Wires
    /\ coming = Bytes(wire.units)
    /\ tls = <<>> /\ json = <<>> /\ http = HttpStart
    /\ reader = "idle" /\ connecting = FALSE /\ sequencer = 0
    /\ buf = Zeros
    /\ frames = <<>>

\* HttpProtocolPack::is_connect(): the method, up to the space.
IsConnect(data) == IsPrefix(CONNECT \o <<SP>>, data)

\* Every unit begins at the end of those before it.
Begins(i) == Len(Bytes(SubSeq(wire.units, 1, i - 1)))
KindCut(from, to) ==
    \A i \in DOMAIN wire.units :
      LET size == Len(wire.units[i])
          into == to - Begins(i)
      IN  IF IsConnect(wire.units[i]) THEN from = Begins(i) => into = size
                                      ELSE into \notin 1 .. 3

\* The discriminator that gets the read: the TLS port has a second one.
Chosen(connect) ==
    CASE wire.port = "http" -> "http"
      [] wire.port = "tls" -> IF connect THEN "http" ELSE "tls"
      [] wire.port = "clandestine" -> "json"

\* poll(), up to add_data() of wrangle_discriminators().  is_connect() gets
\* the whole buffer, in which bytes of an earlier read may follow.
Read(n) ==
    /\ reader = "idle" /\ n <= Len(coming)
    /\ wire.cuts = "kind" => LET at == Len(Bytes(wire.units)) - Len(coming) IN KindCut(at, at + n)
    /\ LET data == Until(coming, n)
           filled == Until(data \o From(buf, n), Len(Zeros))
           chosen == Chosen(IsConnect(filled))
       IN  /\ buf' = filled
           /\ connecting' = IsConnect(filled)
           /\ tls' = IF chosen = "tls" THEN tls \o data ELSE tls
           /\ json' = IF chosen = "json" THEN json \o data ELSE json
           /\ http' = IF chosen = "http" THEN [http EXCEPT !.data = @ \o data] ELSE http
    /\ coming' = From(coming, n)
    /\ reader' = "framing"
    /\ UNCHANGED <<wire, sequencer, frames>>

\* Async::NotReady: the next poll() has a buffer of its own.
NotReady ==
    /\ reader = "idle" /\ buf # Zeros
    /\ buf' = Zeros
    /\ UNCHANGED <<wire, coming, tls, json, http, reader, connecting, sequencer, frames>>

\* A CONNECT request is number 0, whatever the sequencer says.
Number(connect) ==
    IF connect THEN 0 ELSE IF wire.port = "clandestine" THEN NoNumber ELSE sequencer

\* Whether a frame takes a number of the sequencer.
Counts(connect) == ~connect /\ wire.port # "clandestine"

\* One round of the loop of wrangle_discriminators(): no frame, or one that
\* cannot be unmasked, ends it.
TakeChunk ==
    LET chosen == Chosen(connecting)
        h == TakeHttpFrame(http)
        t == TakeTlsFrame(tls)
        j == TakeJsonFrame(json)
        frame == CASE chosen = "http" -> h.frame
                   [] chosen = "tls" -> t.frame
                   [] chosen = "json" -> j.frame
        good == Unmasked(chosen, frame)
        number == Number(connecting)
    IN  /\ reader = "framing"
        /\ http' = IF chosen = "http" THEN h.h ELSE http
        /\ tls' = IF chosen = "tls" THEN t.data ELSE tls
        /\ json' = IF chosen = "json" THEN j.data ELSE json
        /\ reader' = IF http'.chunk = "Panic" THEN "panicked"
                     ELSE IF good THEN "framing" ELSE "idle"
        /\ frames' = IF good THEN Append(frames, [data |-> frame, number |-> number]) ELSE frames
        /\ sequencer' = IF good /\ Counts(connecting) THEN sequencer + 1 ELSE sequencer
        /\ UNCHANGED <<wire, coming, buf, connecting>>

\* A 0-byte read or a dead stream: RemoveStreamMsg with the next number.
Shutdown ==
    /\ reader = "idle"
    /\ reader' = "ended"
    /\ UNCHANGED <<wire, coming, tls, json, http, buf, connecting, sequencer, frames>>

FrNext == (\E n \in 1 .. MaxRead : Read(n)) \/ NotReady \/ TakeChunk \/ Shutdown

FrSpec == FrInit /\ [][FrNext]_frVars

-----------------------------------------------------------------------------
\* Types.
FrTypeOK ==
    /\ wire \in Wires
    /\ reader \in {"idle", "framing", "ended", "panicked"}
    /\ sequencer \in Nat
    /\ http.progress \in {"PacketStart", "BodyStart", "BodyEnd"}
    /\ http.existence \in {"Standard", "ChunkedResponse", "Chunk"}
    /\ http.chunk \in {"None", "LengthHeader", "EndOfChunk", "EndOfFinalChunk", "Panic"}
    /\ http.existence = "Chunk" => http.chunk # "None"
    /\ http.chunk = "EndOfChunk" <=> http.size # NoSize
    /\ \A i \in DOMAIN frames : frames[i].number >= NoNumber

IsGarbage(unit) == unit[1] = 0
Units == SelectSeq(wire.units, LAMBDA u : ~IsGarbage(u))
FramedData == [i \in DOMAIN frames |-> frames[i].data]
Delicate == wire.port = "tls" \/ \E i \in DOMAIN wire.units : IsConnect(wire.units[i])
Mild == wire.sound /\ (Delicate => wire.cuts = "kind")

\* However the network cuts a sound stream into reads, the frames sent on
\* are the units the peer sent, whole and in order, and a unit is sent on by
\* the read that completes it: nothing waits in a framer once all is read.
\* For TLS and CONNECT this needs reads that end where KindCut() lets them.
FramesAreUnits ==
    Mild => /\ reader # "panicked"
            /\ IsPrefix(FramedData, Units)
            /\ reader = "idle" /\ coming = <<>> => FramedData = Units

\* The requests of a sound stream are numbered 0, 1, 2, ... without a gap,
\* whatever their number of reads; a CONNECT is number 0 and the first TLS
\* record after it is number 0 again, as the ProxyServer expects, and the
\* shutdown carries the number after the last.
NumbersDense ==
    Mild /\ wire.port # "clandestine" =>
        LET counted == SelectSeq(frames, LAMBDA f : ~IsConnect(f.data))
        IN  /\ \A i \in DOMAIN counted : counted[i].number = i - 1
            /\ sequencer = Len(counted)
            /\ \A i \in DOMAIN frames : IsConnect(frames[i].data) => frames[i].number = 0

\* Between reads a framer keeps no more than the beginning of one unit:
\* what cannot belong to a frame is dropped as it comes.
NothingHoarded ==
    Mild /\ reader = "idle" =>
        \E i \in DOMAIN wire.units :
          /\ ~IsGarbage(wire.units[i])
          /\ \A kept \in {tls, json, http.lines \o http.data} : Len(kept) <= Len(wire.units[i])

\* What the framers make of a sound stream does not depend on its reads.
ReadsDoNotMatter == FramesAreUnits /\ NumbersDense /\ NothingHoarded
=============================================================================
