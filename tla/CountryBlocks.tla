----------------------------- MODULE CountryBlocks -----------------------------
(***************************************************************************)
(* How the table of countries by address is made and read (ip_country): a  *)
(* parser turns its source into blocks of addresses, the serializer writes *)
(* where each block begins as differences from the one before, the         *)
(* deserializer reads them back when a Node starts, and the finder looks   *)
(* an address up.  An address is a number of NumSegments digits below      *)
(* SegmentBase; the bits are a sequence of fields (see BitQueue).          *)
(***************************************************************************)
EXTENDS Integers, Sequences, FiniteSets, SequencesExt

CONSTANTS
    NumSegments, SegmentBase,  \* 4 and 256, or 8 and 65536
    NumCountries,              \* the countries are 0..NumCountries, 0 is ZZ
    MaxBlocks                  \* bound: the most blocks in a source

VARIABLES
    source,   \* rigid: "csv" or "mmdb", which parser reads the source
    given,    \* what the source said: a sequence of blocks in order
    ranges,   \* coded_ranges of the MMDB parser
    writer,   \* the serializer
    decoder,   \* the deserializer
    found,    \* the blocks the finder has
    phase     \* "parsing", "serialized", "reading", "ready"

countryVars == <<source, given, ranges, writer, decoder, found, phase>>

NumAddresses == SegmentBase^NumSegments
Addresses == 0..NumAddresses - 1
MaxAddress == NumAddresses - 1
Sentinel == 0   \* ZZ, always the first of the countries
Block(start, end, country) == [start |-> start, end |-> end, country |-> country]

\* plus_one_ip and minus_one_ip wrap around.
PlusOne(ip) == (ip + 1) % NumAddresses
MinusOne(ip) == (ip - 1) % NumAddresses

\* The segments of an address, the most significant first, and back.
Segment(ip, i) == (ip \div SegmentBase^(NumSegments - i)) % SegmentBase
AddressOf(segments) ==
    FoldLeft(LAMBDA ip, s : ip * SegmentBase + s, 0, segments)
Segments(ip) == [i \in 1..NumSegments |-> Segment(ip, i)]

\* ips_into_differences.
Differences(from, to) ==
    LET differ == SelectSeq([i \in 1..NumSegments |-> i],
                            LAMBDA i : Segment(from, i) # Segment(to, i))
    IN [j \in 1..Len(differ) |-> [index |-> differ[j], value |-> Segment(to, differ[j])]]

\* The fields of a record, as add_bits gets them.
Record(from, start, country) ==
    LET ds == Differences(from, start)
    IN <<Len(ds) - 1>>
       \o FoldLeft(LAMBDA fs, d : fs \o <<d.index - 1, d.value>>, <<>>, ds)
       \o <<country>>

\* add_ip_generic, for a block that begins where the last one ended.
Written(w, start, end, country) ==
    [fields |-> w.fields \o Record(w.prev_start, start, country),
     prev_start |-> start, prev_end |-> end, block_count |-> w.block_count + 1]

AddIpGapless(w, b) == Written(w, b.start, b.end, b.country)
\* add_ip_generic: what lies between the blocks is the sentinel's.
AddIp(w, b) ==
    LET expected == PlusOne(w.prev_end)
        filled == IF b.start = expected THEN w
                  ELSE Written(w, expected, MinusOne(b.start), Sentinel)
    IN Written(filled, b.start, b.end, b.country)

\* finish.
Finished(w) ==
    IF w.prev_end = MaxAddress THEN w
    ELSE AddIp(w, Block(PlusOne(w.prev_end), MaxAddress, Sentinel))

\* CountryBlockSerializer::new.
NewWriter ==
    [fields |-> <<>>, prev_start |-> MinusOne(MaxAddress), prev_end |-> MaxAddress,
     block_count |-> 0]
-----------------------------------------------------------------------------
\* get_record_generic: the record at the head of the fields, if there is one.
NoRecord == [start |-> 0, country |-> Sentinel]
GetRecord(fields, prev_start) ==
    LET n == Head(fields) + 1
        put(segments, i) ==
            [segments EXCEPT ![fields[2 * i] + 1] = fields[2 * i + 1]]
        segments == FoldLeft(put, Segments(prev_start), [i \in 1..n |-> i])
    IN [start |-> AddressOf(segments), country |-> fields[2 * n + 2]]
RestOf(fields) == SubSeq(fields, 2 * (Head(fields) + 1) + 3, Len(fields))

NewReader == [fields |-> <<>>, prev |-> NoRecord, empty |-> TRUE]

\* new_generic reads the first record.
ReaderOf(fields) ==
    [fields |-> RestOf(fields), prev |-> GetRecord(fields, MinusOne(MaxAddress)),
     empty |-> FALSE]

CountryInit ==
    /\ source \in {"csv", "mmdb"}
    /\ given = <<>>
    /\ ranges = <<>>
    /\ writer = NewWriter
    /\ decoder = NewReader
    /\ found = <<>>
    /\ phase = "parsing"

LastEnd == IF given = <<>> THEN -1 ELSE Last(given).end

\* CSVParser: each line's block goes to the serializer at once.
ParseLine(b) ==
    /\ source = "csv" /\ phase = "parsing"
    /\ given' = Append(given, b)
    /\ writer' = AddIp(writer, b)
    /\ UNCHANGED <<source, ranges, decoder, found, phase>>

\* add_or_coalesce of the MMDBParser: a network of the country that owns the
\* addresses just before becomes part of their range.
Extract(b) ==
    /\ source = "mmdb" /\ phase = "parsing"
    /\ given' = Append(given, b)
    /\ ranges' =
          IF /\ ranges # <<>>
             /\ Last(ranges).country = b.country
             /\ b.start = Last(ranges).end + 1
          THEN [ranges EXCEPT ![Len(ranges)].end = b.end]
          ELSE Append(ranges, b)
    /\ UNCHANGED <<source, writer, decoder, found, phase>>

\* The source ends; the MMDB parser now serializes its ranges.
Finish ==
    /\ phase = "parsing"
    /\ given # <<>>
    /\ writer' = Finished(FoldLeft(AddIp, writer, ranges))
    /\ phase' = "serialized"
    /\ UNCHANGED <<source, given, ranges, decoder, found>>

\* A Node starts: CountryCodeFinder::new makes the deserializer.
StartReading ==
    /\ phase = "serialized"
    /\ decoder' = ReaderOf(writer.fields)
    /\ phase' = "reading"
    /\ UNCHANGED <<source, given, ranges, writer, found>>

\* next_generic: a block ends where the next record begins, the last one at the
\* highest address.
ReadNext ==
    /\ phase = "reading"
    /\ ~decoder.empty
    /\ LET prev == decoder.prev
       IN IF decoder.fields # <<>>
          THEN LET next == GetRecord(decoder.fields, prev.start)
               IN /\ found' = Append(found, Block(prev.start, MinusOne(next.start), prev.country))
                  /\ decoder' = [decoder EXCEPT !.fields = RestOf(@), !.prev = next]
                  /\ UNCHANGED phase
          ELSE /\ found' = Append(found, Block(prev.start, MaxAddress, prev.country))
               /\ decoder' = [decoder EXCEPT !.empty = TRUE]
               /\ phase' = "ready"
    /\ UNCHANGED <<source, given, ranges, writer>>

CountryNext ==
    \/ /\ Len(given) < MaxBlocks
       /\ \E start \in Addresses, end \in Addresses, c \in 0..NumCountries :
             /\ LastEnd < start /\ start <= end
             /\ ParseLine(Block(start, end, c)) \/ Extract(Block(start, end, c))
    \/ Finish
    \/ StartReading
    \/ ReadNext

CountrySpec == CountryInit /\ [][CountryNext]_countryVars
-----------------------------------------------------------------------------
\* find_country: a binary search by ordering_by_range.
RECURSIVE Search(_, _, _)
Search(ip, low, high) ==
    LET middle == (low + high) \div 2
        b == found[middle]
    IN IF low > high THEN Sentinel
       ELSE IF ip < b.start THEN Search(ip, low, middle - 1)
       ELSE IF ip > b.end THEN Search(ip, middle + 1, high)
       ELSE b.country
FindCountry(ip) == Search(ip, 1, Len(found))
-----------------------------------------------------------------------------
(* Properties *)

\* Type invariant: fields within their widths, the serializer's ends among the
\* addresses.
CountryTypeOK ==
    /\ phase \in {"parsing", "serialized", "reading", "ready"}
    /\ \A i \in DOMAIN writer.fields :
          writer.fields[i] \in
              0..(IF NumCountries > SegmentBase THEN NumCountries ELSE SegmentBase)
    /\ writer.prev_start \in Addresses /\ writer.prev_end \in Addresses
    /\ decoder.prev.start \in Addresses
    /\ \A i \in DOMAIN found : found[i].start \in Addresses /\ found[i].end \in Addresses

\* The blocks read back tile the addresses: the first begins at the lowest, each
\* begins where the one before it ended, the last ends at the highest - the
\* order the binary search relies on, though no end is ever written.
BlocksTile ==
    /\ found # <<>> => found[1].start = 0
    /\ \A i \in DOMAIN found :
          /\ found[i].start <= found[i].end
          /\ i > 1 => found[i].start = found[i - 1].end + 1
    /\ phase = "ready" => Last(found).end = MaxAddress

\* An address is found in the country its source gave it, and in none (ZZ) if
\* the source said nothing of it: gaps, one-address blocks, blocks at either
\* end and blocks of which the parser made one included.
FindsWhatWasGiven ==
    phase = "ready" =>
        \A ip \in Addresses :
            FindCountry(ip) =
                LET blocks == {i \in DOMAIN given : ip \in given[i].start..given[i].end}
                IN IF blocks = {} THEN Sentinel
                   ELSE given[CHOOSE i \in blocks : TRUE].country

\* The number of blocks the generated code states is the number that is read.
CountsItsBlocks == phase = "ready" => Len(found) = writer.block_count

\* The table that is read is the one that was written.
TableSurvivesPacking == BlocksTile /\ FindsWhatWasGiven /\ CountsItsBlocks
=============================================================================
