------------------------------- MODULE BitQueue -------------------------------
(***************************************************************************)
(* The queue of bits the country data is packed in                         *)
(* (ip_country/src/bit_queue.rs): a queue of bytes of which the first has  *)
(* blank low-order bits and the last blank high-order ones.  A byte has    *)
(* ByteBits bits here, so that a small instance meets every alignment.     *)
(***************************************************************************)
EXTENDS Integers, Sequences, SequencesExt

CONSTANTS
    ByteBits,  \* 8 in the code
    WordBits,  \* 64 in the code: the width of the values added and taken
    Capacity   \* bound: the most bits in the queue

VARIABLES
    queue,     \* byte_queue, back_blank_bit_count, front_blank_bit_count
    taken,     \* what take_bits returned last, see BitFifo
    failed     \* whether a call panicked

queueVars == <<queue, taken, failed>>

ByteValue == 2^ByteBits
Smaller(a, b) == IF a <= b THEN a ELSE b

\* Bitwise or, of two values of a byte.
Or(a, b) ==
    LET bit(v, i) == (v \div 2^i) % 2
        or[i \in 0..ByteBits] ==
            IF i = ByteBits THEN 0
            ELSE (IF bit(a, i) + bit(b, i) > 0 THEN 2^i ELSE 0) + or[i + 1]
    IN or[0]

EmptyQueue == [bytes |-> <<0, 0>>, back |-> ByteBits, front |-> ByteBits]

BitCount(q) == Len(q.bytes) * ByteBits - q.back - q.front
BackFull(q) == ByteBits - q.back
FrontFull(q) == ByteBits - q.front

WithBackByte(q) == [q EXCEPT !.bytes = Append(@, 0), !.back = ByteBits]
WithoutFrontByte(q) == [q EXCEPT !.bytes = Tail(@), !.front = 0]

\* Every helper below returns the queue, the number of bits it moved, their
\* value if it took any, and whether it went wrong.
Outcome(q, count, value, ok) == [q |-> q, count |-> count, value |-> value, ok |-> ok]

\* add_some_back_bits: as many as the last byte has room for.
AddSomeBackBits(q, data, count) ==
    LET room == IF q.back = 0 THEN WithBackByte(q) ELSE q
        n == Smaller(count, room.back)
        filled ==
            [room EXCEPT
                !.bytes[Len(room.bytes)] = Or(@, (data * 2^BackFull(room)) % ByteValue),
                !.back = @ - n]
    IN Outcome(IF filled.back = 0 THEN WithBackByte(filled) ELSE filled, n, 0, TRUE)

\* add_back_bytes: whole bytes, behind a last byte that is full.
AddBackBytes(q, data, count) ==
    LET n == count \div ByteBits
        full == IF q.back = ByteBits THEN [q EXCEPT !.bytes = Front(@), !.back = 0] ELSE q
        added == [i \in 1..n |-> (data \div ByteValue^(i - 1)) % ByteValue]
    IN IF n = 0 THEN Outcome(q, 0, 0, TRUE)
       ELSE Outcome([full EXCEPT !.bytes = @ \o added], n * ByteBits, 0, full.back = 0)

\* take_some_front_bits: as many as the first byte has.  The last byte of two
\* is never taken for the first.
TakeSomeFrontBits(q, count) ==
    LET next == IF FrontFull(q) = 0 /\ Len(q.bytes) > 2 THEN WithoutFrontByte(q) ELSE q
        n == Smaller(count, FrontFull(next))
        rest == [next EXCEPT !.bytes[1] = @ \div 2^n, !.front = @ + n]
    IN IF n = 0 THEN Outcome(next, 0, 0, TRUE)
       ELSE Outcome(IF rest.front = ByteBits /\ Len(rest.bytes) > 2
                    THEN WithoutFrontByte(rest) ELSE rest,
                    n, next.bytes[1] % 2^n, TRUE)

\* take_front_bytes: whole bytes, when the first one has no blank bits.
TakeFrontBytes(q, count) ==
    LET n == count \div ByteBits
        whole == IF q.front = ByteBits THEN WithoutFrontByte(q) ELSE q
        value[i \in 0..n] ==
            IF i = 0 THEN 0
            ELSE value[i - 1] + whole.bytes[i] * ByteValue^(i - 1)
        rest == [whole EXCEPT !.bytes = SubSeq(@, n + 1, Len(@))]
    IN IF n = 0 THEN Outcome(q, 0, 0, TRUE)
       ELSE IF whole.front > 0 \/ n > Len(whole.bytes) THEN Outcome(q, 0, 0, FALSE)
       ELSE Outcome(IF Len(rest.bytes) < 2
                    THEN [rest EXCEPT !.bytes = <<0>> \o @, !.front = ByteBits]
                    ELSE rest,
                    n * ByteBits, value[n], TRUE)

\* take_some_back_bits: when only the last byte has bits left.  A shift of a
\* byte by its width fails.
TakeSomeBackBits(q, count) ==
    LET n == Smaller(count, BackFull(q))
        last == q.bytes[Len(q.bytes)]
        rest == [q EXCEPT !.bytes[Len(q.bytes)] = last \div 2^n, !.back = @ + n]
    IN Outcome(IF rest.back = ByteBits /\ Len(rest.bytes) > 2
               THEN [rest EXCEPT !.bytes = Front(@), !.back = 0] ELSE rest,
               n, IF BackFull(q) - n < ByteBits THEN last % 2^n ELSE 0, n < ByteBits)

\* add_bits: fill the last byte, add whole bytes, start a last one.
AddBits(q, data, count) ==
    LET first == AddSomeBackBits(q, data, count)
        left == count - first.count
        bytes == AddBackBytes(first.q, data \div 2^first.count, left)
        last == AddSomeBackBits(bytes.q, data \div 2^(first.count + bytes.count),
                                left - bytes.count)
    IN Outcome(last.q, count, 0,
               /\ bytes.ok /\ bytes.count < WordBits
               /\ last.count = left - bytes.count)

\* take_bits: what is left of the first byte, whole bytes, part of the next
\* first byte, part of the last byte.
TakeBits(q, count) ==
    LET first == TakeSomeFrontBits(q, count)
        bytes == TakeFrontBytes(first.q, count - first.count)
        done == first.count + bytes.count
        front == TakeSomeFrontBits(bytes.q, count - done)
        back == TakeSomeBackBits(front.q, count - done - front.count)
    IN Outcome(back.q, done + front.count + back.count,
               first.value + bytes.value * 2^first.count + front.value * 2^done
                   + back.value * 2^(done + front.count),
               bytes.ok /\ back.ok /\ done + front.count + back.count = count)
-----------------------------------------------------------------------------
NothingTaken == [count |-> 0, value |-> 0]

QueueInit == queue = EmptyQueue /\ taken = NothingTaken /\ failed = FALSE

\* add_bits, for a value that has no more bits than are added.
Add(value, count) ==
    LET r == AddBits(queue, value, count)
    IN /\ BitCount(queue) + count <= Capacity
       /\ queue' = r.q
       /\ taken' = NothingTaken
       /\ failed' = ~r.ok

Take(count) ==
    LET r == TakeBits(queue, count)
    IN /\ count <= BitCount(queue)
       /\ queue' = r.q
       /\ taken' = [count |-> r.count, value |-> r.value]
       /\ failed' = ~r.ok

TakeNone(count) ==
    /\ count > BitCount(queue)
    /\ taken' = NothingTaken
    /\ UNCHANGED <<queue, failed>>

QueueNext ==
    /\ ~failed
    /\ \E count \in 1..WordBits :
          \/ \E value \in 0..2^count - 1 : Add(value, count)
          \/ Take(count)
          \/ TakeNone(count)

QueueSpec == QueueInit /\ [][QueueNext]_queueVars
-----------------------------------------------------------------------------
(* Properties *)

\* Type invariant: at least one byte, all within their width.
QueueTypeOK ==
    /\ Len(queue.bytes) >= 1
    /\ \A i \in DOMAIN queue.bytes : queue.bytes[i] \in 0..ByteValue - 1
    /\ queue.back \in 0..ByteBits
    /\ queue.front \in 0..ByteBits
    /\ failed \in BOOLEAN

\* No sequence of additions and removals, of whatever widths, reaches one of
\* the queue's panics or a shift beyond the width of a byte.
QueueNeverFails == ~failed

\* The bits in a queue: the bytes without the blank bits of the first and the
\* last one.  A single byte, which is left when the last byte was taken as a
\* whole, holds none.
BitsIn(q) ==
    LET all == [i \in 1..Len(q.bytes) * ByteBits |->
                   (q.bytes[(i - 1) \div ByteBits + 1] \div 2^((i - 1) % ByteBits)) % 2]
        first == SubSeq(all, 1, FrontFull(q))
        middle == SubSeq(all, ByteBits + 1, Len(all) - ByteBits)
        last == SubSeq(all, Len(all) - ByteBits + 1, Len(all) - q.back)
    IN IF Len(q.bytes) = 1 THEN <<>> ELSE first \o middle \o last

Fifo == INSTANCE BitFifo WITH bits <- BitsIn(queue), taken <- taken


=============================================================================
