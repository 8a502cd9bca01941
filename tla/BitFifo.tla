-------------------------------- MODULE BitFifo --------------------------------
(***************************************************************************)
(* What a queue of bits promises: bits come out in the order they went in, *)
(* the low-order bit of a value first, however they were grouped.          *)
(***************************************************************************)
EXTENDS Integers, Sequences

CONSTANTS
    WordBits,  \* the most bits that may be added or taken at once
    Capacity   \* bound: the most bits in the queue

VARIABLES
    bits,      \* the bits, the oldest first
    taken      \* what was taken last: how many bits and their value

fifoVars == <<bits, taken>>

NothingTaken == [count |-> 0, value |-> 0]

\* A sequence of bits as a number, low-order bit first, and back.
ValueOf[s \in Seq({0, 1})] == IF s = <<>> THEN 0 ELSE Head(s) + 2 * ValueOf[Tail(s)]
BitsOf(value, count) == [i \in 1..count |-> (value \div 2^(i - 1)) % 2]

FifoInit == bits = <<>> /\ taken = NothingTaken

\* Some bits are added behind those that are there.
FifoAdd(count) ==
    /\ Len(bits') = Len(bits) + count
    /\ Len(bits') <= Capacity
    /\ SubSeq(bits', 1, Len(bits)) = bits
    /\ taken' = NothingTaken

FifoTake(count) ==
    /\ count <= Len(bits)
    /\ taken' = [count |-> count, value |-> ValueOf[SubSeq(bits, 1, count)]]
    /\ bits' = SubSeq(bits, count + 1, Len(bits))

\* A queue with too few bits gives none and keeps them.
FifoTakeNone(count) ==
    /\ count > Len(bits)
    /\ taken' = NothingTaken
    /\ UNCHANGED bits

FifoNext ==
    \E count \in 1..WordBits :
        \/ FifoAdd(count)
        \/ FifoTake(count)
        \/ FifoTakeNone(count)

FifoSpec == FifoInit /\ [][FifoNext]_fifoVars
=============================================================================
