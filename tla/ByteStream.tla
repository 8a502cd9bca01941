----------------------------- MODULE ByteStream -----------------------------
(***************************************************************************)
(* What a sequenced writer promises of the stream it serves: the reader    *)
(* sees the bytes the other end sent, each once and in the order they were *)
(* sent.  A byte is named by its position in what was sent, from 1 to      *)
(* Total.  The stream is completed only when all of it was seen; it may    *)
(* break at any time.                                                      *)
(***************************************************************************)
EXTENDS Integers, Sequences

CONSTANT Total    \* how many bytes were sent

VARIABLES out,     \* the bytes seen so far
          outcome  \* "open", "complete" or "broken"

streamVars == <<out, outcome>>

StreamInit == out = <<>> /\ outcome = "open"

\* The next bytes are seen; with the last of them the stream may be completed.
Deliver ==
    /\ outcome = "open"
    /\ \E n \in Len(out) .. Total :
          /\ out' = [i \in 1 .. n |-> i]
          /\ outcome' \in {"open"} \cup (IF n = Total THEN {"complete"} ELSE {})

Break == outcome = "open" /\ outcome' = "broken" /\ UNCHANGED out

StreamSpec == StreamInit /\ [][Deliver \/ Break]_streamVars
=============================================================================
