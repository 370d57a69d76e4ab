----------------------------- MODULE ByteStream -----------------------------
(* What the answer to a stream request promises (internal/video/stream.go): *)
(* a run of consecutive bytes of the file is settled when the headers go    *)
(* out, and the body is those bytes in order, none missing, none repeated.  *)
(* The body may stop early; it can never be taken back.                     *)
EXTENDS Naturals, Sequences

CONSTANT Bytes   \* positions in the file, 0 .. size-1

VARIABLES
    want,   \* the bytes settled by the headers, in order
    sent,   \* the body so far
    phase   \* "asked", "open" or "closed"

vars == <<want, sent, phase>>

Interval(a, b) == [i \in 1..(b + 1 - a) |-> a + i - 1]

Init == want = <<>> /\ sent = <<>> /\ phase = "asked"

\* Headers that announce a body, which is empty when the recorded size is wrong.
Open ==
    /\ phase = "asked" /\ phase' = "open"
    /\ want' \in {<<>>} \cup {Interval(a, b) : a, b \in Bytes}
    /\ UNCHANGED sent

\* One Write: the next bytes of what was settled; the last may end the answer.
Deliver ==
    /\ phase = "open" /\ phase' \in {"open", "closed"}
    /\ \E n \in (Len(sent) + 1)..Len(want) : sent' = SubSeq(want, 1, n)
    /\ UNCHANGED want

Close ==
    /\ phase # "closed" /\ phase' = "closed"
    /\ UNCHANGED <<want, sent>>

Next == Open \/ Deliver \/ Close

Spec == Init /\ [][Next]_vars /\ WF_vars(Close)
=============================================================================
