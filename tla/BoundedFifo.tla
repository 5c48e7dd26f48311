---------------------------- MODULE BoundedFifo -----------------------------
(***************************************************************************)
(* What a ring buffer promises: a first-in first-out queue of at most Size *)
(* bytes.  A put keeps the longest prefix that fits; a forced put keeps    *)
(* everything new and drops the oldest; a get takes the oldest.            *)
(***************************************************************************)
EXTENDS Integers, Sequences

CONSTANTS Size, Data

VARIABLES
    fifo,   \* the bytes, oldest first
    out     \* the bytes the last call took in or handed out

vars == <<fifo, out>>

Shorter(a, b) == IF a < b THEN a ELSE b

LastOf(s, n) == SubSeq(s, Len(s) - Shorter(n, Len(s)) + 1, Len(s))

Init == fifo = <<>> /\ out = <<>>

Put(bytes) ==
    /\ out' = SubSeq(bytes, 1, Shorter(Len(bytes), Size - Len(fifo)))
    /\ fifo' = fifo \o out'

PutForce(bytes) ==
    /\ out' = LastOf(bytes, Size)
    /\ fifo' = LastOf(fifo \o bytes, Size)

Get(n) ==
    /\ out' = SubSeq(fifo, 1, Shorter(n, Len(fifo)))
    /\ fifo' = SubSeq(fifo, Len(out') + 1, Len(fifo))

Reset == fifo' = <<>> /\ out' = <<>>

\* Only the length of a block matters to a put, so blocks are bounded by one
\* more than the queue can hold.
Blocks == UNION {[1 .. n -> Data] : n \in 0 .. Size + 1}

Next ==
    \/ \E bytes \in Blocks : Put(bytes)
    \/ \E byte \in Data : PutForce(<<byte>>)
    \/ \E n \in 0 .. Size + 1 : Get(n)
    \/ Reset

Spec == Init /\ [][Next]_vars
=============================================================================
