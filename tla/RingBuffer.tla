----------------------------- MODULE RingBuffer -----------------------------
(***************************************************************************)
(* components/drivers/src/ringbuffer.c: an array with a read and a write   *)
(* index, each with a mirror bit that flips when the index wraps, so that  *)
(* equal indices mean empty in one mirror and full across the two.         *)
(***************************************************************************)
EXTENDS Integers, Sequences

CONSTANTS
    Size,   \* buffer_size, after RT_ALIGN_DOWN
    Data    \* what a byte may be

\* buffer_size is an rt_int16_t, and an index has 15 bits.
ASSUME SizeAssumption == Size \in 1 .. 32767

VARIABLES
    buffer_ptr,                 \* the memory
    read_mirror, read_index,
    write_mirror, write_index,
    out                         \* the bytes the last call took in or handed out

vars == <<buffer_ptr, read_mirror, read_index, write_mirror, write_index, out>>

Cells == 0 .. Size - 1

Shorter(a, b) == IF a < b THEN a ELSE b

Blocks == UNION {[1 .. n -> Data] : n \in 0 .. Size + 1}

-----------------------------------------------------------------------------
(* rt_ringbuffer_status, rt_ringbuffer_data_len, rt_ringbuffer_space_len.  *)

Full  == read_index = write_index /\ read_mirror # write_mirror
Empty == read_index = write_index /\ read_mirror = write_mirror

data_len ==
    IF Empty THEN 0
    ELSE IF Full THEN Size
    ELSE IF write_index > read_index THEN write_index - read_index
    ELSE Size - (read_index - write_index)

space_len == Size - data_len

\* (Variant of Copied: the part past the end starts again at ptr[0].)
CopiedRestart(index, bytes) ==
    [c \in Cells |->
        LET offset == IF c >= index THEN c - index ELSE Size - index + c
        IN  IF offset >= Len(bytes) THEN buffer_ptr[c]
            ELSE IF c >= index THEN bytes[offset + 1] ELSE bytes[c + 1]]

\* The memory after `bytes` is copied in from `index` on, round the end.
Copied(index, bytes) ==
    [c \in Cells |->
        LET offset == IF c >= index THEN c - index ELSE Size - index + c
        IN  IF offset < Len(bytes) THEN bytes[offset + 1] ELSE buffer_ptr[c]]

\* The n bytes in memory from `index` on, round the end.
Bytes(index, n) ==
    [i \in 1 .. n |-> buffer_ptr[IF index + i - 1 < Size THEN index + i - 1
                                                       ELSE index + i - 1 - Size]]

\* (Variant of Stays: the end of the memory taken for the inside.)
StaysOrEnds(index, n) == Size - index >= n

\* n bytes from `index` on end before the end of the memory.
Stays(index, n) == Size - index > n

\* Where an index is, and its mirror, n bytes on.
IndexAfter(index, n)          == IF Stays(index, n) THEN index + n ELSE n - (Size - index)
MirrorAfter(mirror, index, n) == IF Stays(index, n) THEN mirror ELSE 1 - mirror

-----------------------------------------------------------------------------
\* rt_ringbuffer_init; the memory comes from rt_malloc and is not cleared.
Init ==
    /\ buffer_ptr \in [Cells -> Data]
    /\ read_mirror = 0 /\ read_index = 0
    /\ write_mirror = 0 /\ write_index = 0
    /\ out = <<>>

Advance(bytes) ==
    /\ buffer_ptr' = Copied(write_index, bytes)
    /\ write_mirror' = MirrorAfter(write_mirror, write_index, Len(bytes))
    /\ write_index' = IndexAfter(write_index, Len(bytes))

\* rt_ringbuffer_put: "no space" returns early, else the block is cut to fit.
Put(bytes) ==
    /\ out' = SubSeq(bytes, 1, Shorter(Len(bytes), space_len))
    /\ IF space_len = 0
       THEN UNCHANGED <<buffer_ptr, write_mirror, write_index>>
       ELSE Advance(out')
    /\ UNCHANGED <<read_mirror, read_index>>

\* rt_ringbuffer_put_force.  On a block longer than the space, read_index is
\* put at write_index; where the block reached the end of the memory
\* read_mirror is flipped too, whatever mirror it was in.
PutForce(bytes) ==
    LET kept == SubSeq(bytes, Len(bytes) - Shorter(Len(bytes), Size) + 1, Len(bytes))
    IN  /\ out' = kept
        /\ Advance(kept)
        /\ IF Len(kept) > space_len
           THEN /\ read_index' = write_index'
                /\ read_mirror' = MirrorAfter(read_mirror, write_index, Len(kept))
           ELSE UNCHANGED <<read_mirror, read_index>>

\* rt_ringbuffer_get: "no data" returns early, else what there is is copied.
Get(n) ==
    LET size == Shorter(n, data_len)
    IN  /\ out' = Bytes(read_index, size)
        /\ IF data_len = 0
           THEN UNCHANGED <<read_mirror, read_index>>
           ELSE /\ read_mirror' = MirrorAfter(read_mirror, read_index, size)
                /\ read_index' = IndexAfter(read_index, size)
        /\ UNCHANGED <<buffer_ptr, write_mirror, write_index>>

\* rt_ringbuffer_peak: the longest run up to the end of the memory, which it
\* takes out of the buffer before the caller has read it.
Peak ==
    LET size == Shorter(data_len, Size - read_index)
    IN  /\ out' = Bytes(read_index, size)
        /\ IF data_len = 0
           THEN UNCHANGED <<read_mirror, read_index>>
           ELSE /\ read_mirror' = MirrorAfter(read_mirror, read_index, data_len)
                /\ read_index' = IF Stays(read_index, data_len) THEN read_index + data_len ELSE 0
        /\ UNCHANGED <<buffer_ptr, write_mirror, write_index>>

AtEnd(index) == index = Size - 1

\* rt_ringbuffer_putchar
PutChar(byte) ==
    /\ out' = IF space_len = 0 THEN <<>> ELSE <<byte>>
    /\ IF space_len = 0
       THEN UNCHANGED <<buffer_ptr, write_mirror, write_index>>
       ELSE /\ buffer_ptr' = [buffer_ptr EXCEPT ![write_index] = byte]
            /\ write_mirror' = IF AtEnd(write_index) THEN 1 - write_mirror ELSE write_mirror
            /\ write_index' = IF AtEnd(write_index) THEN 0 ELSE write_index + 1
    /\ UNCHANGED <<read_mirror, read_index>>

\* (Variant of PutCharForce: the oldest byte of a full buffer is kept.)
PutCharForceKeep(byte) ==
    /\ out' = <<byte>>
    /\ buffer_ptr' = [buffer_ptr EXCEPT ![write_index] = byte]
    /\ write_mirror' = IF AtEnd(write_index) THEN 1 - write_mirror ELSE write_mirror
    /\ write_index' = IF AtEnd(write_index) THEN 0 ELSE write_index + 1
    /\ UNCHANGED <<read_mirror, read_index>>

\* rt_ringbuffer_putchar_force: on a full buffer the read index follows.
PutCharForce(byte) ==
    /\ out' = <<byte>>
    /\ buffer_ptr' = [buffer_ptr EXCEPT ![write_index] = byte]
    /\ write_mirror' = IF AtEnd(write_index) THEN 1 - write_mirror ELSE write_mirror
    /\ write_index' = IF AtEnd(write_index) THEN 0 ELSE write_index + 1
    /\ IF Full
       THEN /\ read_index' = write_index'
            /\ read_mirror' = IF AtEnd(write_index) THEN 1 - read_mirror ELSE read_mirror
       ELSE UNCHANGED <<read_mirror, read_index>>

\* rt_ringbuffer_getchar
GetChar ==
    /\ out' = IF data_len = 0 THEN <<>> ELSE <<buffer_ptr[read_index]>>
    /\ IF data_len = 0
       THEN UNCHANGED <<read_mirror, read_index>>
       ELSE /\ read_mirror' = IF AtEnd(read_index) THEN 1 - read_mirror ELSE read_mirror
            /\ read_index' = IF AtEnd(read_index) THEN 0 ELSE read_index + 1
    /\ UNCHANGED <<buffer_ptr, write_mirror, write_index>>

\* rt_ringbuffer_reset
Reset ==
    /\ read_mirror' = 0 /\ read_index' = 0
    /\ write_mirror' = 0 /\ write_index' = 0
    /\ out' = <<>>
    /\ UNCHANGED buffer_ptr

\* Every call but the forced put of a block.
Next ==
    \/ \E bytes \in Blocks : Put(bytes)
    \/ \E byte \in Data : PutChar(byte) \/ PutCharForce(byte)
    \/ \E n \in 0 .. Size + 1 : Get(n)
    \/ Peak \/ GetChar \/ Reset

Spec == Init /\ [][Next]_vars

\* Every call.
NextForced == Next \/ \E bytes \in Blocks : PutForce(bytes)

SpecForced == Init /\ [][NextForced]_vars

-----------------------------------------------------------------------------
(* Properties.                                                             *)

\* The indices stay in the memory and the mirrors are bits.
TypeOK ==
    /\ buffer_ptr \in [Cells -> Data]
    /\ read_mirror \in {0, 1} /\ write_mirror \in {0, 1}
    /\ read_index \in Cells /\ write_index \in Cells
    /\ out \in Seq(Data)

\* The writer is never more than one lap ahead: in one mirror it is not behind
\* the reader, across mirrors not past it.  data_len looks at the mirrors only
\* when the indices are equal (ringbuffer.c:17-27, 326-341), and is right only
\* because of this.
WithinOneLap ==
    IF read_mirror = write_mirror THEN read_index <= write_index
                                  ELSE write_index <= read_index

Contents == Bytes(read_index, data_len)

Fifo == INSTANCE BoundedFifo WITH fifo <- Contents

\* Every call but the forced put of a block does what a bounded first-in
\* first-out queue does, wherever in the memory the indices are and whether a
\* block wraps or not.
IsFifo == Fifo!Spec

\* ringbuffer.c:96, of rt_ringbuffer_put_force: "When the buffer is full, it
\* will discard the old data" -- and so keeps the new.
ForceKeepsNewest ==
    [][\A bytes \in Blocks : PutForce(bytes) =>
          Contents' = Fifo!LastOf(Contents \o bytes, Size)]_vars
=============================================================================
