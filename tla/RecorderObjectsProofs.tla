----------------------- MODULE RecorderObjectsProofs -----------------------
(***************************************************************************)
(* The two objects of RT-Thread that the recorder is built on.             *)
(*                                                                         *)
(* The ring buffer: for every buffer size and every kind of byte, every    *)
(* call but rt_ringbuffer_put_force on a block does what a bounded         *)
(* first-in first-out queue does.                                          *)
(*                                                                         *)
(* The event flags: for any number of threads and flags, who sleeps is not *)
(* satisfied, who is answered got what was asked for, and what one thread  *)
(* clears no other gets.                                                   *)
(***************************************************************************)
EXTENDS RingBuffer, EventFlags, SequenceTheorems, FiniteSetTheorems, WellFoundedInduction, TLAPS

-----------------------------------------------------------------------------
(* The ring buffer.                                                        *)

IInv == TypeOK /\ WithinOneLap

-----------------------------------------------------------------------------
(* What data_len, the steps of an index and the copies amount to.          *)

\* Within one lap, data_len is the distance from the reader to the writer.
LEMMA DataLen ==
    ASSUME IInv
    PROVE  /\ data_len \in 0 .. Size
           /\ data_len = IF read_mirror = write_mirror THEN write_index - read_index
                                                       ELSE Size - read_index + write_index
  BY SizeAssumption DEF IInv, TypeOK, WithinOneLap, data_len, Full, Empty, Cells

\* The same in the next state.
LEMMA DataLenNext ==
    ASSUME IInv'
    PROVE  /\ data_len' \in 0 .. Size
           /\ data_len' = IF read_mirror' = write_mirror' THEN write_index' - read_index'
                                                          ELSE Size - read_index' + write_index'
  BY SizeAssumption DEF IInv, TypeOK, WithinOneLap, data_len, Full, Empty, Cells

\* An index stays in the memory, however far it goes within one lap.
LEMMA After ==
    ASSUME NEW index \in Cells, NEW mirror \in {0, 1}, NEW n \in 0 .. Size
    PROVE  IndexAfter(index, n) \in Cells /\ MirrorAfter(mirror, index, n) \in {0, 1}
  BY SizeAssumption DEF IndexAfter, MirrorAfter, Stays, Cells

\* What is read from memory is a sequence of bytes as long as was asked for.
LEMMA ReadType ==
    ASSUME NEW memory \in [Cells -> Data], NEW index \in Cells, NEW n \in 0 .. Size
    PROVE  LET bytes == [i \in 1 .. n |-> memory[IF index + i - 1 < Size
                                                 THEN index + i - 1 ELSE index + i - 1 - Size]]
           IN  bytes \in Seq(Data) /\ Len(bytes) = n
<1> DEFINE bytes == [i \in 1 .. n |-> memory[IF index + i - 1 < Size
                                             THEN index + i - 1 ELSE index + i - 1 - Size]]
<1>1. \A i \in 1 .. n : (IF index + i - 1 < Size THEN index + i - 1
                                                  ELSE index + i - 1 - Size) \in Cells
  BY SizeAssumption DEF Cells
<1>2. \A i \in 1 .. n : bytes[i] \in Data
  BY <1>1
<1>3. bytes = [i \in 1 .. n |-> bytes[i]]
  OBVIOUS
<1>4. n \in Nat
  BY SizeAssumption
<1> HIDE DEF bytes
<1>5. bytes \in Seq(Data)
  BY <1>2, <1>3, <1>4, IsASeq
<1>6. Len(bytes) = n
  BY <1>3, <1>4
<1> QED
  BY <1>5, <1>6 DEF bytes

LEMMA BytesType ==
    ASSUME buffer_ptr \in [Cells -> Data], NEW index \in Cells, NEW n \in 0 .. Size
    PROVE  Bytes(index, n) \in Seq(Data) /\ Len(Bytes(index, n)) = n
  BY ReadType DEF Bytes

\* The same in the next state.
LEMMA BytesTypeNext ==
    ASSUME buffer_ptr' \in [Cells -> Data], read_index' \in Cells, data_len' \in 0 .. Size
    PROVE  /\ Bytes(read_index, data_len)' \in Seq(Data)
           /\ Len(Bytes(read_index, data_len)') = data_len'
  BY ReadType DEF Bytes

\* A copy leaves memory.
LEMMA CopiedType ==
    ASSUME buffer_ptr \in [Cells -> Data], NEW index \in Cells, NEW bytes \in Seq(Data)
    PROVE  Copied(index, bytes) \in [Cells -> Data]
<1> SUFFICES ASSUME NEW c \in Cells
             PROVE  Copied(index, bytes)[c] \in Data
  BY DEF Copied
<1> DEFINE offset == IF c >= index THEN c - index ELSE Size - index + c
<1>1. offset \in Nat
  BY SizeAssumption DEF Cells
<1>2. Copied(index, bytes)[c] = IF offset < Len(bytes) THEN bytes[offset + 1] ELSE buffer_ptr[c]
  BY DEF Copied
<1> HIDE DEF offset
<1>3. offset < Len(bytes) => offset + 1 \in 1 .. Len(bytes)
  BY <1>1
<1> QED
  BY <1>2, <1>3

-----------------------------------------------------------------------------
(* Two lemmas carry every call: a write of a block that fits, and a read   *)
(* of no more than there is.                                               *)

LEMMA WriteLemma ==
    ASSUME IInv, NEW bytes \in Seq(Data), Len(bytes) <= Size - data_len, Advance(bytes),
           UNCHANGED <<read_mirror, read_index>>, out' \in Seq(Data)
    PROVE  /\ IInv'
           /\ data_len' = data_len + Len(bytes)
           /\ Contents' = Contents \o bytes
<1> DEFINE k == Len(bytes)
<1>1. k \in 0 .. Size
  BY DataLen, SizeAssumption
<1>2. /\ write_index' = IndexAfter(write_index, k)
      /\ write_mirror' = MirrorAfter(write_mirror, write_index, k)
      /\ buffer_ptr' = Copied(write_index, bytes)
      /\ read_mirror' = read_mirror /\ read_index' = read_index
  BY DEF Advance
<1>3. TypeOK'
  BY <1>1, <1>2, After, CopiedType DEF IInv, TypeOK
<1>8. k <= Size - data_len
  OBVIOUS
<1> HIDE DEF k
<1>4. WithinOneLap'
  BY <1>1, <1>2, <1>8, DataLen, SizeAssumption, SMTT(30)
  DEF IInv, TypeOK, WithinOneLap, IndexAfter, MirrorAfter, Stays, Cells
<1>5. IInv'
  BY <1>3, <1>4 DEF IInv
<1>6. data_len' = data_len + k
  BY <1>1, <1>2, <1>5, <1>8, DataLen, DataLenNext, SizeAssumption, SMTT(30)
  DEF IInv, TypeOK, WithinOneLap, IndexAfter, MirrorAfter, Stays, Cells
<1>7. Contents' = Contents \o bytes
  <2> DEFINE cell(i) == IF read_index + i - 1 < Size THEN read_index + i - 1
                                                     ELSE read_index + i - 1 - Size
  <2>1. Contents \in Seq(Data) /\ Len(Contents) = data_len
    BY BytesType, DataLen DEF Contents, IInv, TypeOK
  <2>2. Contents' = [i \in 1 .. data_len + k |-> Copied(write_index, bytes)[cell(i)]]
    BY <1>2, <1>6 DEF Contents, Bytes
  <2>3. /\ Contents \o bytes \in Seq(Data)
        /\ Len(Contents \o bytes) = data_len + k
        /\ \A i \in 1 .. data_len + k :
             (Contents \o bytes)[i] = IF i <= data_len THEN Contents[i] ELSE bytes[i - data_len]
    <3>1. Len(bytes) = k
      BY DEF k
    <3> HIDE DEF Contents
    <3> QED
      BY <2>1, <3>1, ConcatProperties
  <2>4. ASSUME NEW i \in 1 .. data_len + k
        PROVE  Copied(write_index, bytes)[cell(i)] =
                 IF i <= data_len THEN Contents[i] ELSE bytes[i - data_len]
    <3> DEFINE c == cell(i)
               offset == IF c >= write_index THEN c - write_index ELSE Size - write_index + c
    <3>1. c \in Cells
      BY <1>1, <1>8, DataLen, SizeAssumption DEF IInv, TypeOK, Cells
    <3>2. Copied(write_index, bytes)[c] = IF offset < k THEN bytes[offset + 1] ELSE buffer_ptr[c]
      BY <3>1 DEF Copied, k
    <3>3. CASE i <= data_len
      <4>1. ~(offset < k)
        BY <1>1, <1>8, <3>3, DataLen, SizeAssumption, SMTT(30) DEF IInv, TypeOK, WithinOneLap, Cells
      <4>2. Contents[i] = buffer_ptr[c]
        BY <3>3, DataLen DEF Contents, Bytes
      <4> HIDE DEF c, offset
      <4> QED
        BY <3>2, <3>3, <4>1, <4>2 DEF c
    <3>4. CASE ~(i <= data_len)
      <4>1. offset = i - data_len - 1 /\ offset < k
        <5>1. CASE read_mirror = write_mirror
          BY <1>1, <1>8, <3>4, <5>1, DataLen, SizeAssumption
          DEF IInv, TypeOK, WithinOneLap, Cells
        <5>2. CASE read_mirror # write_mirror
          BY <1>1, <1>8, <3>4, <5>2, DataLen, SizeAssumption
          DEF IInv, TypeOK, WithinOneLap, Cells
        <5> QED
          BY <5>1, <5>2
      <4>2. offset + 1 = i - data_len
        BY <4>1, DataLen
      <4> HIDE DEF c, offset
      <4> QED
        BY <3>2, <3>4, <4>1, <4>2 DEF c
    <3> QED
      BY <3>3, <3>4
  <2>5. Contents' \in Seq(Data) /\ Len(Contents') = data_len + k
    BY <1>3, <1>5, <1>6, BytesTypeNext, DataLenNext DEF Contents, TypeOK
  <2>6. \A i \in 1 .. data_len + k : Contents'[i] = (Contents \o bytes)[i]
    BY <2>2, <2>3, <2>4
  <2> HIDE DEF Contents
  <2> QED
    BY <2>3, <2>5, <2>6, SeqEqual
<1> QED
  BY <1>5, <1>6, <1>7 DEF k

LEMMA ReadLemma ==
    ASSUME IInv, NEW n \in 0 .. data_len,
           read_index' = IndexAfter(read_index, n),
           read_mirror' = MirrorAfter(read_mirror, read_index, n),
           UNCHANGED <<buffer_ptr, write_mirror, write_index>>, out' \in Seq(Data)
    PROVE  /\ IInv'
           /\ data_len' = data_len - n
           /\ Bytes(read_index, n) = SubSeq(Contents, 1, n)
           /\ Contents' = SubSeq(Contents, n + 1, data_len)
<1>1. n \in 0 .. Size
  BY DataLen, SizeAssumption
<1>2. TypeOK'
  BY <1>1, After DEF IInv, TypeOK
<1>3. WithinOneLap'
  BY <1>1, DataLen, SizeAssumption
  DEF IInv, TypeOK, WithinOneLap, IndexAfter, MirrorAfter, Stays, Cells
<1>4. IInv'
  BY <1>2, <1>3 DEF IInv
<1>5. data_len' = data_len - n
  BY <1>1, <1>4, DataLen, DataLenNext, SizeAssumption
  DEF IInv, TypeOK, WithinOneLap, IndexAfter, MirrorAfter, Stays, Cells
<1>6. Contents \in Seq(Data) /\ Len(Contents) = data_len
  BY BytesType, DataLen DEF Contents, IInv, TypeOK
<1>7. Bytes(read_index, n) = SubSeq(Contents, 1, n)
  <2>1. SubSeq(Contents, 1, n) = [i \in 1 .. n |-> Contents[i]]
    BY <1>1, <1>6, DataLen
  <2>2. \A i \in 1 .. n : Contents[i] = Bytes(read_index, n)[i]
    BY <1>1, DataLen DEF Contents, Bytes
  <2>3. Bytes(read_index, n) = [i \in 1 .. n |-> Bytes(read_index, n)[i]]
    BY DEF Bytes
  <2> HIDE DEF Bytes, Contents
  <2> QED
    BY <2>1, <2>2, <2>3
<1>8. Contents' = SubSeq(Contents, n + 1, data_len)
  <2> DEFINE cell(index, i) == IF index + i - 1 < Size THEN index + i - 1
                                                       ELSE index + i - 1 - Size
  <2>1. Contents' = [i \in 1 .. data_len - n |-> buffer_ptr[cell(read_index', i)]]
    BY <1>5 DEF Contents, Bytes
  <2>2. SubSeq(Contents, n + 1, data_len) = [i \in 1 .. data_len - n |-> Contents[i + n]]
    <3>1. SubSeq(Contents, n + 1, data_len) =
            [i \in 1 .. data_len - (n + 1) + 1 |-> Contents[i + (n + 1) - 1]]
      BY <1>1, <1>6, DataLen
    <3>2. data_len - (n + 1) + 1 = data_len - n
      BY <1>1, DataLen
    <3>3. \A i \in 1 .. data_len - n : i + (n + 1) - 1 = i + n
      BY <1>1, DataLen
    <3> QED
      BY <3>1, <3>2, <3>3
  <2>3. ASSUME NEW i \in 1 .. data_len - n
        PROVE  Contents[i + n] = buffer_ptr[cell(read_index', i)]
    <3>1. i + n \in 1 .. data_len
      BY <1>1, DataLen
    <3>2. Contents[i + n] = buffer_ptr[cell(read_index, i + n)]
      BY <3>1 DEF Contents, Bytes
    <3>3. cell(read_index, i + n) = cell(read_index', i)
      BY <1>1, DataLen, SizeAssumption DEF IInv, TypeOK, IndexAfter, Stays, Cells
    <3> QED
      BY <3>2, <3>3
  <2> QED
    BY <2>1, <2>2, <2>3
<1> QED
  BY <1>4, <1>5, <1>7, <1>8

-----------------------------------------------------------------------------
(* The calls, each as a step of the queue, and the refinement.             *)

\* The queue's view of the ring buffer.
LEMMA ContentsType ==
    ASSUME IInv
    PROVE  Contents \in Seq(Data) /\ Len(Contents) = data_len
  BY BytesType, DataLen DEF Contents, IInv, TypeOK

\* A put of one byte copies a block of one byte.
LEMMA OneByte ==
    ASSUME IInv, NEW byte \in Data
    PROVE  /\ Copied(write_index, <<byte>>) = [buffer_ptr EXCEPT ![write_index] = byte]
           /\ \A mirror \in {0, 1}, index \in Cells :
                /\ IndexAfter(index, 1) = IF AtEnd(index) THEN 0 ELSE index + 1
                /\ MirrorAfter(mirror, index, 1) = IF AtEnd(index) THEN 1 - mirror ELSE mirror
<1>1. ASSUME NEW c \in Cells
      PROVE  Copied(write_index, <<byte>>)[c] = IF c = write_index THEN byte ELSE buffer_ptr[c]
  BY SizeAssumption DEF Copied, IInv, TypeOK, Cells
<1>2. Copied(write_index, <<byte>>) = [buffer_ptr EXCEPT ![write_index] = byte]
  BY <1>1 DEF Copied, IInv, TypeOK
<1>3. \A mirror \in {0, 1}, index \in Cells :
        /\ IndexAfter(index, 1) = IF AtEnd(index) THEN 0 ELSE index + 1
        /\ MirrorAfter(mirror, index, 1) = IF AtEnd(index) THEN 1 - mirror ELSE mirror
  BY SizeAssumption DEF IndexAfter, MirrorAfter, Stays, AtEnd, Cells
<1> QED
  BY <1>2, <1>3

LEMMA PutStep ==
    ASSUME IInv, NEW bytes \in Seq(Data), Put(bytes)
    PROVE  IInv' /\ Fifo!Put(bytes)
<1> DEFINE n == Shorter(Len(bytes), space_len)
           kept == SubSeq(bytes, 1, n)
<1>1. n \in 0 .. Len(bytes) /\ n <= Size - data_len
  BY DataLen, SizeAssumption DEF Shorter, space_len
<1> HIDE DEF n
<1>2. kept \in Seq(Data) /\ Len(kept) = n
  BY <1>1
<1>3. out' = kept /\ n = Fifo!Shorter(Len(bytes), Size - Len(Contents))
  BY ContentsType DEF Put, n, Shorter, space_len, Fifo!Shorter
<1> HIDE DEF kept
<1>4. CASE space_len = 0
  <2>1. kept = <<>>
    BY <1>1, <1>2, <1>4, DataLen, SizeAssumption DEF space_len
  <2>2. UNCHANGED <<buffer_ptr, read_mirror, read_index, write_mirror, write_index>>
    BY <1>4 DEF Put
  <2>3. IInv'
    BY <1>2, <1>3, <2>2 DEF IInv, TypeOK, WithinOneLap
  <2>4. Contents' = Contents
    BY <2>2 DEF Contents, Bytes, data_len, Full, Empty
  <2>5. Contents \o kept = Contents
    BY <2>1, ContentsType, ConcatEmptySeq
  <2> QED
    BY <1>3, <2>3, <2>4, <2>5 DEF Fifo!Put, kept
<1>5. CASE space_len # 0
  <2>1. Advance(kept) /\ UNCHANGED <<read_mirror, read_index>>
    BY <1>3, <1>5 DEF Put
  <2>2. IInv' /\ Contents' = Contents \o kept
    BY <1>1, <1>2, <1>3, <2>1, WriteLemma
  <2> QED
    BY <1>3, <2>2 DEF Fifo!Put, kept
<1> QED
  BY <1>4, <1>5

LEMMA PutCharStep ==
    ASSUME IInv, NEW byte \in Data, PutChar(byte)
    PROVE  IInv' /\ Fifo!Put(<<byte>>)
<1>1. Put(<<byte>>)
  <2>1. <<byte>> \in Seq(Data) /\ Len(<<byte>>) = 1
    OBVIOUS
  <2>2. space_len \in 0 .. Size
    BY DataLen, SizeAssumption DEF space_len
  <2>3. CASE space_len = 0
    <3>1. SubSeq(<<byte>>, 1, Shorter(1, space_len)) = <<>>
      BY <2>3 DEF Shorter
    <3> QED
      BY <2>1, <2>3, <3>1 DEF Put, PutChar
  <2>4. CASE space_len # 0
    <3>1. Shorter(1, space_len) = 1
      BY <2>2, <2>4 DEF Shorter
    <3>2. SubSeq(<<byte>>, 1, 1) = <<byte>>
      BY <2>1, SubSeqFull
    <3>3. Advance(<<byte>>)
      BY <2>1, <2>4, OneByte DEF Advance, PutChar, IInv, TypeOK
    <3> QED
      BY <2>1, <2>4, <3>1, <3>2, <3>3 DEF Put, PutChar
  <2> QED
    BY <2>3, <2>4
<1>2. <<byte>> \in Seq(Data)
  OBVIOUS
<1> QED
  BY <1>1, <1>2, PutStep

\* Whatever takes n bytes, no more than there are, and hands them out is a get.
LEMMA TakeIsGet ==
    ASSUME IInv, NEW n \in 0 .. data_len,
           read_index' = IndexAfter(read_index, n),
           read_mirror' = MirrorAfter(read_mirror, read_index, n),
           UNCHANGED <<buffer_ptr, write_mirror, write_index>>,
           out' = Bytes(read_index, n),
           NEW m \in Nat, n = Shorter(m, data_len)
    PROVE  IInv' /\ Fifo!Get(m)
<1>1. n \in 0 .. Size
  BY DataLen, SizeAssumption
<1>2. out' \in Seq(Data) /\ Len(out') = n
  BY <1>1, BytesType DEF IInv, TypeOK
<1>3. /\ IInv'
      /\ Bytes(read_index, n) = SubSeq(Contents, 1, n)
      /\ Contents' = SubSeq(Contents, n + 1, data_len)
  BY <1>2, ReadLemma
<1>4. n = Fifo!Shorter(m, Len(Contents)) /\ Len(Contents) = data_len
  BY ContentsType DEF Shorter, Fifo!Shorter
<1> QED
  BY <1>2, <1>3, <1>4 DEF Fifo!Get

\* An empty buffer that hands out nothing has done a get.
LEMMA EmptyGet ==
    ASSUME IInv, data_len = 0, out' = <<>>, NEW m \in Nat,
           UNCHANGED <<buffer_ptr, read_mirror, read_index, write_mirror, write_index>>
    PROVE  IInv' /\ Fifo!Get(m)
<1>1. out' \in Seq(Data) /\ Len(out') = 0
  OBVIOUS
<1>2. IInv'
  BY <1>1 DEF IInv, TypeOK, WithinOneLap
<1>3. Contents' = Contents
  BY DEF Contents, Bytes, data_len, Full, Empty
<1>4. Contents = <<>> /\ Len(Contents) = 0
  BY ContentsType
<1>5. Fifo!Shorter(m, Len(Contents)) = 0
  BY <1>4 DEF Fifo!Shorter
<1>6. SubSeq(Contents, 1, 0) = <<>> /\ SubSeq(Contents, 0 + 1, Len(Contents)) = <<>>
  BY <1>4, SubSeqEmpty
<1> QED
  BY <1>1, <1>2, <1>3, <1>4, <1>5, <1>6 DEF Fifo!Get

LEMMA GetStep ==
    ASSUME IInv, NEW m \in Nat, Get(m)
    PROVE  IInv' /\ Fifo!Get(m)
<1> DEFINE n == Shorter(m, data_len)
<1>1. n \in 0 .. data_len
  BY DataLen, SizeAssumption DEF Shorter
<1>2. CASE data_len = 0
  <2>1. n = 0
    BY <1>1, <1>2
  <2>2. Bytes(read_index, 0) = <<>>
    BY DEF Bytes
  <2>3. out' = <<>>
    BY <2>1, <2>2 DEF Get
  <2> QED
    BY <1>2, <2>3, EmptyGet DEF Get
<1>3. CASE data_len # 0
  BY <1>1, <1>3, TakeIsGet DEF Get
<1> QED
  BY <1>2, <1>3

LEMMA PeakStep ==
    ASSUME IInv, Peak
    PROVE  IInv' /\ \E m \in 0 .. Size : Fifo!Get(m)
<1> DEFINE n == Shorter(data_len, Size - read_index)
<1>1. /\ n \in 0 .. data_len /\ n \in 0 .. Size /\ n \in Nat
      /\ data_len \in Nat /\ read_index \in Cells
  BY DataLen, SizeAssumption DEF Shorter, IInv, TypeOK, Cells
<1>2. n = Shorter(n, data_len)
  BY <1>1 DEF Shorter
<1>3. out' = Bytes(read_index, n)
      /\ UNCHANGED <<buffer_ptr, write_mirror, write_index>>
  BY DEF Peak
<1>4. CASE data_len = 0
  <2>1. n = 0
    BY <1>1, <1>4
  <2>2. Bytes(read_index, 0) = <<>>
    BY DEF Bytes
  <2>3. out' = <<>>
    BY <1>3, <2>1, <2>2
  <2>4. 0 \in Nat /\ 0 \in 0 .. Size
    BY SizeAssumption
  <2> QED
    BY <1>4, <2>3, <2>4, EmptyGet DEF Peak
<1>5. CASE data_len # 0
  <2>1. /\ read_index' = IndexAfter(read_index, n)
        /\ read_mirror' = MirrorAfter(read_mirror, read_index, n)
    BY <1>1, <1>5, SizeAssumption
    DEF Peak, Shorter, IndexAfter, MirrorAfter, Stays, Cells
  <2> HIDE DEF n
  <2> QED
    BY <1>1, <1>2, <1>3, <2>1, TakeIsGet
<1> QED
  BY <1>4, <1>5

LEMMA GetCharStep ==
    ASSUME IInv, GetChar
    PROVE  IInv' /\ Fifo!Get(1)
<1>1. CASE data_len = 0
  BY <1>1, EmptyGet DEF GetChar
<1>2. CASE data_len # 0
  <2>1. 1 \in 0 .. data_len /\ 1 = Shorter(1, data_len)
    BY <1>2, DataLen DEF Shorter
  <2>2. read_index \in Cells /\ read_mirror \in {0, 1}
    BY DEF IInv, TypeOK
  <2>3. Bytes(read_index, 1) = <<buffer_ptr[read_index]>>
    BY <2>2, SizeAssumption DEF Bytes, Cells
  <2> QED
    <3>1. /\ read_index' = IndexAfter(read_index, 1)
          /\ read_mirror' = MirrorAfter(read_mirror, read_index, 1)
      BY <1>2, <2>2, SizeAssumption DEF GetChar, AtEnd, IndexAfter, MirrorAfter, Stays, Cells
    <3>2. out' = Bytes(read_index, 1) /\ UNCHANGED <<buffer_ptr, write_mirror, write_index>>
      BY <1>2, <2>3 DEF GetChar
    <3> QED
      BY <2>1, <3>1, <3>2, TakeIsGet
<1> QED
  BY <1>1, <1>2

LEMMA LastOfShort ==
    ASSUME NEW s \in Seq(Data), NEW n \in Nat, Len(s) <= n
    PROVE  Fifo!LastOf(s, n) = s
<1>1. Len(s) - Fifo!Shorter(n, Len(s)) + 1 = 1
  BY DEF Fifo!Shorter
<1> QED
  BY <1>1, SubSeqFull DEF Fifo!LastOf

LEMMA PutCharForceStep ==
    ASSUME IInv, NEW byte \in Data, PutCharForce(byte)
    PROVE  IInv' /\ Fifo!PutForce(<<byte>>)
<1>1. /\ <<byte>> \in Seq(Data) /\ Len(<<byte>>) = 1
      /\ Size \in Nat /\ Size >= 1
  BY SizeAssumption
<1>2. out' = Fifo!LastOf(<<byte>>, Size)
  BY <1>1, LastOfShort DEF PutCharForce
<1>3. Advance(<<byte>>) /\ out' \in Seq(Data)
  BY <1>1, OneByte DEF Advance, PutCharForce, IInv, TypeOK
<1>4. Contents \in Seq(Data) /\ Len(Contents) = data_len /\ data_len \in 0 .. Size
  BY ContentsType, DataLen
<1>5. CASE ~Full
  <2>1. data_len < Size
    BY <1>5, DataLen, SizeAssumption DEF IInv, TypeOK, WithinOneLap, Full, Cells
  <2>2. UNCHANGED <<read_mirror, read_index>>
    BY <1>5 DEF PutCharForce
  <2> DEFINE block == <<byte>>
             both  == Contents \o block
  <2>3. block \in Seq(Data) /\ Len(block) = 1 /\ Len(block) <= Size - data_len
    BY <1>1, <1>4, <2>1
  <2>4. Advance(block) /\ out' \in Seq(Data)
    BY <1>3
  <2> HIDE DEF block
  <2>5. IInv' /\ Contents' = both
    BY <2>2, <2>3, <2>4, WriteLemma
  <2>6. both \in Seq(Data) /\ Len(both) = data_len + 1
    BY <1>4, <2>3, ConcatProperties
  <2> HIDE DEF both
  <2>7. Len(both) <= Size
    BY <1>1, <1>4, <2>1, <2>6
  <2>8. Fifo!LastOf(both, Size) = both
    BY <1>1, <2>6, <2>7, LastOfShort
  <2> QED
    BY <1>2, <2>5, <2>8 DEF Fifo!PutForce, both, block
<1>6. CASE Full
  <2>1. data_len = Size
    BY <1>6, SizeAssumption DEF data_len, Full, Empty
  <2>2. /\ write_index \in Cells /\ read_index = write_index /\ read_mirror # write_mirror
        /\ read_mirror \in {0, 1} /\ write_mirror \in {0, 1}
    BY <1>6 DEF Full, IInv, TypeOK
  <2>3. /\ write_index' = IF AtEnd(write_index) THEN 0 ELSE write_index + 1
        /\ read_index' = write_index'
        /\ write_mirror' = IF AtEnd(write_index) THEN 1 - write_mirror ELSE write_mirror
        /\ read_mirror' = IF AtEnd(write_index) THEN 1 - read_mirror ELSE read_mirror
        /\ buffer_ptr' = [buffer_ptr EXCEPT ![write_index] = byte]
    BY <1>6 DEF PutCharForce
  <2>4. /\ write_index' \in Cells /\ read_index' \in Cells /\ read_mirror' # write_mirror'
        /\ read_mirror' \in {0, 1} /\ write_mirror' \in {0, 1}
    BY <2>2, <2>3, SizeAssumption DEF AtEnd, Cells
  <2>5. IInv'
    BY <1>3, <2>2, <2>3, <2>4 DEF IInv, TypeOK, WithinOneLap, Cells
  <2>6. data_len' = Size
    BY <2>3, <2>4, <2>5, DataLenNext, SizeAssumption DEF Cells
  <2> DEFINE both == Contents \o <<byte>>
  <2>7. /\ both \in Seq(Data) /\ Len(both) = Size + 1
        /\ \A i \in 1 .. Size + 1 : both[i] = IF i <= Size THEN Contents[i] ELSE byte
    <3>1. /\ both \in Seq(Data) /\ Len(both) = Size + 1
          /\ \A i \in 1 .. Size + 1 :
               both[i] = IF i <= Size THEN Contents[i] ELSE <<byte>>[i - Size]
      <4> HIDE DEF Contents
      <4> QED
        BY <1>1, <1>4, <2>1, ConcatProperties
    <3>2. \A i \in 1 .. Size + 1 : ~(i <= Size) => i - Size = 1
      BY <1>1
    <3> HIDE DEF both
    <3> QED
      BY <3>1, <3>2
  <2> HIDE DEF both
  <2>8. Fifo!LastOf(both, Size) = SubSeq(both, 2, Size + 1)
    <3>1. Len(both) - Fifo!Shorter(Size, Len(both)) + 1 = 2
      BY <1>1, <2>7 DEF Fifo!Shorter
    <3> QED
      BY <2>7, <3>1 DEF Fifo!LastOf
  <2>9. /\ SubSeq(both, 2, Size + 1) \in Seq(Data)
        /\ Len(SubSeq(both, 2, Size + 1)) = Size
        /\ \A i \in 1 .. Size : SubSeq(both, 2, Size + 1)[i] = both[i + 1]
    <3>1. \A i \in 2 .. Size + 1 : both[i] \in Data
      BY <1>1, <2>7
    <3>2. 2 \in Int /\ Size + 1 \in Int /\ (Size + 1) - 2 + 1 = Size
          /\ \A i \in 1 .. Size : 2 + i - 1 = i + 1
      BY <1>1
    <3>3. /\ SubSeq(both, 2, Size + 1) \in Seq(Data)
          /\ Len(SubSeq(both, 2, Size + 1)) = IF 2 <= Size + 1 THEN (Size + 1) - 2 + 1 ELSE 0
          /\ \A i \in 1 .. (Size + 1) - 2 + 1 : SubSeq(both, 2, Size + 1)[i] = both[2 + i - 1]
      BY <3>1, <3>2, SubSeqProperties
    <3> QED
      BY <1>1, <3>2, <3>3
  <2>10. Contents' \in Seq(Data) /\ Len(Contents') = Size
    BY <2>5, <2>6, BytesTypeNext, SizeAssumption DEF Contents, IInv, TypeOK
  <2>11. ASSUME NEW i \in 1 .. Size
         PROVE  Contents'[i] = IF i + 1 <= Size THEN Contents[i + 1] ELSE byte
    <3> DEFINE cell(index, j) == IF index + j - 1 < Size THEN index + j - 1
                                                         ELSE index + j - 1 - Size
               c == cell(read_index', i)
    <3>1. Contents'[i] = buffer_ptr'[c]
      BY <2>6 DEF Contents, Bytes
    <3>2. c \in Cells /\ (c = write_index <=> i = Size)
      BY <2>2, <2>3, SizeAssumption DEF AtEnd, Cells
    <3>3. CASE i = Size
      <4>1. buffer_ptr'[c] = byte
        BY <2>2, <2>3, <3>2, <3>3 DEF IInv, TypeOK
      <4>2. ~(i + 1 <= Size)
        BY <1>1, <3>3
      <4> HIDE DEF c
      <4> QED
        BY <3>1, <4>1, <4>2
    <3>4. CASE i # Size
      <4>1. i + 1 \in 1 .. data_len
        BY <1>1, <2>1, <3>4
      <4>2. Contents[i + 1] = buffer_ptr[cell(read_index, i + 1)]
        BY <4>1 DEF Contents, Bytes
      <4>3. cell(read_index, i + 1) = c
        BY <2>2, <2>3, <3>4, SizeAssumption DEF AtEnd, Cells
      <4>4. buffer_ptr'[c] = buffer_ptr[c]
        <5> HIDE DEF c
        <5> QED
          BY <2>3, <3>2, <3>4 DEF IInv, TypeOK
      <4>5. i + 1 <= Size
        BY <1>1, <3>4
      <4> HIDE DEF c
      <4> QED
        BY <3>1, <4>2, <4>3, <4>4, <4>5
    <3> QED
      BY <3>3, <3>4
  <2>12. Contents' = SubSeq(both, 2, Size + 1)
    <3>1. \A i \in 1 .. Size : Contents'[i] = SubSeq(both, 2, Size + 1)[i]
      <4>1. \A i \in 1 .. Size : both[i + 1] = IF i + 1 <= Size THEN Contents[i + 1] ELSE byte
        BY <1>1, <2>7
      <4> QED
        BY <2>9, <2>11, <4>1
    <3> HIDE DEF Contents
    <3> QED
      BY <2>9, <2>10, <3>1, SeqEqual
  <2> QED
    BY <1>2, <2>5, <2>8, <2>12 DEF Fifo!PutForce, both
<1> QED
  BY <1>5, <1>6

LEMMA ResetStep ==
    ASSUME IInv, Reset
    PROVE  IInv' /\ Fifo!Reset
<1>1. IInv'
  BY SizeAssumption DEF Reset, IInv, TypeOK, WithinOneLap, Cells
<1>2. data_len' = 0
  BY DEF Reset, data_len, Empty
<1>3. Contents' = <<>>
  BY <1>2 DEF Contents, Bytes
<1> QED
  BY <1>1, <1>3 DEF Reset, Fifo!Reset

LEMMA InitStep ==
    ASSUME Init
    PROVE  IInv /\ Fifo!Init
<1>1. out \in Seq(Data)
  BY DEF Init
<1>2. IInv /\ data_len = 0
  BY <1>1, SizeAssumption DEF Init, IInv, TypeOK, WithinOneLap, Cells, data_len, Empty
<1>3. Contents = <<>>
  BY <1>2 DEF Contents, Bytes
<1> QED
  BY <1>2, <1>3 DEF Init, Fifo!Init

\* Every step of the ring buffer keeps the invariant and is a step of the queue.
LEMMA NextStep ==
    ASSUME IInv, [Next]_vars
    PROVE  IInv' /\ [Fifo!Next]_(Fifo!vars)
<1>1. Fifo!Blocks = Blocks
  BY DEF Fifo!Blocks, Blocks
<1>2. ASSUME NEW bytes \in Blocks, Put(bytes)
      PROVE  IInv' /\ Fifo!Next
  <2>1. bytes \in Seq(Data)
    BY SizeAssumption DEF Blocks
  <2> QED
    BY <1>1, <1>2, <2>1, PutStep DEF Fifo!Next
<1>3. ASSUME NEW byte \in Data, PutChar(byte)
      PROVE  IInv' /\ Fifo!Next
  <2>1. <<byte>> \in Blocks
    <3>1. <<byte>> \in [1 .. 1 -> Data] /\ 1 \in 0 .. Size + 1
      BY SizeAssumption
    <3> QED
      BY <3>1 DEF Blocks
  <2>2. IInv' /\ Fifo!Put(<<byte>>)
    BY <1>3, PutCharStep
  <2> QED
    BY <1>1, <2>1, <2>2 DEF Fifo!Next
<1>4. ASSUME NEW byte \in Data, PutCharForce(byte)
      PROVE  IInv' /\ Fifo!Next
  BY <1>4, PutCharForceStep DEF Fifo!Next
<1>5. ASSUME NEW n \in 0 .. Size + 1, Get(n)
      PROVE  IInv' /\ Fifo!Next
  <2>1. n \in Nat
    BY SizeAssumption
  <2> QED
    BY <1>5, <2>1, GetStep DEF Fifo!Next
<1>6. CASE Peak
  <2>1. IInv' /\ \E m \in 0 .. Size : Fifo!Get(m)
    BY <1>6, PeakStep
  <2>2. \A m \in 0 .. Size : m \in 0 .. Size + 1
    BY SizeAssumption
  <2> QED
    BY <2>1, <2>2 DEF Fifo!Next
<1>7. CASE GetChar
  <2>1. 1 \in 0 .. Size + 1
    BY SizeAssumption
  <2> QED
    BY <1>7, <2>1, GetCharStep DEF Fifo!Next
<1>8. CASE Reset
  BY <1>8, ResetStep DEF Fifo!Next
<1>9. CASE UNCHANGED vars
  BY <1>9 DEF vars, IInv, TypeOK, WithinOneLap, Fifo!vars, Contents, Bytes, data_len, Full, Empty
<1> QED
  BY <1>2, <1>3, <1>4, <1>5, <1>6, <1>7, <1>8, <1>9 DEF Next

\* The writer is never more than one lap ahead of the reader, which is what lets
\* data_len tell full from empty by two bits, whatever the size.
THEOREM RingBufferLap == Spec => [](TypeOK /\ WithinOneLap)
<1>1. Init => IInv
  BY InitStep
<1>2. IInv /\ [Next]_vars => IInv'
  BY NextStep
<1>3. IInv => TypeOK /\ WithinOneLap
  BY DEF IInv
<1> QED
  BY <1>1, <1>2, <1>3, PTL DEF Spec

\* A ring buffer of any size, used through any of its calls but
\* rt_ringbuffer_put_force on a block, is a bounded first-in first-out queue.
THEOREM RingBufferIsFifo == Spec => IsFifo
<1>1. Init => IInv /\ Fifo!Init
  BY InitStep
<1>2. IInv /\ [Next]_vars => IInv' /\ [Fifo!Next]_(Fifo!vars)
  BY NextStep
<1> QED
  BY <1>1, <1>2, PTL DEF Spec, IsFifo, Fifo!Spec

-----------------------------------------------------------------------------
(* With the forced put of a block the reader may be overtaken, so that the *)
(* contents are wrong; but the indices stay in the memory.                 *)

\* data_len needs no lap to be a length.
LEMMA DataLenType == TypeOK => data_len \in 0 .. Size
  BY SizeAssumption DEF TypeOK, data_len, Full, Empty, Cells

\* A part of a block is a block.
LEMMA PartType ==
    ASSUME NEW bytes \in Seq(Data), NEW m \in 1 .. Len(bytes) + 1, NEW n \in 0 .. Len(bytes)
    PROVE  SubSeq(bytes, m, n) \in Seq(Data) /\ Len(SubSeq(bytes, m, n)) = IF m <= n THEN n - m + 1 ELSE 0
  OBVIOUS

\* A block no longer than the memory leaves the write index in it.
LEMMA AdvanceType ==
    ASSUME TypeOK, NEW bytes \in Seq(Data), Len(bytes) <= Size, Advance(bytes)
    PROVE  buffer_ptr' \in [Cells -> Data] /\ write_mirror' \in {0, 1} /\ write_index' \in Cells
<1>1. Len(bytes) \in 0 .. Size
  BY SizeAssumption
<1>2. write_index \in Cells /\ write_mirror \in {0, 1} /\ buffer_ptr \in [Cells -> Data]
  BY DEF TypeOK
<1>3. Copied(write_index, bytes) \in [Cells -> Data]
  BY <1>2, CopiedType
<1> QED
  BY <1>1, <1>2, <1>3, After DEF Advance

LEMMA ForcedStep == TypeOK /\ [NextForced]_vars => TypeOK'
<1> SUFFICES ASSUME TypeOK, [NextForced]_vars PROVE TypeOK'
  OBVIOUS
<1>0. /\ buffer_ptr \in [Cells -> Data] /\ out \in Seq(Data) /\ Size \in Nat /\ Size >= 1
      /\ read_mirror \in {0, 1} /\ write_mirror \in {0, 1} /\ read_index \in Cells /\ write_index \in Cells
      /\ data_len \in 0 .. Size /\ space_len \in 0 .. Size
  BY DataLenType, SizeAssumption DEF TypeOK, space_len
<1>1. ASSUME NEW bytes \in Blocks, Put(bytes) PROVE TypeOK'
  <2>1. bytes \in Seq(Data)
    BY SizeAssumption DEF Blocks
  <2> DEFINE n == Shorter(Len(bytes), space_len)
  <2>2. n \in 0 .. Len(bytes) /\ n <= Size
    BY <1>0, <2>1 DEF Shorter
  <2>3. out' = SubSeq(bytes, 1, n) /\ UNCHANGED <<read_mirror, read_index>>
    BY <1>1 DEF Put
  <2> HIDE DEF n
  <2>4. out' \in Seq(Data) /\ Len(out') <= Size
    BY <2>1, <2>2, <2>3, PartType
  <2>5. CASE space_len = 0
    BY <1>0, <1>1, <2>3, <2>4, <2>5 DEF Put, TypeOK
  <2>6. CASE space_len # 0
    <3>1. Advance(out')
      BY <1>1, <2>6 DEF Put
    <3>2. buffer_ptr' \in [Cells -> Data] /\ write_mirror' \in {0, 1} /\ write_index' \in Cells
      <4> DEFINE b == out'
      <4>1. b \in Seq(Data) /\ Len(b) <= Size /\ Advance(b)
        BY <2>4, <3>1
      <4> HIDE DEF b
      <4> QED
        BY <4>1, AdvanceType
    <3> QED
      BY <1>0, <2>3, <2>4, <3>2 DEF TypeOK
  <2> QED
    BY <2>5, <2>6
<1>2. ASSUME NEW byte \in Data, PutChar(byte) \/ PutCharForce(byte) PROVE TypeOK'
  <2>1. buffer_ptr' \in [Cells -> Data] /\ out' \in Seq(Data)
    <3>1. <<byte>> \in Seq(Data) /\ <<>> \in Seq(Data)
      OBVIOUS
    <3>2. out' = <<>> \/ out' = <<byte>>
      BY <1>2 DEF PutChar, PutCharForce
    <3>3. buffer_ptr' = buffer_ptr \/ buffer_ptr' = [buffer_ptr EXCEPT ![write_index] = byte]
      BY <1>2 DEF PutChar, PutCharForce
    <3>4. [buffer_ptr EXCEPT ![write_index] = byte] \in [Cells -> Data]
      BY <1>0
    <3> QED
      BY <1>0, <3>1, <3>2, <3>3, <3>4
  <2>2. write_mirror' \in {0, 1} /\ write_index' \in Cells
    BY <1>0, <1>2 DEF PutChar, PutCharForce, AtEnd, Cells
  <2>3. read_mirror' \in {0, 1} /\ read_index' \in Cells
    BY <1>0, <1>2, <2>2 DEF PutChar, PutCharForce, AtEnd
  <2> QED
    BY <2>1, <2>2, <2>3 DEF TypeOK
<1>3. ASSUME NEW n \in 0 .. Size + 1, Get(n) PROVE TypeOK'
  <2> DEFINE size == Shorter(n, data_len)
  <2>1. size \in 0 .. Size
    BY <1>0 DEF Shorter
  <2>2. Bytes(read_index, size) \in Seq(Data)
    BY <1>0, <2>1, BytesType
  <2>3. IndexAfter(read_index, size) \in Cells /\ MirrorAfter(read_mirror, read_index, size) \in {0, 1}
    BY <1>0, <2>1, After
  <2> QED
    BY <1>0, <1>3, <2>2, <2>3 DEF Get, TypeOK
<1>4. CASE Peak
  <2> DEFINE size == Shorter(data_len, Size - read_index)
  <2>1. size \in 0 .. Size
    BY <1>0 DEF Shorter, Cells
  <2>2. Bytes(read_index, size) \in Seq(Data)
    BY <1>0, <2>1, BytesType
  <2>3. MirrorAfter(read_mirror, read_index, data_len) \in {0, 1}
    BY <1>0, After
  <2>4. (IF Stays(read_index, data_len) THEN read_index + data_len ELSE 0) \in Cells
    BY <1>0 DEF Stays, Cells
  <2> QED
    BY <1>0, <1>4, <2>2, <2>3, <2>4 DEF Peak, TypeOK
<1>5. CASE GetChar
  <2>1. buffer_ptr[read_index] \in Data
    BY <1>0
  <2>2. out' \in Seq(Data)
    BY <1>5, <2>1 DEF GetChar
  <2>3. read_mirror' \in {0, 1} /\ read_index' \in Cells
    BY <1>0, <1>5 DEF GetChar, AtEnd, Cells
  <2> QED
    BY <1>0, <1>5, <2>2, <2>3 DEF GetChar, TypeOK
<1>6. CASE Reset
  BY <1>0, <1>6 DEF Reset, TypeOK, Cells
<1>7. ASSUME NEW bytes \in Blocks, PutForce(bytes) PROVE TypeOK'
  <2>1. bytes \in Seq(Data) /\ Len(bytes) \in Nat
    BY SizeAssumption DEF Blocks
  <2> DEFINE m == Len(bytes) - Shorter(Len(bytes), Size) + 1
             kept == SubSeq(bytes, m, Len(bytes))
  <2>2. m \in 1 .. Len(bytes) + 1 /\ Len(bytes) - m + 1 <= Size
    <3>1. Len(bytes) < Size => Shorter(Len(bytes), Size) = Len(bytes)
      BY DEF Shorter
    <3>2. ~(Len(bytes) < Size) => Shorter(Len(bytes), Size) = Size
      BY DEF Shorter
    <3>3. CASE Len(bytes) < Size
      <4>1. m = Len(bytes) - Len(bytes) + 1
        BY <3>1, <3>3
      <4>2. m = 1
        BY <2>1, <4>1
      <4> QED
        BY <1>0, <2>1, <3>3, <4>2
    <3>4. CASE ~(Len(bytes) < Size)
      <4>1. m = Len(bytes) - Size + 1
        BY <3>2, <3>4
      <4> HIDE DEF m
      <4> QED
        BY <1>0, <2>1, <3>4, <4>1
    <3> QED
      BY <3>3, <3>4
  <2>3. /\ out' = kept /\ Advance(kept)
        /\ IF Len(kept) > space_len
           THEN /\ read_index' = write_index'
                /\ read_mirror' = MirrorAfter(read_mirror, write_index, Len(kept))
           ELSE UNCHANGED <<read_mirror, read_index>>
    BY <1>7 DEF PutForce
  <2>4. kept \in Seq(Data) /\ Len(kept) <= Size /\ Len(kept) \in Nat
    <3> HIDE DEF m
    <3>1. /\ SubSeq(bytes, m, Len(bytes)) \in Seq(Data)
          /\ Len(SubSeq(bytes, m, Len(bytes))) = IF m <= Len(bytes) THEN Len(bytes) - m + 1 ELSE 0
      BY <2>1, <2>2, PartType
    <3> QED
      BY <1>0, <2>1, <2>2, <3>1
  <2> HIDE DEF kept
  <2>5. buffer_ptr' \in [Cells -> Data] /\ write_mirror' \in {0, 1} /\ write_index' \in Cells
    BY <2>3, <2>4, AdvanceType
  <2>6. MirrorAfter(read_mirror, write_index, Len(kept)) \in {0, 1}
    BY <1>0, <2>4, After
  <2>7. read_mirror' \in {0, 1} /\ read_index' \in Cells
    BY <1>0, <2>3, <2>5, <2>6
  <2> QED
    BY <2>3, <2>4, <2>5, <2>7 DEF TypeOK
<1>8. CASE UNCHANGED vars
  BY <1>0, <1>8 DEF vars, TypeOK
<1> QED
  BY <1>1, <1>2, <1>3, <1>4, <1>5, <1>6, <1>7, <1>8 DEF NextForced, Next

\* Whatever is called in whatever order, the forced put of a block included, no
\* index leaves the memory and every access is inside it, for every size.
THEOREM RingBufferStaysInside == SpecForced => []TypeOK
<1>1. Init => TypeOK
  BY InitStep DEF IInv
<1> QED
  BY <1>1, ForcedStep, PTL DEF SpecForced

-----------------------------------------------------------------------------
(* Event flags: induction over the numbers, and lists without repetitions. *)

\* The well-ordering of the naturals.
LEMMA LeastNat ==
    ASSUME NEW T, T \subseteq Nat, T # {}
    PROVE  \E x \in T : \A y \in T : x <= y
<1> DEFINE Less == {ss \in Nat \X Nat : ss[1] < ss[2]}
<1>1. IsWellFoundedOn(Less, Nat)
  BY NatLessThanWellFounded, Zenon DEF OpToRel
<1> HIDE DEF Less
<1>2. PICK x \in T : \A y \in T : <<y, x>> \notin Less
  BY <1>1, WFMin, Zenon
<1>3. ASSUME NEW y \in T PROVE x <= y
  <2>1. x \in Nat /\ y \in Nat
    OBVIOUS
  <2>2. ~(y < x)
    BY <1>2, <1>3, <2>1 DEF Less
  <2> QED
    BY <2>1, <2>2
<1> QED
  BY <1>2, <1>3

LEMMA NatSetInduction ==
    ASSUME NEW Good, 0 \in Good, \A n \in Nat : n \in Good => n + 1 \in Good
    PROVE  Nat \subseteq Good
<1> DEFINE Bad == Nat \ Good
<1> SUFFICES ASSUME Bad # {} PROVE FALSE
  OBVIOUS
<1>1. PICK n \in Bad : \A m \in Bad : n <= m
  BY LeastNat, Bad \subseteq Nat
<1>2. n \in Nat /\ n # 0
  OBVIOUS
<1>3. n - 1 \in Nat /\ n - 1 \notin Bad /\ (n - 1) + 1 = n
  BY <1>1, <1>2
<1> QED
  BY <1>3

\* s with one element gone, the one at `at`.
Gone(r, s, at) ==
    /\ Len(r) = Len(s) - 1
    /\ \A i \in 1 .. Len(s) - 1 : r[i] = IF i < at THEN s[i] ELSE s[i + 1]

LEMMA GoneLemma ==
    ASSUME NEW S, NEW s \in Seq(S), NEW r \in Seq(S), NEW at \in 1 .. Len(s), Gone(r, s, at),
           IsInjective(s)
    PROVE  IsInjective(r) /\ ToSet(r) = ToSet(s) \ {s[at]}
<1>1. /\ Len(s) \in Nat /\ DOMAIN s = 1 .. Len(s) /\ DOMAIN r = 1 .. Len(s) - 1
      /\ \A i \in 1 .. Len(s) - 1 : r[i] = IF i < at THEN s[i] ELSE s[i + 1]
      /\ \A i, j \in 1 .. Len(s) : s[i] = s[j] => i = j
  BY DEF Gone, IsInjective
<1> DEFINE old(i) == IF i < at THEN i ELSE i + 1
<1>2. /\ \A i \in 1 .. Len(s) - 1 : old(i) \in 1 .. Len(s) \ {at} /\ r[i] = s[old(i)]
      /\ \A i, j \in 1 .. Len(s) - 1 : old(i) = old(j) => i = j
  BY <1>1
<1>3. ASSUME NEW j \in 1 .. Len(s) \ {at} PROVE \E i \in 1 .. Len(s) - 1 : old(i) = j
  <2>1. CASE j < at
    BY <1>1, <2>1
  <2>2. CASE j > at
    <3>1. j - 1 \in 1 .. Len(s) - 1 /\ old(j - 1) = j
      BY <1>1, <2>2
    <3> QED
      BY <3>1
  <2> QED
    BY <1>1, <2>1, <2>2
<1> HIDE DEF old
<1>4. IsInjective(r)
  <2> SUFFICES ASSUME NEW i \in 1 .. Len(s) - 1, NEW j \in 1 .. Len(s) - 1, r[i] = r[j]
               PROVE  i = j
    BY <1>1 DEF IsInjective
  <2>1. old(i) = old(j)
    BY <1>1, <1>2
  <2> QED
    BY <1>2, <2>1
<1>5. ToSet(r) \subseteq ToSet(s) \ {s[at]}
  BY <1>1, <1>2 DEF ToSet
<1>6. ASSUME NEW x \in ToSet(s), x # s[at] PROVE x \in ToSet(r)
  <2>1. PICK j \in 1 .. Len(s) : x = s[j]
    BY <1>1 DEF ToSet
  <2>2. PICK i \in 1 .. Len(s) - 1 : old(i) = j
    BY <1>3, <1>6, <2>1
  <2> QED
    BY <1>1, <1>2, <2>1, <2>2 DEF ToSet
<1> QED
  BY <1>4, <1>5, <1>6

\* A list with one taken out of it, wherever it is, if it is there.
LEMMA RemoveLemma ==
    ASSUME NEW S, NEW s \in Seq(S), NEW e, IsInjective(s)
    PROVE  /\ RemoveFirst(s, e) \in Seq(S)
           /\ IsInjective(RemoveFirst(s, e)) /\ ToSet(RemoveFirst(s, e)) = ToSet(s) \ {e}
<1>1. Len(s) \in Nat /\ DOMAIN s = 1 .. Len(s)
  OBVIOUS
<1>2. CASE ~ \E i \in 1 .. Len(s) : s[i] = e
  BY <1>1, <1>2 DEF RemoveFirst, ToSet
<1>3. CASE \E i \in 1 .. Len(s) : s[i] = e
  <2> DEFINE I == {i \in 1 .. Len(s) : s[i] = e}
             r == RemoveFirst(s, e)
  <2>1. \E x \in I : \A y \in I : x <= y
    BY <1>1, <1>3, LeastNat, I # {}, I \subseteq Nat
  <2>2. PICK at \in 1 .. Len(s) : at = Min(I) /\ s[at] = e
    BY <2>1 DEF Min
  <2>3. r = SubSeq(s, 1, at - 1) \o SubSeq(s, at + 1, Len(s))
    BY <1>3, <2>2 DEF RemoveFirst, RemoveAt, SelectInSeq
  <2> HIDE DEF r
  <2>4. r \in Seq(S) /\ Gone(r, s, at)
    <3> DEFINE a == SubSeq(s, 1, at - 1)
               b == SubSeq(s, at + 1, Len(s))
    <3>1. at \in 1 .. Len(s) /\ Len(s) \in Nat
      BY <1>1
    <3>2. a \in Seq(S) /\ Len(a) = at - 1 /\ \A i \in 1 .. at - 1 : a[i] = s[i]
      BY ONLY <3>1, s \in Seq(S)
    <3>3. b \in Seq(S) /\ Len(b) = Len(s) - at /\ \A i \in 1 .. Len(s) - at : b[i] = s[i + at]
      BY ONLY <3>1, s \in Seq(S)
    <3>4. r = a \o b
      BY <2>3
    <3> HIDE DEF a, b
    <3>5. a \in Seq(S) /\ b \in Seq(S)
      BY <3>2, <3>3
    <3>6. /\ r \in Seq(S) /\ Len(r) = Len(a) + Len(b)
          /\ \A i \in 1 .. Len(a) : r[i] = a[i]
          /\ \A i \in Len(a) + 1 .. Len(a) + Len(b) : r[i] = b[i - Len(a)]
      BY ONLY <3>4, <3>5
    <3>7. Len(a) = at - 1 /\ Len(b) = Len(s) - at /\ Len(s) \in Nat /\ at \in Nat
      BY <3>1, <3>2, <3>3
    <3>8. Len(r) = Len(s) - 1
      BY ONLY <3>6, <3>7
    <3>9. ASSUME NEW i \in 1 .. Len(s) - 1
          PROVE  r[i] = IF i < at THEN s[i] ELSE s[i + 1]
      <4>1. CASE i < at
        <5>1. i \in 1 .. at - 1 /\ i \in 1 .. Len(a)
          BY <3>7, <4>1
        <5> QED
          BY <3>2, <3>6, <4>1, <5>1
      <4>2. CASE i >= at
        <5>1. i - (at - 1) \in 1 .. Len(s) - at /\ (i - (at - 1)) + at = i + 1
              /\ i - Len(a) = i - (at - 1) /\ i \in Len(a) + 1 .. Len(a) + Len(b)
          BY <3>1, <3>7, <4>2
        <5>2. b[i - (at - 1)] = s[i + 1] /\ r[i] = b[i - Len(a)]
          BY <3>3, <3>6, <5>1
        <5> QED
          BY <3>7, <4>2, <5>1, <5>2
      <4> QED
        BY <3>7, <4>1, <4>2
    <3> QED
      BY <3>6, <3>8, <3>9 DEF Gone
  <2> QED
    BY <2>2, <2>4, GoneLemma DEF r
<1> QED
  BY <1>2, <1>3

\* A list with one more at its end.
LEMMA AppendLemma ==
    ASSUME NEW S, NEW s \in Seq(S), NEW e \in S, IsInjective(s), e \notin ToSet(s)
    PROVE  /\ Append(s, e) \in Seq(S) /\ IsInjective(Append(s, e))
           /\ ToSet(Append(s, e)) = ToSet(s) \cup {e}
<1> DEFINE r == Append(s, e)
<1>1. /\ r \in Seq(S) /\ Len(s) \in Nat /\ DOMAIN s = 1 .. Len(s) /\ DOMAIN r = 1 .. Len(s) + 1
      /\ r[Len(s) + 1] = e /\ \A i \in 1 .. Len(s) : r[i] = s[i]
  OBVIOUS
<1> HIDE DEF r
<1>2. ASSUME NEW i \in 1 .. Len(s) + 1
      PROVE  i = Len(s) + 1 \/ (i \in 1 .. Len(s) /\ r[i] \in ToSet(s))
  BY <1>1 DEF ToSet
<1>3. ToSet(r) = ToSet(s) \cup {e}
  BY <1>1, <1>2 DEF ToSet
<1>4. IsInjective(r)
  BY <1>1, <1>2 DEF IsInjective
<1> QED
  BY <1>1, <1>3, <1>4 DEF r

-----------------------------------------------------------------------------
(* Event flags: the walk of rt_event_send over the suspended threads.      *)

\* The walk at place k, from the one before.
WalkStep(flags, f, k) ==
    IF k = 0 THEN [set |-> set \cup flags, got |-> event_set, list |-> suspend_thread]
    ELSE Visit(f[k - 1], suspend_thread[k])

\* There is a function that satisfies the recursion, however long the list is.
LEMMA WalkFunction ==
    ASSUME NEW flags, NEW n \in Nat
    PROVE  \E f : f = [k \in 0 .. n |-> WalkStep(flags, f, k)]
<1> DEFINE Has(m) == \E f : f = [k \in 0 .. m |-> WalkStep(flags, f, k)]
           Good == {m \in Nat : Has(m)}
<1>1. Has(0)
  <2> DEFINE f == [k \in 0 .. 0 |-> WalkStep(flags, <<>>, 0)]
  <2>1. f = [k \in 0 .. 0 |-> WalkStep(flags, f, k)]
    BY DEF WalkStep
  <2> QED
    BY <2>1
<1>2. ASSUME NEW m \in Nat, Has(m) PROVE Has(m + 1)
  <2>1. PICK f : f = [k \in 0 .. m |-> WalkStep(flags, f, k)]
    BY <1>2
  <2> DEFINE g == [k \in 0 .. m + 1 |-> IF k = m + 1 THEN WalkStep(flags, f, m + 1) ELSE f[k]]
  <2>2. ASSUME NEW k \in 0 .. m + 1 PROVE g[k] = WalkStep(flags, g, k)
    <3>1. k # 0 => g[k - 1] = f[k - 1]
      OBVIOUS
    <3>2. WalkStep(flags, g, k) = WalkStep(flags, f, k)
      <4> HIDE DEF g
      <4> QED
        BY <3>1 DEF WalkStep
    <3>3. CASE k = m + 1
      BY <3>2, <3>3
    <3>4. CASE k # m + 1
      <4>1. f[k] = WalkStep(flags, f, k)
        BY <3>4, <2>1
      <4> QED
        BY <3>2, <3>4, <4>1
    <3> QED
      BY <3>3, <3>4
  <2>3. g = [k \in 0 .. m + 1 |-> WalkStep(flags, g, k)]
    BY <2>2
  <2> QED
    BY <2>3
<1> HIDE DEF Has
<1>3. 0 \in Good /\ \A m \in Nat : m \in Good => m + 1 \in Good
  BY <1>1, <1>2
<1> HIDE DEF Good
<1>4. Nat \subseteq Good
  BY <1>3, NatSetInduction
<1> QED
  BY <1>4 DEF Has, Good

LEMMA WalkIs ==
    ASSUME NEW flags, Len(suspend_thread) \in Nat
    PROVE  \E f : /\ \A k \in 0 .. Len(suspend_thread) : f[k] = WalkStep(flags, f, k)
                  /\ Walked(flags) = f[Len(suspend_thread)]
<1> DEFINE walk == CHOOSE f : f = [k \in 0 .. Len(suspend_thread) |-> WalkStep(flags, f, k)]
<1>1. walk = [k \in 0 .. Len(suspend_thread) |-> WalkStep(flags, walk, k)]
  BY WalkFunction
<1>2. Walked(flags) = walk[Len(suspend_thread)]
  BY DEF Walked, WalkStep
<1> HIDE DEF walk
<1> QED
  BY <1>1, <1>2

\* More flags satisfy whoever fewer do.
LEMMA SatisfiedMore ==
    ASSUME NEW have, NEW more, have \subseteq more, NEW want, NEW option, Satisfied(have, want, option)
    PROVE  Satisfied(more, want, option)
  BY DEF Satisfied

Sleepers == ToSet(suspend_thread)

\* What the walk w has done at place j: those behind it are still on the list,
\* those it left there are not satisfied, those it woke got what they asked for,
\* and what one of them cleared is neither left nor given to one behind.
WalkTypes(w) ==
    /\ w.set \subseteq Flags /\ w.got \in [Threads -> SUBSET Flags]
    /\ w.list \in Seq(Threads) /\ IsInjective(w.list) /\ ToSet(w.list) \subseteq Sleepers

Behind(w, j) == \A k \in DOMAIN suspend_thread : k > j => suspend_thread[k] \in ToSet(w.list)

Untouched(w) ==
    \A t \in Threads : t \in ToSet(w.list) \/ t \notin Sleepers => w.got[t] = event_set[t]

PassedOver(w, j) ==
    \A k \in DOMAIN suspend_thread :
        LET t == suspend_thread[k]
        IN  k <= j /\ t \in ToSet(w.list) => ~Satisfied(w.set, event_set[t], event_info[t])

Given(w) ==
    \A t \in Sleepers \ ToSet(w.list) :
        /\ w.got[t] \subseteq event_set[t] /\ w.got[t] # {}
        /\ event_info[t].all => w.got[t] = event_set[t]
        /\ event_info[t].clear => w.got[t] \cap w.set = {}

Parted(w) ==
    \A m, k \in DOMAIN suspend_thread :
        LET t == suspend_thread[m]
            u == suspend_thread[k]
        IN  m < k /\ t \notin ToSet(w.list) /\ u \notin ToSet(w.list) /\ event_info[t].clear =>
               w.got[t] \cap w.got[u] = {}

WalkInv(w, j) ==
    WalkTypes(w) /\ Behind(w, j) /\ Untouched(w) /\ PassedOver(w, j) /\ Given(w) /\ Parted(w)

EventInv == EventTypeOK /\ NoSleeperSatisfied /\ ReceivedAsAsked /\ SleepersAsAsked

\* One turn of the loop.
LEMMA VisitStep ==
    ASSUME EventInv, NEW j \in Nat, j + 1 \in DOMAIN suspend_thread, NEW w, WalkInv(w, j)
    PROVE  WalkInv(Visit(w, suspend_thread[j + 1]), j + 1)
<1> DEFINE t == suspend_thread[j + 1]
           v == Visit(w, t)
           rest == RemoveFirst(w.list, t)
           got == event_set[t] \cap w.set
<1>1. /\ suspend_thread \in Seq(Threads) /\ IsInjective(suspend_thread)
      /\ Sleepers = {u \in Threads : pc[u] = "suspended"}
      /\ event_set \in [Threads -> SUBSET Flags] /\ event_info \in [Threads -> Options]
  BY DEF EventInv, EventTypeOK, Sleepers
<1>2. /\ DOMAIN suspend_thread = 1 .. Len(suspend_thread) /\ Len(suspend_thread) \in Nat
      /\ \A k, m \in DOMAIN suspend_thread : suspend_thread[k] = suspend_thread[m] => k = m
      /\ \A k \in DOMAIN suspend_thread : suspend_thread[k] \in Sleepers
  BY <1>1 DEF IsInjective, Sleepers, ToSet
<1>3. t \in Threads /\ t \in Sleepers /\ t \in ToSet(w.list)
  <2>1. t \in Sleepers
    BY <1>2
  <2>2. t \in ToSet(w.list)
    BY <1>2 DEF WalkInv, Behind
  <2> QED
    BY <1>1, <2>1, <2>2
<1>4. event_set[t] # {}
  BY <1>1, <1>3 DEF EventInv, SleepersAsAsked
<1>5. /\ WalkTypes(w) /\ Behind(w, j) /\ Untouched(w) /\ PassedOver(w, j) /\ Given(w) /\ Parted(w)
  BY DEF WalkInv
<1>6. CASE ~Satisfied(w.set, event_set[t], event_info[t])
  <2>1. v = w
    BY <1>6 DEF Visit
  <2>2. Behind(w, j + 1)
    BY <1>2, <1>5 DEF Behind
  <2>3. PassedOver(w, j + 1)
    <3> SUFFICES ASSUME NEW k \in DOMAIN suspend_thread, k <= j + 1,
                        suspend_thread[k] \in ToSet(w.list)
                 PROVE  ~Satisfied(w.set, event_set[suspend_thread[k]], event_info[suspend_thread[k]])
      BY DEF PassedOver
    <3>1. CASE k = j + 1
      BY <1>6, <3>1
    <3>2. CASE k <= j
      BY <1>5, <3>2, Zenon DEF PassedOver
    <3> QED
      BY <1>2, <3>1, <3>2
  <2> QED
    BY <1>5, <2>1, <2>2, <2>3 DEF WalkInv
<1>7. CASE Satisfied(w.set, event_set[t], event_info[t])
  <2>1. /\ v.set = IF event_info[t].clear THEN w.set \ got ELSE w.set
        /\ v.got = [w.got EXCEPT ![t] = got]
        /\ v.list = rest
    BY <1>7 DEF Visit
  <2>2. rest \in Seq(Threads) /\ IsInjective(rest) /\ ToSet(rest) = ToSet(w.list) \ {t}
    BY <1>5, RemoveLemma DEF WalkTypes
  <2> HIDE DEF v, rest
  <2>3. /\ v.set \subseteq w.set /\ (event_info[t].clear => v.set \cap got = {})
        /\ v.got[t] = got /\ \A u \in Threads : u # t => v.got[u] = w.got[u]
        /\ v.got \in [Threads -> SUBSET Flags]
    <3>1. w.got \in [Threads -> SUBSET Flags] /\ got \subseteq Flags
      BY <1>5 DEF WalkTypes
    <3> QED
      BY <1>3, <2>1, <3>1
  <2>4. /\ got \subseteq event_set[t] /\ got \subseteq w.set /\ got # {}
        /\ event_info[t].all => got = event_set[t]
    BY <1>4, <1>7 DEF Satisfied
  <2> HIDE DEF got
  <2>5. WalkTypes(v)
    BY <1>5, <2>1, <2>2, <2>3 DEF WalkTypes
  <2>6. Behind(v, j + 1)
    <3> SUFFICES ASSUME NEW k \in DOMAIN suspend_thread, k > j + 1
                 PROVE  suspend_thread[k] \in ToSet(v.list)
      BY DEF Behind
    <3>1. k > j /\ k # j + 1
      BY <1>2
    <3> QED
      BY <1>2, <1>5, <2>1, <2>2, <3>1 DEF Behind
  <2>7. Untouched(v)
    BY <1>3, <1>5, <2>1, <2>2, <2>3 DEF Untouched
  <2>8. PassedOver(v, j + 1)
    <3> SUFFICES ASSUME NEW k \in DOMAIN suspend_thread, k <= j + 1,
                        suspend_thread[k] \in ToSet(v.list)
                 PROVE  ~Satisfied(v.set, event_set[suspend_thread[k]], event_info[suspend_thread[k]])
      BY DEF PassedOver
    <3>1. suspend_thread[k] \in ToSet(w.list) /\ k # j + 1
      BY <2>1, <2>2
    <3>2. k <= j
      BY <1>2, <3>1
    <3>3. ~Satisfied(w.set, event_set[suspend_thread[k]], event_info[suspend_thread[k]])
      BY <1>5, <3>1, <3>2, Zenon DEF PassedOver
    <3> QED
      BY <2>3, <3>3, SatisfiedMore
  <2>9. Given(v)
    <3> SUFFICES ASSUME NEW u \in Sleepers \ ToSet(v.list)
                 PROVE  /\ v.got[u] \subseteq event_set[u] /\ v.got[u] # {}
                        /\ event_info[u].all => v.got[u] = event_set[u]
                        /\ event_info[u].clear => v.got[u] \cap v.set = {}
      BY DEF Given
    <3>1. CASE u = t
      BY <2>3, <2>4, <3>1
    <3>2. CASE u # t
      <4>1. u \in Sleepers \ ToSet(w.list) /\ v.got[u] = w.got[u]
        BY <1>1, <2>1, <2>2, <2>3, <3>2
      <4>2. /\ w.got[u] \subseteq event_set[u] /\ w.got[u] # {}
            /\ event_info[u].all => w.got[u] = event_set[u]
            /\ event_info[u].clear => w.got[u] \cap w.set = {}
        BY <1>5, <4>1, Zenon DEF Given
      <4> QED
        BY <2>3, <4>1, <4>2
    <3> QED
      BY <3>1, <3>2
  <2>10. Parted(v)
    <3> SUFFICES ASSUME NEW m \in DOMAIN suspend_thread, NEW k \in DOMAIN suspend_thread, m < k,
                        suspend_thread[m] \notin ToSet(v.list),
                        suspend_thread[k] \notin ToSet(v.list),
                        event_info[suspend_thread[m]].clear
                 PROVE  v.got[suspend_thread[m]] \cap v.got[suspend_thread[k]] = {}
      BY DEF Parted
    <3> DEFINE a == suspend_thread[m]
               b == suspend_thread[k]
    <3>1. a \in Sleepers /\ b \in Sleepers /\ a # b /\ a \in Threads /\ b \in Threads
      BY <1>1, <1>2
    <3>2. m # j + 1
      BY <1>2, <2>6 DEF Behind
    <3>3. a # t
      BY <1>2, <3>2
    <3>4. a \notin ToSet(w.list) /\ v.got[a] = w.got[a]
      BY <2>1, <2>2, <2>3, <3>1, <3>3
    <3>5. CASE b = t
      <4>1. w.got[a] \cap w.set = {}
        BY <1>5, <3>1, <3>4 DEF Given
      <4> QED
        BY <2>3, <2>4, <3>4, <3>5, <4>1
    <3>6. CASE b # t
      <4>1. b \notin ToSet(w.list) /\ v.got[b] = w.got[b]
        BY <2>1, <2>2, <2>3, <3>1, <3>6
      <4>2. w.got[a] \cap w.got[b] = {}
        BY <1>5, <3>4, <4>1 DEF Parted
      <4> QED
        BY <3>4, <4>1, <4>2
    <3> QED
      BY <3>5, <3>6
  <2> QED
    BY <2>5, <2>6, <2>7, <2>8, <2>9, <2>10 DEF WalkInv, v
<1> QED
  BY <1>6, <1>7

\* What the loop leaves.
LEMMA WalkedLemma ==
    ASSUME EventInv, NEW flags, flags \subseteq Flags
    PROVE  WalkInv(Walked(flags), Len(suspend_thread))
<1>1. /\ suspend_thread \in Seq(Threads) /\ IsInjective(suspend_thread)
      /\ Sleepers = {u \in Threads : pc[u] = "suspended"} /\ set \subseteq Flags
      /\ event_set \in [Threads -> SUBSET Flags]
      /\ DOMAIN suspend_thread = 1 .. Len(suspend_thread) /\ Len(suspend_thread) \in Nat
  BY DEF EventInv, EventTypeOK, Sleepers
<1>2. PICK f : /\ \A k \in 0 .. Len(suspend_thread) : f[k] = WalkStep(flags, f, k)
               /\ Walked(flags) = f[Len(suspend_thread)]
  BY <1>1, WalkIs
<1> DEFINE Good == {k \in Nat : k <= Len(suspend_thread) => WalkInv(f[k], k)}
<1>3. 0 \in Good
  <2>1. f[0] = [set |-> set \cup flags, got |-> event_set, list |-> suspend_thread]
    <3>1. 0 \in 0 .. Len(suspend_thread)
      BY <1>1
    <3> QED
      BY <1>2, <3>1 DEF WalkStep
  <2>2. f[0].set = set \cup flags /\ f[0].got = event_set /\ f[0].list = suspend_thread
    BY <2>1
  <2>3. WalkTypes(f[0])
    BY <1>1, <2>2 DEF WalkTypes, Sleepers
  <2>4. Behind(f[0], 0)
    BY <2>2 DEF Behind, ToSet
  <2>5. Untouched(f[0])
    BY <2>2 DEF Untouched
  <2>6. PassedOver(f[0], 0)
    BY <1>1 DEF PassedOver
  <2>7. ToSet(f[0].list) = Sleepers /\ \A k \in DOMAIN suspend_thread : suspend_thread[k] \in Sleepers
    BY <2>2 DEF Sleepers, ToSet
  <2>8. Given(f[0])
    BY <2>7 DEF Given
  <2>9. Parted(f[0])
    BY <2>7 DEF Parted
  <2> QED
    BY <2>3, <2>4, <2>5, <2>6, <2>8, <2>9 DEF WalkInv
<1>4. ASSUME NEW k \in Nat, k \in Good PROVE k + 1 \in Good
  <2> SUFFICES ASSUME k + 1 <= Len(suspend_thread) PROVE WalkInv(f[k + 1], k + 1)
    OBVIOUS
  <2>1. WalkInv(f[k], k) /\ k + 1 \in DOMAIN suspend_thread
    BY <1>1, <1>4
  <2>2. k + 1 \in 0 .. Len(suspend_thread) /\ k + 1 # 0 /\ (k + 1) - 1 = k
    BY <1>1
  <2>3. f[k + 1] = Visit(f[k], suspend_thread[k + 1])
    BY <1>2, <2>2 DEF WalkStep
  <2> QED
    BY <2>1, <2>3, VisitStep
<1> HIDE DEF Good
<1>5. Nat \subseteq Good
  BY <1>3, <1>4, NatSetInduction
<1>6. WalkInv(f[Len(suspend_thread)], Len(suspend_thread))
  BY <1>1, <1>5 DEF Good
<1> QED
  BY <1>2, <1>6

-----------------------------------------------------------------------------
(* Event flags: the invariant, step by step.                               *)

LEMMA EventInvInit == EventInit => EventInv
<1> SUFFICES ASSUME EventInit PROVE EventInv
  OBVIOUS
<1>1. suspend_thread = <<>> /\ ToSet(<<>>) = {} /\ IsInjective(<<>>) /\ <<>> \in Seq(Threads)
  BY DEF EventInit, ToSet, IsInjective
<1>2. \A t \in Threads : pc[t] = "outside" /\ asked[t] = {}
  BY DEF EventInit
<1>3. EventTypeOK
  BY <1>1, <1>2 DEF EventInit, EventTypeOK, Options
<1> QED
  BY <1>2, <1>3 DEF EventInv, NoSleeperSatisfied, ReceivedAsAsked, SleepersAsAsked

\* What a send does to those that sleep and to those that do not.
LEMMA SendLemma ==
    ASSUME EventInv, NEW flags, flags \subseteq Flags, Send(flags)
    PROVE  LET w == Walked(flags)
           IN  /\ WalkInv(w, Len(suspend_thread))
               /\ set' = w.set /\ event_set' = w.got /\ suspend_thread' = w.list
               /\ UNCHANGED <<event_info, asked, error, timeout>>
               /\ pc' \in [Threads -> {"outside", "suspended", "woken"}]
               /\ \A t \in Threads : pc'[t] = "suspended" <=> t \in ToSet(w.list)
               /\ \A t \in Threads : t \notin Sleepers => pc'[t] = pc[t] /\ w.got[t] = event_set[t]
               /\ \A t \in Threads : t \in Sleepers <=> pc[t] = "suspended"
<1> DEFINE w == Walked(flags)
<1>1. WalkInv(w, Len(suspend_thread))
  BY WalkedLemma
<1> HIDE DEF w
<1>2. /\ set' = w.set /\ event_set' = w.got /\ suspend_thread' = w.list
      /\ pc' = [t \in Threads |->
                  IF pc[t] = "suspended" /\ t \notin ToSet(w.list) THEN "woken" ELSE pc[t]]
      /\ UNCHANGED <<event_info, asked, error, timeout>>
  BY DEF Send, w
<1>3. Sleepers = {t \in Threads : pc[t] = "suspended"}
      /\ pc \in [Threads -> {"outside", "suspended", "woken"}]
  BY DEF EventInv, EventTypeOK, Sleepers
<1>4. ToSet(w.list) \subseteq Sleepers
  BY <1>1 DEF WalkInv, WalkTypes
<1>5. \A t \in Threads : t \notin Sleepers => w.got[t] = event_set[t]
  BY <1>1 DEF WalkInv, Untouched
<1>6. pc' \in [Threads -> {"outside", "suspended", "woken"}]
  BY <1>2, <1>3
<1>7. \A t \in Threads : pc'[t] = "suspended" <=> t \in ToSet(w.list)
  BY <1>2, <1>3, <1>4
<1>8. \A t \in Threads : t \notin Sleepers => pc'[t] = pc[t]
  BY <1>2, <1>3
<1> QED
  BY <1>1, <1>2, <1>3, <1>5, <1>6, <1>7, <1>8 DEF w

LEMMA SendStep ==
    ASSUME EventInv, NEW flags, flags \subseteq Flags, Send(flags)
    PROVE  EventInv'
<1> DEFINE w == Walked(flags)
<1>1. /\ WalkInv(w, Len(suspend_thread))
      /\ set' = w.set /\ event_set' = w.got /\ suspend_thread' = w.list
      /\ UNCHANGED <<event_info, asked, error, timeout>>
      /\ pc' \in [Threads -> {"outside", "suspended", "woken"}]
      /\ \A t \in Threads : pc'[t] = "suspended" <=> t \in ToSet(w.list)
      /\ \A t \in Threads : t \notin Sleepers => pc'[t] = pc[t] /\ w.got[t] = event_set[t]
      /\ \A t \in Threads : t \in Sleepers <=> pc[t] = "suspended"
  BY SendLemma
<1> HIDE DEF w
<1>2. EventTypeOK /\ ReceivedAsAsked /\ SleepersAsAsked
  BY DEF EventInv
<1>3. WalkTypes(w) /\ Untouched(w) /\ PassedOver(w, Len(suspend_thread)) /\ Given(w)
  BY <1>1 DEF WalkInv
<1>4. suspend_thread \in Seq(Threads)
  BY <1>2 DEF EventTypeOK
<1>5. EventTypeOK'
  <2>1. ToSet(w.list) = {t \in Threads : pc'[t] = "suspended"}
    <3>1. ToSet(w.list) \subseteq Threads
      BY <1>3 DEF WalkTypes, ToSet
    <3> QED
      BY <1>1, <3>1
  <2> QED
    BY <1>1, <1>2, <1>3, <2>1 DEF EventTypeOK, WalkTypes
<1>6. ASSUME NEW t \in Threads, pc'[t] = "suspended"
      PROVE  /\ t \in Sleepers /\ pc[t] = "suspended" /\ t \in ToSet(w.list)
             /\ event_set'[t] = event_set[t]
             /\ ~Satisfied(set', event_set'[t], event_info'[t])
  <2>1. t \in ToSet(w.list) /\ t \in Sleepers /\ pc[t] = "suspended"
    BY <1>1, <1>3, <1>6 DEF WalkTypes
  <2>2. event_set'[t] = event_set[t]
    BY <1>1, <1>3, <2>1 DEF Untouched
  <2>3. PICK k \in DOMAIN suspend_thread : suspend_thread[k] = t
    BY <2>1 DEF Sleepers, ToSet
  <2>4. k <= Len(suspend_thread)
    BY <1>4, <2>3
  <2>5. ~Satisfied(w.set, event_set[t], event_info[t])
    BY <1>3, <2>1, <2>3, <2>4 DEF PassedOver
  <2> QED
    BY <1>1, <2>1, <2>2, <2>5
<1>7. NoSleeperSatisfied'
  BY <1>5, <1>6 DEF NoSleeperSatisfied
<1>8. SleepersAsAsked'
  BY <1>1, <1>2, <1>6 DEF SleepersAsAsked
<1>9. ReceivedAsAsked'
  <2> SUFFICES ASSUME NEW t \in Threads, pc'[t] # "suspended", error[t] = "OK", asked[t] # {}
               PROVE  /\ w.got[t] \subseteq asked[t] /\ w.got[t] # {}
                      /\ event_info[t].all => w.got[t] = asked[t]
    BY <1>1 DEF ReceivedAsAsked
  <2>1. CASE t \in Sleepers
    <3>1. t \in Sleepers \ ToSet(w.list)
      BY <1>1, <2>1
    <3>2. event_set[t] = asked[t]
      BY <1>1, <1>2, <2>1 DEF SleepersAsAsked
    <3> QED
      BY <1>3, <3>1, <3>2 DEF Given
  <2>2. CASE t \notin Sleepers
    <3>1. pc[t] # "suspended" /\ w.got[t] = event_set[t]
      BY <1>1, <2>2
    <3> QED
      BY <1>2, <3>1 DEF ReceivedAsAsked
  <2> QED
    BY <2>1, <2>2
<1> QED
  BY <1>5, <1>7, <1>8, <1>9 DEF EventInv

LEMMA ReceiveNowStep ==
    ASSUME EventInv, NEW t \in Threads, NEW flags \in (SUBSET Flags) \ {{}}, NEW option \in Options,
           ReceiveNow(t, flags, option)
    PROVE  EventInv'
<1>1. /\ EventTypeOK /\ ReceivedAsAsked /\ SleepersAsAsked
      /\ \A u \in Threads : pc[u] = "suspended" => ~Satisfied(set, event_set[u], event_info[u])
  BY DEF EventInv, NoSleeperSatisfied
<1>2. /\ pc[t] = "outside" /\ Satisfied(set, flags, option)
      /\ event_set' = [event_set EXCEPT ![t] = set \cap flags]
      /\ event_info' = [event_info EXCEPT ![t] = option]
      /\ asked' = [asked EXCEPT ![t] = flags] /\ error' = [error EXCEPT ![t] = "OK"]
      /\ set' \subseteq set
      /\ UNCHANGED <<suspend_thread, pc, timeout>>
  BY DEF ReceiveNow
<1>3. EventTypeOK'
  BY <1>1, <1>2 DEF EventTypeOK
<1>4. ASSUME NEW u \in Threads, u # t
      PROVE  /\ event_set'[u] = event_set[u] /\ event_info'[u] = event_info[u]
             /\ asked'[u] = asked[u] /\ error'[u] = error[u] /\ pc'[u] = pc[u]
  BY <1>1, <1>2, <1>4 DEF EventTypeOK
<1>5. /\ event_set'[t] = set \cap flags /\ event_info'[t] = option /\ asked'[t] = flags
      /\ pc'[t] = "outside"
  BY <1>1, <1>2 DEF EventTypeOK
<1>6. \A u \in Threads : pc'[u] = "suspended" => u # t /\ pc[u] = "suspended"
  BY <1>2
<1>7. NoSleeperSatisfied'
  <2>1. ASSUME NEW u \in Threads, pc'[u] = "suspended"
        PROVE  ~Satisfied(set', event_set'[u], event_info'[u])
    <3>1. ~Satisfied(set, event_set[u], event_info[u])
      BY <1>1, <1>6, <2>1
    <3> QED
      BY <1>2, <1>4, <1>6, <2>1, <3>1, SatisfiedMore
  <2> QED
    BY <1>3, <2>1 DEF NoSleeperSatisfied
<1>8. SleepersAsAsked'
  BY <1>1, <1>4, <1>6 DEF SleepersAsAsked
<1>9. /\ set \cap flags \subseteq flags /\ set \cap flags # {}
      /\ option.all => set \cap flags = flags
  <2>1. flags # {}
    OBVIOUS
  <2>2. CASE option.all
    <3>1. flags \subseteq set
      BY <1>2, <2>2 DEF Satisfied
    <3>2. set \cap flags = flags
      BY <3>1
    <3> QED
      BY <2>1, <3>2
  <2>3. CASE ~option.all
    BY <1>2, <2>3 DEF Satisfied
  <2> QED
    BY <2>2, <2>3
<1>10. ReceivedAsAsked'
  <2> SUFFICES ASSUME NEW u \in Threads, pc'[u] # "suspended", error'[u] = "OK", asked'[u] # {}
               PROVE  /\ event_set'[u] \subseteq asked'[u] /\ event_set'[u] # {}
                      /\ event_info'[u].all => event_set'[u] = asked'[u]
    BY DEF ReceivedAsAsked
  <2>1. CASE u = t
    BY <1>5, <1>9, <2>1
  <2>2. CASE u # t
    BY <1>1, <1>4, <2>2 DEF ReceivedAsAsked
  <2> QED
    BY <2>1, <2>2
<1> QED
  BY <1>3, <1>7, <1>8, <1>10 DEF EventInv

LEMMA ReceiveLaterStep ==
    ASSUME EventInv, NEW t \in Threads, NEW flags \in (SUBSET Flags) \ {{}}, NEW option \in Options,
           NEW limit \in Timeouts, ReceiveLater(t, flags, option, limit)
    PROVE  EventInv'
<1>1. /\ EventTypeOK /\ ReceivedAsAsked /\ SleepersAsAsked
      /\ \A u \in Threads : pc[u] = "suspended" => ~Satisfied(set, event_set[u], event_info[u])
  BY DEF EventInv, NoSleeperSatisfied
<1>2. pc[t] = "outside" /\ ~Satisfied(set, flags, option) /\ set' = set
  BY DEF ReceiveLater
<1>3. CASE limit = "zero"
  <2>1. /\ error' = [error EXCEPT ![t] = "TIMEOUT"]
        /\ UNCHANGED <<suspend_thread, pc, event_set, event_info, asked, timeout>>
    BY <1>3 DEF ReceiveLater
  <2>2. EventTypeOK'
    BY <1>1, <1>2, <2>1 DEF EventTypeOK
  <2>3. error'[t] # "OK" /\ \A u \in Threads : u # t => error'[u] = error[u]
    BY <1>1, <2>1 DEF EventTypeOK
  <2>4. NoSleeperSatisfied'
    BY <1>1, <1>2, <2>1, <2>2 DEF NoSleeperSatisfied
  <2>5. SleepersAsAsked'
    BY <1>1, <1>2, <2>1, <2>3 DEF SleepersAsAsked
  <2>6. ReceivedAsAsked'
    BY <1>1, <2>1, <2>3 DEF ReceivedAsAsked
  <2> QED
    BY <2>2, <2>4, <2>5, <2>6 DEF EventInv
<1>4. CASE limit # "zero"
  <2>1. /\ error' = [error EXCEPT ![t] = "OK"]
        /\ event_set' = [event_set EXCEPT ![t] = flags]
        /\ event_info' = [event_info EXCEPT ![t] = option]
        /\ asked' = [asked EXCEPT ![t] = flags]
        /\ timeout' = [timeout EXCEPT ![t] = limit]
        /\ suspend_thread' = Append(suspend_thread, t)
        /\ pc' = [pc EXCEPT ![t] = "suspended"]
    BY <1>4 DEF ReceiveLater
  <2>2. /\ suspend_thread \in Seq(Threads) /\ IsInjective(suspend_thread)
        /\ ToSet(suspend_thread) = {u \in Threads : pc[u] = "suspended"}
        /\ pc \in [Threads -> {"outside", "suspended", "woken"}]
    BY <1>1 DEF EventTypeOK
  <2>3. t \notin ToSet(suspend_thread)
    BY <1>2, <2>2
  <2>4. /\ suspend_thread' \in Seq(Threads) /\ IsInjective(suspend_thread')
        /\ ToSet(suspend_thread') = ToSet(suspend_thread) \cup {t}
    BY <2>1, <2>2, <2>3, AppendLemma
  <2>5. /\ pc' \in [Threads -> {"outside", "suspended", "woken"}]
        /\ ToSet(suspend_thread') = {u \in Threads : pc'[u] = "suspended"}
    BY <2>1, <2>2, <2>4
  <2>6. EventTypeOK'
    <3>1. limit \in {"zero", "finite", "forever"}
      BY TimeoutAssumption
    <3> QED
      BY <1>1, <1>2, <2>1, <2>4, <2>5, <3>1 DEF EventTypeOK
  <2>7. ASSUME NEW u \in Threads, u # t
        PROVE  /\ event_set'[u] = event_set[u] /\ event_info'[u] = event_info[u]
               /\ asked'[u] = asked[u] /\ error'[u] = error[u] /\ pc'[u] = pc[u]
    BY <1>1, <2>1, <2>7 DEF EventTypeOK
  <2>8. /\ event_set'[t] = flags /\ event_info'[t] = option /\ asked'[t] = flags
        /\ error'[t] = "OK" /\ pc'[t] = "suspended"
    BY <1>1, <2>1 DEF EventTypeOK
  <2>9. NoSleeperSatisfied'
    BY <1>1, <1>2, <2>6, <2>7, <2>8 DEF NoSleeperSatisfied
  <2>10. SleepersAsAsked'
    <3> SUFFICES ASSUME NEW u \in Threads, pc'[u] = "suspended"
                 PROVE  error'[u] = "OK" /\ event_set'[u] = asked'[u] /\ asked'[u] # {}
      BY DEF SleepersAsAsked
    <3>1. flags # {}
      OBVIOUS
    <3>2. CASE u = t
      BY <2>8, <3>1, <3>2
    <3>3. CASE u # t
      BY <1>1, <2>7, <3>3 DEF SleepersAsAsked
    <3> QED
      BY <3>2, <3>3
  <2>11. ReceivedAsAsked'
    BY <1>1, <2>7, <2>8 DEF ReceivedAsAsked
  <2> QED
    BY <2>6, <2>9, <2>10, <2>11 DEF EventInv
<1> QED
  BY <1>3, <1>4

LEMMA ReturnStep ==
    ASSUME EventInv, NEW t \in Threads, Return(t)
    PROVE  EventInv'
<1>1. /\ EventTypeOK /\ ReceivedAsAsked /\ SleepersAsAsked
      /\ \A u \in Threads : pc[u] = "suspended" => ~Satisfied(set, event_set[u], event_info[u])
  BY DEF EventInv, NoSleeperSatisfied
<1>2. /\ pc[t] = "woken" /\ pc' = [pc EXCEPT ![t] = "outside"]
      /\ timeout' = [timeout EXCEPT ![t] = "zero"]
      /\ UNCHANGED <<set, suspend_thread, event_set, event_info, asked, error>>
  BY DEF Return
<1>3. /\ pc' \in [Threads -> {"outside", "suspended", "woken"}]
      /\ \A u \in Threads : pc'[u] = "suspended" <=> pc[u] = "suspended"
  BY <1>1, <1>2 DEF EventTypeOK
<1>4. EventTypeOK'
  BY <1>1, <1>2, <1>3 DEF EventTypeOK
<1> QED
  BY <1>1, <1>2, <1>3, <1>4 DEF EventInv, NoSleeperSatisfied, ReceivedAsAsked, SleepersAsAsked

LEMMA TimeOutStep ==
    ASSUME EventInv, NEW t \in Threads, TimeOut(t)
    PROVE  EventInv'
<1>1. /\ EventTypeOK /\ ReceivedAsAsked /\ SleepersAsAsked
      /\ \A u \in Threads : pc[u] = "suspended" => ~Satisfied(set, event_set[u], event_info[u])
  BY DEF EventInv, NoSleeperSatisfied
<1>2. /\ pc[t] = "suspended" /\ pc' = [pc EXCEPT ![t] = "woken"]
      /\ error' = [error EXCEPT ![t] = "TIMEOUT"]
      /\ suspend_thread' = RemoveFirst(suspend_thread, t)
      /\ UNCHANGED <<set, event_set, event_info, asked, timeout>>
  BY DEF TimeOut
<1>3. /\ suspend_thread \in Seq(Threads) /\ IsInjective(suspend_thread)
      /\ ToSet(suspend_thread) = {u \in Threads : pc[u] = "suspended"}
      /\ pc \in [Threads -> {"outside", "suspended", "woken"}]
      /\ error \in [Threads -> {"OK", "TIMEOUT", "ERROR"}]
  BY <1>1 DEF EventTypeOK
<1>4. /\ suspend_thread' \in Seq(Threads) /\ IsInjective(suspend_thread')
      /\ ToSet(suspend_thread') = ToSet(suspend_thread) \ {t}
  BY <1>2, <1>3, RemoveLemma
<1>5. /\ pc' \in [Threads -> {"outside", "suspended", "woken"}]
      /\ ToSet(suspend_thread') = {u \in Threads : pc'[u] = "suspended"}
      /\ error' \in [Threads -> {"OK", "TIMEOUT", "ERROR"}]
      /\ pc'[t] = "woken" /\ error'[t] = "TIMEOUT"
      /\ \A u \in Threads : u # t => pc'[u] = pc[u] /\ error'[u] = error[u]
  BY <1>2, <1>3, <1>4
<1>6. EventTypeOK'
  BY <1>1, <1>2, <1>4, <1>5 DEF EventTypeOK
<1>7. NoSleeperSatisfied'
  BY <1>1, <1>2, <1>5, <1>6 DEF NoSleeperSatisfied
<1>8. SleepersAsAsked'
  BY <1>1, <1>2, <1>5 DEF SleepersAsAsked
<1>9. ReceivedAsAsked'
  BY <1>1, <1>2, <1>5 DEF ReceivedAsAsked
<1> QED
  BY <1>6, <1>7, <1>8, <1>9 DEF EventInv

LEMMA ResetEventStep ==
    ASSUME EventInv, ResetEvent
    PROVE  EventInv'
<1>1. EventTypeOK /\ ReceivedAsAsked
  BY DEF EventInv
<1>2. /\ error' = [t \in Threads |-> IF pc[t] = "suspended" THEN "ERROR" ELSE error[t]]
      /\ pc' = [t \in Threads |-> IF pc[t] = "suspended" THEN "woken" ELSE pc[t]]
      /\ suspend_thread' = <<>> /\ set' = {}
      /\ UNCHANGED <<event_set, event_info, asked, timeout>>
  BY DEF ResetEvent
<1>3. /\ pc \in [Threads -> {"outside", "suspended", "woken"}]
      /\ error \in [Threads -> {"OK", "TIMEOUT", "ERROR"}]
  BY <1>1 DEF EventTypeOK
<1>4. /\ pc' \in [Threads -> {"outside", "suspended", "woken"}]
      /\ error' \in [Threads -> {"OK", "TIMEOUT", "ERROR"}]
      /\ \A t \in Threads : pc'[t] # "suspended"
      /\ \A t \in Threads : error'[t] = "OK" => pc[t] # "suspended" /\ error[t] = "OK"
  BY <1>2, <1>3
<1>5. /\ suspend_thread' \in Seq(Threads) /\ IsInjective(suspend_thread')
      /\ ToSet(suspend_thread') = {t \in Threads : pc'[t] = "suspended"}
  <2>1. ToSet(<<>>) = {} /\ IsInjective(<<>>) /\ <<>> \in Seq(Threads)
    BY DEF ToSet, IsInjective
  <2> QED
    BY <1>2, <1>4, <2>1
<1>6. EventTypeOK'
  BY <1>1, <1>2, <1>4, <1>5 DEF EventTypeOK
<1> QED
  BY <1>1, <1>2, <1>4, <1>6 DEF EventInv, NoSleeperSatisfied, ReceivedAsAsked, SleepersAsAsked

LEMMA EventInvStep == EventInv /\ [EventNext]_eventVars => EventInv'
<1> SUFFICES ASSUME EventInv, [EventNext]_eventVars PROVE EventInv'
  OBVIOUS
<1>1. ASSUME NEW flags \in (SUBSET Flags) \ {{}}, Send(flags) PROVE EventInv'
  BY <1>1, SendStep
<1>2. ASSUME NEW flags \in (SUBSET Flags) \ {{}}, NEW t \in Threads, NEW option \in Options,
             ReceiveNow(t, flags, option)
      PROVE  EventInv'
  BY <1>2, ReceiveNowStep
<1>3. ASSUME NEW flags \in (SUBSET Flags) \ {{}}, NEW t \in Threads, NEW option \in Options,
             NEW limit \in Timeouts, ReceiveLater(t, flags, option, limit)
      PROVE  EventInv'
  BY <1>3, ReceiveLaterStep
<1>4. ASSUME NEW t \in Threads, Return(t) PROVE EventInv'
  BY <1>4, ReturnStep
<1>5. ASSUME NEW t \in Threads, TimeOut(t) PROVE EventInv'
  BY <1>5, TimeOutStep
<1>6. CASE ResetEvent
  BY <1>6, ResetEventStep
<1>7. CASE UNCHANGED eventVars
  BY <1>7 DEF eventVars, EventInv, EventTypeOK, NoSleeperSatisfied, ReceivedAsAsked, SleepersAsAsked
<1> QED
  BY <1>1, <1>2, <1>3, <1>4, <1>5, <1>6, <1>7, Zenon DEF EventNext

\* With any number of threads and flags, however they wait and are sent: no
\* thread is left asleep on flags that are there.
THEOREM EventWakes == EventSpec => []NoSleeperSatisfied
<1>1. EventInv => NoSleeperSatisfied
  BY DEF EventInv
<1> QED
  BY <1>1, EventInvInit, EventInvStep, PTL DEF EventSpec

\* With any number of threads and flags, a call that ends without an error
\* returns what was asked for: all of it or some, as asked.
THEOREM EventAnswers == EventSpec => []ReceivedAsAsked
<1>1. EventInv => ReceivedAsAsked
  BY DEF EventInv
<1> QED
  BY <1>1, EventInvInit, EventInvStep, PTL DEF EventSpec

\* The threads a step wakes with an answer are woken by a send.
LEMMA WokenBySend ==
    ASSUME EventInv, EventNext, WokenNow # {}
    PROVE  \E flags \in SUBSET Flags : Send(flags)
<1>1. EventTypeOK
  BY DEF EventInv
<1>2. PICK t \in Threads : pc[t] = "suspended" /\ pc'[t] = "woken" /\ error'[t] = "OK"
  BY DEF WokenNow
<1>3. ASSUME NEW flags \in (SUBSET Flags) \ {{}}, NEW u \in Threads, NEW option \in Options,
             ReceiveNow(u, flags, option)
      PROVE  FALSE
  BY <1>2, <1>3 DEF ReceiveNow
<1>4. ASSUME NEW flags \in (SUBSET Flags) \ {{}}, NEW u \in Threads, NEW option \in Options,
             NEW limit \in Timeouts, ReceiveLater(u, flags, option, limit)
      PROVE  FALSE
  BY <1>1, <1>2, <1>4 DEF ReceiveLater, EventTypeOK
<1>5. ASSUME NEW u \in Threads, Return(u) PROVE FALSE
  BY <1>1, <1>2, <1>5 DEF Return, EventTypeOK
<1>6. ASSUME NEW u \in Threads, TimeOut(u) PROVE FALSE
  BY <1>1, <1>2, <1>6 DEF TimeOut, EventTypeOK
<1>7. ~ResetEvent
  BY <1>1, <1>2 DEF ResetEvent, EventTypeOK
<1> QED
  BY <1>3, <1>4, <1>5, <1>6, <1>7, Zenon DEF EventNext

\* However many threads a send wakes, what one of them clears is given to none
\* behind it and is not left set.
THEOREM EventClears == EventSpec => ClearedOnce
<1> DEFINE A == \A t \in WokenNow : event_info[t].clear =>
                   /\ event_set'[t] \cap set' = {}
                   /\ \A i, j \in DOMAIN suspend_thread :
                        i < j /\ suspend_thread[i] = t /\ suspend_thread[j] \in WokenNow =>
                          event_set'[t] \cap event_set'[suspend_thread[j]] = {}
<1>1. ASSUME EventInv, [EventNext]_eventVars PROVE [A]_eventVars
  <2> SUFFICES ASSUME EventNext, NEW t \in WokenNow, event_info[t].clear
               PROVE  /\ event_set'[t] \cap set' = {}
                      /\ \A i, j \in DOMAIN suspend_thread :
                           i < j /\ suspend_thread[i] = t /\ suspend_thread[j] \in WokenNow =>
                             event_set'[t] \cap event_set'[suspend_thread[j]] = {}
    BY <1>1
  <2>1. PICK flags \in SUBSET Flags : Send(flags)
    BY <1>1, WokenBySend
  <2> DEFINE w == Walked(flags)
  <2>2. /\ WalkInv(w, Len(suspend_thread)) /\ set' = w.set /\ event_set' = w.got
        /\ \A u \in Threads : pc'[u] = "suspended" <=> u \in ToSet(w.list)
        /\ \A u \in Threads : u \in Sleepers <=> pc[u] = "suspended"
    BY <1>1, <2>1, SendLemma
  <2> HIDE DEF w
  <2>3. \A u \in WokenNow : u \in Sleepers \ ToSet(w.list)
    BY <2>2 DEF WokenNow
  <2>4. Given(w) /\ Parted(w)
    BY <2>2 DEF WalkInv
  <2>5. event_set'[t] \cap set' = {}
    BY <2>2, <2>3, <2>4 DEF Given
  <2>6. ASSUME NEW i \in DOMAIN suspend_thread, NEW j \in DOMAIN suspend_thread,
               i < j, suspend_thread[i] = t, suspend_thread[j] \in WokenNow
        PROVE  event_set'[t] \cap event_set'[suspend_thread[j]] = {}
    <3>1. suspend_thread[i] \notin ToSet(w.list) /\ suspend_thread[j] \notin ToSet(w.list)
      BY <2>3, <2>6
    <3>2. w.got[suspend_thread[i]] \cap w.got[suspend_thread[j]] = {}
      BY <2>4, <2>6, <3>1 DEF Parted
    <3> QED
      BY <2>2, <2>6, <3>2
  <2> QED
    BY <2>5, <2>6
<1> QED
  BY <1>1, EventInvInit, EventInvStep, PTL DEF EventSpec, ClearedOnce
=============================================================================
