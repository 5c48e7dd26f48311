--------------------------- MODULE RecorderProofs ---------------------------
(***************************************************************************)
(* What holds of Recorder for every clock, queue depth, ring size, card    *)
(* and number of samples.                                                  *)
(***************************************************************************)
EXTENDS Recorder, TLAPS

-----------------------------------------------------------------------------
(* The operators the model is built from.                                  *)

\* The calendar is total: whatever the second, it shows a second, a minute and
\* an hour in range.
LEMMA ClockType ==
    ASSUME NEW t \in Nat
    PROVE  Clock(t) \in ClockFields
<1> DEFINE minute == t \div SecondsPerMinute
           hour   == minute \div MinutesPerHour
<1>1. minute \in Nat /\ t % SecondsPerMinute \in 0 .. SecondsPerMinute - 1
  BY ClockAssumption, SMT
<1> HIDE DEF minute
<1>2. hour \in Nat /\ minute % MinutesPerHour \in 0 .. MinutesPerHour - 1
  BY <1>1, ClockAssumption, SMT
<1> HIDE DEF hour
<1>3. hour \div HoursPerDay \in Nat /\ hour % HoursPerDay \in 0 .. HoursPerDay - 1
  BY <1>2, ClockAssumption, SMT
<1> QED
  BY <1>1, <1>2, <1>3 DEF Clock, ClockFields, minute, hour

\* A record is as long as its format, and made of chunks.
LEMMA RecordType ==
    ASSUME NEW k \in Nat
    PROVE  Record(k) \in Seq(Chunks) /\ Len(Record(k)) = RecordLen
  BY SizeAssumption DEF Record, Chunks

\* What rt_ringbuffer_put leaves fits the ring, whatever is put.
LEMMA PutType ==
    ASSUME NEW ring \in Seq(Chunks), Len(ring) <= RingSize, NEW bytes \in Seq(Chunks)
    PROVE  Put(ring, bytes) \in Seq(Chunks) /\ Len(Put(ring, bytes)) <= RingSize
<1> DEFINE n == Least(Len(bytes), RingSize - Len(ring))
<1>1. n \in 0 .. Len(bytes) /\ n <= RingSize - Len(ring)
  BY SizeAssumption DEF Least
<1> HIDE DEF n
<1>2. SubSeq(bytes, 1, n) \in Seq(Chunks) /\ Len(SubSeq(bytes, 1, n)) = n
  BY <1>1
<1> QED
  BY <1>1, <1>2, SizeAssumption DEF Put, n

\* A write inside, at the end of or across the end of a file leaves a file.
LEMMA OverwriteType ==
    ASSUME NEW content \in Seq(Chunks), NEW at \in Nat, at <= Len(content),
           NEW bytes \in Seq(Chunks)
    PROVE  Overwrite(content, at, bytes) \in Seq(Chunks)
<1> DEFINE size == IF at + Len(bytes) > Len(content) THEN at + Len(bytes) ELSE Len(content)
<1>1. size \in Nat
  OBVIOUS
<1>2. ASSUME NEW i \in 1 .. size
      PROVE  (IF i > at /\ i <= at + Len(bytes) THEN bytes[i - at] ELSE content[i]) \in Chunks
  <2>1. CASE i > at /\ i <= at + Len(bytes)
    <3>1. i - at \in 1 .. Len(bytes)
      BY <2>1
    <3> QED
      BY <2>1, <3>1
  <2>2. CASE ~(i > at /\ i <= at + Len(bytes))
    <3>1. i \in 1 .. Len(content)
      BY <2>2
    <3> QED
      BY <2>2, <3>1
  <2> QED
    BY <2>1, <2>2
<1> QED
  BY <1>1, <1>2 DEF Overwrite

\* As OverwriteType, and the file is then at least as long as the end of what
\* was written.
LEMMA OverwriteLength ==
    ASSUME NEW content \in Seq(Chunks), NEW at \in Nat, NEW bytes \in Seq(Chunks)
    PROVE  at + Len(bytes) <= Len(Overwrite(content, at, bytes))
  BY DEF Overwrite

-----------------------------------------------------------------------------
(* The inductive invariant: the types, and that a save's position stays    *)
(* inside its file, without which a write would leave a hole in it.        *)

TInv == TypeOK /\ PositionInFile

LEMMA TInvInit == Init => TInv
<1> SUFFICES ASSUME Init PROVE TInv
  OBVIOUS
<1>1. RTC_time \in ClockFields
  BY ClockAssumption DEF Init, ClockFields
<1>2. FileName(0, 0, 0) \in FileNames
  BY ClockAssumption DEF FileName, FileNames
<1>3. DOMAIN files \subseteq FileNames /\ \A f \in DOMAIN files : files[f] \in Seq(Chunks)
  BY DEF Init
<1>4. recvdatabuf \in Seq(Chunks) /\ writebuffer \in Seq(Chunks) /\ sensor_mq \in Seq(Messages)
        /\ Len(recvdatabuf) = 0 /\ Len(sensor_mq) = 0
  BY DEF Init
<1>5. last \in [sample : Nat, fresh : BOOLEAN, taken : Nat, stamp : ClockFields]
  BY <1>1 DEF Init
<1>9. again \in BOOLEAN /\ fresh \in BOOLEAN /\ recvdata_event \in BOOLEAN
  BY DEF Init
<1>6. /\ now \in Nat /\ samples \in 0 .. MaxSamples
      /\ sensor = "read" /\ saver = "evrecv" /\ waited \in Nat
      /\ folder \in Nat /\ name \in FileNames /\ fd = "bad" /\ pos \in Nat
  BY <1>2, ClockAssumption, SizeAssumption DEF Init
<1>10. settings \in 0 .. MaxSettings /\ restarts \in 0 .. MaxRestarts /\ since \in Nat
  BY ClockAssumption, BoundAssumption DEF Init
<1>7. Len(recvdatabuf) <= RingSize /\ Len(sensor_mq) <= QueueDepth
  BY <1>4, SizeAssumption, QueueAssumption
<1>8. TypeOK
  BY <1>1, <1>3, <1>4, <1>5, <1>6, <1>7, <1>9, <1>10 DEF TypeOK
<1> QED
  BY <1>8 DEF Init, TInv, PositionInFile

\* What the drain loop holds and leaves are parts of the ring.
LEMMA DrainType ==
    ASSUME NEW ring \in Seq(Chunks), Len(ring) <= RingSize, Drain(ring)
    PROVE  /\ recvdatabuf' \in Seq(Chunks) /\ Len(recvdatabuf') <= RingSize
           /\ writebuffer' \in Seq(Chunks)
           /\ saver' \in {"write", "close"}
<1>1. CASE ring = <<>>
  BY <1>1 DEF Drain
<1>2. CASE ring # <<>>
  <2> DEFINE size == Least(Threshold, Len(ring))
  <2>1. size \in 0 .. Len(ring)
    BY SizeAssumption DEF Least
  <2>2. /\ saver' = "write"
        /\ writebuffer' = SubSeq(ring, 1, size)
        /\ recvdatabuf' = SubSeq(ring, size + 1, Len(ring))
    BY <1>2 DEF Drain
  <2> HIDE DEF size
  <2>3. SubSeq(ring, 1, size) \in Seq(Chunks)
    BY <2>1
  <2>4. SubSeq(ring, size + 1, Len(ring)) \in Seq(Chunks)
        /\ Len(SubSeq(ring, size + 1, Len(ring))) = Len(ring) - size
    BY <2>1
  <2>5. Len(ring) - size <= RingSize
    BY <2>1, SizeAssumption
  <2> QED
    BY <2>2, <2>3, <2>4, <2>5
<1> QED
  BY <1>1, <1>2

LEMMA TInvStep == TInv /\ [Next]_vars => TInv'
<1> SUFFICES ASSUME TInv, [Next]_vars PROVE TInv'
  OBVIOUS
<1> USE ClockAssumption, SizeAssumption, QueueAssumption DEF worldVars
<1>0. TypeOK /\ PositionInFile
  BY DEF TInv
<1>1. CASE ReadSensor
  <2>1. samples' \in 0 .. MaxSamples /\ now' \in Nat /\ waited' \in Nat
    BY <1>0, <1>1 DEF ReadSensor, TypeOK
  <2> QED
    BY <1>0, <1>1, <2>1 DEF ReadSensor, TInv, TypeOK, PositionInFile, fileVars
<1>2. ASSUME NEW at, NEW next \in {"minutes", "seconds", "date", "mqsend"},
             NEW field \in {"h", "m", "s", "day"}, CopyField(at, next, field)
      PROVE  TInv'
  <2>1. RTC_time' \in ClockFields
    BY <1>0, <1>2, ClockType DEF CopyField, TypeOK, ClockFields
  <2> QED
    BY <1>0, <1>2, <2>1 DEF CopyField, TInv, TypeOK, PositionInFile, fileVars
<1>3. CASE SendMessage
  <2>1. sensor_mq' \in Seq(Messages) /\ Len(sensor_mq') <= QueueDepth
    <3>1. [sample |-> samples, fresh |-> fresh, taken |-> now] \in Messages
      BY <1>0 DEF TypeOK, Messages
    <3> QED
      BY <1>0, <1>3, <3>1 DEF SendMessage, TypeOK
  <2> QED
    BY <1>0, <1>3, <2>1 DEF SendMessage, TInv, TypeOK, PositionInFile, fileVars
<1>4. CASE SendEvent
  BY <1>0, <1>4 DEF SendEvent, TInv, TypeOK, PositionInFile, fileVars
<1>5. CASE ReceiveEvent
  BY <1>0, <1>5 DEF ReceiveEvent, TInv, TypeOK, PositionInFile, fileVars, sensorVars
<1>6. CASE ReceiveMessage
  <2> DEFINE msg == Head(sensor_mq)
  <2>1. msg \in Messages /\ sensor_mq' \in Seq(Messages) /\ Len(sensor_mq') <= QueueDepth
    BY <1>0, <1>6 DEF ReceiveMessage, TypeOK
  <2>2. msg.sample \in Nat /\ msg.fresh \in BOOLEAN /\ msg.taken \in Nat
    BY <2>1 DEF Messages
  <2>3. recvdatabuf' = Put(recvdatabuf, Record(msg.sample))
        /\ last' = [sample |-> msg.sample, fresh |-> msg.fresh,
                    taken |-> msg.taken, stamp |-> RTC_time]
    BY <1>6 DEF ReceiveMessage
  <2> HIDE DEF msg
  <2>4. recvdatabuf' \in Seq(Chunks) /\ Len(recvdatabuf') <= RingSize
    BY <1>0, <2>2, <2>3, RecordType, PutType DEF TypeOK
  <2>5. last' \in [sample : Nat, fresh : BOOLEAN, taken : Nat, stamp : ClockFields]
    BY <1>0, <2>2, <2>3 DEF TypeOK
  <2>6. folder' \in Nat /\ saver' \in {"mkdir", "evrecv"} /\ waited' \in Nat
    BY <1>0, <1>6 DEF ReceiveMessage, TypeOK, ClockFields
  <2> QED
    BY <1>0, <1>6, <2>1, <2>4, <2>5, <2>6
    DEF ReceiveMessage, TInv, TypeOK, PositionInFile, CardCalls, sensorVars
<1>7. CASE MakeFolder
  <2>1. name' \in FileNames
    BY <1>0, <1>7 DEF MakeFolder, TypeOK, ClockFields, FileName, FileNames
  <2> QED
    BY <1>0, <1>7, <2>1 DEF MakeFolder, TInv, TypeOK, PositionInFile, CardCalls, sensorVars
<1>8. CASE OpenFile
  <2>1. /\ recvdatabuf' \in Seq(Chunks) /\ Len(recvdatabuf') <= RingSize
        /\ writebuffer' \in Seq(Chunks) /\ saver' \in {"write", "close"}
    BY <1>0, <1>8, DrainType DEF OpenFile, TypeOK
  <2>2. /\ DOMAIN files' \subseteq FileNames
        /\ \A f \in DOMAIN files' : files'[f] \in Seq(Chunks)
        /\ fd' \in {"open", "bad"} /\ pos' = 0
        /\ fd' = "open" => name' \in DOMAIN files'
    <3>1. CASE files' = files
      BY <1>0, <1>8, <3>1 DEF OpenFile, TypeOK
    <3>2. CASE /\ files' = [f \in DOMAIN files \cup {name} |->
                             IF f \in DOMAIN files THEN files[f] ELSE <<>>]
               /\ fd' = "open"
      <4>1. \A f \in DOMAIN files' : files'[f] \in Seq(Chunks)
        BY <1>0, <3>2 DEF TypeOK
      <4> QED
        BY <1>0, <1>8, <3>2, <4>1 DEF OpenFile, TypeOK
    <3> QED
      BY <1>8, <3>1, <3>2 DEF OpenFile
  <2>3. fd' = "open" => pos' <= Len(files'[name'])
    BY <2>2
  <2> QED
    <3>1. PositionInFile'
      BY <2>2, <2>3 DEF PositionInFile
    <3>2. UNCHANGED <<now, again, samples, fresh, sensor, RTC_time, sensor_mq,
                      recvdata_event, folder, name, last, settings, restarts, since>>
          /\ waited' = 0
      BY <1>8 DEF OpenFile, sensorVars
    <3>3. TypeOK'
      BY <1>0, <2>1, <2>2, <3>2 DEF TypeOK, CardCalls
    <3> QED
      BY <3>1, <3>3 DEF TInv
<1>9. CASE WriteFile
  <2>1. /\ recvdatabuf' \in Seq(Chunks) /\ Len(recvdatabuf') <= RingSize
        /\ writebuffer' \in Seq(Chunks) /\ saver' \in {"write", "close"}
    BY <1>0, <1>9, DrainType DEF WriteFile, TypeOK
  <2>2. CASE fd = "bad" /\ UNCHANGED <<files, pos>>
    BY <1>0, <1>9, <2>1, <2>2
    DEF WriteFile, TInv, TypeOK, PositionInFile, CardCalls, sensorVars
  <2>3. ASSUME NEW size \in 0 .. Len(writebuffer), fd = "open",
               files' = [files EXCEPT ![name] =
                           Overwrite(@, pos, SubSeq(writebuffer, 1, size))],
               pos' = pos + size
        PROVE  TInv'
    <3> DEFINE bytes == SubSeq(writebuffer, 1, size)
               file  == Overwrite(files[name], pos, bytes)
    <3>1. bytes \in Seq(Chunks) /\ Len(bytes) = size
      BY <1>0 DEF TypeOK
    <3>2. name \in DOMAIN files /\ pos <= Len(files[name]) /\ files[name] \in Seq(Chunks)
          /\ pos \in Nat
      BY <1>0, <1>9, <2>3 DEF WriteFile, PositionInFile, TypeOK
    <3>3. file \in Seq(Chunks) /\ pos + size <= Len(file)
      <4> HIDE DEF bytes
      <4> QED
        BY <3>1, <3>2, OverwriteType, OverwriteLength
    <3>4. DOMAIN files' = DOMAIN files /\ files'[name] = file
          /\ \A f \in DOMAIN files : f # name => files'[f] = files[f]
      BY <2>3, <3>2
    <3>5. \A f \in DOMAIN files' : files'[f] \in Seq(Chunks)
      BY <1>0, <3>3, <3>4 DEF TypeOK
    <3> HIDE DEF file
    <3>6. PositionInFile'
      BY <1>9, <2>3, <3>2, <3>3, <3>4 DEF WriteFile, PositionInFile
    <3>7. DOMAIN files' \subseteq FileNames /\ pos' \in Nat
      <4>1. size \in Nat
        BY <1>0 DEF TypeOK
      <4>2. pos' \in Nat
        BY <2>3, <3>2, <4>1
      <4> QED
        BY <1>0, <3>4, <4>2 DEF TypeOK
    <3>8. UNCHANGED <<now, again, samples, fresh, sensor, RTC_time, sensor_mq,
                      recvdata_event, folder, name, fd, last, settings, restarts, since>>
          /\ waited' = 0
      BY <1>9 DEF WriteFile, sensorVars
    <3>9. TypeOK'
      BY <1>0, <2>1, <3>5, <3>7, <3>8 DEF TypeOK, CardCalls
    <3> QED
      BY <3>6, <3>9 DEF TInv
  <2> QED
    BY <1>9, <2>2, <2>3 DEF WriteFile
<1>10. CASE CloseFile
  BY <1>0, <1>10 DEF CloseFile, TInv, TypeOK, PositionInFile, sensorVars
<1>11. CASE DelayOver
  BY <1>0, <1>11 DEF DelayOver, TInv, TypeOK, PositionInFile, sensorVars, fileVars
<1>12. CASE UNCHANGED vars
  BY <1>0, <1>12 DEF vars, sensorVars, fileVars, TInv, TypeOK, PositionInFile
<1>13. CASE SetClock
  <2>1. now' \in Nat /\ since' \in Nat /\ settings' \in 0 .. MaxSettings
    <3>1. PICK t \in 0 .. LastTime : now' = t /\ since' = t
      BY <1>13, Zenon DEF SetClock
    <3>2. settings < MaxSettings /\ settings' = settings + 1
      BY <1>13, Zenon DEF SetClock
    <3>3. settings' \in 0 .. MaxSettings
      BY <1>0, <3>2, BoundAssumption DEF TypeOK
    <3> QED
      BY <3>1, <3>3, BoundAssumption
  <2>2. again' \in BOOLEAN
    BY <1>13 DEF SetClock
  <2> QED
    BY <1>0, <1>13, <2>1, <2>2 DEF SetClock, TInv, TypeOK, PositionInFile, fileVars
<1>14. CASE Restart
  <2>1. now' \in Nat /\ since' \in Nat /\ restarts' \in 0 .. MaxRestarts
    BY <1>0, <1>14, BoundAssumption DEF Restart, TypeOK
  <2>2. again' \in BOOLEAN /\ fresh' \in BOOLEAN /\ recvdata_event' \in BOOLEAN
    BY <1>14 DEF Restart
  <2>3. RTC_time' \in ClockFields /\ name' \in FileNames
    BY <1>14 DEF Restart, ClockFields, FileName, FileNames
  <2>4. last' \in [sample : Nat, fresh : BOOLEAN, taken : Nat, stamp : ClockFields]
    BY <1>14, <2>3 DEF Restart
  <2>5. /\ sensor_mq' \in Seq(Messages) /\ Len(sensor_mq') <= QueueDepth
        /\ recvdatabuf' \in Seq(Chunks) /\ Len(recvdatabuf') <= RingSize
        /\ writebuffer' \in Seq(Chunks)
    BY <1>14 DEF Restart
  <2>6. DOMAIN files' \subseteq FileNames /\ \A f \in DOMAIN files' : files'[f] \in Seq(Chunks)
    <3>1. ASSUME NEW size \in 0 .. Len(files[name]),
                 files' = [files EXCEPT ![name] = SubSeq(files[name], 1, size)]
          PROVE  \A f \in DOMAIN files' : files'[f] \in Seq(Chunks)
      BY <1>0, <3>1 DEF TypeOK
    <3>2. CASE files' = files
      BY <1>0, <3>2 DEF TypeOK
    <3> QED
      BY <1>0, <1>14, <3>1, <3>2 DEF Restart, TypeOK
  <2>7. /\ samples' = samples /\ settings' = settings
        /\ sensor' = "read" /\ saver' = "evrecv" /\ waited' = 0
        /\ folder' = 0 /\ fd' = "bad" /\ pos' = 0
    BY <1>14 DEF Restart
  <2>8. TypeOK'
    BY <1>0, <2>1, <2>2, <2>3, <2>4, <2>5, <2>6, <2>7 DEF TypeOK
  <2> QED
    BY <2>7, <2>8 DEF TInv, PositionInFile
<1> QED
  BY <1>1, <1>2, <1>3, <1>4, <1>5, <1>6, <1>7, <1>8, <1>9, <1>10, <1>11, <1>12, <1>13, <1>14
  DEF Next, SensorNext, SaverNext, CopyHours, CopyMinutes, CopySeconds, CopyDate, BoundReached

\* Type correctness: whatever the clock, the sizes and the card, every variable
\* keeps its type, the queue never holds more than QueueDepth messages and the
\* ring never more than RingSize bytes.
THEOREM RecorderTypes == Spec => []TypeOK
<1>1. TInv => TypeOK
  BY DEF TInv
<1> QED
  BY <1>1, TInvInit, TInvStep, PTL DEF Spec

\* No write leaves a hole in a file: the position a save writes at is inside the
\* file it has open, whatever the card lost of earlier writes.
THEOREM RecorderPositions == Spec => []PositionInFile
<1>1. TInv => PositionInFile
  BY DEF TInv
<1> QED
  BY <1>1, TInvInit, TInvStep, PTL DEF Spec

-----------------------------------------------------------------------------
(* The wakeups and the messages.  WakeupsHaveMessages is inductive on top  *)
(* of the types: a send adds a message before it adds a wakeup, or finds   *)
(* the queue full, and then QueueDepth >= 2 messages cover the flag and the*)
(* send; DFSsave takes the two together.                                   *)

LEMMA WakeupsStep ==
    ASSUME TypeOK, WakeupsHaveMessages, [Next]_vars
    PROVE  WakeupsHaveMessages'
<1> USE QueueAssumption DEF WakeupsHaveMessages, Flag
<1>1. Len(sensor_mq) \in Nat
  BY DEF TypeOK
<1>2. CASE SendMessage
  <2>1. saver # "mqrecv"
    BY <1>1, <1>2 DEF SendMessage, SaverBlocked, CardCalls, TypeOK
  <2> QED
    BY <1>1, <1>2, <2>1 DEF SendMessage, TypeOK
<1>3. CASE SendEvent
  BY <1>1, <1>3 DEF SendEvent
<1>4. CASE ReceiveEvent
  BY <1>1, <1>4 DEF ReceiveEvent, sensorVars
<1>5. CASE ReceiveMessage
  <2>1. Len(sensor_mq') = Len(sensor_mq) - 1
    BY <1>5 DEF ReceiveMessage, TypeOK
  <2> QED
    BY <1>1, <1>5, <2>1 DEF ReceiveMessage, sensorVars
<1>6. CASE ReadSensor
  BY <1>1, <1>6 DEF ReadSensor
<1>7. ASSUME NEW at, NEW next \in {"minutes", "seconds", "date", "mqsend"}, NEW field,
             CopyField(at, next, field)
      PROVE  WakeupsHaveMessages'
  BY <1>1, <1>7 DEF CopyField
<1>8. CASE MakeFolder \/ CloseFile \/ DelayOver
  BY <1>1, <1>8 DEF MakeFolder, CloseFile, DelayOver, sensorVars
<1>9. CASE OpenFile \/ WriteFile
  <2>1. saver' # "mqrecv"
    BY <1>9 DEF OpenFile, WriteFile, Drain
  <2> QED
    BY <1>1, <1>9, <2>1 DEF OpenFile, WriteFile, sensorVars
<1>10. CASE UNCHANGED vars
  BY <1>1, <1>10 DEF vars, sensorVars
<1>11. CASE SetClock
  BY <1>1, <1>11 DEF SetClock
<1>12. CASE Restart
  BY <1>12 DEF Restart
<1> QED
  BY <1>2, <1>3, <1>4, <1>5, <1>6, <1>7, <1>8, <1>9, <1>10, <1>11, <1>12
  DEF Next, SensorNext, SaverNext, CopyHours, CopyMinutes, CopySeconds, CopyDate, BoundReached

\* DFSsave never waits in rt_mq_recv: each wakeup it is promised has a message
\* behind it, for every queue of at least two messages, though the flag
\* coalesces wakeups and a full queue drops messages.
THEOREM RecorderWakeups == Spec => []WakeupsHaveMessages
<1>1. Init => WakeupsHaveMessages
  BY DEF Init, WakeupsHaveMessages, Flag
<1> QED
  BY <1>1, WakeupsStep, RecorderTypes, PTL DEF Spec
-----------------------------------------------------------------------------
(* The sizes of the files.  FilesFitRing is inductive with SaveFitsRing,   *)
(* for a save starts at position 0 with what the ring held and each write  *)
(* moves the position by at most what it takes from the rest.              *)

\* The drain loop moves bytes from the ring to the write and adds none.
LEMMA DrainLength ==
    ASSUME NEW ring \in Seq(Chunks), Drain(ring)
    PROVE  saver' = "write" => Len(writebuffer') + Len(recvdatabuf') = Len(ring)
<1>1. CASE ring = <<>>
  BY <1>1 DEF Drain
<1>2. CASE ring # <<>>
  <2> DEFINE size == Least(Threshold, Len(ring))
  <2>1. size \in 0 .. Len(ring)
    BY SizeAssumption DEF Least
  <2>2. /\ writebuffer' = SubSeq(ring, 1, size)
        /\ recvdatabuf' = SubSeq(ring, size + 1, Len(ring))
    BY <1>2 DEF Drain
  <2> HIDE DEF size
  <2>3. Len(SubSeq(ring, 1, size)) = size
        /\ Len(SubSeq(ring, size + 1, Len(ring))) = Len(ring) - size
    BY <2>1
  <2>4. size \in Nat /\ Len(ring) \in Nat
    BY <2>1
  <2>5. Len(writebuffer') = size /\ Len(recvdatabuf') = Len(ring) - size
    BY <2>2, <2>3
  <2> QED
    BY <2>4, <2>5
<1> QED
  BY <1>1, <1>2

\* A write leaves a file of its old length or of the end of what was written.
LEMMA OverwriteBound ==
    ASSUME NEW content \in Seq(Chunks), NEW at \in Nat, NEW bytes \in Seq(Chunks),
           NEW bound \in Nat, Len(content) <= bound, at + Len(bytes) <= bound
    PROVE  Len(Overwrite(content, at, bytes)) <= bound
  BY DEF Overwrite

SInv == FilesFitRing /\ SaveFitsRing

LEMMA SInvStep ==
    ASSUME TInv, SInv, [Next]_vars
    PROVE  SInv'
<1> USE SizeAssumption
<1>0. TypeOK /\ PositionInFile /\ FilesFitRing /\ SaveFitsRing
  BY DEF TInv, SInv
<1>1. CASE OpenFile
  <2>1. recvdatabuf \in Seq(Chunks) /\ Len(recvdatabuf) <= RingSize
        /\ Drain(recvdatabuf) /\ pos' = 0
    BY <1>0, <1>1 DEF OpenFile, TypeOK
  <2>2. saver' = "write" => Len(writebuffer') + Len(recvdatabuf') = Len(recvdatabuf)
    BY <2>1, DrainLength
  <2>3. writebuffer' \in Seq(Chunks) /\ recvdatabuf' \in Seq(Chunks)
    BY <2>1, DrainType
  <2>4. SaveFitsRing'
    BY <2>1, <2>2, <2>3 DEF SaveFitsRing
  <2>5. FilesFitRing'
    <3>1. CASE files' = files
      BY <1>0, <3>1 DEF FilesFitRing
    <3>2. CASE files' = [f \in DOMAIN files \cup {name} |->
                           IF f \in DOMAIN files THEN files[f] ELSE <<>>]
      BY <1>0, <3>2 DEF FilesFitRing
    <3> QED
      BY <1>1, <3>1, <3>2 DEF OpenFile
  <2> QED
    BY <2>4, <2>5 DEF SInv
<1>2. CASE WriteFile
  <2>1. recvdatabuf \in Seq(Chunks) /\ writebuffer \in Seq(Chunks) /\ pos \in Nat
        /\ Len(recvdatabuf) <= RingSize /\ Drain(recvdatabuf)
        /\ pos + Len(writebuffer) + Len(recvdatabuf) <= RingSize
    BY <1>0, <1>2 DEF WriteFile, TypeOK, SaveFitsRing
  <2>2. saver' = "write" => Len(writebuffer') + Len(recvdatabuf') = Len(recvdatabuf)
    BY <2>1, DrainLength
  <2>3. writebuffer' \in Seq(Chunks) /\ recvdatabuf' \in Seq(Chunks)
    BY <2>1, DrainType
  <2>4. CASE UNCHANGED <<files, pos>>
    <3>1. SaveFitsRing'
      BY <2>1, <2>2, <2>3, <2>4 DEF SaveFitsRing
    <3> QED
      BY <1>0, <2>4, <3>1 DEF SInv, FilesFitRing
  <2>5. ASSUME NEW size \in 0 .. Len(writebuffer), fd = "open",
               files' = [files EXCEPT ![name] =
                           Overwrite(@, pos, SubSeq(writebuffer, 1, size))],
               pos' = pos + size
        PROVE  SInv'
    <3>1. SaveFitsRing'
      BY <2>1, <2>2, <2>3, <2>5 DEF SaveFitsRing
    <3> DEFINE bytes == SubSeq(writebuffer, 1, size)
               file  == Overwrite(files[name], pos, bytes)
    <3>2. bytes \in Seq(Chunks) /\ Len(bytes) = size /\ pos + size <= RingSize
      BY <2>1
    <3>3. name \in DOMAIN files /\ files[name] \in Seq(Chunks) /\ Len(files[name]) <= RingSize
      BY <1>0, <1>2, <2>5 DEF WriteFile, PositionInFile, TypeOK, FilesFitRing
    <3>4. Len(file) <= RingSize
      <4> HIDE DEF bytes
      <4> QED
        BY <2>1, <3>2, <3>3, OverwriteBound
    <3>5. DOMAIN files' = DOMAIN files /\ files'[name] = file
          /\ \A f \in DOMAIN files : f # name => files'[f] = files[f]
      BY <2>5, <3>3
    <3> HIDE DEF file
    <3>6. FilesFitRing'
      BY <1>0, <3>4, <3>5 DEF FilesFitRing
    <3> QED
      BY <3>1, <3>6 DEF SInv
  <2> QED
    BY <1>2, <2>4, <2>5 DEF WriteFile
<1>3. CASE CloseFile
  BY <1>0, <1>3 DEF CloseFile, SInv, FilesFitRing, SaveFitsRing
<1>4. CASE ReceiveMessage
  BY <1>0, <1>4 DEF ReceiveMessage, SInv, FilesFitRing, SaveFitsRing
<1>5. CASE ReadSensor \/ SendMessage \/ SendEvent \/ ReceiveEvent \/ MakeFolder \/ DelayOver
  BY <1>0, <1>5
  DEF ReadSensor, SendMessage, SendEvent, ReceiveEvent, MakeFolder, DelayOver,
      fileVars, SInv, FilesFitRing, SaveFitsRing
<1>6. ASSUME NEW at, NEW next, NEW field, CopyField(at, next, field)
      PROVE  SInv'
  BY <1>0, <1>6 DEF CopyField, fileVars, SInv, FilesFitRing, SaveFitsRing
<1>7. CASE UNCHANGED vars
  BY <1>0, <1>7 DEF vars, fileVars, SInv, FilesFitRing, SaveFitsRing
<1>8. CASE SetClock
  BY <1>0, <1>8 DEF SetClock, fileVars, SInv, FilesFitRing, SaveFitsRing
<1>9. CASE Restart
  <2>1. SaveFitsRing'
    BY <1>9 DEF Restart, SaveFitsRing
  <2>2. FilesFitRing'
    <3>1. ASSUME NEW size \in 0 .. Len(files[name]),
                 files' = [files EXCEPT ![name] = SubSeq(files[name], 1, size)]
          PROVE  FilesFitRing'
      <4>1. ASSUME NEW f \in DOMAIN files
            PROVE  Len(files'[f]) <= RingSize
        <5>1. files[f] \in Seq(Chunks) /\ Len(files[f]) <= RingSize
          BY <1>0 DEF TypeOK, FilesFitRing
        <5>2. CASE f = name
          <6>1. Len(SubSeq(files[f], 1, size)) = size /\ size <= Len(files[f]) /\ size \in Nat
            BY <3>1, <5>1, <5>2
          <6> QED
            BY <3>1, <5>1, <5>2, <6>1
        <5>3. CASE f # name
          BY <3>1, <5>1, <5>3
        <5> QED
          BY <5>2, <5>3
      <4> QED
        BY <3>1, <4>1 DEF FilesFitRing
    <3>2. CASE files' = files
      BY <1>0, <3>2 DEF FilesFitRing
    <3> QED
      BY <1>9, <3>1, <3>2 DEF Restart
  <2> QED
    BY <2>1, <2>2 DEF SInv
<1> QED
  BY <1>1, <1>2, <1>3, <1>4, <1>5, <1>6, <1>7, <1>8, <1>9
  DEF Next, SensorNext, SaverNext, CopyHours, CopyMinutes, CopySeconds, CopyDate, BoundReached

\* No file of the recorder outgrows the ring, for every ring, threshold and
\* record, every card fault and however often a minute is saved: the reader of
\* file_win.c, whose buffer is larger than the ring, always gets a whole file.
THEOREM RecorderFilesFit == Spec => []FilesFitRing
<1>1. Init => SInv
  BY DEF Init, SInv, FilesFitRing, SaveFitsRing
<1>2. SInv => FilesFitRing
  BY DEF SInv
<1>3. TInv /\ SInv /\ [Next]_vars => SInv'
  BY SInvStep
<1> QED
  BY <1>1, <1>2, <1>3, TInvInit, TInvStep, PTL DEF Spec


-----------------------------------------------------------------------------
(* The order of the samples.  SamplesInOrder is inductive once it is known *)
(* that all samples held or sent are before the one under way.             *)

\* The sample read last is still to be sent.
Unsent == sensor \in {"hours", "minutes", "seconds", "date", "mqsend"}

Latest(k) == k <= samples /\ (Unsent => k < samples)

OInv ==
    /\ \A i, j \in DOMAIN recvdatabuf : i < j => recvdatabuf[i][1] <= recvdatabuf[j][1]
    /\ \A i, j \in DOMAIN sensor_mq : i < j => sensor_mq[i].sample < sensor_mq[j].sample
    /\ \A i \in DOMAIN recvdatabuf, j \in DOMAIN sensor_mq : recvdatabuf[i][1] < sensor_mq[j].sample
    /\ \A i \in DOMAIN recvdatabuf : Latest(recvdatabuf[i][1])
    /\ \A i \in DOMAIN sensor_mq : Latest(sensor_mq[i].sample)

\* A chunk put in the ring was there before, or is of the record.
LEMMA PutMembers ==
    ASSUME NEW ring \in Seq(Chunks), Len(ring) <= RingSize, NEW k \in Nat
    PROVE  LET r == Put(ring, Record(k))
           IN  /\ r \in Seq(Chunks)
               /\ \A i \in DOMAIN r : IF i <= Len(ring) THEN i \in DOMAIN ring /\ r[i] = ring[i]
                                      ELSE r[i][1] = k
<1> DEFINE bytes == Record(k)
           n == Least(Len(bytes), RingSize - Len(ring))
           r == Put(ring, bytes)
<1>1. bytes \in Seq(Chunks) /\ Len(bytes) = RecordLen /\ \A i \in 1 .. Len(bytes) : bytes[i][1] = k
  BY RecordType, SizeAssumption DEF Record
<1> HIDE DEF bytes
<1>2. n \in 0 .. Len(bytes)
  BY <1>1, SizeAssumption DEF Least
<1>3. r = ring \o SubSeq(bytes, 1, n)
  BY DEF Put
<1> HIDE DEF n, r
<1>4. /\ SubSeq(bytes, 1, n) \in Seq(Chunks) /\ Len(SubSeq(bytes, 1, n)) = n
      /\ \A i \in 1 .. n : SubSeq(bytes, 1, n)[i] = bytes[i]
  BY <1>1, <1>2
<1>5. r \in Seq(Chunks) /\ Len(r) = Len(ring) + n
  BY <1>3, <1>4
<1>6. ASSUME NEW i \in DOMAIN r, i <= Len(ring) PROVE i \in DOMAIN ring /\ r[i] = ring[i]
  BY <1>3, <1>4, <1>5, <1>6
<1>7. ASSUME NEW i \in DOMAIN r, ~(i <= Len(ring)) PROVE r[i][1] = k
  <2>1. i - Len(ring) \in 1 .. n /\ r[i] = SubSeq(bytes, 1, n)[i - Len(ring)]
    BY <1>2, <1>3, <1>4, <1>5, <1>7
  <2> QED
    BY <1>1, <1>2, <1>4, <2>1
<1> QED
  BY <1>5, <1>6, <1>7 DEF r, bytes

\* The drain loop leaves a tail of the ring.
LEMMA DrainTail ==
    ASSUME NEW ring \in Seq(Chunks), Drain(ring)
    PROVE  \E n \in 0 .. Len(ring) :
              /\ recvdatabuf' = SubSeq(ring, n + 1, Len(ring))
              /\ Len(recvdatabuf') = Len(ring) - n
              /\ \A i \in DOMAIN recvdatabuf' : i + n \in DOMAIN ring /\ recvdatabuf'[i] = ring[i + n]
<1>1. ASSUME NEW n \in 0 .. Len(ring), recvdatabuf' = SubSeq(ring, n + 1, Len(ring))
      PROVE  /\ Len(recvdatabuf') = Len(ring) - n
             /\ \A i \in DOMAIN recvdatabuf' : i + n \in DOMAIN ring /\ recvdatabuf'[i] = ring[i + n]
  BY <1>1
<1>2. CASE ring = <<>>
  <2>1. recvdatabuf' = <<>> /\ Len(ring) = 0
    BY <1>2 DEF Drain
  <2>2. recvdatabuf' = SubSeq(ring, 0 + 1, Len(ring))
    BY <1>2, <2>1
  <2> QED
    BY <1>1, <2>1, <2>2
<1>3. CASE ring # <<>>
  <2> DEFINE size == Least(Threshold, Len(ring))
  <2>1. size \in 0 .. Len(ring)
    BY SizeAssumption DEF Least
  <2>2. recvdatabuf' = SubSeq(ring, size + 1, Len(ring))
    BY <1>3 DEF Drain
  <2> HIDE DEF size
  <2> QED
    BY <1>1, <2>1, <2>2
<1> QED
  BY <1>2, <1>3

LEMMA OInvStep ==
    ASSUME TypeOK, OInv, [Next]_vars
    PROVE  OInv'
<1>0. /\ sensor_mq \in Seq(Messages) /\ recvdatabuf \in Seq(Chunks) /\ samples \in Nat
      /\ Len(recvdatabuf) <= RingSize
      /\ \A i \in DOMAIN sensor_mq : sensor_mq[i].sample \in Nat
      /\ \A i \in DOMAIN recvdatabuf : recvdatabuf[i][1] \in Nat
  <2>1. /\ sensor_mq \in Seq(Messages) /\ recvdatabuf \in Seq(Chunks) /\ samples \in Nat
        /\ Len(recvdatabuf) <= RingSize
    BY SizeAssumption DEF TypeOK
  <2>2. ASSUME NEW i \in DOMAIN sensor_mq PROVE sensor_mq[i].sample \in Nat
    <3>1. sensor_mq[i] \in Messages
      BY <2>1
    <3> QED
      BY <3>1 DEF Messages
  <2>3. ASSUME NEW i \in DOMAIN recvdatabuf PROVE recvdatabuf[i][1] \in Nat
    <3>1. recvdatabuf[i] \in Chunks
      BY <2>1
    <3> QED
      BY <3>1 DEF Chunks
  <2> QED
    BY <2>1, <2>2, <2>3
<1>1. CASE ReadSensor
  <2>1. /\ samples' = samples + 1 /\ sensor = "read" /\ UNCHANGED <<sensor_mq, recvdatabuf>>
    BY <1>1 DEF ReadSensor
  <2> QED
    BY <1>0, <2>1 DEF OInv, Latest, Unsent
<1>2. ASSUME NEW at \in {"hours", "minutes", "seconds", "date"},
             NEW next \in {"minutes", "seconds", "date", "mqsend"}, NEW field,
             CopyField(at, next, field)
      PROVE  OInv'
  BY <1>0, <1>2 DEF CopyField, OInv, Latest, Unsent
<1>3. CASE SendMessage
  <2>1. /\ sensor = "mqsend" /\ sensor' = "evsend" /\ UNCHANGED <<samples, recvdatabuf>>
    BY <1>3 DEF SendMessage
  <2>2. CASE sensor_mq' = sensor_mq
    BY <1>0, <2>1, <2>2 DEF OInv, Latest, Unsent
  <2>3. CASE sensor_mq' = Append(sensor_mq, [sample |-> samples, fresh |-> fresh, taken |-> now])
    <3> DEFINE m == [sample |-> samples, fresh |-> fresh, taken |-> now]
    <3>1. m.sample = samples
      OBVIOUS
    <3>2. m \in Messages
      BY <1>0 DEF TypeOK, Messages
    <3> HIDE DEF m
    <3>3. /\ DOMAIN sensor_mq' = 1 .. (Len(sensor_mq) + 1) /\ sensor_mq'[Len(sensor_mq) + 1] = m
          /\ DOMAIN sensor_mq = 1 .. Len(sensor_mq) /\ Len(sensor_mq) \in Nat
          /\ \A i \in DOMAIN sensor_mq : sensor_mq'[i] = sensor_mq[i]
      BY <1>0, <2>3, <3>2 DEF m
    <3> DEFINE e == Len(sensor_mq) + 1
    <3>4. \A i \in DOMAIN sensor_mq' : i \in DOMAIN sensor_mq \/ i = e
      BY <3>3
    <3>5. \A i \in DOMAIN sensor_mq : i < e /\ i \in Nat /\ sensor_mq[i].sample < samples
      BY <1>0, <2>1, <3>3 DEF OInv, Latest, Unsent
    <3>6. e \in Nat /\ sensor_mq'[e].sample = samples
      BY <3>1, <3>3
    <3>7. \A i \in DOMAIN sensor_mq : sensor_mq'[i] = sensor_mq[i]
      BY <3>3
    <3> HIDE DEF e
    <3>8. \A i, j \in DOMAIN sensor_mq' : i < j => sensor_mq'[i].sample < sensor_mq'[j].sample
      <4> SUFFICES ASSUME NEW i \in DOMAIN sensor_mq', NEW j \in DOMAIN sensor_mq', i < j
                   PROVE  sensor_mq'[i].sample < sensor_mq'[j].sample
        OBVIOUS
      <4>1. CASE j \in DOMAIN sensor_mq
        <5>1. i \in DOMAIN sensor_mq
          BY <3>4, <3>5, <3>6, <4>1
        <5> QED
          BY <3>7, <4>1, <5>1 DEF OInv
      <4>2. CASE j = e
        <5>1. i \in DOMAIN sensor_mq
          BY <3>4, <3>6, <4>2
        <5> QED
          BY <3>5, <3>6, <3>7, <4>2, <5>1
      <4> QED
        BY <3>4, <4>1, <4>2
    <3>9. \A i \in DOMAIN recvdatabuf', j \in DOMAIN sensor_mq' : recvdatabuf'[i][1] < sensor_mq'[j].sample
      BY <2>1, <3>4, <3>6, <3>7 DEF OInv, Latest, Unsent
    <3>10. /\ \A i \in DOMAIN recvdatabuf' : recvdatabuf'[i][1] <= samples
           /\ \A i \in DOMAIN sensor_mq' : sensor_mq'[i].sample <= samples
      BY <1>0, <2>1, <3>4, <3>6, <3>7 DEF OInv, Latest
    <3> QED
      BY <2>1, <3>8, <3>9, <3>10 DEF OInv, Latest, Unsent
  <2> QED
    BY <1>3, <2>2, <2>3 DEF SendMessage
<1>4. CASE SendEvent
  BY <1>0, <1>4 DEF SendEvent, OInv, Latest, Unsent
<1>5. CASE ReceiveEvent \/ MakeFolder \/ CloseFile \/ DelayOver
  BY <1>0, <1>5 DEF ReceiveEvent, MakeFolder, CloseFile, DelayOver, sensorVars, OInv, Latest, Unsent
<1>6. CASE ReceiveMessage
  <2> DEFINE k == Head(sensor_mq).sample
  <2>1. /\ sensor_mq # <<>> /\ recvdatabuf' = Put(recvdatabuf, Record(k))
        /\ sensor_mq' = Tail(sensor_mq) /\ UNCHANGED <<samples, sensor>>
    BY <1>6 DEF ReceiveMessage, sensorVars
  <2>2. /\ k = sensor_mq[1].sample /\ 1 \in DOMAIN sensor_mq /\ k \in Nat
        /\ \A i \in DOMAIN sensor_mq' : i + 1 \in DOMAIN sensor_mq /\ sensor_mq'[i] = sensor_mq[i + 1]
        /\ \A i \in DOMAIN sensor_mq' : i \in Nat /\ i >= 1
    BY <1>0, <2>1
  <2> HIDE DEF k
  <2>3. \A i \in DOMAIN recvdatabuf' :
           IF i <= Len(recvdatabuf) THEN i \in DOMAIN recvdatabuf /\ recvdatabuf'[i] = recvdatabuf[i]
           ELSE recvdatabuf'[i][1] = k
    <3> DEFINE r == Put(recvdatabuf, Record(k))
    <3>1. recvdatabuf \in Seq(Chunks) /\ Len(recvdatabuf) <= RingSize /\ k \in Nat
      BY <1>0, <2>2
    <3>2. \A i \in DOMAIN r : IF i <= Len(recvdatabuf) THEN i \in DOMAIN recvdatabuf /\ r[i] = recvdatabuf[i]
                              ELSE r[i][1] = k
      BY <3>1, PutMembers
    <3>3. recvdatabuf' = r
      BY <2>1
    <3> HIDE DEF r
    <3> QED
      BY <3>2, <3>3
  <2>4. \A i \in DOMAIN recvdatabuf' : i \in Nat
    <3>1. recvdatabuf' \in Seq(Chunks)
      BY <1>0, <2>1, <2>2, PutMembers
    <3> QED
      BY <3>1
  <2>5. \A i \in DOMAIN recvdatabuf' : recvdatabuf'[i][1] <= k /\ recvdatabuf'[i][1] \in Nat
    BY <1>0, <2>2, <2>3 DEF OInv
  <2>6. \A i, j \in DOMAIN recvdatabuf' : i < j => recvdatabuf'[i][1] <= recvdatabuf'[j][1]
    <3> SUFFICES ASSUME NEW i \in DOMAIN recvdatabuf', NEW j \in DOMAIN recvdatabuf', i < j
                 PROVE  recvdatabuf'[i][1] <= recvdatabuf'[j][1]
      OBVIOUS
    <3>1. CASE j <= Len(recvdatabuf)
      <4>1. i <= Len(recvdatabuf)
        BY <1>0, <2>4, <3>1
      <4> QED
        BY <2>3, <3>1, <4>1 DEF OInv
    <3>2. CASE ~(j <= Len(recvdatabuf))
      BY <2>3, <2>5, <3>2
    <3> QED
      BY <3>1, <3>2
  <2>7. \A i \in DOMAIN sensor_mq' : k < sensor_mq'[i].sample
    <3> SUFFICES ASSUME NEW i \in DOMAIN sensor_mq' PROVE k < sensor_mq'[i].sample
      OBVIOUS
    <3>1. i + 1 \in DOMAIN sensor_mq /\ 1 < i + 1 /\ sensor_mq'[i] = sensor_mq[i + 1]
      BY <2>2
    <3> QED
      BY <2>2, <3>1 DEF OInv
  <2>8. \A i, j \in DOMAIN sensor_mq' : i < j => sensor_mq'[i].sample < sensor_mq'[j].sample
    BY <2>2 DEF OInv
  <2>9. \A i \in DOMAIN recvdatabuf', j \in DOMAIN sensor_mq' : recvdatabuf'[i][1] < sensor_mq'[j].sample
    BY <1>0, <2>2, <2>5, <2>7
  <2>10. Latest(k)
    BY <2>2 DEF OInv
  <2>11. /\ \A i \in DOMAIN recvdatabuf' : Latest(recvdatabuf'[i][1])
         /\ \A i \in DOMAIN sensor_mq' : Latest(sensor_mq'[i].sample)
    BY <2>2, <2>3, <2>10 DEF OInv
  <2> QED
    BY <2>1, <2>6, <2>8, <2>9, <2>11 DEF OInv, Latest, Unsent
<1>7. CASE OpenFile \/ WriteFile
  <2>1. Drain(recvdatabuf) /\ UNCHANGED <<samples, sensor, sensor_mq>>
    BY <1>7 DEF OpenFile, WriteFile, sensorVars
  <2>2. PICK n \in 0 .. Len(recvdatabuf) :
            /\ recvdatabuf' = SubSeq(recvdatabuf, n + 1, Len(recvdatabuf))
            /\ \A i \in DOMAIN recvdatabuf' :
                  i + n \in DOMAIN recvdatabuf /\ recvdatabuf'[i] = recvdatabuf[i + n]
    BY <1>0, <2>1, DrainTail
  <2>3. \A i \in DOMAIN recvdatabuf' : i \in Nat
    BY <1>0, <2>2
  <2>4. \A i, j \in DOMAIN recvdatabuf' : i < j => i + n < j + n
    BY <2>3
  <2>5. \A i, j \in DOMAIN recvdatabuf' : i < j => recvdatabuf'[i][1] <= recvdatabuf'[j][1]
    BY <2>2, <2>4 DEF OInv
  <2>6. \A i \in DOMAIN recvdatabuf' : Latest(recvdatabuf'[i][1])
    BY <2>2 DEF OInv
  <2>7. \A i \in DOMAIN recvdatabuf', j \in DOMAIN sensor_mq : recvdatabuf'[i][1] < sensor_mq[j].sample
    BY <2>2 DEF OInv
  <2>8. OInv
    OBVIOUS
  <2> QED
    BY <2>1, <2>5, <2>6, <2>7, <2>8 DEF OInv, Latest, Unsent
<1>8. CASE SetClock \/ UNCHANGED vars
  BY <1>0, <1>8 DEF SetClock, vars, sensorVars, OInv, Latest, Unsent
<1>9. CASE Restart
  <2>1. recvdatabuf' = <<>> /\ sensor_mq' = <<>>
    BY <1>9 DEF Restart
  <2> QED
    BY <2>1 DEF OInv
<1> QED
  BY <1>1, <1>2, <1>3, <1>4, <1>5, <1>6, <1>7, <1>8, <1>9
  DEF Next, SensorNext, SaverNext, CopyHours, CopyMinutes, CopySeconds, CopyDate, BoundReached

\* The samples DFSsave still holds and those on their way to it stay in the order
\* they were taken, none twice, whatever the card, the queue and the ring drop.
THEOREM RecorderOrder == Spec => []SamplesInOrder
<1>1. Init => OInv
  BY DEF Init, OInv
<1>2. OInv => SamplesInOrder
  BY DEF OInv, SamplesInOrder
<1>3. TypeOK /\ OInv /\ [Next]_vars => OInv'
  BY OInvStep
<1> QED
  BY <1>1, <1>2, <1>3, RecorderTypes, PTL DEF Spec


-----------------------------------------------------------------------------
(* The clock fields, when no card call outlasts a sampling period.  One    *)
(* sample is then on its way at a time, so that RTC_time stays what it was *)
(* when the sample was taken until DFSsave has done with it; a sample may  *)
(* be taken while DFSsave is in its delay, but not a second one.           *)

\* DFSsave has a sample in hand.
Busy == saver \in CardCalls \cup {"mqrecv"}

PInv ==
    /\ Busy => sensor = "read" /\ ~recvdata_event
    /\ saver \in CardCalls => waited = 0
    /\ recvdata_event => sensor = "read"
    /\ saver = "delay" /\ (recvdata_event \/ sensor # "read") => waited >= 1
    /\ Len(sensor_mq) = Flag(recvdata_event) + Flag(saver = "mqrecv") + Flag(sensor = "evsend")
    /\ \A i \in DOMAIN sensor_mq : RTC_time = Clock(sensor_mq[i].taken)
    /\ saver \in CardCalls => last.stamp = RTC_time /\ folder = RTC_time.day
    /\ saver \in {"open", "write", "close"} => name = FileName(RTC_time.day, RTC_time.h, RTC_time.m)
    /\ last.sample > 0 => last.stamp = Clock(last.taken)
    /\ sensor \in {"minutes", "seconds", "date", "mqsend"} => RTC_time.h = Clock(now).h
    /\ sensor \in {"seconds", "date", "mqsend"} => RTC_time.m = Clock(now).m
    /\ sensor \in {"date", "mqsend"} => RTC_time.s = Clock(now).s
    /\ sensor = "mqsend" => RTC_time.day = Clock(now).day

LEMMA PInvStep ==
    ASSUME TypeOK, PInv, CardDelay = 0, [Next]_vars
    PROVE  PInv'
<1>0. /\ sensor_mq \in Seq(Messages) /\ now \in Nat /\ RTC_time \in ClockFields
      /\ Len(sensor_mq) \in Nat /\ QueueDepth >= 2 /\ QueueDepth \in Nat
      /\ sensor_mq = <<>> <=> Len(sensor_mq) = 0
      /\ Len(sensor_mq) = Flag(recvdata_event) + Flag(saver = "mqrecv") + Flag(sensor = "evsend")
      /\ waited \in Nat
  BY QueueAssumption DEF TypeOK, PInv
<1>1. CASE ReadSensor
  <2>1. /\ sensor = "read" /\ sensor' \in {"read", "hours"}
        /\ waited' = IF saver \in CardCalls \cup {"delay"} THEN waited + 1 ELSE 0
        /\ waited < SamplesWhileBlocked /\ SaverBlocked
        /\ UNCHANGED <<RTC_time, sensor_mq, recvdata_event, saver, recvdatabuf, fileVars, last>>
    BY <1>1 DEF ReadSensor
  <2>2. saver \notin CardCalls
    BY <1>0, <2>1 DEF SamplesWhileBlocked
  <2>3. saver # "mqrecv"
    BY <1>0, <2>1, <2>2 DEF SaverBlocked, CardCalls, Flag
  <2>4. ~recvdata_event
    BY <1>0, <2>1, <2>2, <2>3 DEF SaverBlocked, PInv, SamplesWhileBlocked, TypeOK
  <2> QED
    BY <1>0, <2>1, <2>2, <2>3, <2>4 DEF PInv, Busy, fileVars, Flag
<1>2. ASSUME sensor \in {"hours", "minutes", "seconds", "date"}, NEW field,
             CopyField(sensor, sensor', field)
      PROVE  /\ DOMAIN sensor_mq = {} /\ Len(sensor_mq) = 0 /\ ~Busy /\ ~recvdata_event
             /\ RTC_time' = [RTC_time EXCEPT ![field] = Clock(now)[field]]
             /\ UNCHANGED <<now, sensor_mq, recvdata_event, saver, waited, folder, name, last>>
  <2>1. ~Busy /\ ~recvdata_event
    BY <1>2 DEF PInv
  <2>2. Len(sensor_mq) = 0 /\ sensor_mq = <<>> /\ DOMAIN sensor_mq = {}
    BY <1>0, <1>2, <2>1 DEF Flag, Busy
  <2> QED
    BY <1>2, <2>1, <2>2 DEF CopyField, fileVars
<1>3. CASE CopyHours \/ CopyMinutes \/ CopySeconds \/ CopyDate
  <2>0. /\ DOMAIN sensor_mq' = {} /\ Len(sensor_mq') = 0 /\ saver' \notin CardCalls \cup {"mqrecv"}
        /\ recvdata_event' = FALSE
        /\ UNCHANGED <<now, saver, waited, last>>
        /\ saver = "delay" => waited >= 1
        /\ last.sample > 0 => last.stamp = Clock(last.taken)
        /\ sensor \in {"minutes", "seconds", "date", "mqsend"} => RTC_time.h = Clock(now).h
        /\ sensor \in {"seconds", "date", "mqsend"} => RTC_time.m = Clock(now).m
        /\ sensor \in {"date", "mqsend"} => RTC_time.s = Clock(now).s
    <3>1. \E field : sensor \in {"hours", "minutes", "seconds", "date"} /\ CopyField(sensor, sensor', field)
      BY <1>3 DEF CopyHours, CopyMinutes, CopySeconds, CopyDate, CopyField
    <3>2. /\ DOMAIN sensor_mq = {} /\ Len(sensor_mq) = 0 /\ ~Busy /\ ~recvdata_event
          /\ UNCHANGED <<now, sensor_mq, recvdata_event, saver, waited, folder, name, last>>
      BY <1>2, <3>1
    <3>3. sensor # "read"
      BY <3>1
    <3> QED
      BY <3>2, <3>3 DEF PInv, Busy
  <2>1. CASE CopyHours
    <3>1. sensor = "hours" /\ sensor' = "minutes" /\ CopyField(sensor, sensor', "h")
      BY <2>1 DEF CopyHours, CopyField
    <3>2. RTC_time'.h = Clock(now).h
      BY <1>0, <1>2, <3>1 DEF ClockFields
    <3> QED
      BY <2>0, <3>1, <3>2 DEF PInv, Busy, Flag, CardCalls
  <2>2. CASE CopyMinutes
    <3>1. sensor = "minutes" /\ sensor' = "seconds" /\ CopyField(sensor, sensor', "m")
      BY <2>2 DEF CopyMinutes, CopyField
    <3>2. RTC_time'.m = Clock(now).m /\ RTC_time'.h = RTC_time.h
      BY <1>0, <1>2, <3>1 DEF ClockFields
    <3> QED
      BY <2>0, <3>1, <3>2 DEF PInv, Busy, Flag, CardCalls
  <2>3. CASE CopySeconds
    <3>1. sensor = "seconds" /\ sensor' = "date" /\ CopyField(sensor, sensor', "s")
      BY <2>3 DEF CopySeconds, CopyField
    <3>2. RTC_time'.s = Clock(now).s /\ RTC_time'.h = RTC_time.h /\ RTC_time'.m = RTC_time.m
      BY <1>0, <1>2, <3>1 DEF ClockFields
    <3> QED
      BY <2>0, <3>1, <3>2 DEF PInv, Busy, Flag, CardCalls
  <2>4. CASE CopyDate
    <3>1. sensor = "date" /\ sensor' = "mqsend" /\ CopyField(sensor, sensor', "day")
      BY <2>4 DEF CopyDate, CopyField
    <3>2. /\ RTC_time'.day = Clock(now).day /\ RTC_time'.h = RTC_time.h /\ RTC_time'.m = RTC_time.m
          /\ RTC_time'.s = RTC_time.s
      BY <1>0, <1>2, <3>1 DEF ClockFields
    <3> QED
      BY <2>0, <3>1, <3>2 DEF PInv, Busy, Flag, CardCalls
  <2> QED
    BY <1>3, <2>1, <2>2, <2>3, <2>4
<1>4. CASE SendMessage
  <2>1. /\ sensor = "mqsend" /\ sensor' = "evsend"
        /\ UNCHANGED <<now, RTC_time, recvdata_event, saver, waited, folder, name, last>>
    BY <1>4 DEF SendMessage, fileVars
  <2>2. ~Busy /\ ~recvdata_event
    BY <2>1 DEF PInv
  <2>3. sensor_mq = <<>>
    BY <1>0, <2>1, <2>2 DEF Flag, Busy
  <2>4. RTC_time = Clock(now)
    <3>1. RTC_time \in ClockFields /\ Clock(now) \in ClockFields
      BY <1>0, ClockType
    <3>2. /\ RTC_time.h = Clock(now).h /\ RTC_time.m = Clock(now).m
          /\ RTC_time.s = Clock(now).s /\ RTC_time.day = Clock(now).day
      BY <2>1 DEF PInv
    <3> QED
      BY <3>1, <3>2 DEF ClockFields
  <2>5. sensor_mq' = <<[sample |-> samples, fresh |-> fresh, taken |-> now]>>
    BY <1>0, <1>4, <2>3 DEF SendMessage
  <2>6. Len(sensor_mq') = 1 /\ DOMAIN sensor_mq' = {1} /\ sensor_mq'[1].taken = now
    BY <2>5
  <2> QED
    BY <2>1, <2>2, <2>4, <2>6 DEF PInv, Busy, Flag
<1>5. CASE SendEvent
  <2>1. /\ sensor = "evsend" /\ sensor' = "read" /\ recvdata_event' = TRUE
        /\ UNCHANGED <<now, RTC_time, sensor_mq, saver, waited, folder, name, last>>
    BY <1>5 DEF SendEvent, fileVars
  <2>2. ~Busy /\ ~recvdata_event
    BY <2>1 DEF PInv
  <2> QED
    BY <1>0, <2>1, <2>2 DEF PInv, Busy, Flag
<1>6. CASE ReceiveEvent
  <2>1. /\ saver = "evrecv" /\ recvdata_event /\ recvdata_event' = FALSE /\ saver' = "mqrecv"
        /\ UNCHANGED <<now, sensor, RTC_time, sensor_mq, waited, folder, name, last>>
    BY <1>6 DEF ReceiveEvent, sensorVars, fileVars
  <2>2. sensor = "read"
    BY <2>1 DEF PInv
  <2> QED
    BY <1>0, <2>1, <2>2 DEF PInv, Busy, Flag, CardCalls
<1>7. CASE ReceiveMessage
  <2>1. /\ saver = "mqrecv" /\ sensor_mq # <<>> /\ sensor_mq' = Tail(sensor_mq)
        /\ (saver' = "mkdir" /\ folder' = RTC_time.day) \/ (saver' = "evrecv" /\ folder' = folder)
        /\ waited' = 0
        /\ UNCHANGED <<now, sensor, RTC_time, recvdata_event, name>>
    BY <1>7 DEF ReceiveMessage, sensorVars
  <2>2. last'.stamp = RTC_time /\ last'.taken = sensor_mq[1].taken
    BY <1>0, <1>7 DEF ReceiveMessage
  <2>3. sensor = "read" /\ ~recvdata_event
    BY <2>1 DEF PInv, Busy
  <2>4. Len(sensor_mq) = 1
    BY <1>0, <2>1, <2>3 DEF Flag
  <2>5. Len(sensor_mq') = 0 /\ sensor_mq' = <<>> /\ RTC_time = Clock(sensor_mq[1].taken)
    BY <1>0, <2>1, <2>4 DEF PInv
  <2> QED
    BY <2>1, <2>2, <2>3, <2>5 DEF PInv, Busy, Flag, CardCalls
<1>8. CASE MakeFolder
  <2>1. /\ saver = "mkdir" /\ saver' = "open" /\ waited' = 0
        /\ name' = FileName(folder, RTC_time.h, RTC_time.m)
        /\ UNCHANGED <<now, sensor, RTC_time, sensor_mq, recvdata_event, folder, last>>
    BY <1>8 DEF MakeFolder, sensorVars
  <2> QED
    BY <1>0, <2>1 DEF PInv, Busy, Flag, CardCalls
<1>9. CASE OpenFile \/ WriteFile
  <2>1. /\ saver \in {"open", "write"} /\ saver' \in {"write", "close"} /\ waited' = 0
        /\ UNCHANGED <<now, sensor, RTC_time, sensor_mq, recvdata_event, folder, name, last>>
    BY <1>9 DEF OpenFile, WriteFile, Drain, sensorVars
  <2> QED
    BY <1>0, <2>1 DEF PInv, Busy, Flag, CardCalls
<1>10. CASE CloseFile
  <2>1. /\ saver = "close" /\ saver' = "delay" /\ waited' = 0
        /\ UNCHANGED <<now, sensor, RTC_time, sensor_mq, recvdata_event, folder, name, last>>
    BY <1>10 DEF CloseFile, sensorVars
  <2> QED
    BY <1>0, <2>1 DEF PInv, Busy, Flag, CardCalls
<1>11. CASE DelayOver
  <2>1. /\ saver = "delay" /\ saver' = "evrecv" /\ waited' = 0
        /\ UNCHANGED <<now, sensor, RTC_time, sensor_mq, recvdata_event, folder, name, last>>
    BY <1>11 DEF DelayOver, sensorVars, fileVars
  <2> QED
    BY <1>0, <2>1 DEF PInv, Busy, Flag, CardCalls
<1>12. CASE SetClock
  <2>1. /\ sensor = "read"
        /\ UNCHANGED <<sensor, RTC_time, sensor_mq, recvdata_event, saver, waited, folder, name, last>>
    BY <1>12 DEF SetClock, fileVars
  <2> QED
    BY <1>0, <2>1 DEF PInv, Busy, Flag
<1>13. CASE Restart
  <2>1. /\ sensor' = "read" /\ sensor_mq' = <<>> /\ recvdata_event' = FALSE /\ saver' = "evrecv"
        /\ waited' = 0 /\ last'.sample = 0
    BY <1>13 DEF Restart
  <2> QED
    BY <2>1 DEF PInv, Busy, Flag, CardCalls
<1>14. CASE UNCHANGED vars
  BY <1>14 DEF vars, sensorVars, fileVars, PInv, Busy
<1> QED
  BY <1>1, <1>3, <1>4, <1>5, <1>6, <1>7, <1>8, <1>9, <1>10, <1>11, <1>12, <1>13, <1>14
  DEF Next, SensorNext, SaverNext, BoundReached

LEMMA PInvHolds ==
    ASSUME CardDelay = 0
    PROVE  Spec => []PInv
<1>1. Init => PInv
  BY DEF Init, PInv, Busy, Flag, CardCalls
<1>2. TypeOK /\ PInv /\ [Next]_vars => PInv'
  BY PInvStep
<1> QED
  BY <1>1, <1>2, RecorderTypes, PTL DEF Spec

\* On a card whose calls return within a sampling period each record carries the
\* clock fields of its own sample and goes to the file of its own minute, though
\* two threads read and write RTC_time with no lock and the user sets the clock
\* and the power fails at any moment.
THEOREM RecorderTimes ==
    ASSUME CardDelay = 0
    PROVE  Spec => []TimesAgree
<1>1. PInv => TimesAgree
  BY DEF PInv, TimesAgree, CardCalls
<1> QED
  BY <1>1, PInvHolds, PTL


-----------------------------------------------------------------------------
(* The minutes.  While the clock runs, the sample of each second has gone  *)
(* all its way before the next is taken, and the one of a last second ends *)
(* in its file; setting the clock and cutting the power only shorten what  *)
(* is promised.                                                            *)

\* The file of second t is there, with something in it.
Saved(t) ==
    LET file == FileName(Clock(t).day, Clock(t).h, Clock(t).m)
    IN  file \in DOMAIN files /\ files[file] # <<>>

\* t is the last second of its minute.
Closing(t) == t % SecondsPerMinute = SecondsPerMinute - 1

\* The last sample has gone all its way.
Settled == sensor = "read" /\ ~recvdata_event /\ saver \in {"evrecv", "delay"}

EInv ==
    /\ since <= now
    /\ \A t \in since + 1 .. now - 1 : Closing(t) => Saved(t)
    /\ now > since /\ Closing(now) /\ Settled => Saved(now)
    /\ now > since /\ sensor \in {"read", "evsend"} => RTC_time = Clock(now)
    /\ saver \in {"mkdir", "open"} => recvdatabuf # <<>>
    /\ saver = "write" => writebuffer # <<>> /\ fd = "open" /\ name \in DOMAIN files
    /\ saver = "close" => name \in DOMAIN files /\ files[name] # <<>>

\* A file that has something in it keeps something.
LEMMA SavedKept ==
    ASSUME NEW t, Saved(t), DOMAIN files \subseteq DOMAIN files',
           \A f \in DOMAIN files : files[f] # <<>> => files'[f] # <<>>
    PROVE  Saved(t)'
  BY DEF Saved

\* The drain loop writes something, or there was nothing.
LEMMA DrainSomething ==
    ASSUME NEW ring \in Seq(Chunks), Drain(ring)
    PROVE  /\ ring # <<>> => saver' = "write"
           /\ saver' = "write" => writebuffer' # <<>>
           /\ saver' \in {"write", "close"}
<1>1. CASE ring = <<>>
  BY <1>1 DEF Drain
<1>2. CASE ring # <<>>
  <2> DEFINE size == Least(Threshold, Len(ring))
  <2>1. size \in 1 .. Len(ring)
    BY <1>2, SizeAssumption DEF Least
  <2>2. saver' = "write" /\ writebuffer' = SubSeq(ring, 1, size)
    BY <1>2 DEF Drain
  <2> HIDE DEF size
  <2>3. Len(SubSeq(ring, 1, size)) = size
    BY <2>1
  <2> QED
    BY <1>2, <2>1, <2>2, <2>3
<1> QED
  BY <1>1, <1>2

LEMMA EInvStep ==
    ASSUME TypeOK, PInv, EInv, [Next]_vars,
           CardDelay = 0, CardFaults = {}, Outcomes \subseteq {"absent"}
    PROVE  EInv'
<1>0. /\ now \in Nat /\ since \in Nat /\ since <= now
      /\ recvdatabuf \in Seq(Chunks) /\ writebuffer \in Seq(Chunks) /\ pos \in Nat
      /\ Len(recvdatabuf) <= RingSize
      /\ \A f \in DOMAIN files : files[f] \in Seq(Chunks)
  BY DEF TypeOK, EInv
\* Of a step that leaves the clock, all that was saved stays so.
<1>a. ASSUME UNCHANGED <<now, since>>, DOMAIN files \subseteq DOMAIN files',
             \A f \in DOMAIN files : files[f] # <<>> => files'[f] # <<>>
      PROVE  /\ since' <= now'
             /\ \A t \in since' + 1 .. now' - 1 : Closing(t) => Saved(t)'
             /\ Saved(now) => Saved(now)'
  BY <1>a, SavedKept DEF EInv
<1>1. CASE ReadSensor
  <2>1. /\ sensor = "read" /\ sensor' = "hours" /\ waited < SamplesWhileBlocked /\ SaverBlocked
        /\ now' = now \/ now' = now + 1
        /\ UNCHANGED <<sensor_mq, recvdata_event, saver, recvdatabuf, name, fd, writebuffer, files, since>>
    BY <1>1 DEF ReadSensor, fileVars, worldVars
  <2>2. saver \notin CardCalls
    BY <2>1 DEF SamplesWhileBlocked, PInv
  <2>3. saver # "mqrecv"
    BY <2>1, <2>2 DEF SaverBlocked, CardCalls, Flag, PInv
  <2>4. ~recvdata_event
    BY <2>1, <2>2, <2>3 DEF SaverBlocked, PInv, SamplesWhileBlocked, TypeOK
  <2>5. Settled
    BY <2>1, <2>2, <2>3, <2>4 DEF Settled, TypeOK
  <2>6. \A t \in since' + 1 .. now' - 1 : Closing(t) => Saved(t)'
    <3> SUFFICES ASSUME NEW t \in since + 1 .. now' - 1, Closing(t) PROVE Saved(t)
      BY <2>1 DEF Saved
    <3>1. CASE t \in since + 1 .. now - 1
      BY <3>1 DEF EInv
    <3>2. CASE t \notin since + 1 .. now - 1
      <4>1. t = now /\ now > since
        BY <1>0, <2>1, <3>2
      <4> QED
        BY <2>5, <4>1 DEF EInv
    <3> QED
      BY <3>1, <3>2
  <2>7. since' <= now'
    BY <1>0, <2>1
  <2> QED
    BY <2>1, <2>6, <2>7 DEF EInv, Settled
<1>2. CASE CopyHours \/ CopyMinutes \/ CopySeconds \/ CopyDate
  <2>1. /\ sensor # "read" /\ sensor' \notin {"read", "evsend"}
        /\ UNCHANGED <<now, since, saver, recvdatabuf, name, fd, writebuffer, files>>
    BY <1>2 DEF CopyHours, CopyMinutes, CopySeconds, CopyDate, CopyField, fileVars, worldVars
  <2> QED
    BY <1>a, <2>1 DEF EInv, Settled
<1>3. CASE SendMessage
  <2>1. /\ sensor = "mqsend" /\ sensor' = "evsend"
        /\ UNCHANGED <<now, since, RTC_time, saver, recvdatabuf, name, fd, writebuffer, files>>
    BY <1>3 DEF SendMessage, fileVars, worldVars
  <2>2. RTC_time = Clock(now)
    <3>1. RTC_time \in ClockFields /\ Clock(now) \in ClockFields
      BY <1>0, ClockType DEF TypeOK
    <3>2. /\ RTC_time.h = Clock(now).h /\ RTC_time.m = Clock(now).m
          /\ RTC_time.s = Clock(now).s /\ RTC_time.day = Clock(now).day
      BY <2>1 DEF PInv
    <3> QED
      BY <3>1, <3>2 DEF ClockFields
  <2> QED
    BY <1>a, <2>1, <2>2 DEF EInv, Settled
<1>4. CASE SendEvent
  <2>1. /\ sensor = "evsend" /\ recvdata_event'
        /\ UNCHANGED <<now, since, RTC_time, saver, recvdatabuf, name, fd, writebuffer, files>>
    BY <1>4 DEF SendEvent, fileVars, worldVars
  <2> QED
    BY <1>a, <2>1 DEF EInv, Settled
<1>5. CASE ReceiveEvent
  <2>1. /\ saver' = "mqrecv"
        /\ UNCHANGED <<now, since, sensor, RTC_time, recvdatabuf, name, fd, writebuffer, files>>
    BY <1>5 DEF ReceiveEvent, sensorVars, fileVars, worldVars
  <2> QED
    BY <1>a, <2>1 DEF EInv, Settled
<1>6. CASE ReceiveMessage
  <2> DEFINE k == Head(sensor_mq).sample
  <2>1. /\ saver = "mqrecv" /\ sensor_mq # <<>>
        /\ saver' = IF RTC_time.s = LastSecond THEN "mkdir" ELSE "evrecv"
        /\ recvdatabuf' = Put(recvdatabuf, Record(k))
        /\ UNCHANGED <<now, since, sensor, RTC_time, files>>
    BY <1>6 DEF ReceiveMessage, sensorVars, worldVars
  <2>2. sensor = "read"
    BY <2>1 DEF PInv, Busy
  <2>3. recvdatabuf' # <<>>
    <3>1. k \in Nat
      <4>1. sensor_mq[1] \in Messages /\ k = sensor_mq[1].sample
        BY <2>1 DEF TypeOK
      <4> QED
        BY <4>1 DEF Messages
    <3>2. Record(k) \in Seq(Chunks) /\ Len(Record(k)) = RecordLen
      BY <3>1, RecordType
    <3> DEFINE r == Record(k)
               n == Least(Len(r), RingSize - Len(recvdatabuf))
    <3> HIDE DEF k, r
    <3>3. n \in 0 .. Len(r) /\ Len(recvdatabuf) + n >= 1 /\ r \in Seq(Chunks)
      BY <1>0, <3>2, SizeAssumption DEF Least, r
    <3>4. recvdatabuf' = recvdatabuf \o SubSeq(r, 1, n)
      BY <2>1 DEF Put, r
    <3> HIDE DEF n
    <3>5. SubSeq(r, 1, n) \in Seq(Chunks) /\ Len(SubSeq(r, 1, n)) = n
      BY <3>3
    <3>6. Len(recvdatabuf') = Len(recvdatabuf) + n
      BY <1>0, <3>4, <3>5
    <3> QED
      BY <3>3, <3>6
  <2>4. now > since /\ Closing(now) => saver' = "mkdir"
    <3> SUFFICES ASSUME now > since, Closing(now) PROVE saver' = "mkdir"
      OBVIOUS
    <3>1. RTC_time = Clock(now)
      BY <2>2 DEF EInv
    <3>2. Clock(now).s = now % SecondsPerMinute
      BY DEF Clock
    <3> QED
      BY <2>1, <3>1, <3>2 DEF Closing, LastSecond
  <2> QED
    BY <1>a, <2>1, <2>2, <2>3, <2>4 DEF EInv, Settled
<1>7. CASE MakeFolder
  <2>1. /\ saver = "mkdir" /\ saver' = "open"
        /\ UNCHANGED <<now, since, sensor, RTC_time, recvdatabuf, files>>
    BY <1>7 DEF MakeFolder, sensorVars, worldVars
  <2> QED
    BY <1>a, <2>1 DEF EInv, Settled
<1>8. CASE OpenFile
  <2>1. /\ saver = "open" /\ Drain(recvdatabuf) /\ fd' = "open"
        /\ files' = [f \in DOMAIN files \cup {name} |->
                       IF f \in DOMAIN files THEN files[f] ELSE <<>>]
        /\ UNCHANGED <<now, since, sensor, RTC_time, name>>
    BY <1>8 DEF OpenFile, sensorVars, worldVars
  <2>2. saver' = "write" /\ writebuffer' # <<>>
    BY <1>0, <2>1, DrainSomething DEF EInv
  <2>3. /\ DOMAIN files' = DOMAIN files \cup {name}
        /\ \A f \in DOMAIN files : files'[f] = files[f]
    BY <2>1
  <2> QED
    BY <1>a, <2>1, <2>2, <2>3 DEF EInv, Settled
<1>9. CASE WriteFile
  <2>1. /\ saver = "write" /\ Drain(recvdatabuf) /\ fd = "open" /\ writebuffer # <<>>
        /\ name \in DOMAIN files
        /\ files' = [files EXCEPT ![name] =
                       Overwrite(files[name], pos, SubSeq(writebuffer, 1, Len(writebuffer)))]
        /\ UNCHANGED <<now, since, sensor, RTC_time, name, fd>>
    BY <1>9 DEF WriteFile, EInv, sensorVars, worldVars
  <2> DEFINE bytes == SubSeq(writebuffer, 1, Len(writebuffer))
             file  == Overwrite(files[name], pos, bytes)
  <2>2. bytes \in Seq(Chunks) /\ Len(bytes) > 0 /\ files[name] \in Seq(Chunks)
    BY <1>0, <2>1
  <2>3. pos + Len(bytes) <= Len(file)
    <3> HIDE DEF bytes
    <3> QED
      BY <1>0, <2>2, OverwriteLength
  <2>4. file # <<>>
    <3> HIDE DEF bytes, file
    <3>1. Len(bytes) \in Nat /\ Len(<<>>) = 0
      BY <2>2
    <3> QED
      BY <1>0, <2>2, <2>3, <3>1
  <2>5. /\ DOMAIN files' = DOMAIN files /\ files'[name] = file
        /\ \A f \in DOMAIN files : f # name => files'[f] = files[f]
    BY <2>1
  <2> HIDE DEF file
  <2>6. saver' \in {"write", "close"} /\ (saver' = "write" => writebuffer' # <<>>)
    BY <1>0, <2>1, DrainSomething
  <2> QED
    BY <1>a, <2>1, <2>4, <2>5, <2>6 DEF EInv, Settled
<1>10. CASE CloseFile
  <2>1. /\ saver = "close" /\ saver' = "delay"
        /\ UNCHANGED <<now, since, sensor, RTC_time, files>>
    BY <1>10 DEF CloseFile, sensorVars, worldVars
  <2>2. now > since /\ Closing(now) => Saved(now)
    <3> SUFFICES ASSUME now > since PROVE Saved(now)
      OBVIOUS
    <3>1. sensor = "read" /\ name = FileName(RTC_time.day, RTC_time.h, RTC_time.m)
      BY <2>1 DEF PInv, Busy, CardCalls
    <3>2. RTC_time = Clock(now)
      BY <3>1 DEF EInv
    <3>3. name \in DOMAIN files /\ files[name] # <<>>
      BY <2>1 DEF EInv
    <3> QED
      BY <3>1, <3>2, <3>3 DEF Saved
  <2> QED
    BY <1>a, <2>1, <2>2 DEF EInv, Settled
<1>11. CASE DelayOver
  <2>1. /\ saver = "delay" /\ saver' = "evrecv"
        /\ UNCHANGED <<now, since, sensor, RTC_time, recvdata_event, recvdatabuf, name, fd,
                       writebuffer, files>>
    BY <1>11 DEF DelayOver, sensorVars, fileVars, worldVars
  <2> QED
    BY <1>a, <2>1 DEF EInv, Settled
<1>12. CASE SetClock
  <2>1. /\ now' \in Nat /\ since' = now'
        /\ UNCHANGED <<saver, recvdatabuf, name, fd, writebuffer, files>>
    <3>1. PICK t \in 0 .. LastTime : now' = t /\ since' = t
      BY <1>12, Zenon DEF SetClock
    <3> QED
      BY <1>12, <3>1, BoundAssumption DEF SetClock, fileVars
  <2> QED
    BY <2>1 DEF EInv
<1>13. CASE Restart
  <2>1. now' \in Nat /\ since' = now' /\ saver' = "evrecv"
    BY <1>0, <1>13, BoundAssumption, ClockAssumption DEF Restart
  <2>2. ~(now' > since') /\ since' <= now' /\ (since' + 1) .. (now' - 1) = {}
    <3>1. \A x \in Nat : ~(x > x) /\ x <= x /\ (x + 1) .. (x - 1) = {}
      OBVIOUS
    <3> QED
      BY <2>1, <3>1
  <2>3. saver' \notin {"mkdir", "open", "write", "close"}
    BY <2>1
  <2> QED
    BY <2>2, <2>3 DEF EInv
<1>14. CASE UNCHANGED vars
  <2>1. UNCHANGED <<now, since, sensor, RTC_time, recvdata_event, saver, recvdatabuf, name, fd,
                    writebuffer, files>>
    BY <1>14 DEF vars, sensorVars, fileVars, worldVars
  <2> QED
    BY <1>a, <2>1 DEF EInv, Settled
<1> QED
  BY <1>1, <1>2, <1>3, <1>4, <1>5, <1>6, <1>7, <1>8, <1>9, <1>10, <1>11, <1>12, <1>13, <1>14
  DEF Next, SensorNext, SaverNext, BoundReached

\* With every read recorded and a card that works and is quick, every minute that
\* goes by has its file, with something in it, whatever the lengths of the minute,
\* the ring and the writes, and however often the clock is set and the power fails.
THEOREM RecorderMinutes ==
    ASSUME CardDelay = 0, CardFaults = {}, Outcomes \subseteq {"absent"}
    PROVE  Spec => []EveryMinuteSaved
<1>1. Init => EInv
  BY ClockAssumption DEF Init, EInv
<1>2. TypeOK /\ PInv /\ EInv /\ [Next]_vars => EInv'
  BY EInvStep
<1>3. TypeOK /\ EInv => EveryMinuteSaved
  <2> SUFFICES ASSUME TypeOK, EInv, Idle, NEW t \in since + 1 .. now, Closing(t) PROVE Saved(t)
    BY DEF EveryMinuteSaved, Closing, Saved
  <2>1. Settled
    BY DEF Settled, Idle
  <2>2. t \in since + 1 .. now - 1 \/ (t = now /\ now > since)
    BY DEF TypeOK
  <2> QED
    BY <2>1, <2>2 DEF EInv
<1>4. Spec => []PInv
  BY PInvHolds
<1> QED
  BY <1>1, <1>2, <1>3, <1>4, RecorderTypes, PTL DEF Spec


-----------------------------------------------------------------------------
(* Whole records.                                                          *)

LEMMA ModUnique ==
    ASSUME NEW n \in Nat \ {0}, NEW q \in Nat, NEW r \in 0 .. n - 1
    PROVE  (n * q + r) % n = r
  OBVIOUS

LEMMA DivMod ==
    ASSUME NEW n \in Nat \ {0}, NEW a \in Nat
    PROVE  \E q \in Nat, r \in 0 .. n - 1 : a = n * q + r /\ a % n = r
<1>1. a \div n \in Nat /\ a % n \in 0 .. n - 1 /\ a = (n * (a \div n)) + (a % n)
  OBVIOUS
<1> QED
  BY <1>1

\* The next second.
LEMMA NextPlace ==
    ASSUME NEW n \in Nat \ {0}, NEW a \in Nat
    PROVE  /\ a % n \in 0 .. n - 1
           /\ (a + 1) % n = IF a % n = n - 1 THEN 0 ELSE (a % n) + 1
<1>1. PICK q \in Nat, r \in 0 .. n - 1 : a = n * q + r /\ a % n = r
  BY DivMod
<1>2. CASE r = n - 1
  <2>1. a + 1 = n * (q + 1) + 0 /\ q + 1 \in Nat /\ 0 \in 0 .. n - 1
    BY <1>1, <1>2
  <2>2. (n * (q + 1) + 0) % n = 0
    BY <2>1, ModUnique
  <2> QED
    BY <1>1, <1>2, <2>1, <2>2
<1>3. CASE r # n - 1
  <2>1. a + 1 = n * q + (r + 1) /\ r + 1 \in 0 .. n - 1
    BY <1>1, <1>3
  <2>2. (n * q + (r + 1)) % n = r + 1
    BY <2>1, ModUnique
  <2> QED
    BY <1>1, <1>3, <2>1, <2>2
<1> QED
  BY <1>2, <1>3

LEMMA ConcatAssoc ==
    ASSUME NEW a \in Seq(Chunks), NEW b \in Seq(Chunks), NEW c \in Seq(Chunks)
    PROVE  (a \o b) \o c = a \o (b \o c) /\ <<>> \o a = a /\ a \o <<>> = a
  OBVIOUS

LEMMA PrefixLemma ==
    ASSUME NEW a \in Seq(Chunks), NEW n \in 0 .. Len(a)
    PROVE  /\ SubSeq(a, 1, n) \in Seq(Chunks) /\ Len(SubSeq(a, 1, n)) = n
           /\ SubSeq(a, 1, n) \o SubSeq(a, n + 1, Len(a)) = a
           /\ SubSeq(a, 1, Len(a)) = a /\ SubSeq(a, 1, 0) = <<>>
<1>1. SubSeq(a, 1, n) \in Seq(Chunks) /\ Len(SubSeq(a, 1, n)) = n
  OBVIOUS
<1>2. /\ SubSeq(a, n + 1, Len(a)) \in Seq(Chunks) /\ Len(SubSeq(a, n + 1, Len(a))) = Len(a) - n
      /\ \A i \in 1 .. Len(a) - n : SubSeq(a, n + 1, Len(a))[i] = a[n + i]
  OBVIOUS
<1>3. \A i \in 1 .. n : SubSeq(a, 1, n)[i] = a[i]
  OBVIOUS
<1> DEFINE x == SubSeq(a, 1, n)
           y == SubSeq(a, n + 1, Len(a))
<1>4. x \in Seq(Chunks) /\ y \in Seq(Chunks) /\ Len(x) = n /\ Len(y) = Len(a) - n
  BY <1>1, <1>2
<1>5. \A i \in 1 .. n : x[i] = a[i]
  BY <1>3
<1>6. \A i \in 1 .. Len(a) - n : y[i] = a[n + i]
  BY <1>2
<1> HIDE DEF x, y
<1>7. x \o y \in Seq(Chunks) /\ Len(x \o y) = Len(a)
  BY <1>4
<1>8. \A i \in 1 .. Len(a) : (x \o y)[i] = a[i]
  <2> SUFFICES ASSUME NEW i \in 1 .. Len(a) PROVE (x \o y)[i] = a[i]
    OBVIOUS
  <2>1. CASE i <= n
    BY <1>4, <1>5, <2>1
  <2>2. CASE ~(i <= n)
    <3>1. (x \o y)[i] = y[i - n] /\ i - n \in 1 .. Len(a) - n /\ n + (i - n) = i
      BY <1>4, <2>2
    <3> QED
      BY <1>6, <3>1
  <2> QED
    BY <2>1, <2>2
<1>9. x \o y = a
  <2> DEFINE z == x \o y
  <2>1. z \in Seq(Chunks) /\ Len(z) = Len(a) /\ \A i \in 1 .. Len(a) : z[i] = a[i]
    BY <1>7, <1>8
  <2> HIDE DEF z
  <2>2. z = a
    BY <2>1
  <2> QED
    BY <2>2 DEF z
<1>10. /\ SubSeq(a, 1, Len(a)) \in Seq(Chunks) /\ Len(SubSeq(a, 1, Len(a))) = Len(a)
       /\ \A i \in 1 .. Len(a) : SubSeq(a, 1, Len(a))[i] = a[i]
  OBVIOUS
<1>11. SubSeq(a, 1, Len(a)) = a
  BY <1>10
<1>12. SubSeq(a, 1, 0) = <<>>
  OBVIOUS
<1> QED
  BY <1>1, <1>9, <1>11, <1>12 DEF x, y

\* A record behind whole records of earlier samples.
LEMMA WholeAppend ==
    ASSUME NEW ring \in Seq(Chunks), WholeRecords(ring), NEW k \in Nat,
           \A i \in DOMAIN ring : ring[i][1] < k,
           Len(ring) + RecordLen <= RingSize
    PROVE  LET r == Put(ring, Record(k))
           IN  r \in Seq(Chunks) /\ WholeRecords(r) /\ Len(r) = Len(ring) + RecordLen
<1> DEFINE bytes == Record(k)
           r == Put(ring, bytes)
           n == Len(ring)
<1>1. /\ bytes \in Seq(Chunks) /\ Len(bytes) = RecordLen /\ n \in Nat
      /\ \A j \in 1 .. RecordLen : bytes[j] = <<k, j>>
  BY RecordType, SizeAssumption DEF Record
<1> HIDE DEF bytes
<1>2. Put(ring, bytes) = ring \o bytes
  <2>1. Least(Len(bytes), RingSize - Len(ring)) = Len(bytes)
    <3>1. RingSize \in Nat /\ RecordLen \in Nat /\ Len(ring) \in Nat /\ Len(bytes) = RecordLen
      BY <1>1, SizeAssumption
    <3> HIDE DEF n
    <3>2. ~(Len(bytes) < RingSize - Len(ring)) => RingSize - Len(ring) = Len(bytes)
      BY <3>1
    <3> QED
      BY <3>2 DEF Least
  <2>2. SubSeq(bytes, 1, Len(bytes)) = bytes
    <3>1. Len(bytes) \in 0 .. Len(bytes)
      BY <1>1
    <3> QED
      BY <1>1, <3>1, PrefixLemma
  <2> QED
    BY <2>1, <2>2 DEF Put
<1>3. /\ r \in Seq(Chunks) /\ Len(r) = n + RecordLen /\ DOMAIN r = 1 .. n + RecordLen
      /\ \A i \in 1 .. n : r[i] = ring[i]
      /\ \A i \in n + 1 .. n + RecordLen : r[i] = bytes[i - n]
  BY <1>1, <1>2, SizeAssumption
<1> HIDE DEF r
<1>4. PICK q \in Nat : n = RecordLen * q
  <2>1. n % RecordLen = 0
    BY DEF WholeRecords
  <2>2. PICK q \in Nat, j \in 0 .. RecordLen - 1 : n = RecordLen * q + j /\ n % RecordLen = j
    BY <1>1, DivMod, SizeAssumption
  <2>3. j = 0
    BY <2>1, <2>2
  <2>4. RecordLen * q \in Nat
    BY <2>2, SizeAssumption
  <2>5. n = RecordLen * q
    BY <2>2, <2>3, <2>4
  <2> QED
    BY <2>2, <2>5
<1>5. Len(r) % RecordLen = 0
  <2>1. n + RecordLen = RecordLen * (q + 1) + 0 /\ q + 1 \in Nat /\ 0 \in 0 .. RecordLen - 1
    BY <1>4, SizeAssumption
  <2>2. (RecordLen * (q + 1) + 0) % RecordLen = 0
    BY <2>1, ModUnique, SizeAssumption
  <2> QED
    BY <1>3, <2>1, <2>2
<1>6. ASSUME NEW i \in 1 .. n
      PROVE  /\ r[i][2] = ((i - 1) % RecordLen) + 1
             /\ i > 1 => \/ r[i][2] > 1 /\ r[i][1] = r[i - 1][1]
                         \/ r[i][2] = 1 /\ r[i][1] > r[i - 1][1]
  <2>1. i \in DOMAIN ring /\ r[i] = ring[i] /\ (i > 1 => r[i - 1] = ring[i - 1])
    BY <1>1, <1>3
  <2> QED
    BY <2>1 DEF WholeRecords
<1>7. ASSUME NEW i \in n + 1 .. n + RecordLen
      PROVE  /\ r[i][2] = ((i - 1) % RecordLen) + 1
             /\ i > 1 => \/ r[i][2] > 1 /\ r[i][1] = r[i - 1][1]
                         \/ r[i][2] = 1 /\ r[i][1] > r[i - 1][1]
  <2> DEFINE j == i - n
  <2>1. j \in 1 .. RecordLen /\ r[i] = <<k, j>> /\ i - 1 = n + (j - 1) /\ j - 1 \in 0 .. RecordLen - 1
    BY <1>1, <1>3, SizeAssumption
  <2>2. (i - 1) % RecordLen = j - 1
    <3>1. (RecordLen * q + (j - 1)) % RecordLen = j - 1
      <4> HIDE DEF j
      <4> QED
        BY <2>1, ModUnique, SizeAssumption
    <3> QED
      BY <1>4, <2>1, <3>1
  <2> HIDE DEF j
  <2>3. r[i][2] = j /\ r[i][1] = k /\ j \in Nat
    BY <2>1
  <2>4. CASE j > 1
    <3>1. r[i - 1] = <<k, j - 1>>
      <4>1. i - 1 \in n + 1 .. n + RecordLen /\ (i - 1) - n = j - 1 /\ j - 1 \in 1 .. RecordLen
        BY <1>1, <2>1, <2>4, SizeAssumption
      <4> QED
        BY <1>1, <1>3, <4>1
    <3> QED
      BY <2>2, <2>3, <2>4, <3>1
  <2>5. CASE j = 1
    <3>1. i > 1 => r[i - 1][1] < k /\ r[i - 1][1] \in Nat
      <4> SUFFICES ASSUME i > 1 PROVE r[i - 1][1] < k /\ r[i - 1][1] \in Nat
        OBVIOUS
      <4>1. i - 1 \in 1 .. n /\ i - 1 \in DOMAIN ring
        BY <1>1, <2>1, <2>5
      <4>2. r[i - 1] = ring[i - 1] /\ ring[i - 1] \in Chunks
        BY <1>3, <4>1
      <4> QED
        BY <4>1, <4>2 DEF Chunks
    <3> QED
      BY <2>2, <2>3, <2>5, <3>1
  <2> QED
    BY <2>1, <2>4, <2>5
<1>8. WholeRecords(r)
  <2>1. \A i \in DOMAIN r : i \in 1 .. n \/ i \in n + 1 .. n + RecordLen
    BY <1>1, <1>3, SizeAssumption
  <2> QED
    BY <1>5, <1>6, <1>7, <2>1 DEF WholeRecords
<1> QED
  BY <1>3, <1>8 DEF r, bytes

\* What a write leaves up to the new position.
LEMMA OverwritePrefix ==
    ASSUME NEW content \in Seq(Chunks), NEW at \in 0 .. Len(content), NEW bytes \in Seq(Chunks)
    PROVE  /\ Overwrite(content, at, bytes) \in Seq(Chunks)
           /\ at + Len(bytes) \in 0 .. Len(Overwrite(content, at, bytes))
           /\ SubSeq(Overwrite(content, at, bytes), 1, at + Len(bytes)) = SubSeq(content, 1, at) \o bytes
<1> DEFINE file == Overwrite(content, at, bytes)
           e == at + Len(bytes)
           m == IF e > Len(content) THEN e ELSE Len(content)
<1>1. file \in Seq(Chunks)
  BY OverwriteType
<1>2. /\ e \in Nat /\ m \in Nat /\ e <= m /\ at <= e /\ DOMAIN file = 1 .. m /\ Len(file) = m
      /\ \A i \in 1 .. m : file[i] = IF i > at /\ i <= e THEN bytes[i - at] ELSE content[i]
  BY DEF Overwrite
<1> HIDE DEF file
<1>3. /\ SubSeq(file, 1, e) \in Seq(Chunks) /\ Len(SubSeq(file, 1, e)) = e
      /\ \A i \in 1 .. e : SubSeq(file, 1, e)[i] = file[i]
  <2> HIDE DEF e, m
  <2> QED
    BY <1>1, <1>2
<1> DEFINE s == SubSeq(content, 1, at) \o bytes
<1>4. /\ s \in Seq(Chunks) /\ Len(s) = e
      /\ \A i \in 1 .. e : s[i] = IF i > at THEN bytes[i - at] ELSE content[i]
  <2>1. /\ SubSeq(content, 1, at) \in Seq(Chunks) /\ Len(SubSeq(content, 1, at)) = at
        /\ \A i \in 1 .. at : SubSeq(content, 1, at)[i] = content[i]
    OBVIOUS
  <2> QED
    BY <2>1
<1>5. \A i \in 1 .. e : s[i] = SubSeq(file, 1, e)[i]
  <2> SUFFICES ASSUME NEW i \in 1 .. e PROVE s[i] = SubSeq(file, 1, e)[i]
    OBVIOUS
  <2> HIDE DEF s, e, m
  <2>1. i \in 1 .. m /\ i <= e
    BY <1>2
  <2>2. file[i] = IF i > at THEN bytes[i - at] ELSE content[i]
    BY <1>2, <2>1
  <2>3. SubSeq(file, 1, e)[i] = file[i]
    BY <1>3
  <2>4. s[i] = IF i > at THEN bytes[i - at] ELSE content[i]
    BY <1>4
  <2> QED
    BY <2>2, <2>3, <2>4
<1> HIDE DEF s
<1>6. s = SubSeq(file, 1, e)
  <2> HIDE DEF e, m
  <2> QED
    BY <1>2, <1>3, <1>4, <1>5
<1> QED
  BY <1>1, <1>2, <1>6 DEF file, s

\* The drain loop parts the ring and leaves nothing out.
LEMMA DrainParts ==
    ASSUME NEW ring \in Seq(Chunks), Drain(ring)
    PROVE  /\ saver' \in {"write", "close"}
           /\ saver' = "write" => writebuffer' \o recvdatabuf' = ring
           /\ saver' = "close" => recvdatabuf' = <<>> /\ ring = <<>>
<1>1. CASE ring = <<>>
  BY <1>1 DEF Drain
<1>2. CASE ring # <<>>
  <2> DEFINE size == Least(Threshold, Len(ring))
  <2>1. size \in 0 .. Len(ring)
    BY SizeAssumption DEF Least
  <2>2. /\ saver' = "write" /\ writebuffer' = SubSeq(ring, 1, size)
        /\ recvdatabuf' = SubSeq(ring, size + 1, Len(ring))
    BY <1>2 DEF Drain
  <2> HIDE DEF size
  <2> QED
    BY <2>1, <2>2, PrefixLemma
<1> QED
  BY <1>1, <1>2


-----------------------------------------------------------------------------
(* How full the ring gets.  A second of the minute brings at most two      *)
(* records, the second 59 is saved at once, and each setting of the clock  *)
(* may put a save off by the seconds of one more minute.                   *)

LEMMA MulMono ==
    ASSUME NEW c \in Nat, NEW a \in Nat, NEW b \in Nat, a <= b
    PROVE  c * a \in Nat /\ c * b \in Nat /\ c * a <= c * b /\ c * (a + 1) = c * a + c
<1>1. c * a \in Nat /\ c * b \in Nat /\ c * (a + 1) = c * a + c
  OBVIOUS
<1>2. b - a \in Nat /\ c * (b - a) \in Nat /\ c * b = c * a + c * (b - a)
  OBVIOUS
<1> QED
  BY <1>1, <1>2

\* Records put off by the settings of the clock so far.
Quota == (2 * (SecondsPerMinute - 1)) * settings

Place == now % SecondsPerMinute

\* Records the ring may hold once the last sample is in it, and before that.
After  == Quota + (IF Place = LastSecond THEN 0 ELSE 2 * Place + 1 + Flag(again))
Before == Quota + 2 * Place + (IF Place = LastSecond THEN 0 ELSE Flag(again))

BInv ==
    /\ saver \in {"close", "delay"} => recvdatabuf = <<>>
    /\ saver \in {"evrecv", "delay", "mqrecv"} /\ Settled => Len(recvdatabuf) <= RecordLen * After
    /\ saver \in {"evrecv", "delay", "mqrecv"} /\ ~Settled => Len(recvdatabuf) <= RecordLen * Before
    /\ (sensor = "evsend" \/ recvdata_event \/ saver = "mqrecv") /\ RTC_time # Clock(now) =>
          recvdatabuf = <<>> /\ settings >= 1

Counted ==
    /\ Quota \in Nat /\ Place \in 0 .. LastSecond /\ LastSecond \in Nat
    /\ Flag(again) \in {0, 1} /\ After \in Nat /\ Before \in Nat
    /\ RecordLen * After \in Nat /\ RecordLen * Before \in Nat
    /\ Quota + 2 * LastSecond = (2 * LastSecond) * (settings + 1)
    /\ Quota + 2 * LastSecond <= (2 * LastSecond) * (MaxSettings + 1)

LEMMA Counts == TypeOK => Counted
<1> SUFFICES ASSUME TypeOK PROVE Counted
  OBVIOUS
<1>1. settings \in Nat /\ now \in Nat /\ settings <= MaxSettings /\ MaxSettings \in Nat
  BY BoundAssumption DEF TypeOK
<1>2. LastSecond \in Nat /\ SecondsPerMinute \in Nat /\ 2 * (SecondsPerMinute - 1) = 2 * LastSecond
  BY ClockAssumption DEF LastSecond
<1> DEFINE c == 2 * LastSecond
<1>3. c \in Nat
  BY <1>2
<1>4. Quota = c * settings
  BY <1>2 DEF Quota
<1>5. Place \in 0 .. LastSecond
  BY <1>1, NextPlace, ClockAssumption DEF Place, LastSecond
<1>6. Flag(again) \in {0, 1}
  BY DEF Flag
<1> HIDE DEF c
<1>7. c * settings \in Nat /\ c * (settings + 1) = c * settings + c
  BY <1>1, <1>3, MulMono
<1>8. c * (settings + 1) <= c * (MaxSettings + 1)
  <2>1. settings + 1 \in Nat /\ MaxSettings + 1 \in Nat /\ settings + 1 <= MaxSettings + 1
    BY <1>1
  <2> QED
    BY <1>3, <2>1, MulMono
<1>9. After \in Nat /\ Before \in Nat
  BY <1>2, <1>4, <1>5, <1>6, <1>7 DEF After, Before
<1>10. RecordLen * After \in Nat /\ RecordLen * Before \in Nat
  BY <1>9, MulMono, SizeAssumption
<1>11. Quota + c = c * (settings + 1) /\ Quota + c <= c * (MaxSettings + 1)
  BY <1>4, <1>7, <1>8
<1> QED
  BY <1>2, <1>4, <1>5, <1>6, <1>7, <1>9, <1>10, <1>11 DEF c, Counted

LEMMA BInvStep ==
    ASSUME TypeOK, TypeOK', PInv, BInv, CardDelay = 0, Outcomes \subseteq {"absent"}, [Next]_vars
    PROVE  BInv'
<1>a. /\ Quota \in Nat /\ Place \in 0 .. LastSecond /\ LastSecond \in Nat
      /\ Flag(again) \in {0, 1} /\ After \in Nat /\ Before \in Nat
      /\ RecordLen * After \in Nat /\ RecordLen * Before \in Nat
      /\ Quota + 2 * LastSecond = (2 * LastSecond) * (settings + 1)
  BY Counts DEF Counted
<1>d. /\ Quota' \in Nat /\ Place' \in 0 .. LastSecond /\ Flag(again') \in {0, 1}
      /\ After' \in Nat /\ Before' \in Nat
      /\ RecordLen * After' \in Nat /\ RecordLen * Before' \in Nat
  <2>1. (TypeOK => Counted)'
    BY Counts, PTL
  <2> QED
    BY <2>1 DEF Counted, LastSecond, Flag
<1>b. /\ recvdatabuf \in Seq(Chunks) /\ Len(recvdatabuf) \in Nat /\ Len(<<>>) = 0
      /\ RecordLen \in Nat /\ now \in Nat /\ settings \in Nat
  BY SizeAssumption DEF TypeOK
<1>c. /\ Busy => sensor = "read" /\ ~recvdata_event
      /\ recvdata_event => sensor = "read"
  BY DEF PInv
<1>1. CASE ReadSensor
  <2>1. /\ sensor = "read" /\ saver \in {"evrecv", "delay"} /\ ~recvdata_event
        /\ UNCHANGED <<saver, recvdata_event, recvdatabuf, settings>>
    <3>1. /\ sensor = "read" /\ SaverBlocked /\ waited < SamplesWhileBlocked
          /\ UNCHANGED <<saver, recvdata_event, recvdatabuf, settings>>
      BY <1>1 DEF ReadSensor, worldVars
    <3>2. saver \notin CardCalls
      BY <3>1 DEF SamplesWhileBlocked, PInv, TypeOK
    <3>3. saver # "mqrecv"
      BY <3>1, <3>2 DEF SaverBlocked, CardCalls, Flag, PInv
    <3>4. ~recvdata_event
      BY <3>1, <3>2, <3>3 DEF SaverBlocked, PInv, SamplesWhileBlocked, TypeOK
    <3> QED
      BY <3>1, <3>2, <3>3, <3>4 DEF TypeOK
  <2>2. sensor' = "hours"
    BY <1>1 DEF ReadSensor
  <2>3. Settled /\ ~Settled' /\ Len(recvdatabuf) <= RecordLen * After
    BY <2>1, <2>2 DEF Settled, BInv
  <2>4. After <= Before'
    <3>1. Quota' = Quota /\ Flag(TRUE) = 1 /\ Flag(FALSE) = 0
      BY <2>1 DEF Quota, Flag
    <3>2. CASE now' = now + 1 /\ again' = FALSE
      <4>1. Place' = IF Place = LastSecond THEN 0 ELSE Place + 1
        BY <1>b, <3>2, NextPlace, ClockAssumption DEF Place, LastSecond
      <4>2. Flag(again') = 0
        BY <3>1, <3>2
      <4> QED
        BY <1>a, <3>1, <4>1, <4>2 DEF After, Before
    <3>3. CASE ~again /\ now' = now /\ again' = TRUE
      <4>1. Place' = Place /\ Flag(again') = 1 /\ Flag(again) = 0
        BY <3>3 DEF Place, Flag
      <4> QED
        BY <1>a, <3>1, <4>1 DEF After, Before
    <3> QED
      BY <1>1, <3>2, <3>3 DEF ReadSensor
  <2>5. Before' \in Nat
    BY <1>d
  <2>6. Len(recvdatabuf) <= RecordLen * Before'
    <3>1. RecordLen * After <= RecordLen * Before' /\ RecordLen * Before' \in Nat
      BY <1>a, <1>b, <2>4, <2>5, MulMono
    <3> QED
      BY <1>a, <1>b, <2>3, <3>1
  <2> QED
    BY <2>1, <2>2, <2>3, <2>6 DEF BInv
<1>2. ASSUME UNCHANGED <<now, again, settings>> PROVE After' = After /\ Before' = Before
  BY <1>2 DEF After, Before, Quota, Place
<1>3. ASSUME NEW at \in {"hours", "minutes", "seconds", "date"},
             NEW next \in {"minutes", "seconds", "date", "mqsend"}, NEW field,
             CopyField(at, next, field)
      PROVE  BInv'
  <2>1. /\ sensor = at /\ sensor' = next
        /\ UNCHANGED <<now, again, settings, saver, recvdata_event, recvdatabuf>>
    BY <1>3 DEF CopyField, worldVars
  <2>2. ~Busy /\ ~recvdata_event
    BY <1>c, <2>1
  <2> QED
    BY <1>2, <2>1, <2>2 DEF BInv, Settled, Busy
<1>4. CASE SendMessage
  <2>1. /\ sensor = "mqsend" /\ sensor' = "evsend"
        /\ UNCHANGED <<now, again, settings, saver, recvdata_event, recvdatabuf, RTC_time>>
    BY <1>4 DEF SendMessage, worldVars
  <2>2. ~Busy /\ ~recvdata_event
    BY <1>c, <2>1
  <2>3. RTC_time = Clock(now)
    <3>1. /\ RTC_time.h = Clock(now).h /\ RTC_time.m = Clock(now).m
          /\ RTC_time.s = Clock(now).s /\ RTC_time.day = Clock(now).day
      BY <2>1 DEF PInv
    <3>2. RTC_time \in ClockFields /\ Clock(now) \in ClockFields
      BY <1>b, ClockType DEF TypeOK
    <3> QED
      BY <3>1, <3>2 DEF ClockFields
  <2>4. Clock(now)' = Clock(now)
    BY <2>1 DEF Clock
  <2> QED
    BY <1>2, <2>1, <2>2, <2>3, <2>4 DEF BInv, Settled, Busy
<1>5. CASE SendEvent
  <2>1. /\ sensor = "evsend" /\ sensor' = "read" /\ recvdata_event' = TRUE
        /\ UNCHANGED <<now, again, settings, saver, recvdatabuf, RTC_time>>
    BY <1>5 DEF SendEvent, worldVars
  <2>2. Clock(now)' = Clock(now)
    BY <2>1 DEF Clock
  <2> QED
    BY <1>2, <2>1, <2>2 DEF BInv, Settled
<1>6. CASE ReceiveEvent
  <2>1. /\ saver = "evrecv" /\ recvdata_event /\ saver' = "mqrecv"
        /\ UNCHANGED <<now, again, settings, sensor, recvdatabuf, RTC_time>>
    BY <1>6 DEF ReceiveEvent, sensorVars, worldVars
  <2>2. Clock(now)' = Clock(now)
    BY <2>1 DEF Clock
  <2> QED
    BY <1>2, <2>1, <2>2 DEF BInv, Settled
<1>7. CASE ReceiveMessage
  <2>1. /\ saver = "mqrecv" /\ sensor = "read" /\ ~recvdata_event
        /\ UNCHANGED <<now, again, settings, sensor, recvdata_event>>
    BY <1>7, <1>c DEF ReceiveMessage, sensorVars, worldVars, Busy
  <2>2. saver' = IF RTC_time.s = LastSecond THEN "mkdir" ELSE "evrecv"
    BY <1>7 DEF ReceiveMessage
  <2>3. CASE RTC_time.s = LastSecond
    BY <2>1, <2>2, <2>3 DEF BInv
  <2>4. CASE RTC_time.s # LastSecond
    <3>1. Len(recvdatabuf') <= Len(recvdatabuf) + RecordLen /\ Len(recvdatabuf') \in Nat
      <4>1. /\ recvdatabuf' = Put(recvdatabuf, Record(Head(sensor_mq).sample))
            /\ sensor_mq # <<>>
        BY <1>7 DEF ReceiveMessage
      <4>2. Head(sensor_mq) \in Messages
        <5>1. sensor_mq \in Seq(Messages)
          BY DEF TypeOK
        <5> QED
          BY <4>1, <5>1
      <4>3. Head(sensor_mq).sample \in Nat
        BY <4>2 DEF Messages
      <4> DEFINE bytes == Record(Head(sensor_mq).sample)
      <4>4. bytes \in Seq(Chunks) /\ Len(bytes) = RecordLen
        BY <4>3, RecordType
      <4> HIDE DEF bytes
      <4>5. Least(Len(bytes), RingSize - Len(recvdatabuf)) \in 0 .. Len(bytes)
        BY <1>b, <4>4, SizeAssumption DEF Least, TypeOK
      <4> DEFINE n == Least(Len(bytes), RingSize - Len(recvdatabuf))
      <4>6. n \in 0 .. Len(bytes) /\ recvdatabuf' = recvdatabuf \o SubSeq(bytes, 1, n)
        BY <4>1, <4>5 DEF Put, bytes
      <4> HIDE DEF n
      <4>7. SubSeq(bytes, 1, n) \in Seq(Chunks) /\ Len(SubSeq(bytes, 1, n)) = n
        BY <4>4, <4>6
      <4> QED
        BY <1>b, <4>4, <4>6, <4>7
    <3>2. Settled' /\ ~Settled
      BY <2>1, <2>2, <2>4 DEF Settled
    <3>3. Len(recvdatabuf) <= RecordLen * Before
      BY <2>1, <3>2 DEF BInv
    <3>4. CASE RTC_time = Clock(now)
      <4>1. Place # LastSecond
        BY <2>4, <3>4 DEF Clock, Place
      <4>2. After = Before + 1
        BY <1>a, <4>1 DEF After, Before
      <4>3. RecordLen * After = RecordLen * Before + RecordLen
        BY <1>a, <1>b, <4>2, MulMono
      <4>4. Len(recvdatabuf') <= RecordLen * After
        BY <1>a, <1>b, <3>1, <3>3, <4>3
      <4> QED
        BY <1>2, <2>1, <2>2, <2>4, <3>2, <4>4 DEF BInv
    <3>5. CASE RTC_time # Clock(now)
      <4>1. recvdatabuf = <<>> /\ settings >= 1
        BY <2>1, <3>5 DEF BInv
      <4>2. LastSecond >= 1
        <5>1. RTC_time.s \in 0 .. LastSecond
          BY DEF TypeOK, ClockFields, LastSecond
        <5> QED
          BY <1>a, <2>4, <5>1
      <4>3. Quota >= 1
        <5>1. 2 * (SecondsPerMinute - 1) \in Nat /\ 2 * (SecondsPerMinute - 1) >= 1
          BY <4>2, ClockAssumption DEF LastSecond
        <5> DEFINE c == 2 * (SecondsPerMinute - 1)
        <5>2. c \in Nat /\ c >= 1 /\ Quota = c * settings
          BY <5>1 DEF Quota
        <5> HIDE DEF c
        <5>3. c * 1 <= c * settings /\ c * 1 = c
          BY <1>b, <4>1, <5>2, MulMono
        <5> QED
          BY <1>a, <5>2, <5>3
      <4>4. 1 <= After
        BY <1>a, <4>3 DEF After
      <4>5. RecordLen * 1 <= RecordLen * After /\ RecordLen * 1 = RecordLen
        BY <1>a, <1>b, <4>4, MulMono
      <4>6. Len(recvdatabuf') <= RecordLen * After
        BY <1>a, <1>b, <3>1, <4>1, <4>5
      <4> QED
        BY <1>2, <2>1, <2>2, <2>4, <3>2, <4>6 DEF BInv
    <3> QED
      BY <3>4, <3>5
  <2> QED
    BY <2>3, <2>4
<1>8. CASE MakeFolder
  <2>1. /\ saver = "mkdir" /\ saver' = "open" /\ UNCHANGED <<sensor, recvdata_event>>
    BY <1>8 DEF MakeFolder, sensorVars
  <2> QED
    BY <1>c, <2>1 DEF BInv, Busy, CardCalls
<1>9. CASE OpenFile \/ WriteFile
  <2>1. /\ saver \in CardCalls /\ Drain(recvdatabuf) /\ UNCHANGED <<sensor, recvdata_event>>
    BY <1>9 DEF OpenFile, WriteFile, sensorVars, CardCalls
  <2>2. saver' \in {"write", "close"} /\ (saver' = "close" => recvdatabuf' = <<>>)
    BY <1>b, <2>1, DrainParts
  <2> QED
    BY <1>c, <2>1, <2>2 DEF BInv, Busy
<1>10. CASE CloseFile
  <2>1. /\ saver = "close" /\ saver' = "delay"
        /\ UNCHANGED <<now, again, settings, sensor, recvdata_event, recvdatabuf>>
    BY <1>10 DEF CloseFile, sensorVars, worldVars
  <2>2. recvdatabuf' = <<>> /\ Len(recvdatabuf') = 0
    BY <1>b, <2>1 DEF BInv
  <2> QED
    BY <1>a, <1>2, <1>c, <2>1, <2>2 DEF BInv, Busy, CardCalls
<1>11. CASE DelayOver
  <2>1. /\ saver = "delay" /\ saver' = "evrecv"
        /\ UNCHANGED <<now, again, settings, sensor, recvdata_event, recvdatabuf, RTC_time>>
    BY <1>11 DEF DelayOver, sensorVars, worldVars
  <2>2. Clock(now)' = Clock(now)
    BY <2>1 DEF Clock
  <2> QED
    BY <1>2, <2>1, <2>2 DEF BInv, Settled
<1>12. CASE SetClock
  <2>1. /\ sensor = "read" /\ SaverBlocked /\ again' = FALSE /\ settings' = settings + 1
        /\ UNCHANGED <<sensor, recvdata_event, saver, recvdatabuf, RTC_time>>
    BY <1>12 DEF SetClock
  <2>2. saver # "mqrecv"
    BY <1>b, <2>1 DEF SaverBlocked, PInv, Flag, CardCalls
  <2>3. recvdata_event => saver = "delay"
    BY <1>c, <2>1 DEF SaverBlocked, Busy
  <2>4. /\ Quota' = Quota + 2 * LastSecond /\ Quota' \in Nat /\ After' >= Quota' /\ Before' >= Quota'
        /\ After' \in Nat /\ Before' \in Nat
    <3>1. Quota' = (2 * LastSecond) * (settings + 1)
      BY <2>1 DEF Quota, LastSecond
    <3>2. After' >= Quota' /\ Before' >= Quota'
      <4>6. PICK v \in Nat : v = Place'
        <5>1. Place' \in 0 .. LastSecond /\ LastSecond \in Nat
          BY <1>a, <1>d
        <5> QED
          BY <5>1
      <4> DEFINE p == 2 * v
      <4>1. p \in Nat
        OBVIOUS
      <4>0. Flag(again') = 0
        BY <2>1 DEF Flag
      <4>2. /\ After' = Quota' + (IF Place' = LastSecond THEN 0 ELSE p + 1 + Flag(again'))
            /\ Before' = Quota' + p + (IF Place' = LastSecond THEN 0 ELSE Flag(again'))
        BY <4>6 DEF After, Before, LastSecond
      <4> HIDE DEF p
      <4>3. Quota' \in Nat
        BY <1>d
      <4>4. CASE Place' = LastSecond
        <5>1. After' = Quota' + 0 /\ Before' = (Quota' + p) + 0
          BY <4>2, <4>4
        <5> DEFINE u == Quota'
        <5>2. u \in Nat /\ After' = u + 0 /\ Before' = (u + p) + 0
          BY <4>3, <5>1
        <5> HIDE DEF u
        <5>3. After' >= u /\ Before' >= u
          BY <4>1, <5>2
        <5> QED
          BY <5>3 DEF u
      <4>5. CASE Place' # LastSecond
        <5>1. After' = Quota' + ((p + 1) + 0) /\ Before' = (Quota' + p) + 0
          BY <4>0, <4>2, <4>5
        <5> DEFINE u == Quota'
        <5>2. u \in Nat /\ After' = u + ((p + 1) + 0) /\ Before' = (u + p) + 0
          BY <4>3, <5>1
        <5> HIDE DEF u
        <5>3. After' >= u /\ Before' >= u
          BY <4>1, <5>2
        <5> QED
          BY <5>3 DEF u
      <4> QED
        BY <4>4, <4>5
    <3> QED
      BY <1>a, <1>d, <3>1, <3>2
  <2>5. CASE saver = "evrecv"
    <3>1. Settled /\ Settled' /\ Len(recvdatabuf) <= RecordLen * After
      BY <2>1, <2>3, <2>5 DEF Settled, BInv
    <3>2. After <= After'
      <4>1. After <= Quota + 2 * LastSecond
        BY <1>a DEF After
      <4> QED
        BY <1>a, <2>4, <4>1
    <3>3. RecordLen * After <= RecordLen * After' /\ RecordLen * After' \in Nat
      BY <1>a, <1>b, <2>4, <3>2, MulMono
    <3>4. Len(recvdatabuf') <= RecordLen * After'
      BY <1>a, <1>b, <2>1, <3>1, <3>3
    <3> QED
      BY <2>1, <2>3, <2>5, <3>1, <3>4 DEF BInv
  <2>6. CASE saver = "delay"
    <3>1. recvdatabuf' = <<>> /\ Len(recvdatabuf') = 0
      BY <1>b, <2>1, <2>6 DEF BInv
    <3>2. RecordLen * After' >= 0 /\ RecordLen * Before' >= 0
      <4>1. RecordLen * After' \in Nat
        BY <1>d
      <4>2. RecordLen * Before' \in Nat
        BY <1>d
      <4> QED
        BY <4>1, <4>2
    <3>3. settings' >= 1
      BY <1>b, <2>1
    <3> QED
      BY <2>1, <2>6, <3>1, <3>2, <3>3 DEF BInv
  <2>7. CASE saver \in CardCalls
    BY <1>c, <2>1, <2>7 DEF BInv, Busy, CardCalls
  <2> QED
    BY <2>2, <2>5, <2>6, <2>7 DEF TypeOK
<1>13. CASE Restart
  <2>1. /\ saver' = "evrecv" /\ recvdatabuf' = <<>> /\ sensor' = "read" /\ recvdata_event' = FALSE
    BY <1>13 DEF Restart
  <2>2. After' \in Nat /\ Before' \in Nat
    BY <1>d
  <2>3. RecordLen * After' >= 0 /\ RecordLen * Before' >= 0 /\ Len(recvdatabuf') = 0
    <3>1. RecordLen * After' \in Nat
      BY <1>d
    <3>2. RecordLen * Before' \in Nat
      BY <1>d
    <3> QED
      BY <1>b, <2>1, <3>1, <3>2
  <2> QED
    BY <2>1, <2>3 DEF BInv
<1>14. CASE UNCHANGED vars
  <2>1. UNCHANGED <<now, again, settings, sensor, saver, recvdata_event, recvdatabuf, RTC_time>>
    BY <1>14 DEF vars, sensorVars, worldVars
  <2>2. Clock(now)' = Clock(now)
    BY <2>1 DEF Clock
  <2> QED
    BY <1>2, <2>1, <2>2 DEF BInv, Settled
<1> QED
  BY <1>1, <1>3, <1>4, <1>5, <1>6, <1>7, <1>8, <1>9, <1>10, <1>11, <1>12, <1>13, <1>14
  DEF Next, SensorNext, SaverNext, CopyHours, CopyMinutes, CopySeconds, CopyDate, BoundReached


-----------------------------------------------------------------------------
(* What a save writes.                                                     *)

\* On a card that works, the file being saved is there and the position in it.
FInv == saver \in {"write", "close"} => fd = "open" /\ name \in DOMAIN files /\ pos <= Len(files[name])

LEMMA FInvStep ==
    ASSUME TypeOK, FInv, CardFaults = {}, [Next]_vars
    PROVE  FInv'
<1>1. CASE SensorNext \/ SetClock \/ BoundReached \/ UNCHANGED vars
  <2>1. UNCHANGED <<saver, fd, name, pos, files>>
    BY <1>1 DEF SensorNext, ReadSensor, CopyHours, CopyMinutes, CopySeconds, CopyDate, CopyField,
                SendMessage, SendEvent, SetClock, BoundReached, vars, fileVars
  <2> QED
    BY <2>1 DEF FInv
<1>2. CASE ReceiveEvent \/ ReceiveMessage \/ MakeFolder \/ CloseFile \/ DelayOver \/ Restart
  <2>1. saver' \notin {"write", "close"}
    BY <1>2 DEF ReceiveEvent, ReceiveMessage, MakeFolder, CloseFile, DelayOver, Restart
  <2> QED
    BY <2>1 DEF FInv
<1>3. CASE OpenFile
  <2>1. fd' = "open" /\ name' = name /\ name \in DOMAIN files' /\ pos' = 0
    BY <1>3 DEF OpenFile
  <2>2. Len(files'[name]) \in Nat
    BY <1>3, <2>1 DEF OpenFile, TypeOK
  <2> QED
    BY <2>1, <2>2 DEF FInv
<1>4. CASE WriteFile
  <2>1. /\ saver = "write" /\ fd' = fd /\ name' = name
        /\ \/ fd = "open"
           \/ fd = "bad"
    BY <1>4 DEF WriteFile
  <2>2. fd = "open" /\ name \in DOMAIN files /\ pos <= Len(files[name])
    BY <2>1 DEF FInv
  <2>3. PICK size \in 0 .. Len(writebuffer) :
            /\ files' = [files EXCEPT ![name] = Overwrite(@, pos, SubSeq(writebuffer, 1, size))]
            /\ pos' = pos + size
    BY <1>4, <2>2 DEF WriteFile
  <2> DEFINE content == files[name]
             bytes == SubSeq(writebuffer, 1, size)
  <2>4. content \in Seq(Chunks) /\ pos \in 0 .. Len(content)
    BY <2>2 DEF TypeOK
  <2>5. bytes \in Seq(Chunks) /\ Len(bytes) = size
    BY <2>3 DEF TypeOK
  <2>6. /\ name \in DOMAIN files' /\ files'[name] = Overwrite(content, pos, bytes)
    BY <2>2, <2>3
  <2> HIDE DEF content, bytes
  <2>7. pos + Len(bytes) \in 0 .. Len(Overwrite(content, pos, bytes))
    BY <2>4, <2>5, OverwritePrefix
  <2> QED
    BY <2>1, <2>2, <2>3, <2>5, <2>6, <2>7 DEF FInv
<1> QED
  BY <1>1, <1>2, <1>3, <1>4 DEF Next, SaverNext

\* Outside the drain loop the ring is whole; inside, what is written, what is held
\* and what is left.
RInv ==
    /\ saver \notin {"write", "close"} => WholeRecords(recvdatabuf)
    /\ saver = "write" => WholeRecords((SubSeq(files[name], 1, pos) \o writebuffer) \o recvdatabuf)
    /\ saver = "close" => WholeRecords(SubSeq(files[name], 1, pos))

LEMMA NothingIsWhole == WholeRecords(<<>>)
  BY SizeAssumption DEF WholeRecords

LEMMA RInvStep ==
    ASSUME TypeOK, OInv, PInv, BInv, FInv, RInv, CardFaults = {},
           RecordLen * ((2 * (SecondsPerMinute - 1)) * (MaxSettings + 1) + 1) <= RingSize, [Next]_vars
    PROVE  RInv'
<1>a. recvdatabuf \in Seq(Chunks) /\ Len(recvdatabuf) <= RingSize /\ writebuffer \in Seq(Chunks)
  BY DEF TypeOK
<1>1. CASE SensorNext \/ SetClock \/ BoundReached \/ UNCHANGED vars
  <2>1. UNCHANGED <<saver, name, pos, files, writebuffer, recvdatabuf>>
    BY <1>1 DEF SensorNext, ReadSensor, CopyHours, CopyMinutes, CopySeconds, CopyDate, CopyField,
                SendMessage, SendEvent, SetClock, BoundReached, vars, fileVars
  <2> QED
    BY <2>1 DEF RInv
<1>2. CASE ReceiveEvent \/ MakeFolder \/ DelayOver
  <2>1. /\ saver \notin {"write", "close"} /\ saver' \notin {"write", "close"} /\ recvdatabuf' = recvdatabuf
    BY <1>2 DEF ReceiveEvent, MakeFolder, DelayOver
  <2> QED
    BY <2>1 DEF RInv
<1>3. CASE ReceiveMessage
  <2> DEFINE k == Head(sensor_mq).sample
  <2>1. /\ saver = "mqrecv" /\ saver' \notin {"write", "close"} /\ sensor_mq # <<>>
        /\ recvdatabuf' = Put(recvdatabuf, Record(k))
    BY <1>3 DEF ReceiveMessage
  <2>2. sensor_mq \in Seq(Messages) /\ Head(sensor_mq) = sensor_mq[1] /\ 1 \in DOMAIN sensor_mq
    BY <2>1 DEF TypeOK
  <2>3. k \in Nat
    <3>1. sensor_mq[1] \in Messages
      BY <2>2
    <3> QED
      BY <2>2, <3>1 DEF Messages
  <2>4. \A i \in DOMAIN recvdatabuf : recvdatabuf[i][1] < k
    BY <2>2 DEF OInv
  <2>5. Len(recvdatabuf) + RecordLen <= RingSize
    <3> DEFINE bound == (2 * LastSecond) * (MaxSettings + 1)
    <3>1. /\ Quota \in Nat /\ Place \in 0 .. LastSecond /\ LastSecond \in Nat
          /\ Flag(again) \in {0, 1} /\ Before \in Nat /\ RecordLen * Before \in Nat
          /\ Quota + 2 * LastSecond <= bound
      BY Counts DEF Counted
    <3>2. bound \in Nat /\ RecordLen \in Nat /\ RecordLen * (bound + 1) <= RingSize /\ RingSize \in Nat
      <4>1. 2 * LastSecond = 2 * (SecondsPerMinute - 1) /\ 2 * LastSecond \in Nat
        BY <3>1 DEF LastSecond
      <4>2. MaxSettings + 1 \in Nat
        BY BoundAssumption
      <4>3. bound \in Nat
        BY <4>1, <4>2, MulMono
      <4> QED
        BY <4>1, <4>3, SizeAssumption
    <3> HIDE DEF bound
    <3>3. Before <= bound
      <4>1. Before <= Quota + 2 * LastSecond
        BY <3>1 DEF Before
      <4> QED
        BY <3>1, <3>2, <4>1
    <3>4. RecordLen * (bound + 1) = RecordLen * bound + RecordLen /\ RecordLen * Before <= RecordLen * bound
      <4>1. RecordLen * Before <= RecordLen * bound /\ RecordLen * (Before + 1) = RecordLen * Before + RecordLen
        BY <3>1, <3>2, <3>3, MulMono
      <4>2. RecordLen * (bound + 1) = RecordLen * bound + RecordLen
        BY <3>2, MulMono
      <4> QED
        BY <4>1, <4>2
    <3>5. ~Settled
      BY <2>1 DEF Settled
    <3>6. Len(recvdatabuf) <= RecordLen * Before /\ Len(recvdatabuf) \in Nat
      BY <1>a, <2>1, <3>5 DEF BInv
    <3>7. RecordLen * bound \in Nat
      BY <3>2, MulMono
    <3> QED
      BY <3>1, <3>2, <3>4, <3>6, <3>7
  <2> HIDE DEF k
  <2>6. WholeRecords(recvdatabuf)
    BY <2>1 DEF RInv
  <2>7. WholeRecords(Put(recvdatabuf, Record(k)))
    BY <1>a, <2>3, <2>4, <2>5, <2>6, WholeAppend
  <2> QED
    BY <2>1, <2>7 DEF RInv
<1>4. CASE OpenFile
  <2>1. /\ saver = "open" /\ name' = name /\ name \in DOMAIN files' /\ pos' = 0 /\ Drain(recvdatabuf)
    BY <1>4 DEF OpenFile
  <2>2. files'[name] \in Seq(Chunks)
    <3>1. files' = [f \in DOMAIN files \cup {name} |-> IF f \in DOMAIN files THEN files[f] ELSE <<>>]
      BY <1>4 DEF OpenFile
    <3>2. \A f \in DOMAIN files : files[f] \in Seq(Chunks)
      BY DEF TypeOK
    <3> QED
      BY <3>1, <3>2
  <2>3. SubSeq(files'[name], 1, 0) = <<>>
    BY <2>2, PrefixLemma
  <2>4. WholeRecords(recvdatabuf)
    BY <2>1 DEF RInv
  <2>5. /\ saver' \in {"write", "close"}
        /\ saver' = "write" => writebuffer' \o recvdatabuf' = recvdatabuf
    BY <1>a, <2>1, DrainParts
  <2>6. CASE saver' = "write"
    <3>1. writebuffer' \in Seq(Chunks) /\ recvdatabuf' \in Seq(Chunks)
      BY <1>a, <2>1, DrainType
    <3>2. (<<>> \o writebuffer') \o recvdatabuf' = recvdatabuf
      <4>1. <<>> \o writebuffer' = writebuffer'
        BY <3>1
      <4> QED
        BY <2>5, <2>6, <4>1
    <3>3. (SubSeq(files'[name'], 1, pos') \o writebuffer') \o recvdatabuf' = recvdatabuf
      BY <2>1, <2>3, <3>2
    <3> QED
      BY <2>4, <2>6, <3>3 DEF RInv
  <2>7. CASE saver' = "close"
    <3>1. SubSeq(files'[name'], 1, pos') = <<>>
      BY <2>1, <2>3
    <3> QED
      BY <2>7, <3>1, NothingIsWhole DEF RInv
  <2> QED
    BY <2>5, <2>6, <2>7
<1>5. CASE WriteFile
  <2>1. /\ saver = "write" /\ name' = name /\ Drain(recvdatabuf)
    BY <1>5 DEF WriteFile
  <2>2. fd = "open" /\ name \in DOMAIN files /\ pos <= Len(files[name])
    BY <2>1 DEF FInv
  <2>3. PICK size \in 0 .. Len(writebuffer) :
            /\ size = Len(writebuffer)
            /\ files' = [files EXCEPT ![name] = Overwrite(@, pos, SubSeq(writebuffer, 1, size))]
            /\ pos' = pos + size
    BY <1>5, <2>2 DEF WriteFile
  <2> DEFINE content == files[name]
             w == SubSeq(content, 1, pos)
  <2>4. content \in Seq(Chunks) /\ pos \in 0 .. Len(content)
    BY <2>2 DEF TypeOK
  <2>5. SubSeq(writebuffer, 1, size) = writebuffer
    <3>1. size \in 0 .. Len(writebuffer)
      OBVIOUS
    <3> QED
      BY <1>a, <2>3, <3>1, PrefixLemma
  <2>6. files'[name] = Overwrite(content, pos, writebuffer) /\ pos' = pos + Len(writebuffer)
    BY <2>2, <2>3, <2>5
  <2> HIDE DEF content
  <2>7. SubSeq(Overwrite(content, pos, writebuffer), 1, pos + Len(writebuffer)) = SubSeq(content, 1, pos) \o writebuffer
    BY <1>a, <2>4, OverwritePrefix
  <2>8. SubSeq(files'[name'], 1, pos') = w \o writebuffer
    BY <2>1, <2>6, <2>7
  <2>9. w \in Seq(Chunks)
    BY <2>4, PrefixLemma
  <2>10. WholeRecords((w \o writebuffer) \o recvdatabuf)
    BY <2>1 DEF RInv, content
  <2> HIDE DEF w
  <2> DEFINE v == w \o writebuffer
  <2>11. v \in Seq(Chunks)
    BY <1>a, <2>9
  <2>12. WholeRecords(v \o recvdatabuf) /\ SubSeq(files'[name'], 1, pos') = v
    BY <2>8, <2>10
  <2> HIDE DEF v
  <2>13. /\ saver' \in {"write", "close"}
         /\ saver' = "write" => writebuffer' \o recvdatabuf' = recvdatabuf
         /\ saver' = "close" => recvdatabuf = <<>>
    BY <1>a, <2>1, DrainParts
  <2>14. CASE saver' = "write"
    <3>1. writebuffer' \in Seq(Chunks) /\ recvdatabuf' \in Seq(Chunks)
      BY <1>a, <2>1, DrainType
    <3>2. (v \o writebuffer') \o recvdatabuf' = v \o (writebuffer' \o recvdatabuf')
      BY <2>11, <3>1, ConcatAssoc
    <3>3. (v \o writebuffer') \o recvdatabuf' = v \o recvdatabuf
      BY <2>13, <2>14, <3>2
    <3> QED
      BY <2>12, <2>14, <3>3 DEF RInv
  <2>15. CASE saver' = "close"
    <3>1. v \o recvdatabuf = v
      BY <2>11, <2>13, <2>15
    <3> QED
      BY <2>12, <2>15, <3>1 DEF RInv
  <2> QED
    BY <2>13, <2>14, <2>15
<1>6. CASE CloseFile
  <2>1. saver = "close" /\ saver' = "delay" /\ recvdatabuf' = recvdatabuf
    BY <1>6 DEF CloseFile
  <2>2. recvdatabuf = <<>>
    BY <2>1 DEF BInv
  <2> QED
    BY <2>1, <2>2, NothingIsWhole DEF RInv
<1>7. CASE Restart
  <2>1. saver' = "evrecv" /\ recvdatabuf' = <<>>
    BY <1>7 DEF Restart
  <2> QED
    BY <2>1, NothingIsWhole DEF RInv
<1> QED
  BY <1>1, <1>2, <1>3, <1>4, <1>5, <1>6, <1>7 DEF Next, SaverNext

\* With a card that works and is quick, no save loses, repeats or cuts a record
\* and the ring never drops part of one, whatever the lengths of the record, the
\* minute and the writes, if the ring holds two records for each second but the
\* last of one minute more than the times the clock is set -- and one.
THEOREM RecorderRecords ==
    ASSUME CardDelay = 0, CardFaults = {}, Outcomes \subseteq {"absent"},
           RecordLen * ((2 * (SecondsPerMinute - 1)) * (MaxSettings + 1) + 1) <= RingSize
    PROVE  Spec => []RecordsWhole
<1> DEFINE Inv == BInv /\ FInv /\ RInv
<1>1. Init => Inv
  <2> SUFFICES ASSUME Init PROVE Inv
    OBVIOUS
  <2>1. /\ saver = "evrecv" /\ sensor = "read" /\ ~recvdata_event /\ recvdatabuf = <<>> /\ Len(recvdatabuf) = 0
    BY DEF Init
  <2>2. TypeOK
    BY TInvInit DEF TInv
  <2>3. RecordLen * After \in Nat /\ Settled
    BY <2>1, <2>2, Counts DEF Counted, Settled
  <2>4. BInv
    BY <2>1, <2>3 DEF BInv
  <2> QED
    BY <2>1, <2>4, NothingIsWhole DEF FInv, RInv
<1>2. TypeOK /\ TypeOK' /\ OInv /\ PInv /\ Inv /\ [Next]_vars => Inv'
  <2> SUFFICES ASSUME TypeOK, TypeOK', OInv, PInv, BInv, FInv, RInv, [Next]_vars PROVE Inv'
    OBVIOUS
  <2>1. BInv'
    BY BInvStep
  <2>2. FInv'
    BY FInvStep
  <2>3. RInv'
    BY RInvStep
  <2> QED
    BY <2>1, <2>2, <2>3
<1>3. TypeOK /\ Inv => RecordsWhole
  <2> SUFFICES ASSUME TypeOK, BInv, FInv, RInv PROVE RecordsWhole
    OBVIOUS
  <2> DEFINE w == SubSeq(files[name], 1, pos)
  <2>1. CASE saver = "write" \/ saver = "close"
    <3>1. name \in DOMAIN files /\ pos <= Len(files[name])
      BY <2>1 DEF FInv
    <3>2. files[name] \in Seq(Chunks) /\ pos \in Nat
      BY <3>1 DEF TypeOK
    <3>3. Least(pos, Len(files[name])) = pos
      BY <3>1, <3>2 DEF Least
    <3>4. w \in Seq(Chunks)
      BY <3>1, <3>2, PrefixLemma
    <3>5. SubSeq(files[name], 1, Least(pos, Len(files[name]))) = w
      BY <3>3
    <3> HIDE DEF w
    <3>6. CASE saver = "write"
      <4>1. WholeRecords((w \o writebuffer) \o recvdatabuf)
        BY <3>6 DEF RInv, w
      <4> QED
        BY <3>5, <3>6, <4>1 DEF RecordsWhole
    <3>7. CASE saver = "close"
      <4>1. WholeRecords(w) /\ recvdatabuf = <<>>
        BY <3>7 DEF RInv, BInv, w
      <4>2. (w \o <<>>) \o recvdatabuf = w
        BY <3>4, <4>1
      <4> QED
        BY <3>5, <3>7, <4>1, <4>2 DEF RecordsWhole
    <3> QED
      BY <2>1, <3>6, <3>7
  <2>2. CASE saver \notin {"write", "close"}
    <3>1. WholeRecords(recvdatabuf) /\ recvdatabuf \in Seq(Chunks)
      BY <2>2 DEF RInv, TypeOK
    <3>2. (<<>> \o <<>>) \o recvdatabuf = recvdatabuf
      BY <3>1
    <3> QED
      BY <2>2, <3>1, <3>2 DEF RecordsWhole
  <2> QED
    BY <2>1, <2>2
<1>4. Spec => []PInv
  BY PInvHolds
<1>5. Init => OInv
  BY DEF Init, OInv
<1>6. TypeOK /\ OInv /\ [Next]_vars => OInv'
  BY OInvStep
<1> QED
  BY <1>1, <1>2, <1>3, <1>4, <1>5, <1>6, RecorderTypes, PTL DEF Spec
=============================================================================
