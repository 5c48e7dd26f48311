------------------------------ MODULE Recorder ------------------------------
(***************************************************************************)
(* The recording pipeline: HARDWARE/Src/dht11.c with rtc_read of rtc.c.    *)
(*                                                                         *)
(*   humi_th (priority 7)              DFSsave (priority 6, the higher)    *)
(*   read sensor, read clock,  --sensor_mq-->   stamp, put in recvdatabuf, *)
(*   send message, send event  --WRITE_EVENT->  at second 59 write a file  *)
(*                                                                         *)
(* The two threads share RTC_time and today, which humi_th writes one      *)
(* field at a time and DFSsave reads with no lock.  The scheduler is       *)
(* strict-priority: humi_th moves only while DFSsave is blocked, but       *)
(* DFSsave may come back from a delay or from the SD card at any point of  *)
(* humi_th, rtc_read included.                                             *)
(*                                                                         *)
(* The queue, the event set and the ring buffer are used here through      *)
(* their contracts; RingBuffer, MessageQueue and EventFlags model their    *)
(* code.                                                                   *)
(***************************************************************************)
EXTENDS Integers, Sequences

CONSTANTS
    SecondsPerMinute, MinutesPerHour, HoursPerDay,  \* 60, 60, 24 in the code
    QueueDepth,     \* messages sensor_mq holds: 16 in the code
    RingSize,       \* bytes of recvdatabuf: 4068 in the code
    Threshold,      \* bytes taken from the ring per write: 2034 in the code
    RecordLen,      \* bytes of one formatted record
    Outcomes,       \* what DHT11_Read_Data may meet: "ok", "badsum", "absent"
    CardFaults,     \* which calls on the card may fail: "open", "write"
    CardDelay,      \* most samples taken while one call on the card blocks
    StartTime,      \* the clock as RTC_Init sets it when it has lost the time
    MaxSamples,     \* bounds of the model: sensor reads in a behaviour,
    MaxSettings,    \* times the user sets the clock,
    LastTime,       \* the latest time it is set to,
    MaxRestarts,    \* times the power fails,
    MaxOutage       \* seconds it is away

ASSUME ClockAssumption ==
    /\ SecondsPerMinute \in Nat \ {0}
    /\ MinutesPerHour \in Nat \ {0}
    /\ HoursPerDay \in Nat \ {0}
    /\ StartTime \in Nat
ASSUME SizeAssumption ==
    /\ RingSize \in Nat \ {0}
    /\ Threshold \in 1 .. RingSize
    /\ RecordLen \in Nat \ {0}
    /\ CardDelay \in Nat
    /\ MaxSamples \in Nat
ASSUME BoundAssumption ==
    /\ MaxSettings \in Nat /\ LastTime \in Nat
    /\ MaxRestarts \in Nat /\ MaxOutage \in Nat
ASSUME QueueAssumption == QueueDepth \in Nat /\ QueueDepth >= 2
ASSUME OutcomeAssumption ==
    /\ Outcomes \subseteq {"ok", "badsum", "absent"}
    /\ CardFaults \subseteq {"open", "write"}

VARIABLES
    now,            \* the hardware clock, in seconds
    again,          \* the last sample fell in the second of the one before
    samples,        \* sensor reads so far; the identity of the current one
    fresh,          \* `value` was written by the current read
    sensor,         \* where humi_th is
    RTC_time,       \* the shared clock fields: Hours, Minutes, Seconds, and
                    \* (as one) the three fields of `today`
    sensor_mq,      \* the message queue
    recvdata_event, \* WRITE_EVENT is set
    saver,          \* where DFSsave is
    waited,         \* samples since DFSsave last blocked in a card call or delay
    recvdatabuf,    \* the ring buffer: a sequence of <<sample, part>>
    folder,         \* folder_name: a day
    name,           \* the path given to open
    fd,             \* recvdatafile_p0: open on `name`, or "bad"
    pos,            \* file position of fd
    writebuffer,    \* what was taken from the ring and is being written
    files,          \* the card: [name -> content]
    last,           \* history: the last record made, and the clock fields in it
    settings,       \* times the clock has been set
    restarts,       \* times the power has failed
    since           \* history: the clock when it was last set or started

sensorVars == <<now, again, samples, fresh, sensor>>
worldVars  == <<settings, restarts, since>>
fileVars   == <<folder, name, fd, pos, writebuffer, files>>
vars == <<sensorVars, RTC_time, sensor_mq, recvdata_event, saver, waited,
          recvdatabuf, fileVars, last, worldVars>>

-----------------------------------------------------------------------------
(* The calendar the clock shows at second t, and a file name.              *)

Clock(t) ==
    LET minute == t \div SecondsPerMinute
        hour   == minute \div MinutesPerHour
    IN  [s |-> t % SecondsPerMinute, m |-> minute % MinutesPerHour,
         h |-> hour % HoursPerDay, day |-> hour \div HoursPerDay]

ClockFields == [s : 0 .. SecondsPerMinute - 1, m : 0 .. MinutesPerHour - 1,
                h : 0 .. HoursPerDay - 1, day : Nat]

\* "/sdcard/<day>/<HH>-<MM>.csv"
FileName(day, hour, minute) == [day |-> day, h |-> hour, m |-> minute]

FileNames == [day : Nat, h : 0 .. HoursPerDay - 1, m : 0 .. MinutesPerHour - 1]

\* (Variant of LastSecond: a second the clock never shows.)
SecondAfterLast == SecondsPerMinute

\* The second at which DFSsave writes: 59.
LastSecond == SecondsPerMinute - 1

Record(k) == [part \in 1 .. RecordLen |-> <<k, part>>]

Messages == [sample : Nat, fresh : BOOLEAN, taken : Nat]

Chunks == Nat \X (1 .. RecordLen)

Least(a, b) == IF a < b THEN a ELSE b

\* (Variant of Put: a ring that takes everything.)
PutUnbounded(ring, bytes) == ring \o bytes

\* What rt_ringbuffer_put leaves: the tail that does not fit is dropped.
Put(ring, bytes) == ring \o SubSeq(bytes, 1, Least(Len(bytes), RingSize - Len(ring)))

\* write() at a file position: overwrites what is there, extends at the end.
Overwrite(content, at, bytes) ==
    [i \in 1 .. (IF at + Len(bytes) > Len(content) THEN at + Len(bytes) ELSE Len(content)) |->
        IF i > at /\ i <= at + Len(bytes) THEN bytes[i - at] ELSE content[i]]

-----------------------------------------------------------------------------
(* Scheduling.                                                             *)

CardCalls == {"mkdir", "open", "write", "close"}

SaverBlocked ==
    \/ saver = "evrecv" /\ ~recvdata_event
    \/ saver = "mqrecv" /\ sensor_mq = <<>>
    \/ saver \in CardCalls \cup {"delay"}

\* (Variant of SamplesWhileBlocked: DFSsave's delay outlasts two periods.)
SamplesInLongDelay == IF saver \in CardCalls THEN CardDelay ELSE 2

\* A thread that sleeps while DFSsave is in one blocking call wakes at most
\* this often: the sampling period (500 ticks and 20 ms of reset pulse) is
\* longer than DFSsave's delay of 500 ticks.
SamplesWhileBlocked ==
    IF saver \in CardCalls THEN CardDelay ELSE IF saver = "delay" THEN 1 ELSE MaxSamples

Init ==
    /\ now = StartTime /\ again = FALSE /\ samples = 0 /\ fresh = FALSE
    /\ sensor = "read"
    /\ RTC_time = [s |-> 0, m |-> 0, h |-> 0, day |-> 0]
    /\ sensor_mq = <<>> /\ recvdata_event = FALSE
    /\ saver = "evrecv" /\ waited = 0
    /\ recvdatabuf = <<>>
    /\ folder = 0 /\ name = FileName(0, 0, 0) /\ fd = "bad" /\ pos = 0 /\ writebuffer = <<>>
    /\ files = <<>>
    /\ last = [sample |-> 0, fresh |-> FALSE, taken |-> 0, stamp |-> RTC_time]
    /\ settings = 0 /\ restarts = 0 /\ since = StartTime

-----------------------------------------------------------------------------
(* humi_th.                                                                *)

\* rt_thread_delay(500) runs out and DHT11_Read_Data is called.  It writes
\* `value` only when the sensor answers and the sum is right, and returns 1
\* only when the sensor does not answer; the code goes on on a nonzero result.
\* The clock has moved by at most one second, and in two periods by one.
\* The snapshot rtc_read takes of the clock is `now`, which stays as it is
\* until the next read.
ReadSensor ==
    /\ sensor = "read" /\ SaverBlocked
    /\ samples < MaxSamples /\ waited < SamplesWhileBlocked
    /\ \/ now' = now + 1 /\ again' = FALSE
       \/ ~again /\ now' = now /\ again' = TRUE
    /\ \E outcome \in Outcomes :
          /\ fresh' = (outcome = "ok")
          /\ sensor' = IF outcome = "absent" THEN "hours" ELSE "read"
    /\ samples' = samples + 1
    /\ waited' = IF saver \in CardCalls \cup {"delay"} THEN waited + 1 ELSE 0
    /\ UNCHANGED <<RTC_time, sensor_mq, recvdata_event, saver, recvdatabuf, fileVars, last, worldVars>>

\* One assignment of rtc_read: DFSsave may come back between any two.
CopyField(at, next, field) ==
    /\ sensor = at /\ SaverBlocked
    /\ RTC_time' = [RTC_time EXCEPT ![field] = Clock(now)[field]]
    /\ sensor' = next
    /\ UNCHANGED <<now, again, samples, fresh, sensor_mq, recvdata_event, saver,
                   waited, recvdatabuf, fileVars, last, worldVars>>

CopyHours   == CopyField("hours", "minutes", "h")
CopyMinutes == CopyField("minutes", "seconds", "m")
CopySeconds == CopyField("seconds", "date", "s")
CopyDate    == CopyField("date", "mqsend", "day")

\* (Variant of SendMessage: rt_mq_urgent, which queues in front.)
SendMessageUrgent ==
    /\ sensor = "mqsend" /\ SaverBlocked
    /\ sensor_mq' = IF Len(sensor_mq) < QueueDepth
                    THEN <<[sample |-> samples, fresh |-> fresh, taken |-> now]>> \o sensor_mq
                    ELSE sensor_mq
    /\ sensor' = "evsend"
    /\ UNCHANGED <<now, again, samples, fresh, RTC_time, recvdata_event, saver,
                   waited, recvdatabuf, fileVars, last, worldVars>>

\* rt_mq_send: does not wait; on a full queue it fails and the code ignores it.
SendMessage ==
    /\ sensor = "mqsend" /\ SaverBlocked
    /\ sensor_mq' = IF Len(sensor_mq) < QueueDepth
                    THEN Append(sensor_mq, [sample |-> samples, fresh |-> fresh, taken |-> now])
                    ELSE sensor_mq
    /\ sensor' = "evsend"
    /\ UNCHANGED <<now, again, samples, fresh, RTC_time, recvdata_event, saver,
                   waited, recvdatabuf, fileVars, last, worldVars>>

\* rt_event_send: the flag is one bit; a second send before it is taken is lost.
SendEvent ==
    /\ sensor = "evsend" /\ SaverBlocked
    /\ recvdata_event' = TRUE
    /\ sensor' = "read"
    /\ UNCHANGED <<now, again, samples, fresh, RTC_time, sensor_mq, saver,
                   waited, recvdatabuf, fileVars, last, worldVars>>

-----------------------------------------------------------------------------
(* DFSsave.                                                                *)

\* (Variant of ReceiveEvent: without RT_EVENT_FLAG_CLEAR.)
ReceiveEventKeep ==
    /\ saver = "evrecv" /\ recvdata_event
    /\ saver' = "mqrecv"
    /\ UNCHANGED <<sensorVars, RTC_time, sensor_mq, recvdata_event, waited, recvdatabuf,
                   fileVars, last, worldVars>>

\* rt_event_recv(WRITE_EVENT, OR | CLEAR, RT_WAITING_FOREVER)
ReceiveEvent ==
    /\ saver = "evrecv" /\ recvdata_event
    /\ recvdata_event' = FALSE
    /\ saver' = "mqrecv"
    /\ UNCHANGED <<sensorVars, RTC_time, sensor_mq, waited, recvdatabuf, fileVars, last, worldVars>>

\* rt_mq_recv(RT_WAITING_FOREVER), the sprintf of the record with the clock
\* fields of this moment, rt_ringbuffer_put, the test of the second, and
\* folder_name; none of them blocks once there is a message.
ReceiveMessage ==
    /\ saver = "mqrecv" /\ sensor_mq # <<>>
    /\ LET msg == Head(sensor_mq)
       IN  /\ recvdatabuf' = Put(recvdatabuf, Record(msg.sample))
           /\ last' = [sample |-> msg.sample, fresh |-> msg.fresh,
                      taken |-> msg.taken, stamp |-> RTC_time]
    /\ sensor_mq' = Tail(sensor_mq)
    /\ IF RTC_time.s = LastSecond
       THEN saver' = "mkdir" /\ folder' = RTC_time.day
       ELSE saver' = "evrecv" /\ folder' = folder
    /\ waited' = 0
    /\ UNCHANGED <<sensorVars, RTC_time, recvdata_event, name, fd, pos, writebuffer, files, worldVars>>

\* mkdir returns (its result is ignored); file_name is formatted from the
\* clock fields of this moment, and open is called.
MakeFolder ==
    /\ saver = "mkdir"
    /\ saver' = "open" /\ waited' = 0
    /\ name' = FileName(folder, RTC_time.h, RTC_time.m)
    /\ UNCHANGED <<sensorVars, RTC_time, sensor_mq, recvdata_event, recvdatabuf,
                   folder, fd, pos, writebuffer, files, last, worldVars>>

\* (Variant of Drain: a get that returns whole blocks of Threshold only.)
DrainWholeBlocks(ring) ==
    IF ring = <<>>
    THEN saver' = "close" /\ writebuffer' = <<>> /\ recvdatabuf' = ring
    ELSE LET size == IF Len(ring) < Threshold THEN 0 ELSE Threshold
         IN  /\ saver' = "write"
             /\ writebuffer' = SubSeq(ring, 1, size)
             /\ recvdatabuf' = SubSeq(ring, size + 1, Len(ring))

\* The drain loop's next step: take Threshold bytes of a ring that has any,
\* else close.  It runs without blocking after open and after each write.
Drain(ring) ==
    IF ring = <<>>
    THEN saver' = "close" /\ writebuffer' = <<>> /\ recvdatabuf' = ring
    ELSE LET size == Least(Threshold, Len(ring))
         IN  /\ saver' = "write"
             /\ writebuffer' = SubSeq(ring, 1, size)
             /\ recvdatabuf' = SubSeq(ring, size + 1, Len(ring))

\* (Variant of OpenFile: with O_APPEND, a second save goes behind the first.)
OpenFileAppend ==
    /\ saver = "open" /\ waited' = 0
    /\ files' = [f \in DOMAIN files \cup {name} |->
                   IF f \in DOMAIN files THEN files[f] ELSE <<>>]
    /\ fd' = "open"
    /\ pos' = Len(files'[name])
    /\ Drain(recvdatabuf)
    /\ UNCHANGED <<sensorVars, RTC_time, sensor_mq, recvdata_event, folder, name, last, worldVars>>

\* open(name, O_RDWR | O_CREAT): an existing file keeps its content, and the
\* position is 0.  A failed open returns -1, which the test against NULL lets
\* pass, so the loop runs with a descriptor no write will accept.
OpenFile ==
    /\ saver = "open" /\ waited' = 0
    /\ \/ /\ files' = [f \in DOMAIN files \cup {name} |->
                         IF f \in DOMAIN files THEN files[f] ELSE <<>>]
          /\ fd' = "open"
       \/ /\ "open" \in CardFaults
          /\ fd' = "bad" /\ files' = files
    /\ pos' = 0
    /\ Drain(recvdatabuf)
    /\ UNCHANGED <<sensorVars, RTC_time, sensor_mq, recvdata_event, folder, name, last, worldVars>>

\* (Variant of WriteFile: the file is opened again for each write.)
WriteFileReopened ==
    /\ saver = "write" /\ waited' = 0
    /\ \/ /\ fd = "open"
          /\ \E size \in 0 .. Len(writebuffer) :
                /\ size = Len(writebuffer) \/ "write" \in CardFaults
                /\ files' = [files EXCEPT ![name] = Overwrite(@, 0, SubSeq(writebuffer, 1, size))]
                /\ pos' = size
       \/ fd = "bad" /\ UNCHANGED <<files, pos>>
    /\ Drain(recvdatabuf)
    /\ UNCHANGED <<sensorVars, RTC_time, sensor_mq, recvdata_event, folder, name, fd, last, worldVars>>

\* write(): a full card takes part of the bytes, a bad descriptor none; the
\* result is ignored, and the bytes are gone from the ring either way.
WriteFile ==
    /\ saver = "write" /\ waited' = 0
    /\ \/ /\ fd = "open"
          /\ \E size \in 0 .. Len(writebuffer) :
                /\ size = Len(writebuffer) \/ "write" \in CardFaults
                /\ files' = [files EXCEPT ![name] = Overwrite(@, pos, SubSeq(writebuffer, 1, size))]
                /\ pos' = pos + size
       \/ fd = "bad" /\ UNCHANGED <<files, pos>>
    /\ Drain(recvdatabuf)
    /\ UNCHANGED <<sensorVars, RTC_time, sensor_mq, recvdata_event, folder, name, fd, last, worldVars>>

CloseFile ==
    /\ saver = "close"
    /\ saver' = "delay" /\ waited' = 0
    /\ fd' = "bad" /\ pos' = 0
    /\ UNCHANGED <<sensorVars, RTC_time, sensor_mq, recvdata_event, recvdatabuf,
                   folder, name, writebuffer, files, last, worldVars>>

\* rt_thread_delay(500) after a save runs out.
DelayOver ==
    /\ saver = "delay"
    /\ saver' = "evrecv" /\ waited' = 0
    /\ UNCHANGED <<sensorVars, RTC_time, sensor_mq, recvdata_event, recvdatabuf,
                   fileVars, last, worldVars>>

-----------------------------------------------------------------------------
(* The user and the power.                                                 *)

\* Enter in the clock window sets another time of the day, in the calendar
\* another day; the GUI's thread, of priority 9, runs when both others wait.
SetClock ==
    /\ settings < MaxSettings
    /\ sensor = "read" /\ SaverBlocked
    /\ \E t \in 0 .. LastTime :
          /\ \/ Clock(t).day = Clock(now).day
             \/ [Clock(t) EXCEPT !.day = Clock(now).day] = Clock(now)
          /\ now' = t /\ since' = t
    /\ again' = FALSE
    /\ settings' = settings + 1
    /\ UNCHANGED <<samples, fresh, sensor, RTC_time, sensor_mq, recvdata_event, saver,
                   waited, recvdatabuf, fileVars, last, restarts>>

\* The power fails and comes back.  The card keeps its files; of the one that is
\* open the directory entry is as old as its last close, so that it may be of any
\* length up to what was written.  The battery keeps the clock going, or
\* RTC_Init sets it; all else starts again.
Restart ==
    /\ restarts < MaxRestarts
    /\ restarts' = restarts + 1
    /\ now' \in {StartTime} \cup now .. now + MaxOutage
    /\ since' = now'
    /\ again' = FALSE /\ fresh' = FALSE /\ sensor' = "read"
    /\ RTC_time' = [s |-> 0, m |-> 0, h |-> 0, day |-> 0]
    /\ sensor_mq' = <<>> /\ recvdata_event' = FALSE
    /\ saver' = "evrecv" /\ waited' = 0 /\ recvdatabuf' = <<>>
    /\ folder' = 0 /\ name' = FileName(0, 0, 0) /\ fd' = "bad" /\ pos' = 0 /\ writebuffer' = <<>>
    /\ \/ fd = "bad" /\ files' = files
       \/ /\ fd = "open"
          /\ \E size \in 0 .. Len(files[name]) :
                files' = [files EXCEPT ![name] = SubSeq(@, 1, size)]
    /\ last' = [sample |-> 0, fresh |-> FALSE, taken |-> 0, stamp |-> RTC_time']
    /\ UNCHANGED <<samples, settings>>

-----------------------------------------------------------------------------
SensorNext == ReadSensor \/ CopyHours \/ CopyMinutes \/ CopySeconds \/ CopyDate
              \/ SendMessage \/ SendEvent

SaverNext == ReceiveEvent \/ ReceiveMessage \/ MakeFolder \/ OpenFile \/ WriteFile
             \/ CloseFile \/ DelayOver

\* The bound of the model: with no sample left, both threads wait.  A thread
\* that waits for anything else at the bound is a deadlock.
BoundReached ==
    /\ samples = MaxSamples /\ sensor = "read"
    /\ saver = "evrecv" /\ ~recvdata_event
    /\ UNCHANGED vars

Next == SensorNext \/ SaverNext \/ SetClock \/ Restart \/ BoundReached

Spec == Init /\ [][Next]_vars

\* Both threads are run by a preemptive scheduler and every timeout and card
\* call ends, so a thread that can move does.
FairSpec == Spec /\ WF_vars(SensorNext) /\ WF_vars(SaverNext)

-----------------------------------------------------------------------------
(* Properties.                                                             *)

\* Every variable has its type, and the queue and the ring keep to their sizes.
TypeOK ==
    /\ now \in Nat /\ again \in BOOLEAN /\ samples \in 0 .. MaxSamples
    /\ fresh \in BOOLEAN
    /\ sensor \in {"read", "hours", "minutes", "seconds", "date", "mqsend", "evsend"}
    /\ RTC_time \in ClockFields
    /\ sensor_mq \in Seq(Messages) /\ Len(sensor_mq) <= QueueDepth
    /\ recvdata_event \in BOOLEAN
    /\ saver \in {"evrecv", "mqrecv", "delay"} \cup CardCalls
    /\ waited \in Nat
    /\ recvdatabuf \in Seq(Chunks) /\ Len(recvdatabuf) <= RingSize
    /\ folder \in Nat /\ name \in FileNames /\ fd \in {"open", "bad"} /\ pos \in Nat
    /\ writebuffer \in Seq(Chunks)
    /\ DOMAIN files \subseteq FileNames
    /\ \A f \in DOMAIN files : files[f] \in Seq(Chunks)
    /\ last \in [sample : Nat, fresh : BOOLEAN, taken : Nat, stamp : ClockFields]
    /\ settings \in 0 .. MaxSettings /\ restarts \in 0 .. MaxRestarts /\ since \in Nat

Flag(b) == IF b THEN 1 ELSE 0

\* Each wakeup DFSsave has been promised has a message behind it: the flag, the
\* wakeup already taken, and the send about to follow a rt_mq_send (which may
\* have failed on a full queue).  So rt_mq_recv, which waits for ever, never
\* waits (dht11.c:238-239 against 270-272).
WakeupsHaveMessages ==
    Len(sensor_mq) >= Flag(recvdata_event) + Flag(saver = "mqrecv") + Flag(sensor = "evsend")

\* While a save writes to an open file, the position is inside that file.
PositionInFile ==
    saver = "write" /\ fd = "open" => name \in DOMAIN files /\ pos <= Len(files[name])

\* No file grows beyond the ring, however many saves go to it: a save moves at
\* most what the ring held, to the start of the file.  So file_win.c:125-129,
\* which reads 4096 bytes into a buffer that nothing terminates, reads a whole
\* file of the recorder (4068 bytes) and does not fill its buffer.
FilesFitRing == \A f \in DOMAIN files : Len(files[f]) <= RingSize

\* (With FilesFitRing, inductive.)  What a save has written and what it still
\* has to write fit the ring they came from.
SaveFitsRing ==
    saver = "write" => pos + Len(writebuffer) + Len(recvdatabuf) <= RingSize

\* A sequence of bytes is whole records, in the order of their samples.
WholeRecords(bytes) ==
    /\ Len(bytes) % RecordLen = 0
    /\ \A i \in DOMAIN bytes :
          /\ bytes[i][2] = ((i - 1) % RecordLen) + 1
          /\ i > 1 => \/ bytes[i][2] > 1 /\ bytes[i][1] = bytes[i - 1][1]
                      \/ bytes[i][2] = 1 /\ bytes[i][1] > bytes[i - 1][1]

\* While a save runs on a good card, what it has written so far, followed by
\* what it holds and what is left in the ring, is whole records in the order
\* they were taken: the loop of dht11.c:289-294 loses, repeats and cuts none,
\* wherever the Threshold falls; and between saves the ring never drops part of
\* a record, however the saves and the samples of a minute fall.
RecordsWhole ==
    LET written == IF saver \in {"write", "close"}
                   THEN SubSeq(files[name], 1, Least(pos, Len(files[name])))
                   ELSE <<>>
    IN  WholeRecords(written \o (IF saver = "write" THEN writebuffer ELSE <<>>) \o recvdatabuf)

\* The samples in the ring, then those in the queue, are in the order taken,
\* none twice: a save that falls behind never mixes or repeats samples.
SamplesInOrder ==
    LET held == [i \in DOMAIN recvdatabuf |-> recvdatabuf[i][1]]
        sent == [i \in DOMAIN sensor_mq |-> sensor_mq[i].sample]
    IN  /\ \A i, j \in DOMAIN held : i < j => held[i] <= held[j]
        /\ \A i, j \in DOMAIN sent : i < j => sent[i] < sent[j]
        /\ \A i \in DOMAIN held, j \in DOMAIN sent : held[i] < sent[j]

\* With a card whose calls return within a sampling period, the clock fields
\* DFSsave formats are those of the sample they are put beside, and the file it
\* opens is that of the day, hour and minute in its last record, though
\* rtc_read, sprintf, folder_name and file_name read RTC_time with no lock.
TimesAgree ==
    /\ last.sample > 0 => last.stamp = Clock(last.taken)
    /\ saver = "open" => name = FileName(last.stamp.day, last.stamp.h, last.stamp.m)

Idle == sensor = "read" /\ saver = "evrecv" /\ ~recvdata_event

\* When every read is recorded, every minute whose last second has gone by since
\* the clock was last set or started has its file, with something in it, by the
\* time DFSsave waits again: whatever the setting or the power cut left behind in
\* the queue, in RTC_time, in the ring or on the card.
EveryMinuteSaved ==
    Idle => \A t \in since + 1 .. now :
              t % SecondsPerMinute = SecondsPerMinute - 1 =>
                LET file == FileName(Clock(t).day, Clock(t).h, Clock(t).m)
                IN  file \in DOMAIN files /\ files[file] # <<>>

\* DFSsave always comes back to wait for the event: no card call that fails, no
\* backlog and no pattern of samples keeps it in the drain loop or in rt_mq_recv.
SaverReturns == []<>(saver = "evrecv")

-----------------------------------------------------------------------------
(* What the comments and the README say, and the code does not do.         *)

\* dht11.c:121 says 0 is a good read and 1 a failed one, so what goes on to the
\* queue is what a good read delivered.
RecordsAreReadings == \A i \in DOMAIN sensor_mq : sensor_mq[i].fresh

\* README:11 says each minute's records are stored on the card: what a save has
\* written is not overwritten by a later one.
FilesKeepRecords ==
    [][\A f \in DOMAIN files : \A i \in DOMAIN files[f] : files'[f][i] = files[f][i]]_vars

\* README:11 again: what was sampled is stored, so no message stays behind in
\* the queue when DFSsave, woken by the event, has gone back to wait for it.
NothingLeftBehind == Idle => sensor_mq = <<>>

\* dht11.c:287 tests the descriptor before the drain loop, so records leave the
\* ring only for a file that is open.
DrainedToFile == saver = "write" => fd = "open"
=============================================================================
