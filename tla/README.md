# A verification project for the temperature and humidity recorder

The program is the firmware of an STM32F407 board: it samples a DHT11 sensor, shows the readings in a
touch-screen GUI and stores them on an SD card, on top of RT-Thread 4.0.3 and LittlevGL 6. This directory
holds TLA+ models of the parts whose behaviour is hard to test, the TLC configurations that check them,
and theorems about them that the TLA+ proof system checks.

## The system

| Component | Source | State it keeps | Operations |
|---|---|---|---|
| Recording pipeline | `HARDWARE/Src/dht11.c`, `rtc.c` | `RTC_time`, `today`, `sensor_mq`, `recvdata_event`, the ring `recvdatabuf`, an open file | `read_temp_entry` (thread `humi_th`, priority 7), `save_data_entry` (thread `DFSsave`, priority 6), `rtc_read` |
| History and alarm | `dht11.c` 165-213 | `temperature[40]`, `humidity[40]`, four limits | `shift`, `reverse`, `Warning`, read by the chart and the gauge |
| Kernel objects | `RT-Thread/src/ipc.c` | semaphores, mutexes, event flags, mailboxes, message queues, each with lists of suspended threads | take/release, send/recv with timeouts, reset |
| Threads, scheduler, timers | `RT-Thread/src/thread.c`, `scheduler.c`, `timer.c` | thread states, ready lists, sorted timer list | start, suspend, resume, `rt_thread_timeout`, `rt_timer_check` |
| Device helpers | `RT-Thread/components/drivers/src` | ring buffer, block ring, completion, wait queue, work queue, data queue, pipe | put/get and the waiting around them |
| Memory | `mem.c`, `mempool.c`, `memheap.c`, `slab.c` | free lists | alloc/free |
| File system | `RT-Thread/components/dfs`, `sdio_sdcard.c`, `w25qxx.c` | mount table, descriptor table, FatFs | open/read/write/close, mount |
| Windows | `GUI_APP/Src/app.c`, `GUI_APP/WIN/*.c` | the stack of windows, LittlevGL tasks, `chart_flag` | create, Back, buttons; the GUI thread (priority 9) runs all of it in `lv_task_handler` |
| File browser | `GUI_APP/WIN/file_win.c` | `path`, `dirp`, a static text buffer | open a folder, open a file, Back |
| Input and display | `TOUCH`, `KEY`, `LCD`, `IIC`, `24CXX`, `lvgl_driver` | registers | scan, flush |
| Vendored | LittlevGL, ST HAL, finsh, USMART, FatFs, SFUD | | |

How they interact:

* `humi_th` reads the sensor and the clock, then calls `rt_mq_send` and `rt_event_send`. `DFSsave` waits for
  the event, receives one message, formats a record with the *shared* `RTC_time`, puts it in the ring, and, when
  the clock it sees is at second 59, drains the ring into `/sdcard/<day>/<HH>-<MM>.csv` and sleeps 500 ticks.
  There is no lock: the design rests on `DFSsave` having the higher priority.
* The GUI thread reads the history arrays and `RTC_time`, writes the alarm limits and the hardware clock, and
  reads through DFS the files `DFSsave` writes.
* All blocking goes through `ipc.c`: a caller is put on the object's list, its own timer is started, and it is
  made ready by the other side, by the timer interrupt or by a reset, whichever is first.

What is hard: the interleavings of two threads over unlocked fields; two counters of the same thing (the event
bit and the queue); every wait racing its own timeout; a card that is slow, full or absent; ring positions at
the end of the memory; and windows whose tasks outlive them.

### What would make each component correct

* Recording: each good reading ends in the file of its minute, once, whole, in order and with the time it was
  taken at; DFSsave never sleeps for good.
* Ring buffer: it is a first-in first-out queue whatever its indices; the count is right.
* Kernel objects: no slot leaks, no wakeup is lost, no thread sleeps on what is there, each waiter gets one
  answer; a mutex gives its owner back the right priority.
* Timers and scheduler: a timer fires in its tick, across the wrap of the tick; the most urgent ready thread runs.
* History: oldest first, the newest last, after every sample; a reader sees one history.
* Windows: no task or callback touches a deleted object; what is shown is what was clicked.
* Heap: regions given out stay apart and their owner's; what is given back can be given out again.

## Modules

| Module | Models | Extended or used by |
|---|---|---|
| `Recorder` | `read_temp_entry`, `save_data_entry`, `rtc_read`, step by step, with the card's failures, the clock being set and the power failing | `MCRecorder`, `RecorderProofs` |
| `BoundedFifo` | the abstract queue a ring buffer promises | `RingBuffer` (`INSTANCE`) |
| `RingBuffer` | every call of `ringbuffer.c` | `MCRingBuffer`, `RecorderObjectsProofs` |
| `MessageQueue` | `rt_mq_send_wait`, `rt_mq_urgent`, `rt_mq_recv`, reset, timeout | `MCMessageQueue`, `MessageQueueProofs` |
| `EventFlags` | `rt_event_send`, `rt_event_recv`, reset, timeout | `MCEventFlags`, `RecorderObjectsProofs` |
| `Rotation` | `reverse` and `shift`, one swap at a time | `MCRotation`, `HistoryProofs` |
| `History` | the history arrays, `Warning` and its LED, the limits, the chart's task, the Enter buttons | `MCHistory`, `HistoryProofs` |
| `FileBrowser` | the three windows of `file_win.c` beside the saves | `Windows`, `MCFileBrowser` |
| `Windows` | login, main window, dialogs, Back, and the LVGL tasks and what they may write to, around `FileBrowser` | `MCWindows`, `WindowsProofs` |
| `Scheduler` | ready table, `rt_schedule`, and the calls of `thread.c` on it | `Mutex` |
| `Mutex` | `rt_mutex_take`, `rt_mutex_release`, timeout, on the scheduler | `MCMutex`, `MutexProofs` |
| `TimerWheel` | the abstract timers: called in the tick they are armed for, in order | `Timer` (`INSTANCE`) |
| `Timer` | every call of `timer.c` on hard timers, the tick, the callbacks | `MCTimer`, `TimerProofs` |
| `Lists` | what stays of a list when members leave it (`Kept`), as a recursive function | `Timer`, `TimerWheel` |
| `Regions` | the abstract allocator: regions apart from one another | `Heap` (`INSTANCE`) |
| `Heap` | `rt_malloc`, `rt_realloc`, `rt_free` of `mem.c` | `MCHeap`, `HeapProofs` |
| `MC*` | the constants of the above for TLC | the `.cfg` files |
| `RecorderProofs`, `RecorderObjectsProofs`, `MessageQueueProofs`, `HeapProofs`, `MutexProofs`, `WindowsProofs`, `HistoryProofs`, `TimerProofs` | theorems | |

`Timer`, `Scheduler` and the objects of `ipc.c` are layers of one kernel and are modelled one by one: a module that
waits uses the layer below through what that layer promises (`rt_thread_timeout` at any moment for a thread that
waits a finite time, the most urgent ready thread runs), and the layer's own module checks the promise.
`Mutex` is composed with the scheduler because priority inheritance is about both.

Definitions whose comment begins "(Variant of X:" are X with a plausible mistake in it; no specification uses
them. They show that the properties can fail, each part of a conjunction by its own: with X replaced by its
variant, TLC finds the property violated.

### Recorder

State: `RTC_time` (the clock fields; the three fields of `today` as one), `sensor_mq`, `recvdata_event`,
`recvdatabuf` (a sequence of pieces of records), the card (`files`), DFSsave's locals (`folder`, `name`, `fd`,
`pos`, `writebuffer`), and where each thread is. Each call that can block or be preempted is a step of its own:
`rtc_read` is four steps, one per field; `mkdir`, `open`, `write`, `close` and the two delays are steps of
DFSsave. What DFSsave does between two blocking calls is one step, as `humi_th` cannot run then: the scheduler
is strict-priority, DFSsave has priority 6 and `humi_th` 7 (`dht11.c` 319-336), so every step of `humi_th` has
the guard `SaverBlocked`.

The hardware clock `now` counts seconds and moves by at most one per sample, and by at least one in two: the
sampling period is 500 ticks plus the 20 ms reset pulse and the read. `waited` and `SamplesWhileBlocked` say how
many samples fit in one blocking call of DFSsave: one in its delay of 500 ticks, `CardDelay` in a call on the
card. `CardDelay` 0 is a card that answers at once, 1 one that may take up to a period.

`SetClock` is the Enter button of the clock window (the time of day) or of the calendar (the date). It runs in the
GUI thread (priority 9), so only while `humi_th` is in its delay and DFSsave is blocked. `Restart` is a power cut and
a start at any step: RAM is gone; the card keeps closed files as they are and cuts the open one to any length,
because FatFs writes the size to the directory when the file is closed (`dfs_elm.c` calls `f_sync` only from
`fsync` and `close`); the battery keeps the clock going or `RTC_Init` (`rtc.c:176-181`) sets it to its first value.
`since` is the time of the last of both, from which `EveryMinuteSaved` counts: the minute a clock is set or a
start falls in may have no second 59.

Outside the model: what the sensor's bits are (an outcome "ok", "badsum" or "absent" and whether `value` is
fresh), month and year (days are numbered), other users of the card.

### RingBuffer

The variables are the fields of `struct rt_ringbuffer`; a call is one step, since nothing in `ringbuffer.c`
is locked and its users call it from one thread. `out` is what the last call took in or handed out. `Contents`,
the bytes from the read index on, is the refinement mapping to `BoundedFifo`. `Next` leaves out
`rt_ringbuffer_put_force`, which is not a forced put (below); `NextForced` has it.

### MessageQueue and EventFlags

In `ipc.c` each stretch with interrupts off is one step, and any thread may run between two. A thread's place
(`pc`) is outside the call, copying a message with interrupts on, on a list, or woken and not yet running.
`timeout` is what is left of a caller's timeout, as far as it matters: none, some, or for ever. The timer
interrupt (`rt_thread_timeout`) may fire for a suspended thread that waits a finite time, at any moment. Lists
are sequences, kept by priority or in order of arrival as `rt_ipc_list_suspend` does. `content`, `made` and
`taken` name messages by sender and number, and one number more marks urgent messages, which keep no order. `EventFlags` has one event
made with `RT_IPC_FLAG_FIFO`; the loop of a send runs with interrupts off and is one step, computed turn by turn
(`Walked`). Its `EventInit`, `EventNext` and so on have names of their own because its proofs stand in one module with the
ring buffer's.

### Rotation and History

`Rotation` runs the loops of `shift` on any array (`ShiftSpec`: its names are its own, so that one module can extend it and
`History`). `History` takes what the loops leave as one operator (`Shifted`), which `ShiftIsShifted` proves, and keeps, for each element of `temperature` and `humidity`, the sample it is from (the two arrays change together).
All `humi_th` does with a reading, from `temperature[0] = ...` to `Warning()`, is one step, because the GUI thread
has the lower priority and cannot run inside it; each access of the GUI thread is a step, so a sample may fall
between any two: between the two copies of a point (`DrawPoint`), between the read and the write inside
`HAL_GPIO_TogglePin` (`PressEnter`, `TogglePin`), between the two limits (`SetLow`, `SetHigh`). The Enter buttons
of the clock and the calendar toggle the same LED and set no limit; they are the choice `[of |-> "clock"]`.
`value` is the newest reading of each quantity, which is what `Warning` looks at (element 39).

### FileBrowser

State: the card (days, their files and sizes), the windows on the screen, `path`, and the static buffer up to its
first zero byte. `Save` is all `DFSsave` may do to the card: make a folder or a file, or write one again from its
start, never longer than the ring (`MaxSize`, by `FilesFitRing` of `Recorder`) and never shorter than it was. A
click on a file is two steps, up to `open` and from `read` on, with a save possible between. `path` is 100 bytes
in the code and unbounded here; `MaxClicks` bounds it.

### Windows

`Windows` extends `FileBrowser` with the rest of the GUI. One thread runs all of it, so a callback or a task is one
step, and the tasks' writes are not steps at all: a task runs whenever `lv_task_handler` comes to it, so what matters is
which tasks *could* write in a state (`Writing`), and whether what they write to exists. `task` and `running` are
kept apart because they are apart in the code: the static pointer says whether a new task is made, LittlevGL's list
says what runs. Back is two events, pressed and released, with task runs between them; while a file is opened the thread
is in the card call. Which windows there are is `base` and the stack `windows` of `FileBrowser`; a window covers the
one below it, so only the top one is touched. The toast, the progress bar and what windows draw are left out.
`GuardsRight` says that the pointers that keep a second keyboard, dialog or task from being made tell what there is.

### Scheduler and Mutex

The state of `scheduler.c` is one record, and its calls are functions from one such record to the next (`Insert`,
`RemoveThread`, `Schedule`), chained by callers as the code chains the calls; `group` is the bitmap of the ready table.
What runs with interrupts off is one step. A call that ends in `rt_schedule` has interrupts on just before it, so that is a
step of its own (`CallSchedule`), and a timer, a device or the tick may come between and switch threads itself: the
thread then calls `rt_schedule` when it runs again. `TimeSlice` may come at any moment.

`Mutex` adds the mutexes of the file system: the volume's (`dfs_elm.c:1001-1012`, waited for with a time limit) and, taken
inside it, the bus's (`mmcsd_core.c:44-52`, waited for without). Both are made with `RT_IPC_FLAG_FIFO`; in the run the
second is in priority order, so that both kinds of list are checked. A third, `fslock` (`dfs.c:96-119`,
FIFO, no time limit), guards the tables of descriptors and mounts. The application's calls hold it alone; a card that is
given up is unmounted with the bus held (`block_dev.c:508`, `dfs_fs.c:378`), so it comes last in the order. It is
one more number of `Mutexes` to the theorems, which hold for any; the run has two. Three variables are history: `has` (the takes a
thread has had back), `missed` and `unscheduled` (the two exceptions that `InheritsPriority` and `MostUrgentRuns`
state). A taken-again count at `RT_MUTEX_HOLD_MAX` and a take with no waiting change nothing or cannot be reached and are
left out, and so are deletes.

### Timer

`rt_timer_list` is the bottom row of the skip list, a sequence; the rows above only speed the search up. `rt_tick` and
`timeout_tick` wrap at `Modulus`, and are compared as in the code, by unsigned difference. The tick interrupt is several
steps: between `Expire` and `CallbackReturns` the callback may start, stop, detach or change any timer; `list` is the
function's own list, by whose emptiness the code sees that. `TimerWheel` has no tick: timers due in `d` ticks stand in
row `d`; the mapping (`Rows`) puts the members of the list `d` ticks from their time there, in the order of the list, by
`Kept` of `Lists`. That `Timer` implements it (`OnTime`) says that no timer is early, late or out of turn at any wrap.

### Heap

A block is its header: `used`, `next`, `prev`, at its address; addresses are in units of `RT_ALIGN_SIZE`, and a header takes
`Header` of them. `rt_malloc` and `rt_free` hold `heap_sem` from their first look at a block to the last and are one step.
`rt_realloc` that moves a block is three (`ReallocMove`, `ReallocMalloc`, `ReallocFree`), as it gives the semaphore up
between. `asked` and `failed` are history. `Regions` says what callers rely on; the mapping is the header and the bytes asked
for, which is less than the block holds.

## Runs

| Run | Question | Bounds |
|---|---|---|
| `recorder_prompt` | With every read recorded and a prompt card, the clock set once and the power cut once: whole records in order (`RecordsWhole`), right times and names (`TimesAgree`), each minute saved (`EveryMinuteSaved`)? | a minute of 2 s, an hour of 2 minutes, a day of one hour, 10 samples, the clock set to any of 8 times; records of 2 bytes, writes of 5, a ring of 13; outages of up to 2 s |
| `recorder_slow` | With every outcome, a card as slow as a period and failing anywhere, and a power cut: types, `WakeupsHaveMessages`, `SamplesInOrder`, `FilesFitRing`, `SaverReturns`? | 5 samples, queue of 2, ring of 7, writes of 4 |
| `recorder_backlog` | finding 1 below | 3 to 6 samples |
| `ring_buffer` | types, `WithinOneLap`, and refinement of `BoundedFifo` | 4 bytes of memory, 2 byte values, blocks of 0 to 5 |
| `message_queue` | `SlotsConserved`, `NoLostWakeup`, `InOrder`, `MessagesTaken` with ordinary and urgent sends, resets, timeouts and priority order | 2 senders, 2 receivers, 2 slots, messages numbered modulo 2 |
| `event_flags` | `NoSleeperSatisfied`, `ReceivedAsAsked`, `ClearedOnce` | 3 threads, 2 flags |
| `rotation` | `Rotated` | every length up to 6, every distance, two values (an array of zeros and ones tells any two positions apart) |
| `history` | `NewestLast`, `ChartCoherent`, `LitForReason`, `AlarmFollowsSettings` | 3 points, 4 samples, 2 Enter presses |
| `windows` | `FileShown` (three parts: the path, the end of the text, its start), `TasksTouchLiving`, `ShownIsLive`, `GuardsRight`, any open failing | 2 days, 2 files, sizes 1 and 2 in a buffer of 3, 5 windows opened, 2 logins |
| `timer` | `SoonestFirst`, refinement of `TimerWheel` (`OnTime`), `CheckEnds` | 3 timers, a tick of 8 values, times of 1 and 2 |
| `mutex` | `ReadyTable`, `OneOwner`, `BaseRestored`, `InheritsPriority`, `MostUrgentRuns` | 3 threads of 3 priorities and the idle thread, 2 mutexes, 2 takes at a time, critical sections not nested |
| `heap` | `WellLinked`, `Coalesced`, `SummariesRight`, `RefusedOnlyIfFull`, refinement of `Regions` (`KeepsPromise`) | 10 units, headers of 1, least block 2, sizes 1, 2, 3, 6 and 11, 2 threads |

Where a module has a `TypeOK` that no run names, a listed invariant of the module has it as its first conjunct.

Why the bounds are enough. Ten samples over a two-second minute cross five minutes, two hours and two midnights,
with every pattern of a repeated second, and with the clock set or the power cut at every step of both threads.
A record of two bytes and a write of five (or four) puts the cut inside a record at one write and between
records at the next. With 5 samples and a queue of 2 the backlog overflows. The ring of `recorder_prompt` holds
what one setting of the clock can let pile up, as the real ring does (4068 bytes, some 270 records of 15 bytes, a
little over two minutes' worth); it does not hold what two settings can (below). Four bytes of ring memory hold every order of the two
indices and both mirrors, and blocks of up to five are longer than the ring. Two threads on each side of a queue
of two slots give a woken thread someone to lose its message or slot to; a third thread adds a longer list only.
Three waiters and two flags are the least in which one send wakes two and skips one between them. A tick of 8
values wraps within one behaviour many times; times of 1 and 2 are all that rt_timer_start's assertion allows there, and
three timers give the list an inside. Three priorities are the least for an inversion (a thread between owner and
waiter); two mutexes, one nested in the other, are what the file system holds. A heap of ten units takes up to four
blocks, so a block can be freed with neither, either or both neighbours free while others are in use, and holds
near fits, exact fits and requests that cannot be met.

Every bound is a constant: `MaxSamples` caps the recorder's behaviours (`BoundReached` is the stutter at the
cap, so that any other state without a step is reported as a deadlock), `Numbers` makes message numbers cyclic.

Fairness. `SaverReturns` assumes that a thread that can move does: the scheduler is preemptive, the delays and
card calls end (`FairSpec` of `Recorder`). DFSsave is the more urgent and is not starved; `humi_th` runs whenever
it blocks. `MessagesTaken` assumes that a thread inside a call and not suspended gets to run, and that receivers
go on receiving, as DFSsave's loop does; nothing is assumed of senders, timers or resets. `CheckEnds` assumes that
the processor goes on inside the tick interrupt and that callbacks return. All other properties are safety and
assume nothing.

## What the runs show

What holds. With a prompt card the unlocked design works: each record carries the clock of its own sample and
goes to the file of its own minute, across minutes, hours and midnight; the drain loop neither loses nor repeats
a byte; and one setting of the clock or one power cut, wherever it falls, costs no minute but its own. In every
case DFSsave never waits in `rt_mq_recv`, because the message is sent before the event, and it always comes back to
the event. The queue, the event flags, the timers and the heap are right under every interleaving checked. A chart
drawn while samples arrive is a coherent picture, the alarm follows the limits through a change of both, and no
LED is left on without a reason. What stands between the text window and the end of its buffer is not in
`file_win.c` at all: no file is longer than the recorder's ring (`FilesFitRing`), which is shorter than the buffer.
Every LVGL task writes only to windows that exist: the gauge and the clock delete theirs with the window, the chart's
outlives it behind `chart_flag`, and the order of the three lines of `back_btn_event_handler` is what makes that
sound.

What holds with an exception, which the property states:

* `InheritsPriority`: an owner is at least as urgent as who waits for it, unless it has given back another mutex
  meanwhile (it is then set back to a priority from before) or a waiter was itself raised while it waited. Without the
  exception TLC finds a trace of nine steps (`MCMutexNested.cfg`): the file system nests the card bus's mutex in the
  volume's, so a GUI read can leave DFSsave waiting behind a thread of middle priority until its timeout.
* `MostUrgentRuns`: `rt_mutex_release` with nobody waiting lowers its thread and does not schedule (`ipc.c:973`).
* `RefusedOnlyIfFull`: `mem.c:306` passes over a last free block that fits exactly, so `rt_malloc` may refuse where
  its comment (`mem.c:270`) says "NULL if no free memory was found".
* `RecordsWhole` holds through one setting of the clock, not through two (`MCRecorderSetTwice.cfg`): set back twice,
  before each second 59, the clock lets more than two minutes of records pile up, and the ring takes only a part of
  the record that overflows it (`dht11.c:275`).
* A periodic timer that its own callback makes one-shot keeps `RT_TIMER_FLAG_ACTIVATED` although it is on no list:
  `TypeOK` of `Timer` has the one direction only.

What the code does otherwise than its comments and documents say. The first is a run that TLC ends with a
counterexample; the others have a property and a `.cfg` of their own, which any reader can run in the same way.

1. `recorder_backlog` (`NothingLeftBehind`): one message is taken per event bit (`dht11.c:270-272`); two sends during a
   save leave a message in the queue for good, and every later record is stamped with the clock of a later sample.
2. `MCRecorderReadings.cfg` (`RecordsAreReadings`): `dht11.c:229` records when `DHT11_Read_Data` returns nonzero; by
   `dht11.c:121` 1 is a failed read. Readings are recorded only when a read fails, and are those of an earlier read.
3. `MCRecorderNoCard.cfg` (`DrainedToFile`): `dht11.c:287` compares a failed descriptor with `NULL`, so records of a
   minute whose `open` fails are taken out of the ring and dropped (`dfs_posix.c:29`).
4. `MCRecorderOverwrite.cfg` (`FilesKeepRecords`): `dht11.c:285` opens without `O_APPEND`; two records in second 59 of
   a minute save twice, the second over the start of the first (`README.md:11` says each minute's readings are stored).
5. `MCRingBufferForce.cfg` (`ForceKeepsNewest`): `ringbuffer.c:138-142` flips `read_mirror` whatever it was; a full
   buffer then reads as empty, against `ringbuffer.c:96`. Nothing in the application calls it.
6. `MCHistoryRoller.cfg` (`LimitsAsShown`): `gauge_win.c:111` lists 71 twice, so from there on the upper humidity
   limit set is one more than the number shown, and the default of 90 is shown as 89 (`gauge_win.c:68`).
7. `MCFileBrowserPath.cfg` (`ClickOpensFile`): `file_win.c:49` appends to `path` and nothing shortens it, so the second
   file clicked in a folder has a path no file has; the text shown is that of the first (`README.md:21`). `path` has 100 bytes: a few
   more clicks write past it.
8. `MCFileBrowserText.cfg` (`TextIsFile`): `read` puts no zero behind the bytes (`file_win.c:129`), so a shorter
   file is followed by the end of the one shown before.

Seen while modelling and without a property: each login makes one more header (`main_win.c:146`), which nothing
deletes; `rt_thread_delete` and `rt_thread_detach` leave a window with interrupts on between taking the thread off
its list and detaching its timer (the program calls neither); the card is looked for once, when its driver may not have
registered it yet (`sdio_sdcard.c:98`); `rt_mq_send_wait` links a message before it finds `entry` at its maximum
(`ipc.c:2294`, out of reach of a pool of 16 slots). With a card slower than a sampling period the fields DFSsave
formats after a call on the card may be of a later sample, even torn between two, and a folder of one day can get
the last file of the day before; a minute in which every read of second 59 succeeds is not saved (a consequence of 1).

## What is proved

Each theorem is of the specification the runs check, for every value of the constants under the named assumptions
of its module (`ClockAssumption`, `MutexAssumption` and so on, which TLC evaluates on each run): any number of threads,
slots, points, blocks or samples. The bounds of the runs (`MaxSamples`, `MaxTakes`, `MaxClicks`) are constants too, so a
theorem holds for each of them. Each argument is an inductive invariant, with one lemma per action.

`RecorderProofs`:

* `RecorderTypes`: `Spec => []TypeOK`. The invariant is `TInv`, `TypeOK /\ PositionInFile`: the type of a file
  after a write needs the position to be inside the file, or the write would leave a hole. `TInvInit` and
  `TInvStep` are its two halves, one step per action, the setting of the clock and the power cut included;
  `PutType`, `OverwriteType`, `DrainType` are the operators.
* `RecorderPositions`: `Spec => []PositionInFile`, from the same invariant.
* `RecorderWakeups`: `Spec => []WakeupsHaveMessages`. The property counts the wakeups promised (the flag, the
  one taken, the one about to be sent) and is inductive once `TypeOK` is known; the queue must hold two
  (`QueueAssumption`), which the proof uses where a send fails.
* `RecorderFilesFit`: `Spec => []FilesFitRing`. A save writes what the ring holds, from the start of the file;
  `SaveFitsRing` (position plus what is left in the ring is at most the ring) is the strengthening.
* `RecorderOrder`: `Spec => []SamplesInOrder`, for any card, sensor and clock. `OInv` adds that every sample held anywhere
  is older than the one still to be sent.
* `RecorderTimes`: `TimesAgree`, when no call on the card outlasts a sampling period (`CardDelay = 0`). `PInv` says that one sample at
  most is then on its way, and that `RTC_time` is that sample's until DFSsave is done with it.
* `RecorderMinutes`: `EveryMinuteSaved`, when also the card does not fail and every read is recorded (`CardFaults = {}`,
  `Outcomes` within `{"absent"}`). `EInv`: the file of each second 59 since the
  last start or setting of the clock has something in it, that of the second under way as soon as its sample has gone
  all its way, and `RTC_time` is the time of that sample.
* `RecorderRecords`: `RecordsWhole`, under the same hypotheses and one more, that the ring has room for the records of two minutes
  less two seconds for each setting of the clock and the start, and for one more record. `BInv` counts what is in the ring
  against what the clock allows, `FInv` says where a save stands, `RInv` that ring, pending write and file make whole records.

The hypotheses of the last three are those of the run `recorder_prompt`, where TLC reaches every action they leave. They are what
the section above shows is needed: without `CardDelay = 0` times disagree, with a failing card or a good read a minute is
missed, and the bound on the ring is sharp: with two settings of the clock it asks for 14 bytes, and in a ring of 13 TLC
finds a record cut (`MCRecorderSetTwice.cfg`).

`RecorderObjectsProofs`, the ring buffer (every `Size` up to 32767, every set `Data`):

* `RingBufferLap`: `Spec => [](TypeOK /\ WithinOneLap)`. `WithinOneLap` is the strengthening: without it
  `data_len` could be out of its range.
* `RingBufferIsFifo`: `Spec => IsFifo`, that is, every call but the forced put of a block maps to a step of
  `BoundedFifo` or a stutter. `WriteLemma` and `ReadLemma` say what a copy round the end does to `Contents`; each
  call is then one lemma.
* `RingBufferStaysInside`: `SpecForced => []TypeOK`. With the forced put the contents are wrong (5 above), but no index leaves
  the memory.

`MessageQueueProofs`:

* `SlotsAreConserved`: `SlotsConserved`. `Placed` says where each slot is (free, linked or with one thread), that no list
  has an element twice, and what the counters are; a step moves one slot, a reset all the linked ones.
* `WakeupsAreNotLost`: `NoLostWakeup`, inductive on top of `Placed`. It counts threads: a step that adds a message while a
  receiver sleeps, or a slot while a sender does, wakes one.
* `MessagesStayInOrder`: `InOrder`. `OrderedFor` gives each ordinary message in the list the number that its rank
  among its sender's asks for (numbers wrap, ranks do not); urgent messages move places and keep ranks, and a
  reset is where the count starts again.

`HeapProofs`: the splits and `plug_holes` are lemmas on a chain of blocks (`SplitLemma`, `MergeLemma`, `PlugLemma`), the three calls are made of
them (`MallocStep`, `FreeStep`, `InPlaceStep`). `HInv`: the chain is whole (`Chain`), no two free blocks follow each
other, `lfree` and `used_mem` are right (`Sound`); the blocks in use are those given out, each with room for what was asked
(`Served`); no two calls of `rt_realloc` in progress share a block (`Moves`). `ChainStaysWhole`, `FreeBlocksMerge`, `SummariesStayRight` and
`RefusesOnlyIfFull` follow from it, and `HeapKeepsPromise` is the refinement of `Regions`, for every size of heap, header, set
of requests and number of threads.

`MutexProofs`: the scheduler's operators keep `Sound` (the lists are those of the ready threads, the bitmap those of the lists,
one thread runs), by `RemoveThreadLemma`, `InsertThreadLemma`, `ScheduleLemma`. `MInv` has three parts: `Scheduled` (where
threads are between a call and its `rt_schedule`), `Urgent`, and `Owned`, what the mutexes keep true. None of the properties is inductive alone:

* `SchedulerReadyTable` and `SchedulerMostUrgentRuns` need where each thread stands, since a call changes the lists before it schedules.
* `MutexOneOwner` needs that a thread that was handed a mutex and has not run yet counts as having taken it (`Held`), and that
  the list of a mutex is exactly the threads suspended on it (`Listed`), which a timeout keeps.
* `MutexBaseRestored` needs `FirstRemembers`: of the mutexes a thread owns, the first it took remembers the thread's own
  priority. That is so because mutexes are taken in one order and given back last first (`TakenInOrder`, `Asking`), as the file system does.
* `MutexInherits` needs that lists by priority are sorted (`Sorted`), so that the head, whom a release makes owner, is the most urgent.

`WindowsProofs`: `WInv` has four parts. `Stacked` says which stacks of windows there are; `FileInv` that what is being opened is what was
clicked; `TaskInv` that a task pointer is set exactly while its task runs, that the clock and the gauge are on the screen exactly while
their tasks run, and that the chart's flag is up exactly while there is a chart that is not being left; `DialogGuards` that `kb` and
`quit_mbox` are set exactly while there is a keyboard or a dialog. `WindowsFileShown`, `WindowsTasksTouchLiving`, `WindowsShownIsLive`
and `WindowsGuardsRight` (the dialogs' pointers and the tasks', `DialogGuards` and `TaskGuards`) are the four properties of the run, for
any number of days, files, clicks and logins.

`HistoryProofs` (every number of points, every limit and reading):

* `HistoryNewestLast`: `Spec => []NewestLast`.
* `HistoryChartCoherent`: `Spec => []ChartCoherent`. `DrawnCoherent` says the same of the points copied so far; it
  is inductive because a sample only ever moves later readings to a point.
* `HistoryLitForReason`: `Spec => []LitForReason`. `Lit` says why the pin is low, a toggle of the GUI half done included.
* `HistoryAlarms`: the action property `AlarmFollowsSettings`. `AInv` says what the limits are while Enter is between its two
  assignments.

* `ShiftRotates`: `ShiftSpec => []Rotated`, for every length, distance and content. `PartlyReversed` is
  the loop invariant: inside a call of `reverse` the outer `i` elements of each end have changed places.
* `ShiftIsShifted`: with the length of the arrays and a distance of one, what the loops leave is `Shifted`, the operator
  `Sample` of `History` uses.

`RecorderObjectsProofs`, the event flags (any number of threads and flags): `EventInv` is `EventTypeOK`, the two
invariants of the run and `SleepersAsAsked`, without which an answer could not be compared with its request: until a
thread is woken `thread->event_set` is what it asked for. A send changes any number of threads, so its step rests on an
induction over the walk of the list: `WalkInv` says what the walk has done at place `j` (`VisitStep` keeps it,
`WalkedLemma` is its end).

* `EventWakes`: `EventSpec => []NoSleeperSatisfied`. Whom the walk passed over it need not go back to: what it clears
  later only takes flags away (`SatisfiedMore`).
* `EventAnswers`: `EventSpec => []ReceivedAsAsked`.
* `EventClears`: the action property `ClearedOnce`, from the same `WalkInv` (`Given`, `Parted`); only a send wakes
  with an answer (`WokenBySend`).

`TimerProofs` (any modulus, timers and times):

* `TimersInOrder`: `Spec => []SoonestFirst`, which is inductive as it stands (`TypeOK` is its first conjunct). What is left
  of each timer is less than half the modulus, so the unsigned differences of the code are true ones; a tick takes one
  from each, an insertion keeps the order.
* `TimersOnTime`: `Spec => OnTime`, the refinement of `TimerWheel`. A row is the members of the list with so many ticks
  left (`At`); the lemmas say what a row becomes when a timer is put in, taken out, or the tick moves.

The event flags and the timers rest on recursion: a function defined by it is shown to exist (`WalkFunction`, `KeptFunction`), and what holds of
it by induction on a *set* of numbers or lists (`NatSetInduction`, `ListInduction`), as the library's induction theorems,
which take an operator, are out of the provers' reach.

Left to TLC. Liveness (`SaverReturns`, `MessagesTaken`, `CheckEnds`) is out of the prover's reach; every other property of the
runs has a theorem. What the code gets wrong (the findings) has none.

## Not modelled, and why

Display, touch, key and EEPROM drivers are register input and output. LittlevGL, the HAL, finsh, USMART, FatFs,
SFUD and the serial, SPI and SDIO drivers are third-party; FatFs is used through what `open`, `write` and `close`
promise. `rt_*_detach` and `rt_*_delete` of threads and of `ipc.c`'s objects are not called by the program; a timer's
detach is modelled. Soft timers have a thread of their own (`RT_USING_TIMER_SOFT`), but none is started. Of the heap,
magic numbers, `max_mem`, `rt_calloc`'s zeroes and what callers keep in their regions are left out; what is done under
`heap_sem` is one step. `memheap.c` and `slab.c` are not built in, and no memory pool, semaphore or mailbox is used
by application code.

## Plan

In order of what matters to the program:

1. Modules: `Semaphore` and `Mailbox` (the list handling is that of `MessageQueue`); `Completion`, `WaitQueue`, `WorkQueue`,
   `DataQueue`, `Pipe`; the descriptor table and mounts of DFS.
2. Proofs about them. At most eight modules hold theorems, so proofs about modules whose names do not meet share one
   (`RecorderObjectsProofs`, `HistoryProofs`), and the lemmas on lists that several need are repeated.
