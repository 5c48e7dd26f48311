----------------------------- MODULE Scheduler ------------------------------
(***************************************************************************)
(* Threads and the scheduler of RT-Thread (src/thread.c, src/scheduler.c,  *)
(* the time slice of src/clock.c), on one processor.                       *)
(*                                                                         *)
(* The calls of the scheduler are functions from one state of it to the    *)
(* next, so that callers can chain them as the code does.  What the code   *)
(* does with interrupts off is one step.  A call that ends in rt_schedule  *)
(* turns interrupts on before it: the tick or another interrupt may come   *)
(* first, and may switch threads itself.                                   *)
(***************************************************************************)
EXTENDS Integers, SequencesExt

CONSTANTS
    Threads, Idle, Main,    \* threads; the idle thread, and the one that starts
    init_priority,          \* of each, the smaller the more urgent
    MaxNest                 \* bound of the model: nested critical sections

All == Threads \cup {Idle}

ASSUME SchedulerAssumption ==
    /\ Idle \notin Threads /\ Main \in Threads
    /\ init_priority \in [All -> Nat]
    /\ \A t \in Threads : init_priority[t] < init_priority[Idle]
    /\ MaxNest \in Nat

Priorities == {init_priority[t] : t \in All}

VARIABLES
    k,      \* the scheduler: see Init
    timed,  \* threads whose thread_timer runs
    error,  \* thread->error
    pc      \* where a thread is: "run", about to call rt_schedule, or back from
            \* a call of it after which the error is looked at ("back")

Init ==
    /\ k = [table |-> [p \in Priorities |-> IF p = init_priority[Idle] THEN <<Idle>> ELSE <<>>],
            group |-> {init_priority[Idle]},    \* rt_thread_ready_priority_group
            stat  |-> [t \in All |-> IF t = Main THEN "RUNNING"
                                     ELSE IF t = Idle THEN "READY" ELSE "INIT"],
            yield |-> {},                       \* RT_THREAD_STAT_YIELD
            prio  |-> init_priority,            \* current_priority
            current |-> Main,                   \* rt_current_thread
            nest  |-> 0]                        \* rt_scheduler_lock_nest
    /\ timed = {}
    /\ error = [t \in Threads |-> "OK"]
    /\ pc = [t \in Threads |-> "run"]

-----------------------------------------------------------------------------
(* scheduler.c                                                             *)

\* rt_schedule_insert_thread
Insert(s, t) ==
    IF t = s.current
    THEN [s EXCEPT !.stat[t] = "RUNNING"]
    ELSE [s EXCEPT !.stat[t] = "READY",
                   !.table[s.prio[t]] = Append(@, t),
                   !.group = @ \cup {s.prio[t]}]

\* (Variant of RemoveThread: the bit of the priority is always cleared.)
RemoveClearing(s, t) ==
    [s EXCEPT !.table = [p \in Priorities |-> RemoveFirst(s.table[p], t)],
              !.group = @ \ {s.prio[t]}]

\* rt_schedule_remove_thread: the thread leaves whatever list of the scheduler
\* it is on; the bit cleared is that of its present priority.
RemoveThread(s, t) ==
    LET rest == [p \in Priorities |-> RemoveFirst(s.table[p], t)]
    IN  [s EXCEPT !.table = rest,
                  !.group = IF rest[s.prio[t]] = <<>> THEN @ \ {s.prio[t]} ELSE @]

\* (Variant of Stays: the thread that runs gives way to equal ones only.)
StaysUnlessEqual(s, high) ==
    s.stat[s.current] = "RUNNING" /\ (s.prio[s.current] # high \/ s.current \notin s.yield)

\* A thread that can run goes on unless a more urgent one is ready, or one as
\* urgent and it has yielded.
Stays(s, high) ==
    /\ s.stat[s.current] = "RUNNING"
    /\ \/ s.prio[s.current] < high
       \/ s.prio[s.current] = high /\ s.current \notin s.yield

Highest(s) == CHOOSE p \in s.group : \A q \in s.group : p <= q

\* A thread that could have gone on goes to the end of its list.
Switched(s, from, to) ==
    LET moved == [s EXCEPT !.current = to]
        kept  == IF s.stat[from] = "RUNNING" THEN Insert(moved, from) ELSE moved
    IN  [RemoveThread(kept, to) EXCEPT !.stat[to] = "RUNNING"]

\* rt_schedule
Schedule(s) ==
    IF s.nest # 0 \/ s.group = {} THEN s
    ELSE LET from == s.current
             high == Highest(s)
             done == IF s.stat[from] = "RUNNING" THEN [s EXCEPT !.yield = @ \ {from}] ELSE s
         IN  IF Stays(s, high)
             THEN [RemoveThread(done, from) EXCEPT !.stat[from] = "RUNNING"]
             ELSE Switched(done, from, Head(s.table[high]))

-----------------------------------------------------------------------------
(* thread.c                                                                *)

\* rt_thread_suspend of a thread that runs or is ready.
Suspended(s, t) == [RemoveThread(s, t) EXCEPT !.stat[t] = "SUSPEND"]

\* RT_THREAD_CTRL_CHANGE_PRIORITY: a ready thread changes its list.
Reprioritized(s, t, p) ==
    IF s.stat[t] = "READY"
    THEN Insert([RemoveThread(s, t) EXCEPT !.prio[t] = p], t)
    ELSE [s EXCEPT !.prio[t] = p]

\* The thread that runs, outside any call.
Runs(t) == t = k.current /\ pc[t] = "run" /\ t \in Threads

\* rt_thread_startup
Startup(t, u) ==
    /\ Runs(t) /\ k.stat[u] = "INIT"
    /\ k' = Insert([k EXCEPT !.stat[u] = "SUSPEND"], u)
    /\ pc' = [pc EXCEPT ![t] = "schedule"]
    /\ UNCHANGED <<timed, error>>

\* rt_thread_yield
Yield(t) ==
    /\ Runs(t)
    /\ k' = Schedule([k EXCEPT !.yield = @ \cup {t}])
    /\ UNCHANGED <<timed, error, pc>>

\* rt_thread_sleep, to the end of its section without interrupts.
Sleep(t) ==
    /\ Runs(t) /\ k.nest = 0
    /\ k' = Suspended(k, t)
    /\ timed' = timed \cup {t}
    /\ pc' = [pc EXCEPT ![t] = "schedule"]
    /\ UNCHANGED error

\* A thread in a call comes to rt_schedule, unless an interrupt has switched to
\* another one; then it does when it runs again.
CallSchedule(t) ==
    /\ t = k.current /\ t \in Threads /\ pc[t] = "schedule"
    /\ k' = Schedule(k)
    /\ pc' = [pc EXCEPT ![t] = "back"]
    /\ UNCHANGED <<timed, error>>

\* rt_thread_exit
Exit(t) ==
    /\ Runs(t) /\ k.nest = 0
    /\ k' = Schedule([RemoveThread(k, t) EXCEPT !.stat[t] = "CLOSE", !.yield = @ \ {t}])
    /\ timed' = timed \ {t}
    /\ UNCHANGED <<error, pc>>

\* rt_enter_critical
EnterCritical(t) ==
    /\ Runs(t) /\ k.nest < MaxNest
    /\ k' = [k EXCEPT !.nest = @ + 1]
    /\ UNCHANGED <<timed, error, pc>>

\* rt_exit_critical: the last one schedules.
ExitCritical(t) ==
    /\ Runs(t) /\ k.nest > 0
    /\ k' = [k EXCEPT !.nest = @ - 1]
    /\ pc' = [pc EXCEPT ![t] = IF k.nest = 1 THEN "schedule" ELSE "run"]
    /\ UNCHANGED <<timed, error>>

-----------------------------------------------------------------------------
(* Interrupts.                                                             *)

\* rt_tick_increase at the end of the time slice of the thread that runs.
TimeSlice ==
    /\ k' = Schedule([k EXCEPT !.yield = @ \cup {k.current}])
    /\ UNCHANGED <<timed, error, pc>>

\* rt_thread_timeout, with what it does to the scheduler.
ThreadTimeout(t) ==
    /\ t \in timed /\ k.stat[t] = "SUSPEND"
    /\ k' = Schedule(Insert(k, t))
    /\ timed' = timed \ {t}
    /\ error' = [error EXCEPT ![t] = "TIMEOUT"]
    /\ UNCHANGED pc

\* (Variant of ResumedByDevice: the timer of the thread goes on.)
ResumedTimed(t) ==
    /\ k.stat[t] = "SUSPEND"
    /\ k' = Schedule(Insert(k, t))
    /\ UNCHANGED <<timed, error, pc>>

\* rt_thread_resume and rt_schedule, from the interrupt of a device.
ResumedByDevice(t) ==
    /\ k.stat[t] = "SUSPEND"
    /\ k' = Schedule(Insert(k, t))
    /\ timed' = timed \ {t}
    /\ UNCHANGED <<error, pc>>

-----------------------------------------------------------------------------
(* Properties.                                                             *)

\* The ready table says who is ready: a thread is on one list, that of its
\* present priority, exactly while it is READY; the bit of a priority is set
\* exactly while its list is not empty, or rt_schedule would pass over a ready
\* thread or take one from an empty list; and no thread but the current one is
\* RUNNING.  Threads that change priority while ready, suspended or running, and
\* interrupts before a call's rt_schedule, must keep it so.
ReadyTable ==
    /\ \A p \in Priorities :
         /\ p \in k.group <=> k.table[p] # <<>>
         /\ IsInjective(k.table[p])
         /\ ToSet(k.table[p]) = {t \in All : k.stat[t] = "READY" /\ k.prio[t] = p}
    /\ \A t \in All : k.stat[t] = "RUNNING" => t = k.current
    /\ k.stat[k.current] # "READY"
=============================================================================
