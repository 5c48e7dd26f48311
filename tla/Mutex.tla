------------------------------- MODULE Mutex --------------------------------
(***************************************************************************)
(* rt_mutex_* of RT-Thread/src/ipc.c on the scheduler.  A thread that finds*)
(* a mutex taken gives its priority to the owner and is suspended on the   *)
(* mutex; the owner gets its own priority back, as it was when it took the *)
(* mutex, when it releases it, and hands the mutex to the first waiter.    *)
(*                                                                         *)
(* The file system takes its volume's mutex (with a timeout) and, with it, *)
(* the mutex of the card's bus, and releases them in the opposite order;   *)
(* both are made with RT_IPC_FLAG_FIFO.  So is fslock, of the tables of     *)
(* descriptors and mounts, the innermost.  Mutexes are numbered here in the*)
(* order they are taken in.                                                *)
(***************************************************************************)
EXTENDS Scheduler

CONSTANTS
    Mutexes,        \* numbers
    NoThread,       \* RT_NULL as an owner
    Fifo,           \* the mutexes made with RT_IPC_FLAG_FIFO
    Forever,        \* those waited for without a time limit
    MaxTakes        \* bound of the model: takes one thread has at a time

ASSUME MutexAssumption ==
    /\ Mutexes \subseteq Nat \ {0} /\ Fifo \subseteq Mutexes /\ Forever \subseteq Mutexes
    /\ NoThread \notin All /\ MaxTakes \in Nat

VARIABLES
    value, owner, hold,
    original_priority,  \* init_priority[Idle] for the 0xFF of a free mutex
    suspend_thread,     \* of each mutex: the waiters, in the order of the list
    wants,              \* the mutex a thread waits for, or is being given; 0
    has,                \* history: the takes of a thread that have returned,
                        \* the last of them last
    missed,             \* history: mutexes whose owner may have lost what a
                        \* waiter gave it, see InheritsPriority
    unscheduled         \* history: a thread has lowered its priority since the
                        \* last call of rt_schedule

mutexVars == <<value, owner, original_priority, hold, suspend_thread>>
history   == <<has, missed, unscheduled>>
vars      == <<k, timed, error, pc, mutexVars, wants, history>>

MutexInit ==
    /\ Init
    /\ value = [m \in Mutexes |-> 1] /\ hold = [m \in Mutexes |-> 0]
    /\ owner = [m \in Mutexes |-> NoThread]
    /\ original_priority = [m \in Mutexes |-> init_priority[Idle]]
    /\ suspend_thread = [m \in Mutexes |-> <<>>]
    /\ wants = [t \in Threads |-> 0]
    /\ has = [t \in Threads |-> <<>>]
    /\ missed = {} /\ unscheduled = FALSE

-----------------------------------------------------------------------------
(* rt_mutex_take                                                           *)

\* The order the file system takes its mutexes in: ff_req_grant, and under it
\* mmcsd_host_lock.  dfs_lock is called with neither held, but where a card is
\* given up: then with the bus held.
MayTake(t, m) ==
    Runs(t) /\ Len(has[t]) < MaxTakes /\ \A i \in DOMAIN has[t] : has[t][i] <= m

TakeAgain(t, m) ==
    /\ MayTake(t, m) /\ owner[m] = t
    /\ hold' = [hold EXCEPT ![m] = @ + 1]
    /\ error' = [error EXCEPT ![t] = "OK"]
    /\ has' = [has EXCEPT ![t] = Append(@, m)]
    /\ UNCHANGED <<k, timed, pc, value, owner, original_priority, suspend_thread, wants,
                   missed, unscheduled>>

TakeFree(t, m) ==
    /\ MayTake(t, m) /\ owner[m] # t /\ value[m] > 0
    /\ value' = [value EXCEPT ![m] = @ - 1]
    /\ owner' = [owner EXCEPT ![m] = t]
    /\ original_priority' = [original_priority EXCEPT ![m] = k.prio[t]]
    /\ hold' = [hold EXCEPT ![m] = @ + 1]
    /\ error' = [error EXCEPT ![t] = "OK"]
    /\ has' = [has EXCEPT ![t] = Append(@, m)]
    /\ UNCHANGED <<k, timed, pc, suspend_thread, wants, missed, unscheduled>>

\* rt_ipc_list_suspend: at the end, or before the first less urgent thread.
Enlisted(m, t) ==
    LET list == suspend_thread[m]
        first == SelectInSeq(list, LAMBDA u : k.prio[t] < k.prio[u])
    IN  IF m \in Fifo \/ first = 0 THEN Append(list, t) ELSE InsertAt(list, first, t)

\* (Variant of Raised: the owner is left as it is.)
NotRaised(t, m) == k

\* The owner is made as urgent as the thread that is about to wait.
Raised(t, m) ==
    IF k.prio[t] < k.prio[owner[m]] THEN Reprioritized(k, owner[m], k.prio[t]) ELSE k

\* A take that must wait, to the end of its section without interrupts.
Wait(t, m) ==
    /\ MayTake(t, m) /\ k.nest = 0 /\ owner[m] # t /\ value[m] = 0
    /\ k' = Suspended(Raised(t, m), t)
    /\ suspend_thread' = [suspend_thread EXCEPT ![m] = Enlisted(m, t)]
    /\ timed' = IF m \in Forever THEN timed ELSE timed \cup {t}
    /\ error' = [error EXCEPT ![t] = "OK"]
    /\ wants' = [wants EXCEPT ![t] = m]
    /\ pc' = [pc EXCEPT ![t] = "schedule"]
    /\ missed' = IF k.prio[t] < k.prio[owner[m]] /\ wants[owner[m]] # 0
                 THEN missed \cup {wants[owner[m]]} ELSE missed
    /\ UNCHANGED <<value, owner, original_priority, hold, has, unscheduled>>

\* After the rt_schedule of a call.  A take returns with the mutex, or with an
\* error; the other calls just return.  The error is left as OK: whatever looks
\* at it again has set it before.
Back(t) ==
    /\ t = k.current /\ t \in Threads /\ pc[t] = "back"
    /\ pc' = [pc EXCEPT ![t] = "run"]
    /\ wants' = [wants EXCEPT ![t] = 0]
    /\ has' = IF wants[t] # 0 /\ error[t] = "OK"
              THEN [has EXCEPT ![t] = Append(@, wants[t])] ELSE has
    /\ error' = [error EXCEPT ![t] = "OK"]
    /\ UNCHANGED <<k, timed, mutexVars, missed, unscheduled>>

-----------------------------------------------------------------------------
(* rt_mutex_release                                                        *)

MayRelease(t, m) == Runs(t) /\ has[t] # <<>> /\ m = Last(has[t])

ReleaseOne(t, m) ==
    /\ MayRelease(t, m) /\ hold[m] > 1
    /\ hold' = [hold EXCEPT ![m] = @ - 1]
    /\ has' = [has EXCEPT ![t] = Front(@)]
    /\ UNCHANGED <<k, timed, error, pc, value, owner, original_priority, suspend_thread, wants,
                   missed, unscheduled>>

\* (Variant of Restored: the owner keeps the priority it was given.)
NotRestored(t, m) == k

\* The owner gets back the priority it had when it took this mutex.
Restored(t, m) == Reprioritized(k, t, original_priority[m])

\* Others the owner holds lose what their waiters gave it.
MissedAfter(t, m) ==
    IF original_priority[m] = k.prio[t] THEN missed
    ELSE missed \cup {n \in Mutexes \ {m} : owner[n] = t}

ReleaseFree(t, m) ==
    /\ MayRelease(t, m) /\ hold[m] = 1 /\ suspend_thread[m] = <<>>
    /\ k' = Restored(t, m)
    /\ hold' = [hold EXCEPT ![m] = 0]
    /\ value' = [value EXCEPT ![m] = @ + 1]
    /\ owner' = [owner EXCEPT ![m] = NoThread]
    /\ original_priority' = [original_priority EXCEPT ![m] = init_priority[Idle]]
    /\ has' = [has EXCEPT ![t] = Front(@)]
    /\ missed' = MissedAfter(t, m) \ {m}
    /\ unscheduled' = (unscheduled \/ k'.prio[t] > k.prio[t])
    /\ UNCHANGED <<timed, error, pc, suspend_thread, wants>>

\* rt_ipc_get_highest_priority
MostUrgent(s, m) == Min({s.prio[u] : u \in ToSet(suspend_thread[m])})

\* The first waiter gets the mutex, is made as urgent as the most urgent of the
\* waiters if the list is in order of arrival, and is resumed.
HandOver(t, m) ==
    /\ MayRelease(t, m) /\ hold[m] = 1 /\ suspend_thread[m] # <<>>
    /\ LET next   == Head(suspend_thread[m])
           lower  == Restored(t, m)
           raised == IF m \in Fifo THEN Reprioritized(lower, next, MostUrgent(lower, m)) ELSE lower
       IN  /\ owner' = [owner EXCEPT ![m] = next]
           /\ original_priority' = [original_priority EXCEPT ![m] = lower.prio[next]]
           /\ k' = Insert(raised, next)
           /\ timed' = timed \ {next}
    /\ suspend_thread' = [suspend_thread EXCEPT ![m] = Tail(@)]
    /\ has' = [has EXCEPT ![t] = Front(@)]
    /\ missed' = MissedAfter(t, m)
    /\ pc' = [pc EXCEPT ![t] = "schedule"]
    /\ UNCHANGED <<error, value, hold, wants, unscheduled>>

-----------------------------------------------------------------------------
(* The timer of a waiting thread, and the rest of the system.              *)

\* (Variant of TimeOut: the thread stays on the list of the mutex.)
TimeOutListed(t) ==
    /\ ThreadTimeout(t)
    /\ unscheduled' = (unscheduled /\ k.nest # 0)
    /\ UNCHANGED <<mutexVars, wants, has, missed>>

\* rt_thread_timeout: off the list of the mutex, and ready.
TimeOut(t) ==
    /\ ThreadTimeout(t)
    /\ suspend_thread' = [m \in Mutexes |-> RemoveFirst(suspend_thread[m], t)]
    /\ unscheduled' = (unscheduled /\ k.nest # 0)
    /\ UNCHANGED <<value, owner, original_priority, hold, wants, has, missed>>

Quiet(A) == A /\ UNCHANGED <<mutexVars, wants, history>>

Scheduling(A) ==
    /\ A /\ unscheduled' = (unscheduled /\ k.nest # 0)
    /\ UNCHANGED <<mutexVars, wants, has, missed>>

Next ==
    \/ \E t \in Threads :
         \/ \E u \in Threads : Quiet(Startup(t, u))
         \/ Quiet(Sleep(t)) \/ Quiet(EnterCritical(t)) \/ Quiet(ExitCritical(t))
         \/ Scheduling(Yield(t)) \/ Scheduling(CallSchedule(t))
         \/ has[t] = <<>> /\ Scheduling(Exit(t))
         \/ wants[t] = 0 /\ Scheduling(ResumedByDevice(t))
         \/ TimeOut(t) \/ Back(t)
         \/ \E m \in Mutexes :
              \/ TakeAgain(t, m) \/ TakeFree(t, m) \/ Wait(t, m)
              \/ ReleaseOne(t, m) \/ ReleaseFree(t, m) \/ HandOver(t, m)
    \/ Scheduling(TimeSlice)

Spec == MutexInit /\ [][Next]_vars

-----------------------------------------------------------------------------
(* Properties.                                                             *)

\* Types, and: only a suspended thread has a timer that runs.
TypeOK ==
    /\ \A p \in Priorities : k.table[p] \in Seq(All)
    /\ k.group \subseteq Priorities /\ k.yield \subseteq All
    /\ k.stat \in [All -> {"INIT", "SUSPEND", "READY", "RUNNING", "CLOSE"}]
    /\ k.prio \in [All -> Priorities] /\ k.current \in All /\ k.nest \in 0 .. MaxNest
    /\ timed \subseteq {t \in Threads : k.stat[t] = "SUSPEND"}
    /\ error \in [Threads -> {"OK", "TIMEOUT"}]
    /\ pc \in [Threads -> {"run", "schedule", "back"}]
    /\ value \in [Mutexes -> {0, 1}] /\ hold \in [Mutexes -> 0 .. MaxTakes]
    /\ owner \in [Mutexes -> Threads \cup {NoThread}]
    /\ original_priority \in [Mutexes -> Priorities]
    /\ \A m \in Mutexes : suspend_thread[m] \in Seq(Threads)
    /\ wants \in [Threads -> Mutexes \cup {0}] /\ has \in [Threads -> Seq(Mutexes)]
    /\ missed \subseteq Mutexes /\ unscheduled \in BOOLEAN

\* The takes of m that have returned to t, and one that is about to.
TakesOf(t, m) ==
    Cardinality({i \in DOMAIN has[t] : has[t][i] = m})
    + (IF wants[t] = m /\ k.stat[t] # "SUSPEND" /\ error[t] = "OK" THEN 1 ELSE 0)

\* Types, and: a mutex is with one thread: the one the mutex says, for as many takes as it
\* counts; who does not own it has no take of it that returned with success, or
\* is about to.  The threads suspended on it are those that wait for it.  So a
\* hand-over that meets a timeout leaves neither two owners nor none.
OneOwner == TypeOK /\
    \A m \in Mutexes :
        /\ value[m] = 1 <=> owner[m] = NoThread
        /\ \A t \in Threads : TakesOf(t, m) = IF owner[m] = t THEN hold[m] ELSE 0
        /\ hold[m] = 0 <=> owner[m] = NoThread
        /\ IsInjective(suspend_thread[m])
        /\ ToSet(suspend_thread[m]) =
             {t \in Threads : wants[t] = m /\ k.stat[t] = "SUSPEND"}

\* A thread that owns no mutex has its own priority: through timeouts, hand-overs
\* and nested mutexes, nothing it was given stays with it.
BaseRestored ==
    \A t \in Threads : (\A m \in Mutexes : owner[m] # t) => k.prio[t] = init_priority[t]

\* No owner is less urgent than a thread that waits for it, or threads between
\* them would keep the processor from both; but for two cases the code does not
\* see: the owner has released another mutex and was given back a priority from
\* before, or a waiter was itself raised, as an owner, while it waited.
InheritsPriority ==
    \A m \in Mutexes \ missed : \A t \in ToSet(suspend_thread[m]) :
        k.prio[owner[m]] <= k.prio[t]

\* The same without exceptions: what rt_mutex_take sets out to do.
InheritsAlways ==
    \A m \in Mutexes : \A t \in ToSet(suspend_thread[m]) : k.prio[owner[m]] <= k.prio[t]

\* While a thread runs outside kernel calls no more urgent one is ready, unless
\* it has just released a mutex nobody waited for any more and lost a priority
\* it was given: rt_mutex_release then returns without rt_schedule.
MostUrgentRuns ==
    \A t \in All : k.stat[t] = "READY" /\ k.nest = 0 /\ ~unscheduled
                   /\ (k.current \in Threads => pc[k.current] = "run")
                     => k.prio[k.current] <= k.prio[t]
=============================================================================
