----------------------------- MODULE EventFlags -----------------------------
(***************************************************************************)
(* rt_event_* of RT-Thread/src/ipc.c: a set of flags on which threads wait *)
(* for all or any of the flags they name, and which a receiver may clear.  *)
(* One send may satisfy many waiters; it walks their list in order, and    *)
(* what one of them clears the next does not see.                          *)
(***************************************************************************)
EXTENDS Integers, Sequences, SequencesExt

CONSTANTS
    Threads, Flags,
    Timeouts    \* what callers pass: "zero", "finite", "forever"

ASSUME TimeoutAssumption == Timeouts \subseteq {"zero", "finite", "forever"}

VARIABLES
    set,            \* event->set
    suspend_thread, \* the suspended threads, in the order of the list
    pc,             \* where each thread is: outside, suspended, or woken
    event_set,      \* thread->event_set: the flags wanted, then those received
    event_info,     \* thread->event_info: [all, clear]
    asked,          \* history: the flags the last call of each thread named
    error,          \* thread->error
    timeout         \* what each suspended thread waits with

eventVars == <<set, suspend_thread, pc, event_set, event_info, asked, error, timeout>>

\* RT_EVENT_FLAG_AND wins when both it and RT_EVENT_FLAG_OR are given.
Options == [all : BOOLEAN, clear : BOOLEAN]

\* (Variant of Satisfied: RT_EVENT_FLAG_AND is not looked at.)
SatisfiedByAny(have, want, option) == want \cap have # {}

\* Does the set `have` give a thread what it wants?
Satisfied(have, want, option) ==
    IF option.all THEN want \subseteq have ELSE want \cap have # {}

EventInit ==
    /\ set = {} /\ suspend_thread = <<>>
    /\ pc = [t \in Threads |-> "outside"]
    /\ event_set = [t \in Threads |-> {}] /\ asked = [t \in Threads |-> {}]
    /\ event_info = [t \in Threads |-> [all |-> FALSE, clear |-> FALSE]]
    /\ error = [t \in Threads |-> "OK"]
    /\ timeout = [t \in Threads |-> "zero"]

-----------------------------------------------------------------------------
(* rt_event_send.                                                          *)

\* (Variant of Visit: the walk ends at the first thread it wakes.)
VisitOne(walk, t) ==
    IF walk.list = suspend_thread /\ Satisfied(walk.set, event_set[t], event_info[t])
    THEN LET got == event_set[t] \cap walk.set
         IN  [set |-> IF event_info[t].clear THEN walk.set \ got ELSE walk.set,
              got |-> [walk.got EXCEPT ![t] = got],
              list |-> RemoveFirst(walk.list, t)]
    ELSE walk

\* (Variant of Visit: a woken thread's flags are not cleared before the next.)
VisitNoClear(walk, t) ==
    IF Satisfied(walk.set, event_set[t], event_info[t])
    THEN [set |-> walk.set,
          got |-> [walk.got EXCEPT ![t] = event_set[t] \cap walk.set],
          list |-> RemoveFirst(walk.list, t)]
    ELSE walk

\* One turn of the loop over the suspended threads: a thread that is satisfied
\* gets what it wanted of the set, clears it if it asked to, and leaves the list.
Visit(walk, t) ==
    IF Satisfied(walk.set, event_set[t], event_info[t])
    THEN LET got == event_set[t] \cap walk.set
         IN  [set |-> IF event_info[t].clear THEN walk.set \ got ELSE walk.set,
              got |-> [walk.got EXCEPT ![t] = got],
              list |-> RemoveFirst(walk.list, t)]
    ELSE walk

\* What the loop leaves.
Walked(flags) ==
    LET walk[i \in 0 .. Len(suspend_thread)] ==
          IF i = 0 THEN [set |-> set \cup flags, got |-> event_set, list |-> suspend_thread]
          ELSE Visit(walk[i - 1], suspend_thread[i])
    IN  walk[Len(suspend_thread)]

Send(flags) ==
    LET walk == Walked(flags)
    IN  /\ set' = walk.set
        /\ event_set' = walk.got
        /\ suspend_thread' = walk.list
        /\ pc' = [t \in Threads |->
                    IF pc[t] = "suspended" /\ t \notin ToSet(walk.list) THEN "woken" ELSE pc[t]]
        /\ UNCHANGED <<event_info, asked, error, timeout>>

-----------------------------------------------------------------------------
(* rt_event_recv.                                                          *)

\* The flags are there: taken at once, and cleared if so asked.
ReceiveNow(t, flags, option) ==
    /\ pc[t] = "outside"
    /\ Satisfied(set, flags, option)
    /\ event_set' = [event_set EXCEPT ![t] = set \cap flags]
    /\ event_info' = [event_info EXCEPT ![t] = option]
    /\ asked' = [asked EXCEPT ![t] = flags]
    /\ error' = [error EXCEPT ![t] = "OK"]
    /\ set' = IF option.clear THEN set \ flags ELSE set
    /\ UNCHANGED <<suspend_thread, pc, timeout>>

\* They are not: give up, or be suspended at the end of the list (the event is
\* made with RT_IPC_FLAG_FIFO, as the recorder's is).
ReceiveLater(t, flags, option, limit) ==
    /\ pc[t] = "outside"
    /\ ~Satisfied(set, flags, option)
    /\ IF limit = "zero"
       THEN /\ error' = [error EXCEPT ![t] = "TIMEOUT"]
            /\ UNCHANGED <<suspend_thread, pc, event_set, event_info, asked, timeout>>
       ELSE /\ error' = [error EXCEPT ![t] = "OK"]
            /\ event_set' = [event_set EXCEPT ![t] = flags]
            /\ event_info' = [event_info EXCEPT ![t] = option]
            /\ asked' = [asked EXCEPT ![t] = flags]
            /\ timeout' = [timeout EXCEPT ![t] = limit]
            /\ suspend_thread' = Append(suspend_thread, t)
            /\ pc' = [pc EXCEPT ![t] = "suspended"]
    /\ UNCHANGED set

\* A woken thread returns, with the flags it got or with an error.
Return(t) ==
    /\ pc[t] = "woken"
    /\ pc' = [pc EXCEPT ![t] = "outside"]
    /\ timeout' = [timeout EXCEPT ![t] = "zero"]
    /\ UNCHANGED <<set, suspend_thread, event_set, event_info, asked, error>>

\* (Variant of TimeOut: the thread is made ready without leaving the list.)
TimeOutListed(t) ==
    /\ pc[t] = "suspended" /\ timeout[t] = "finite"
    /\ error' = [error EXCEPT ![t] = "TIMEOUT"]
    /\ pc' = [pc EXCEPT ![t] = "woken"]
    /\ UNCHANGED <<set, suspend_thread, event_set, event_info, asked, timeout>>

\* rt_thread_timeout
TimeOut(t) ==
    /\ pc[t] = "suspended" /\ timeout[t] = "finite"
    /\ error' = [error EXCEPT ![t] = "TIMEOUT"]
    /\ suspend_thread' = RemoveFirst(suspend_thread, t)
    /\ pc' = [pc EXCEPT ![t] = "woken"]
    /\ UNCHANGED <<set, event_set, event_info, asked, timeout>>

\* rt_event_control(RT_IPC_CMD_RESET)
ResetEvent ==
    /\ error' = [t \in Threads |-> IF pc[t] = "suspended" THEN "ERROR" ELSE error[t]]
    /\ pc' = [t \in Threads |-> IF pc[t] = "suspended" THEN "woken" ELSE pc[t]]
    /\ suspend_thread' = <<>>
    /\ set' = {}
    /\ UNCHANGED <<event_set, event_info, asked, timeout>>

EventNext ==
    \/ \E flags \in (SUBSET Flags) \ {{}} :
         \/ Send(flags)
         \/ \E t \in Threads, option \in Options :
              \/ ReceiveNow(t, flags, option)
              \/ \E limit \in Timeouts : ReceiveLater(t, flags, option, limit)
    \/ \E t \in Threads : Return(t) \/ TimeOut(t)
    \/ ResetEvent

EventSpec == EventInit /\ [][EventNext]_eventVars

-----------------------------------------------------------------------------
(* Properties.                                                             *)

\* Every variable has its type; the list holds the suspended threads, once each.
EventTypeOK ==
    /\ set \subseteq Flags
    /\ pc \in [Threads -> {"outside", "suspended", "woken"}]
    /\ suspend_thread \in Seq(Threads) /\ IsInjective(suspend_thread)
    /\ ToSet(suspend_thread) = {t \in Threads : pc[t] = "suspended"}
    /\ event_set \in [Threads -> SUBSET Flags] /\ asked \in [Threads -> SUBSET Flags]
    /\ event_info \in [Threads -> Options]
    /\ error \in [Threads -> {"OK", "TIMEOUT", "ERROR"}]
    /\ timeout \in [Threads -> {"zero", "finite", "forever"}]

\* Types, and: no thread sleeps on flags that are there: whatever the order of the list and
\* whatever the threads before it cleared, a suspended thread's condition does
\* not hold of the set.
NoSleeperSatisfied ==
    /\ EventTypeOK
    /\ \A t \in Threads : pc[t] = "suspended" => ~Satisfied(set, event_set[t], event_info[t])

\* A thread whose call ended without an error has all the flags it asked for,
\* or one at least, as it asked, and none it did not ask for: thread->event_set,
\* in which it left its request, was turned into the answer exactly once,
\* whether it found the flags itself or was given them by a sender.
ReceivedAsAsked ==
    \A t \in Threads : pc[t] # "suspended" /\ error[t] = "OK" /\ asked[t] # {} =>
        /\ event_set[t] \subseteq asked[t]
        /\ event_set[t] # {}
        /\ event_info[t].all => event_set[t] = asked[t]

\* (With the other three, inductive.)  A suspended thread waits for what it asked.
SleepersAsAsked ==
    \A t \in Threads : pc[t] = "suspended" =>
        error[t] = "OK" /\ event_set[t] = asked[t] /\ asked[t] # {}

WokenNow == {t \in Threads : pc[t] = "suspended" /\ pc'[t] = "woken" /\ error'[t] = "OK"}

\* A flag that one of the threads a send wakes clears is given to none after
\* it in the list and is not left set, however many the send wakes.
ClearedOnce ==
    [][\A t \in WokenNow : event_info[t].clear =>
          /\ event_set'[t] \cap set' = {}
          /\ \A i, j \in DOMAIN suspend_thread :
               i < j /\ suspend_thread[i] = t /\ suspend_thread[j] \in WokenNow =>
                 event_set'[t] \cap event_set'[suspend_thread[j]] = {}]_eventVars
=============================================================================
