---------------------------- MODULE MessageQueue ----------------------------
(***************************************************************************)
(* rt_mq_* of RT-Thread/src/ipc.c.  A send takes a slot off the free list  *)
(* with interrupts off, copies the message into it with interrupts on, and *)
(* links it with interrupts off; a receive unlinks, copies, and frees, the *)
(* same way.  Each stretch with interrupts off is one step; any thread may *)
(* run between two of them.  A thread that finds no slot, or no message,   *)
(* is put on a list and suspended; it may be woken by the other side, by   *)
(* its timer or by a reset, and then looks again.                          *)
(***************************************************************************)
EXTENDS Integers, SequencesExt

CONSTANTS
    Senders, Receivers,     \* threads
    Slots,                  \* msg_pool: max_msgs of them
    NoSlot,
    Priority,               \* of each thread; the smaller is the more urgent
    ByPriority,             \* the queue was made with RT_IPC_FLAG_PRIO
    Timeouts,               \* what callers pass: "zero", "finite", "forever"
    Urgents, Resets,        \* rt_mq_urgent and RT_IPC_CMD_RESET are used
    Numbers                 \* ordinary messages of a sender are numbered modulo this

Threads == Senders \cup Receivers

ASSUME QueueAssumption ==
    /\ IsFiniteSet(Slots) /\ Slots # {} /\ NoSlot \notin Slots
    /\ IsFiniteSet(Senders) /\ IsFiniteSet(Receivers) /\ Senders \cap Receivers = {}
    /\ Priority \in [Threads -> Nat]
    /\ ByPriority \in BOOLEAN /\ Urgents \in BOOLEAN /\ Resets \in BOOLEAN
    /\ Numbers \in Nat \ {0}
    /\ Timeouts \subseteq {"zero", "finite", "forever"}

VARIABLES
    msg_queue_free,         \* the free list: slots, the next to take first
    msg_queue,              \* msg_queue_head to msg_queue_tail: slots
    entry,                  \* the count kept beside the list
    content,                \* of each slot: whose message, and its number; <<>> when freed
    suspend_thread,         \* receivers suspended, in the order of the list
    suspend_sender_thread,  \* senders suspended
    pc,                     \* where each thread is
    error,                  \* thread->error
    timeout,                \* what is left of a suspended caller's timeout
    held,                   \* the slot a thread copies to or from
    made, taken             \* history: ordinary messages linked, and gone, by sender

lists == <<msg_queue_free, msg_queue, entry, content>>
waits == <<suspend_thread, suspend_sender_thread>>
vars  == <<lists, waits, pc, error, timeout, held, made, taken>>

-----------------------------------------------------------------------------
(* Helpers.                                                                *)

\* rt_ipc_list_suspend: at the end, or before the first less urgent thread.
Enlist(list, t) ==
    LET first == SelectInSeq(list, LAMBDA u : Priority[u] > Priority[t])
    IN  IF ByPriority /\ first # 0 THEN InsertAt(list, first, t) ELSE Append(list, t)

\* rt_list_remove
Without(list, t) == RemoveFirst(list, t)

Woken(where) == IF where = "sendwait" THEN "sendwoken" ELSE "recvwoken"

\* rt_ipc_list_resume of the first thread of a list, if there is one, by a
\* thread that goes back to its caller.
ReturnAndWake(t, list) ==
    pc' = [u \in Threads |->
             IF u = t THEN "idle"
             ELSE IF list # <<>> /\ u = Head(list) THEN Woken(pc[u]) ELSE pc[u]]

Rest(list) == IF list = <<>> THEN list ELSE Tail(list)

\* What may be left of a timeout when the thread runs again.
Left(limit) == IF limit = "finite" THEN {"finite", "zero"} ELSE {limit}

Init ==
    /\ msg_queue_free = SetToSeq(Slots)
    /\ msg_queue = <<>> /\ entry = 0
    /\ content = [slot \in Slots |-> <<>>]
    /\ suspend_thread = <<>> /\ suspend_sender_thread = <<>>
    /\ pc = [t \in Threads |-> "idle"]
    /\ error = [t \in Threads |-> "OK"]
    /\ timeout = [t \in Threads |-> "zero"]
    /\ held = [t \in Threads |-> NoSlot]
    /\ made = [s \in Senders |-> 0] /\ taken = [s \in Senders |-> 0]

-----------------------------------------------------------------------------
(* Sending.                                                                *)

\* One turn of the loop of rt_mq_send_wait: take a slot, give up, or suspend.
TrySend(t, limit) ==
    \/ /\ msg_queue_free # <<>>
       /\ held' = [held EXCEPT ![t] = Head(msg_queue_free)]
       /\ msg_queue_free' = Tail(msg_queue_free)
       /\ pc' = [pc EXCEPT ![t] = "sendcopy"]
       /\ timeout' = [timeout EXCEPT ![t] = "zero"]
       /\ UNCHANGED <<error, suspend_sender_thread>>
    \/ /\ msg_queue_free = <<>> /\ limit = "zero"
       /\ pc' = [pc EXCEPT ![t] = "idle"]
       /\ timeout' = [timeout EXCEPT ![t] = "zero"]
       /\ UNCHANGED <<msg_queue_free, held, error, suspend_sender_thread>>
    \/ /\ msg_queue_free = <<>> /\ limit # "zero"
       /\ error' = [error EXCEPT ![t] = "OK"]
       /\ timeout' = [timeout EXCEPT ![t] = limit]
       /\ suspend_sender_thread' = Enlist(suspend_sender_thread, t)
       /\ pc' = [pc EXCEPT ![t] = "sendwait"]
       /\ UNCHANGED <<msg_queue_free, held>>

Send(t) ==
    /\ pc[t] = "idle"
    /\ \E limit \in Timeouts : TrySend(t, limit)
    /\ UNCHANGED <<msg_queue, entry, content, suspend_thread, made, taken>>

\* A sender runs after a wait: an error is returned, else it looks again.
SendResumed(t) ==
    /\ pc[t] = "sendwoken"
    /\ \/ /\ error[t] # "OK"
          /\ pc' = [pc EXCEPT ![t] = "idle"]
          /\ timeout' = [timeout EXCEPT ![t] = "zero"]
          /\ UNCHANGED <<msg_queue_free, held, error, suspend_sender_thread>>
       \/ /\ error[t] = "OK"
          /\ \E limit \in Left(timeout[t]) : TrySend(t, limit)
    /\ UNCHANGED <<msg_queue, entry, content, suspend_thread, made, taken>>

\* rt_mq_urgent: the same without waiting.
Urgent(t) ==
    /\ Urgents /\ pc[t] = "idle" /\ msg_queue_free # <<>>
    /\ held' = [held EXCEPT ![t] = Head(msg_queue_free)]
    /\ msg_queue_free' = Tail(msg_queue_free)
    /\ pc' = [pc EXCEPT ![t] = "urgentcopy"]
    /\ UNCHANGED <<msg_queue, entry, content, waits, error, timeout, made, taken>>

\* The copy.  Ordinary messages are numbered, for InOrder; urgent ones are not.
Write(t, slot, where) ==
    /\ content' = [content EXCEPT ![slot] =
                    <<t, IF where = "urgentcopy" THEN Numbers ELSE made[t]>>]
    /\ made' = IF where = "urgentcopy" THEN made
               ELSE [made EXCEPT ![t] = (@ + 1) % Numbers]

\* (Variant of Link: a receiver is woken only when the queue was empty.)
LinkWakeFirst(t, where) ==
    LET slot == held[t]
        wake == IF msg_queue = <<>> THEN suspend_thread ELSE <<>>
    IN  /\ pc[t] = where
        /\ Write(t, slot, where)
        /\ msg_queue' = IF where = "urgentcopy" THEN <<slot>> \o msg_queue
                                                ELSE Append(msg_queue, slot)
        /\ entry' = entry + 1
        /\ held' = [held EXCEPT ![t] = NoSlot]
        /\ ReturnAndWake(t, wake)
        /\ suspend_thread' = IF wake = <<>> THEN suspend_thread ELSE Rest(suspend_thread)
        /\ UNCHANGED <<msg_queue_free, suspend_sender_thread, error, timeout, taken>>

\* The copy and the second half of rt_mq_send_wait and of rt_mq_urgent: link at
\* the tail, or at the head; count; wake one receiver.
Link(t, where) ==
    LET slot == held[t]
    IN  /\ pc[t] = where
        /\ Write(t, slot, where)
        /\ msg_queue' = IF where = "urgentcopy" THEN <<slot>> \o msg_queue
                                                ELSE Append(msg_queue, slot)
        /\ entry' = entry + 1
        /\ held' = [held EXCEPT ![t] = NoSlot]
        /\ ReturnAndWake(t, suspend_thread)
        /\ suspend_thread' = Rest(suspend_thread)
        /\ UNCHANGED <<msg_queue_free, suspend_sender_thread, error, timeout, taken>>

SendLink(t)   == Link(t, "sendcopy")
UrgentLink(t) == Link(t, "urgentcopy")

-----------------------------------------------------------------------------
(* Receiving.                                                              *)

\* (Variant of Unlink: the newest message first.)
UnlinkLast(t) ==
    /\ held' = [held EXCEPT ![t] = msg_queue[Len(msg_queue)]]
    /\ msg_queue' = SubSeq(msg_queue, 1, Len(msg_queue) - 1)

\* The head of the list goes to the receiver.
Unlink(t) ==
    /\ held' = [held EXCEPT ![t] = Head(msg_queue)]
    /\ msg_queue' = Tail(msg_queue)

\* One turn of the loop of rt_mq_recv: it tests the count, not the list.
TryReceive(t, limit) ==
    \/ /\ entry > 0
       /\ Unlink(t)
       /\ entry' = entry - 1
       /\ taken' = LET message == content[held'[t]]
                   IN  IF message[2] = Numbers THEN taken
                       ELSE [taken EXCEPT ![message[1]] = (message[2] + 1) % Numbers]
       /\ pc' = [pc EXCEPT ![t] = "recvcopy"]
       /\ timeout' = [timeout EXCEPT ![t] = "zero"]
       /\ UNCHANGED <<error, suspend_thread>>
    \/ /\ entry = 0 /\ limit = "zero"
       /\ pc' = [pc EXCEPT ![t] = "idle"]
       /\ error' = IF pc[t] = "idle" THEN error ELSE [error EXCEPT ![t] = "TIMEOUT"]
       /\ timeout' = [timeout EXCEPT ![t] = "zero"]
       /\ UNCHANGED <<msg_queue, entry, held, taken, suspend_thread>>
    \/ /\ entry = 0 /\ limit # "zero"
       /\ error' = [error EXCEPT ![t] = "OK"]
       /\ timeout' = [timeout EXCEPT ![t] = limit]
       /\ suspend_thread' = Enlist(suspend_thread, t)
       /\ pc' = [pc EXCEPT ![t] = "recvwait"]
       /\ UNCHANGED <<msg_queue, entry, held, taken>>

Receive(t) ==
    /\ pc[t] = "idle"
    /\ \E limit \in Timeouts : TryReceive(t, limit)
    /\ UNCHANGED <<msg_queue_free, content, suspend_sender_thread, made>>

\* (Variant of ReceiveResumed: a woken receiver takes the message unlooked for.)
ReceiveResumedBlindly(t) ==
    /\ pc[t] = "recvwoken" /\ error[t] = "OK"
    /\ pc' = [pc EXCEPT ![t] = "recvcopy"]
    /\ IF msg_queue = <<>> THEN UNCHANGED <<held, msg_queue>> ELSE Unlink(t)
    /\ entry' = IF entry > 0 THEN entry - 1 ELSE 0
    /\ UNCHANGED <<msg_queue_free, content, waits, made, taken, error, timeout>>

ReceiveResumed(t) ==
    /\ pc[t] = "recvwoken"
    /\ \/ /\ error[t] # "OK"
          /\ pc' = [pc EXCEPT ![t] = "idle"]
          /\ timeout' = [timeout EXCEPT ![t] = "zero"]
          /\ UNCHANGED <<msg_queue, entry, held, taken, error, suspend_thread>>
       \/ /\ error[t] = "OK"
          /\ \E limit \in Left(timeout[t]) : TryReceive(t, limit)
    /\ UNCHANGED <<msg_queue_free, content, suspend_sender_thread, made>>

\* (Variant of Release: no sender is woken.)
ReleaseNoWake(t) ==
    /\ pc[t] = "recvcopy"
    /\ msg_queue_free' = <<held[t]>> \o msg_queue_free
    /\ content' = [content EXCEPT ![held[t]] = <<>>]
    /\ held' = [held EXCEPT ![t] = NoSlot]
    /\ pc' = [pc EXCEPT ![t] = "idle"]
    /\ UNCHANGED <<msg_queue, entry, waits, error, timeout, made, taken>>

\* The copy and the second half of rt_mq_recv: free the slot, wake one sender.
Release(t) ==
    /\ pc[t] = "recvcopy"
    /\ msg_queue_free' = <<held[t]>> \o msg_queue_free
    /\ content' = [content EXCEPT ![held[t]] = <<>>]
    /\ held' = [held EXCEPT ![t] = NoSlot]
    /\ ReturnAndWake(t, suspend_sender_thread)
    /\ suspend_sender_thread' = Rest(suspend_sender_thread)
    /\ UNCHANGED <<msg_queue, entry, suspend_thread, error, timeout, made, taken>>

-----------------------------------------------------------------------------
(* Timers and the reset.                                                   *)

\* rt_thread_timeout, from the timer interrupt.
TimeOut(t) ==
    /\ pc[t] \in {"sendwait", "recvwait"} /\ timeout[t] = "finite"
    /\ error' = [error EXCEPT ![t] = "TIMEOUT"]
    /\ suspend_thread' = Without(suspend_thread, t)
    /\ suspend_sender_thread' = Without(suspend_sender_thread, t)
    /\ pc' = [pc EXCEPT ![t] = Woken(@)]
    /\ UNCHANGED <<lists, timeout, held, made, taken>>

\* (Variant of Reset: the count is not cleaned.)
ResetKeepCount ==
    LET waiting == {t \in Threads : pc[t] \in {"sendwait", "recvwait"}}
    IN  /\ Resets
        /\ error' = [t \in Threads |-> IF t \in waiting THEN "ERROR" ELSE error[t]]
        /\ pc' = [t \in Threads |-> IF t \in waiting THEN Woken(pc[t]) ELSE pc[t]]
        /\ suspend_thread' = <<>> /\ suspend_sender_thread' = <<>>
        /\ msg_queue_free' = Reverse(msg_queue) \o msg_queue_free
        /\ msg_queue' = <<>> /\ taken' = made
        /\ content' = [slot \in Slots |-> IF slot \in ToSet(msg_queue) THEN <<>> ELSE content[slot]]
        /\ UNCHANGED <<entry, timeout, held, made>>

\* rt_mq_control(RT_IPC_CMD_RESET): every waiter is woken with an error, every
\* linked slot is freed; slots being copied to or from are not touched.
Reset ==
    LET waiting == {t \in Threads : pc[t] \in {"sendwait", "recvwait"}}
    IN  /\ Resets
        /\ error' = [t \in Threads |-> IF t \in waiting THEN "ERROR" ELSE error[t]]
        /\ pc' = [t \in Threads |-> IF t \in waiting THEN Woken(pc[t]) ELSE pc[t]]
        /\ suspend_thread' = <<>> /\ suspend_sender_thread' = <<>>
        /\ msg_queue_free' = Reverse(msg_queue) \o msg_queue_free
        /\ msg_queue' = <<>> /\ entry' = 0 /\ taken' = made
        /\ content' = [slot \in Slots |-> IF slot \in ToSet(msg_queue) THEN <<>> ELSE content[slot]]
        /\ UNCHANGED <<timeout, held, made>>

SenderStep(t)   == Send(t) \/ SendResumed(t) \/ Urgent(t) \/ SendLink(t) \/ UrgentLink(t)
ReceiverStep(t) == Receive(t) \/ ReceiveResumed(t) \/ Release(t)

Next ==
    \/ \E t \in Senders : SenderStep(t)
    \/ \E t \in Receivers : ReceiverStep(t)
    \/ \E t \in Threads : TimeOut(t)
    \/ Reset

Spec == Init /\ [][Next]_vars

\* A thread that is inside a call and not suspended gets to run.
Inside(t) == SendResumed(t) \/ SendLink(t) \/ UrgentLink(t) \/ ReceiveResumed(t) \/ Release(t)

FairSpec ==
    /\ Spec
    /\ \A t \in Threads : WF_vars(Inside(t))
    /\ \A r \in Receivers : WF_vars(Receive(r))

-----------------------------------------------------------------------------
(* Properties.                                                             *)

\* Every variable has its type; a thread is suspended on a list exactly while
\* it waits, and holds a slot exactly while it copies.
TypeOK ==
    /\ msg_queue_free \in Seq(Slots) /\ msg_queue \in Seq(Slots) /\ entry \in Nat
    /\ content \in [Slots -> {<<>>} \cup (Senders \X (0 .. Numbers))]
    /\ suspend_thread \in Seq(Receivers) /\ suspend_sender_thread \in Seq(Senders)
    /\ IsInjective(suspend_thread) /\ IsInjective(suspend_sender_thread)
    /\ ToSet(suspend_thread) = {t \in Receivers : pc[t] = "recvwait"}
    /\ ToSet(suspend_sender_thread) = {t \in Senders : pc[t] = "sendwait"}
    /\ pc \in [Threads -> {"idle", "sendwait", "sendwoken", "sendcopy", "urgentcopy",
                           "recvwait", "recvwoken", "recvcopy"}]
    /\ \A t \in Senders : pc[t] \notin {"recvwait", "recvwoken", "recvcopy"}
    /\ \A t \in Receivers : pc[t] \in {"idle", "recvwait", "recvwoken", "recvcopy"}
    /\ error \in [Threads -> {"OK", "TIMEOUT", "ERROR"}]
    /\ timeout \in [Threads -> {"zero", "finite", "forever"}]
    /\ held \in [Threads -> Slots \cup {NoSlot}]
    /\ \A t \in Threads : held[t] # NoSlot <=> pc[t] \in {"sendcopy", "urgentcopy", "recvcopy"}
    /\ made \in [Senders -> 0 .. Numbers - 1] /\ taken \in [Senders -> 0 .. Numbers - 1]

Users(slot) ==
      Cardinality({i \in DOMAIN msg_queue_free : msg_queue_free[i] = slot})
    + Cardinality({i \in DOMAIN msg_queue : msg_queue[i] = slot})
    + Cardinality({t \in Threads : held[t] = slot})

\* Types, and: every slot is in exactly one place: free, linked, or with one thread.  So no
\* slot leaks, and no two threads copy to and from the same one, through any
\* overlap of sends, receives, timeouts and a reset; and the count receivers
\* test says how long the list they then unlink from is.
SlotsConserved ==
    /\ TypeOK
    /\ \A slot \in Slots : Users(slot) = 1
    /\ entry = Len(msg_queue)

WokenThreads(where) == {t \in Threads : pc[t] = where /\ error[t] = "OK"}

\* No wakeup is lost: while a receiver is suspended, every message in the queue
\* has a receiver on its way to it, and while a sender is suspended, every free
\* slot has a sender on its way, though each send and each receive wakes one
\* thread only and anyone may take what a woken thread was woken for.
NoLostWakeup ==
    /\ suspend_thread # <<>> => entry <= Cardinality(WokenThreads("recvwoken"))
    /\ suspend_sender_thread # <<>> =>
         Len(msg_queue_free) <= Cardinality(WokenThreads("sendwoken"))

\* Where in the queue the ordinary messages of a sender are, and how many of
\* them are before one.
Mine(s) == {i \in DOMAIN msg_queue : /\ content[msg_queue[i]][1] = s
                                     /\ content[msg_queue[i]][2] # Numbers}

Before(s, i) == Cardinality({j \in Mine(s) : j < i})

\* Each sender's ordinary messages are in the queue in the order sent, with none
\* missing since the last one taken or thrown away by a reset, although a sender
\* copies its message after it has its slot and before it links it, and whatever
\* urgent messages are put before them.
InOrder ==
    \A s \in Senders :
        /\ made[s] = (taken[s] + Cardinality(Mine(s))) % Numbers
        /\ \A i \in Mine(s) : content[msg_queue[i]][2] = (taken[s] + Before(s, i)) % Numbers

\* A queue with messages in it does not stay while receivers sleep on it: some
\* receiver takes one, or none sleeps any more.
MessagesTaken ==
    (suspend_thread # <<>> /\ entry > 0) ~> (suspend_thread = <<>> \/ entry = 0)
=============================================================================
