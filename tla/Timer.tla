------------------------------- MODULE Timer --------------------------------
(***************************************************************************)
(* The hard timers of RT-Thread: src/timer.c with the tick of src/clock.c. *)
(*                                                                         *)
(* Active timers stand in one list, sorted by the tick they time out at.   *)
(* The tick interrupt increments the tick, which wraps, and then calls the *)
(* timers at the head of the list that are due.  Their callbacks run inside*)
(* the interrupt and may start, stop or change any timer, their own        *)
(* included.  Threads do the same between ticks, with interrupts off.      *)
(* Ticks are compared by their unsigned difference only.                   *)
(***************************************************************************)
EXTENDS Integers, Sequences, Lists

CONSTANTS
    Timers, NoTimer,
    Modulus,    \* RT_TICK_MAX + 1
    Times       \* the times timers are given, in ticks

\* RT_TICK_MAX / 2: the code asserts that every time is below it.
Half == (Modulus - 1) \div 2

\* A periodic timer of no ticks would keep rt_timer_check in its loop for ever;
\* nothing in the program makes one.
ASSUME TimerAssumption ==
    /\ Modulus \in Nat /\ NoTimer \notin Timers
    /\ Times # {} /\ Times \subseteq 1 .. Half - 1

VARIABLES
    rt_tick,
    rt_timer_list,  \* the active timers
    activated,      \* those with RT_TIMER_FLAG_ACTIVATED
    periodic,       \* those with RT_TIMER_FLAG_PERIODIC
    init_tick,
    timeout_tick,   \* 0 for a timer off the list: the code leaves the old tick,
                    \* which rt_timer_start overwrites before anything reads it
    isr,            \* "threads", or where the interrupt is: "check", "callback"
    list            \* rt_timer_check's own list: the timer it calls, until the
                    \* callback starts, stops or detaches that timer

flags == <<activated, periodic>>
vars  == <<rt_tick, rt_timer_list, flags, init_tick, timeout_tick, isr, list>>

\* Unsigned differences and sums.
Minus(a, b) == IF a >= b THEN a - b ELSE a - b + Modulus
Plus(a, b)  == IF a + b < Modulus THEN a + b ELSE a + b - Modulus

Init ==
    /\ rt_tick = 0
    /\ rt_timer_list = <<>> /\ list = <<>>
    /\ activated = {} /\ periodic \in SUBSET Timers
    /\ init_tick \in [Timers -> Times]
    /\ timeout_tick = [u \in Timers |-> 0]
    /\ isr = "threads"

-----------------------------------------------------------------------------
(* The list.                                                               *)

\* _rt_timer_remove: off whichever list the timer is on.
Without(l, u) == Kept(l, Timers \ {u})

\* (Variant of Later: ticks are compared as numbers.)
LaterNoWrap(u, tick) == timeout_tick[u] > tick

\* Does u time out after `tick`?
Later(u, tick) ==
    LET d == Minus(timeout_tick[u], tick) IN d # 0 /\ d < Half

\* (Variant of Place: before timers of the same tick.)
PlaceBeforeEquals(l, tick) ==
    CHOOSE k \in 1 .. Len(l) + 1 :
        /\ \A j \in 1 .. k - 1 : ~(Minus(timeout_tick[l[j]], tick) < Half)
        /\ k <= Len(l) => Minus(timeout_tick[l[k]], tick) < Half

\* Where a timer is put in: before the first that times out later.
Place(l, tick) ==
    CHOOSE k \in 1 .. Len(l) + 1 :
        /\ \A j \in 1 .. k - 1 : ~Later(l[j], tick)
        /\ k <= Len(l) => Later(l[k], tick)

Inserted(l, u, k) == SubSeq(l, 1, k - 1) \o <<u>> \o SubSeq(l, k, Len(l))

\* rt_timer_start
StartTimer(u) ==
    LET tick == Plus(rt_tick, init_tick[u])
        rest == Without(rt_timer_list, u)
    IN  /\ timeout_tick' = [timeout_tick EXCEPT ![u] = tick]
        /\ rt_timer_list' = Inserted(rest, u, Place(rest, tick))
        /\ activated' = activated \cup {u}

-----------------------------------------------------------------------------
(* Calls from threads, between ticks, and from callbacks.                  *)

MayCall == isr \in {"threads", "callback"}

Start(u) ==
    /\ MayCall
    /\ StartTimer(u)
    /\ list' = Without(list, u)
    /\ UNCHANGED <<rt_tick, periodic, init_tick, isr>>

Unlink(u) ==
    /\ rt_timer_list' = Without(rt_timer_list, u)
    /\ list' = Without(list, u)
    /\ activated' = activated \ {u}
    /\ timeout_tick' = [timeout_tick EXCEPT ![u] = 0]
    /\ UNCHANGED <<rt_tick, periodic, init_tick, isr>>

\* rt_timer_stop: nothing is done to a timer that is not active.
Stop(u) == MayCall /\ u \in activated /\ Unlink(u)

\* rt_timer_detach and rt_timer_delete
Detach(u) == MayCall /\ Unlink(u)

\* rt_timer_control: neither a new time nor a new kind moves an active timer.
SetTime(u, time) ==
    /\ MayCall
    /\ init_tick' = [init_tick EXCEPT ![u] = time]
    /\ UNCHANGED <<rt_tick, rt_timer_list, flags, timeout_tick, isr, list>>

SetKind(u) ==
    /\ MayCall
    /\ periodic' \in {periodic \cup {u}, periodic \ {u}}
    /\ UNCHANGED <<rt_tick, rt_timer_list, activated, init_tick, timeout_tick, isr, list>>

-----------------------------------------------------------------------------
(* The tick interrupt.                                                     *)

\* rt_tick_increase
Tick ==
    /\ isr = "threads"
    /\ rt_tick' = Plus(rt_tick, 1)
    /\ isr' = "check"
    /\ UNCHANGED <<rt_timer_list, flags, init_tick, timeout_tick, list>>

\* (Variant of Due: ticks are compared as numbers.)
DueNoWrap(u) == rt_tick >= timeout_tick[u]

Due(u) == Minus(rt_tick, timeout_tick[u]) < Half

AnyDue == rt_timer_list # <<>> /\ Due(Head(rt_timer_list))

\* (Variant of Expire: the timer stays on the list while it is called.)
ExpireListed ==
    /\ isr = "check" /\ AnyDue
    /\ LET t == Head(rt_timer_list)
       IN  /\ rt_timer_list' = rt_timer_list
           /\ activated' = IF t \in periodic THEN activated ELSE activated \ {t}
           /\ timeout_tick' = [timeout_tick EXCEPT ![t] = 0]
           /\ list' = <<t>>
    /\ isr' = "callback"
    /\ UNCHANGED <<rt_tick, periodic, init_tick>>

\* One turn of rt_timer_check's loop, to the call of timeout_func.
Expire ==
    /\ isr = "check" /\ AnyDue
    /\ LET t == Head(rt_timer_list)
       IN  /\ rt_timer_list' = Without(rt_timer_list, t)
           /\ activated' = IF t \in periodic THEN activated ELSE activated \ {t}
           /\ timeout_tick' = [timeout_tick EXCEPT ![t] = 0]
           /\ list' = <<t>>
    /\ isr' = "callback"
    /\ UNCHANGED <<rt_tick, periodic, init_tick>>

\* From the return of timeout_func: a timer that is no longer on the own list
\* has been started, stopped or detached by the callback, and is left alone.
CallbackReturns ==
    /\ isr = "callback" /\ isr' = "check" /\ list' = <<>>
    /\ IF list # <<>> /\ Head(list) \in periodic \cap activated
       THEN StartTimer(Head(list))
       ELSE UNCHANGED <<rt_timer_list, activated, timeout_tick>>
    /\ UNCHANGED <<rt_tick, periodic, init_tick>>

\* The loop ends at the first timer that is not due.
Leave ==
    /\ isr = "check" /\ ~AnyDue
    /\ isr' = "threads"
    /\ UNCHANGED <<rt_tick, rt_timer_list, flags, init_tick, timeout_tick, list>>

Next ==
    \/ \E u \in Timers :
         \/ Start(u) \/ Stop(u) \/ Detach(u) \/ SetKind(u)
         \/ \E time \in Times : SetTime(u, time)
    \/ Tick \/ Expire \/ CallbackReturns \/ Leave

Spec == Init /\ [][Next]_vars

\* The processor goes on inside the interrupt, and callbacks return.
FairSpec == Spec /\ WF_vars(Expire) /\ WF_vars(CallbackReturns) /\ WF_vars(Leave)

-----------------------------------------------------------------------------
(* Properties.                                                             *)

\* Ticks from now to the timeout of u, for a timer that is not overdue.
Left(u) == Minus(timeout_tick[u], rt_tick)

OnList == {rt_timer_list[k] : k \in DOMAIN rt_timer_list}

\* Every variable has its type; a timer on the list is marked active, is there
\* once, and is not on rt_timer_check's own list as well.  (The converse is not
\* so: a periodic timer that its callback makes one-shot stays marked.)
TypeOK ==
    /\ rt_tick \in 0 .. Modulus - 1
    /\ rt_timer_list \in Seq(Timers)
    /\ \A j, k \in DOMAIN rt_timer_list : rt_timer_list[j] = rt_timer_list[k] => j = k
    /\ activated \subseteq Timers /\ periodic \subseteq Timers
    /\ init_tick \in [Timers -> Times]
    /\ timeout_tick \in [Timers -> 0 .. Modulus - 1]
    /\ isr \in {"threads", "check", "callback"}
    /\ list \in {<<>>} \cup {<<t>> : t \in Timers \ OnList}
    /\ list # <<>> => isr = "callback"
    /\ OnList \subseteq activated

\* Types, and: the timers on the list stand in the order they time out in, across the wrap
\* of the tick, and while threads run none is due or overdue: a tick that was
\* missed would keep its timer waiting for half the range of the tick.
SoonestFirst ==
    /\ TypeOK
    /\ \A j, k \in DOMAIN rt_timer_list :
         j < k => Left(rt_timer_list[j]) <= Left(rt_timer_list[k])
    /\ \A u \in OnList : Left(u) < Half
    /\ isr = "threads" => \A u \in OnList : Left(u) > 0

\* The wheel the list stands for: one row of timers for each distance in ticks.
Rows   == [d \in 0 .. Half - 1 |-> Kept(rt_timer_list, {u \in Timers : Left(u) = d})]
Called == IF list = <<>> THEN NoTimer ELSE Head(list)
Again  == list # <<>> /\ Head(list) \in activated \cap periodic

Wheel == INSTANCE TimerWheel WITH
            MaxTime <- Half - 1, wheel <- Rows, mode <- isr, called <- Called, again <- Again

\* The list, the wrapping tick and the differences do what TimerWheel says:
\* each timer is called in the very tick it was started for, in the order of
\* the starts, whatever callbacks do to their own and to other timers.
OnTime == Wheel!Spec

\* The interrupt comes to an end: no callback, and no periodic timer that is
\* started again, keeps rt_timer_check in its loop.
CheckEnds == (isr = "check") ~> (isr = "threads")
=============================================================================
