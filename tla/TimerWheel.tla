----------------------------- MODULE TimerWheel -----------------------------
(***************************************************************************)
(* What the timers of the kernel promise: a timer armed for d ticks is     *)
(* called in the d-th tick from then, neither earlier nor later, unless it *)
(* is disarmed or armed again before; timers due in the same tick are      *)
(* called in the order they were armed in.  There is no tick counter that  *)
(* could wrap: the timers that are due in d ticks stand in wheel[d].       *)
(***************************************************************************)
EXTENDS Naturals, Sequences, Lists

CONSTANTS Timers, NoTimer, MaxTime

VARIABLES
    wheel,      \* [0 .. MaxTime -> sequence of timers]
    mode,       \* "threads": between ticks; "check", "callback": in a tick
    called,     \* the timer whose callback runs, until the callback arms or
                \* disarms that timer itself
    again       \* it is armed again when its callback returns

vars == <<wheel, mode, called, again>>

Init ==
    /\ wheel = [d \in 0 .. MaxTime |-> <<>>]
    /\ mode = "threads" /\ called = NoTimer /\ again = FALSE

Taken(t) == [d \in 0 .. MaxTime |-> Kept(wheel[d], Timers \ {t})]

Arm(t, d) == wheel' = [Taken(t) EXCEPT ![d] = Append(@, t)]

Disarm(t) == wheel' = Taken(t)

Tick ==
    /\ mode = "threads" /\ wheel[0] = <<>>
    /\ wheel' = [d \in 0 .. MaxTime |-> IF d = MaxTime THEN <<>> ELSE wheel[d + 1]]
    /\ mode' = "check" /\ UNCHANGED <<called, again>>

Call ==
    /\ mode = "check" /\ wheel[0] # <<>>
    /\ called' = Head(wheel[0])
    /\ wheel' = [wheel EXCEPT ![0] = Tail(@)]
    /\ mode' = "callback" /\ again' \in BOOLEAN

\* What threads and callbacks do to a timer.
Use ==
    /\ mode \in {"threads", "callback"} /\ UNCHANGED mode
    /\ \E t \in Timers :
         /\ called' = IF t = called THEN NoTimer ELSE called
         /\ again' = (again /\ t # called)
         /\ Disarm(t) \/ \E d \in 1 .. MaxTime : Arm(t, d)

\* A callback makes a timer periodic or one-shot.
Choose ==
    /\ mode = "callback" /\ called # NoTimer /\ again' \in BOOLEAN
    /\ UNCHANGED <<wheel, mode, called>>

Return ==
    /\ mode = "callback" /\ mode' = "check"
    /\ IF again THEN \E d \in 1 .. MaxTime : Arm(called, d) ELSE UNCHANGED wheel
    /\ called' = NoTimer /\ again' = FALSE

Leave ==
    /\ mode = "check" /\ wheel[0] = <<>>
    /\ mode' = "threads" /\ UNCHANGED <<wheel, called, again>>

Next == Tick \/ Call \/ Use \/ Choose \/ Return \/ Leave

Spec == Init /\ [][Next]_vars
=============================================================================
