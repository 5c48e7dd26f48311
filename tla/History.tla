------------------------------ MODULE History -------------------------------
(***************************************************************************)
(* The last readings, and who looks at them while they change.             *)
(*                                                                         *)
(*   humi_th (priority 7, dht11.c)      GUI_APP (priority 9)               *)
(*   puts a reading into the two        copies the arrays point by point   *)
(*   arrays, compares it with the       to the chart (chart_win.c), and on *)
(*   limits, drives the LED             Enter toggles the LED and sets the *)
(*                                      limits (chart_win.c, gauge_win.c)  *)
(*                                                                         *)
(* Nothing is locked.  humi_th has the higher priority, so all it does with*)
(* a reading is one step for the GUI, and that step may fall between any   *)
(* two accesses of the GUI.                                                *)
(***************************************************************************)
EXTENDS Integers

CONSTANTS
    N,              \* points kept: 40 in the code
    Readings,       \* values a reading may have
    Quantities,     \* "temperature", "humidity"
    StartLow, StartHigh,    \* [Quantities -> Nat]: the limits at the start
    Choices,        \* pairs of roller positions a user may enter
    Doubled,        \* the option the humidity roller lists twice: 71 in the code
    MaxSamples, MaxEnters   \* bounds of the model

ASSUME HistoryAssumption ==
    /\ N \in Nat \ {0}
    /\ Readings \subseteq Nat
    /\ Quantities \subseteq {"temperature", "humidity"}
    /\ StartLow \in [Quantities -> Nat] /\ StartHigh \in [Quantities -> Nat]
    /\ Choices \subseteq Nat \X Nat
    /\ Doubled \in Nat /\ MaxSamples \in Nat /\ MaxEnters \in Nat

VARIABLES
    samples,        \* samples so far; the identity of the newest
    history,        \* temperature[] and humidity[], which change together:
                    \* the sample each element is from, 0 if none yet
    value,          \* the newest reading of each quantity
    low, high,      \* temperature_L, temperature_H, humidity_L, humidity_H
    pin,            \* PF10, the LED; it is lit when "low"
    gui,            \* where the GUI thread is
    point,          \* loop counter of Temp_task
    series,         \* the points of the two lines on the chart
    begun,          \* history: samples when the drawing began
    pinRead,        \* HAL_GPIO_TogglePin of the GUI: the level it read
    entering,       \* what Enter sets: the quantity, the roller positions, and
                    \* (history) the limits at the press
    enters,         \* history: Enter presses so far
    touched,        \* history: the GUI drove the LED since the last sample
    out             \* history: the last sample drove the LED as an alarm

lineVars  == <<point, series, begun>>
enterVars == <<pinRead, entering, enters>>
vars == <<samples, history, value, low, high, pin, gui, lineVars, enterVars, touched, out>>

Points == 0 .. N - 1
Lines  == {"temperature", "humidity"}

Toggled(level) == IF level = "high" THEN "low" ELSE "high"

\* What the upper humidity roller shows at a position; the others show it as it is.
HighShown(q, position) ==
    IF q = "humidity" /\ position > Doubled THEN position - 1 ELSE position

Init ==
    /\ samples = 0
    /\ history = [k \in Points |-> 0]
    /\ value = [q \in Quantities |-> 0]
    /\ low = StartLow /\ high = StartHigh
    /\ pin = "high"
    /\ gui = "idle" /\ point = 0
    /\ series = [l \in Lines |-> [k \in Points |-> 0]]
    /\ begun = 0
    /\ pinRead = "high" /\ enters = 0
    /\ entering = [of |-> "clock"]
    /\ touched = FALSE /\ out = FALSE

-----------------------------------------------------------------------------
(* humi_th.                                                                *)

\* (Variant of Shifted: a rotation the other way round.)
ShiftedRight(line) == [k \in Points |-> IF k = 0 THEN line[N - 1] ELSE line[k - 1]]

\* What shift(R, 40, 1) leaves; ShiftIsShifted of HistoryProofs shows that it does.
Shifted(line) == [k \in Points |-> IF k + 1 < N THEN line[k + 1] ELSE line[0]]

OutOfLimits(reading) == \E q \in Quantities : reading[q] > high[q] \/ reading[q] < low[q]

\* (Variant of Warning: nothing switches the LED off.)
WarningOnly(reading) == pin' = IF OutOfLimits(reading) THEN Toggled(pin) ELSE pin

\* An alarm blinks; a reading within the limits switches the LED off.
Warning(reading) == pin' = IF OutOfLimits(reading) THEN Toggled(pin) ELSE "high"

\* A sample, from temperature[0] = ... to Warning().  It is one step for the
\* GUI, whose thread has the lower priority.
Sample ==
    /\ samples < MaxSamples
    /\ samples' = samples + 1
    /\ history' = Shifted([history EXCEPT ![0] = samples + 1])
    /\ \E reading \in [Quantities -> Readings] :
          /\ value' = reading
          /\ Warning(reading)
          /\ out' = OutOfLimits(reading)
    /\ touched' = FALSE
    /\ UNCHANGED <<low, high, gui, lineVars, enterVars>>

-----------------------------------------------------------------------------
(* The GUI thread: the task of the chart.                                  *)

StartDrawing ==
    /\ gui = "idle"
    /\ gui' = "temperature" /\ point' = 0 /\ begun' = samples
    /\ UNCHANGED <<samples, history, value, low, high, pin, series, enterVars, touched, out>>

\* (Variant of DrawPoint: the loop runs one point too far.)
DrawPointPastEnd ==
    /\ gui \in Lines
    /\ series' = [series EXCEPT ![gui][point] = history[point]]
    /\ IF gui = "temperature"
       THEN gui' = "humidity" /\ point' = point
       ELSE /\ gui' = IF point + 1 <= N THEN "temperature" ELSE "refresh"
            /\ point' = point + 1
    /\ UNCHANGED <<samples, history, value, low, high, pin, begun, enterVars, touched, out>>

\* (Variant of DrawPoint: the loop runs from the newest point to the oldest.)
DrawPointBackwards ==
    /\ gui \in Lines
    /\ series' = [series EXCEPT ![gui][N - 1 - point] = history[N - 1 - point]]
    /\ IF gui = "temperature"
       THEN gui' = "humidity" /\ point' = point
       ELSE /\ gui' = IF point + 1 < N THEN "temperature" ELSE "refresh"
            /\ point' = point + 1
    /\ UNCHANGED <<samples, history, value, low, high, pin, begun, enterVars, touched, out>>

\* series1->points[i] = temperature[i]; series2->points[i] = humidity[i];
DrawPoint ==
    /\ gui \in Lines
    /\ series' = [series EXCEPT ![gui][point] = history[point]]
    /\ IF gui = "temperature"
       THEN gui' = "humidity" /\ point' = point
       ELSE /\ gui' = IF point + 1 < N THEN "temperature" ELSE "refresh"
            /\ point' = point + 1
    /\ UNCHANGED <<samples, history, value, low, high, pin, begun, enterVars, touched, out>>

\* lv_chart_refresh
Refresh ==
    /\ gui = "refresh"
    /\ gui' = "idle"
    /\ UNCHANGED <<samples, history, value, low, high, pin, lineVars, enterVars, touched, out>>

-----------------------------------------------------------------------------
(* The GUI thread: Enter under the rollers of one quantity, or of the clock*)
(* and the calendar, which toggle the LED and set no limit.                *)

\* HAL_GPIO_TogglePin reads the level; it writes the other one a step later.
PressEnter ==
    /\ gui = "idle" /\ enters < MaxEnters
    /\ \/ entering' = [of |-> "clock"]
       \/ \E q \in Quantities, positions \in Choices :
             entering' = [of |-> q, low |-> positions[1], high |-> positions[2],
                          wasLow |-> low[q], wasHigh |-> high[q]]
    /\ gui' = "toggle" /\ pinRead' = pin /\ enters' = enters + 1
    /\ UNCHANGED <<samples, history, value, low, high, pin, lineVars, touched, out>>

TogglePin ==
    /\ gui = "toggle"
    /\ pin' = Toggled(pinRead)
    /\ gui' = IF entering.of \in Quantities THEN "setLow" ELSE "idle"
    /\ touched' = TRUE
    /\ UNCHANGED <<samples, history, value, low, high, lineVars, enterVars, out>>

\* (Variant of SetLow: the assignments in the other order, upper limit first.)
SetHighFirst ==
    /\ gui = "setLow"
    /\ high' = [high EXCEPT ![entering.of] = entering.high]
    /\ gui' = "setHigh"
    /\ UNCHANGED <<samples, history, value, low, pin, lineVars, enterVars, touched, out>>

SetLow ==
    /\ gui = "setLow"
    /\ low' = [low EXCEPT ![entering.of] = entering.low]
    /\ gui' = "setHigh"
    /\ UNCHANGED <<samples, history, value, high, pin, lineVars, enterVars, touched, out>>

SetHigh ==
    /\ gui = "setHigh"
    /\ high' = [high EXCEPT ![entering.of] = entering.high]
    /\ gui' = "idle"
    /\ UNCHANGED <<samples, history, value, low, pin, lineVars, enterVars, touched, out>>

-----------------------------------------------------------------------------
Next == Sample \/ StartDrawing \/ DrawPoint \/ Refresh
        \/ PressEnter \/ TogglePin \/ SetLow \/ SetHigh

Spec == Init /\ [][Next]_vars

-----------------------------------------------------------------------------
(* Properties.                                                             *)

Levels == {"high", "low"}

\* What Enter is about to set, while it sets it.
EnteringOK ==
    gui \in {"toggle", "setLow", "setHigh"} =>
        /\ entering.of \in Quantities => entering.low \in Nat /\ entering.high \in Nat
        /\ gui # "toggle" => entering.of \in Quantities

Types ==
    /\ samples \in 0 .. MaxSamples /\ enters \in 0 .. MaxEnters
    /\ history \in [Points -> 0 .. MaxSamples]
    /\ value \in [Quantities -> Nat]
    /\ low \in [Quantities -> Nat] /\ high \in [Quantities -> Nat]
    /\ pin \in Levels /\ pinRead \in Levels
    /\ gui \in {"idle", "refresh", "toggle", "setLow", "setHigh"} \cup Lines
    /\ point \in 0 .. N /\ (gui \in Lines => point < N)
    /\ series \in [Lines -> [Points -> 0 .. MaxSamples]]
    /\ begun \in 0 .. samples

TypeOK == Types /\ EnteringOK /\ touched \in BOOLEAN /\ out \in BOOLEAN

\* The sample that belongs at point k when s samples have been taken.
Due(k, s) == IF s > N - 1 - k THEN s - (N - 1 - k) ELSE 0

\* The arrays hold the last N samples, oldest first, with the newest at N - 1,
\* which is where Warning and the windows look for it.
NewestLast == \A k \in Points : history[k] = Due(k, samples)

\* What the chart shows after a refresh is a picture of the time it was drawn
\* in: samples that arrive between the copies of the points may leave one out,
\* but never turn the order round, show one twice on a line, or show a point
\* older than when the drawing began.
ChartCoherent ==
    gui = "refresh" =>
        \A l \in Lines, k \in Points :
            /\ Due(k, begun) <= series[l][k] /\ series[l][k] <= Due(k, samples)
            /\ k > 0 /\ series[l][k] > 0 => series[l][k - 1] < series[l][k]

\* (With TypeOK and NewestLast, inductive.)  As ChartCoherent, of the points a
\* drawing has copied so far.
Drawn(l) == IF gui = "refresh" THEN N
            ELSE IF gui = "humidity" /\ l = "temperature" THEN point + 1
            ELSE point

DrawnCoherent ==
    gui \in Lines \cup {"refresh"} =>
        \A l \in Lines, k \in Points :
            k < Drawn(l) =>
                /\ Due(k, begun) <= series[l][k] /\ series[l][k] <= Due(k, samples)
                /\ k > 0 /\ series[l][k] > 0 => series[l][k - 1] < series[l][k]

\* Enter for this quantity is between its two assignments or before them.
Changing(q) == gui \in {"toggle", "setLow", "setHigh"} /\ entering.of = q

Within(v, l, h) == l <= v /\ v <= h

AllowedBefore(q, v) ==
    IF Changing(q) THEN Within(v, entering.wasLow, entering.wasHigh) ELSE Within(v, low[q], high[q])
AllowedAfter(q, v) ==
    IF Changing(q) THEN Within(v, entering.low, entering.high) ELSE Within(v, low[q], high[q])

\* A reading that the settings before a change and those after it both allow
\* raises no alarm, and one that both forbid does, though the two limits are set
\* one at a time and a sample may fall between them.  The one exception: with
\* the lower limit set first, a range moved below the old one forbids nothing
\* between the two for an instant.
AlarmFollowsSettings ==
    [][samples' # samples =>
         /\ (\A q \in Quantities : AllowedBefore(q, value'[q]) /\ AllowedAfter(q, value'[q]))
              => pin' = "high"
         /\ (\E q \in Quantities :
               /\ ~AllowedBefore(q, value'[q]) /\ ~AllowedAfter(q, value'[q])
               /\ ~(Changing(q) /\ entering.high < entering.wasLow))
              => pin' # pin]_vars

\* Types, and: the LED is lit only by the last sample's alarm or by an Enter since: a race
\* of the two toggles (each reads the pin, then writes it) may lose or double a
\* blink but leaves no alarm standing after a reading within the limits.
LitForReason == TypeOK /\ (pin = "low" => out \/ touched)

-----------------------------------------------------------------------------
(* What the window says, and the code does not do.                         *)

\* gauge_win.c:111 lists the options of the upper humidity limit, and the user
\* enters the one shown: it is the limit in force afterwards.
LimitsAsShown ==
    gui = "idle" /\ entering.of \in Quantities =>
        high[entering.of] = HighShown(entering.of, entering.high)
=============================================================================
