---------------------------- MODULE HistoryProofs ---------------------------
(***************************************************************************)
(* The arrays and the chart, for every number of points and of samples; and*)
(* the rotation of the arrays, for every length, distance and content.     *)
(***************************************************************************)
EXTENDS History, Rotation, TLAPS

-----------------------------------------------------------------------------
(* shift rotates every array by every distance.                            *)

\* What the loop of reverse has done after i of its swaps: ShiftTypeOK for the
\* bounds, PartlyReversed for the content.
RInv == ShiftTypeOK /\ PartlyReversed

LEMMA RInvInit == ShiftInit => RInv
<1> SUFFICES ASSUME ShiftInit PROVE RInv
  OBVIOUS
<1>1. n \in Nat /\ n >= 1 /\ p \in Nat /\ p <= n /\ n <= MaxLength
  BY RotationAssumption DEF ShiftInit
<1>2. ShiftTypeOK
  BY <1>1, RotationAssumption DEF ShiftInit, ShiftTypeOK, Index
<1>3. turn = 1 /\ i = 0 /\ from = 0 /\ to = p - 1 /\ R = R0
  BY DEF ShiftInit, from, to
<1>4. i <= Swaps
  BY <1>1, <1>3 DEF Swaps
<1>5. ASSUME NEW k \in Index
      PROVE  R[k] = Before(turn, IF turn <= 3 /\ from <= k /\ k <= to
                                      /\ (k < from + i \/ k > to - i)
                                 THEN from + to - k ELSE k)
  BY <1>1, <1>3 DEF Before, Index
<1> QED
  BY <1>2, <1>4, <1>5 DEF RInv, PartlyReversed

\* The places two swaps of a call exchange lie inside the call's bounds, the
\* left one before the right one, neither exchanged before.
LEMMA SwapPlaces ==
    ASSUME ShiftTypeOK, turn <= 3, i < Swaps
    PROVE  /\ from \in Int /\ to \in Int /\ i \in Nat
           /\ from + i \in Index /\ to - i \in Index
           /\ 0 <= from /\ to <= n - 1
           /\ from + i < to - i
<1>1. n \in Nat /\ p \in Nat /\ p <= n /\ i \in Nat /\ turn \in 1 .. 3 /\ n >= 1
  BY RotationAssumption DEF ShiftTypeOK
<1>2. from \in Int /\ to \in Int /\ 0 <= from /\ to <= n - 1
  BY <1>1 DEF from, to
<1>3. 2 * Swaps <= to - from + 1
  BY <1>2 DEF Swaps
<1>4. Swaps \in Int
  BY <1>2 DEF Swaps
<1>5. 2 * i + 2 <= to - from + 1
  BY <1>1, <1>2, <1>3, <1>4
<1> QED
  BY <1>1, <1>2, <1>5 DEF Index

LEMMA RInvStep == RInv /\ [ShiftNext]_shiftVars => RInv'
<1> SUFFICES ASSUME RInv, [ShiftNext]_shiftVars PROVE RInv'
  OBVIOUS
<1>0. /\ ShiftTypeOK /\ PartlyReversed
      /\ n \in Nat /\ n >= 1 /\ p \in Nat /\ p <= n /\ i \in Nat /\ turn \in 1 .. 4
  BY RotationAssumption DEF RInv, ShiftTypeOK
<1>1. CASE Swap
  <2>1. turn <= 3 /\ i < Swaps /\ UNCHANGED <<n, p, R0, turn>> /\ i' = i + 1
        /\ R' = [R EXCEPT ![from + i] = R[to - i], ![to - i] = R[from + i]]
    BY <1>1 DEF Swap
  <2>2. /\ from \in Int /\ to \in Int /\ from + i \in Index /\ to - i \in Index
        /\ 0 <= from /\ to <= n - 1 /\ from + i < to - i
    BY <1>0, <2>1, SwapPlaces
  <2>3. from' = from /\ to' = to /\ Index' = Index /\ Swaps' = Swaps
    BY <2>1 DEF from, to, Index, Swaps
  <2>4. R' \in [Index -> Values]
    BY <1>0, <2>1, <2>2 DEF ShiftTypeOK
  <2>5. i' \in 0 .. n
    BY <1>0, <2>1, <2>2 DEF Index
  <2>6. ShiftTypeOK'
    BY <1>0, <2>1, <2>3, <2>4, <2>5 DEF ShiftTypeOK
  <2>7. i' <= Swaps'
    <3>1. Swaps \in Int
      BY <2>2 DEF Swaps
    <3> QED
      BY <1>0, <2>1, <2>3, <3>1
  <2>8. \A t, k : Before(t, k)' = Before(t, k)
    BY <2>1 DEF Before, Target
  <2>9. ASSUME NEW k \in Index
        PROVE  R'[k] = Before(turn, IF from <= k /\ k <= to
                                         /\ (k < from + (i + 1) \/ k > to - (i + 1))
                                    THEN from + to - k ELSE k)
    <3>1. k \in Int
      BY <1>0 DEF Index
    <3>2. \A j \in Index :
             R[j] = Before(turn, IF from <= j /\ j <= to /\ (j < from + i \/ j > to - i)
                                 THEN from + to - j ELSE j)
      BY <1>0, <2>1 DEF PartlyReversed
    <3>3. R \in [Index -> Values]
      BY <1>0 DEF ShiftTypeOK
    <3>4. CASE k = from + i
      <4>1. R'[k] = R[to - i]
        BY <2>1, <2>2, <3>3, <3>4
      <4>2. R[to - i] = Before(turn, to - i)
        BY <1>0, <2>2, <3>2
      <4>3. to - i = from + to - k
        BY <1>0, <2>2, <3>4
      <4> QED
        BY <1>0, <2>2, <3>4, <4>1, <4>2, <4>3
    <3>5. CASE k = to - i
      <4>1. R'[k] = R[from + i]
        BY <2>1, <2>2, <3>3, <3>5
      <4>2. R[from + i] = Before(turn, from + i)
        BY <1>0, <2>2, <3>2
      <4>3. from + i = from + to - k
        BY <1>0, <2>2, <3>5
      <4> QED
        BY <1>0, <2>2, <3>5, <4>1, <4>2, <4>3
    <3>6. CASE k # from + i /\ k # to - i
      <4>1. R'[k] = R[k]
        BY <2>1, <2>2, <3>3, <3>6
      <4>2. (from <= k /\ k <= to /\ (k < from + (i + 1) \/ k > to - (i + 1)))
            <=> (from <= k /\ k <= to /\ (k < from + i \/ k > to - i))
        BY <1>0, <2>2, <3>1, <3>6
      <4> QED
        BY <3>2, <4>1, <4>2
    <3> QED
      BY <3>4, <3>5, <3>6
  <2>10. PartlyReversed'
    BY <2>1, <2>3, <2>7, <2>8, <2>9 DEF PartlyReversed
  <2> QED
    BY <2>6, <2>10 DEF RInv
<1>2. CASE Return
  <2>1. turn <= 3 /\ i >= Swaps /\ turn' = turn + 1 /\ i' = 0 /\ UNCHANGED <<n, p, R, R0>>
    BY <1>2 DEF Return
  <2>2. ShiftTypeOK'
    BY <1>0, <2>1 DEF ShiftTypeOK, Index
  <2>3. /\ from \in Int /\ to \in Int /\ 0 <= from /\ to <= n - 1 /\ from + to >= -1
    BY <1>0, <2>1 DEF from, to
  <2>4. i = Swaps
    <3>1. Swaps \in Int
      BY <2>3 DEF Swaps
    <3> QED
      BY <1>0, <2>1, <3>1 DEF PartlyReversed
  <2>5. to - from + 1 <= 2 * i + 1
    BY <2>3, <2>4 DEF Swaps
  <2>6. ASSUME NEW k \in Index
        PROVE  R[k] = Before(turn, IF from <= k /\ k <= to THEN from + to - k ELSE k)
    <3>1. k \in Int
      BY <1>0 DEF Index
    <3>2. R[k] = Before(turn, IF from <= k /\ k <= to /\ (k < from + i \/ k > to - i)
                              THEN from + to - k ELSE k)
      BY <1>0, <2>1 DEF PartlyReversed
    <3>3. CASE from <= k /\ k <= to /\ ~(k < from + i \/ k > to - i)
      <4>1. k = from + to - k
        BY <1>0, <2>3, <2>5, <3>1, <3>3
      <4> QED
        BY <3>2, <3>3, <4>1
    <3>4. CASE ~(from <= k /\ k <= to /\ ~(k < from + i \/ k > to - i))
      BY <3>2, <3>4
    <3> QED
      BY <3>3, <3>4
  <2>7. ASSUME NEW k \in Index
        PROVE  R[k] = Before(turn + 1, k)
    <3>1. k \in Int /\ 0 <= k /\ k <= n - 1
      BY <1>0 DEF Index
    <3>2. CASE turn = 1
      BY <1>0, <2>6, <3>1, <3>2 DEF Before, from, to
    <3>3. CASE turn = 2
      BY <1>0, <2>6, <3>1, <3>3 DEF Before, from, to
    <3>4. CASE turn = 3
      <4>1. R[k] = Before(3, n - 1 - k)
        BY <1>0, <2>6, <3>1, <3>4 DEF from, to
      <4>2. CASE n - 1 - k < p
        <5>1. R[k] = R0[p - 1 - (n - 1 - k)]
          BY <1>0, <4>1, <4>2 DEF Before
        <5>2. p - 1 - (n - 1 - k) = k + p - n /\ ~(k + p < n)
          BY <1>0, <3>1, <4>2
        <5> QED
          BY <3>4, <5>1, <5>2 DEF Before, Target
      <4>3. CASE ~(n - 1 - k < p)
        <5>1. R[k] = R0[n - 1 + p - (n - 1 - k)]
          BY <1>0, <4>1, <4>3 DEF Before
        <5>2. n - 1 + p - (n - 1 - k) = k + p /\ k + p < n
          BY <1>0, <3>1, <4>3
        <5> QED
          BY <3>4, <5>1, <5>2 DEF Before, Target
      <4> QED
        BY <4>2, <4>3
    <3> QED
      BY <1>0, <2>1, <3>2, <3>3, <3>4
  <2>8. \A t, k : Before(t, k)' = Before(t, k)
    BY <2>1 DEF Before, Target
  <2>9. Index' = Index /\ turn' \in 2 .. 4
    BY <1>0, <2>1 DEF Index
  <2>10. (turn <= 3 => i <= Swaps)'
    <3>1. CASE turn' = 2
      BY <1>0, <2>1, <3>1 DEF Swaps, from, to
    <3>2. CASE turn' = 3
      BY <1>0, <2>1, <3>2 DEF Swaps, from, to
    <3> QED
      BY <2>9, <3>1, <3>2
  <2>11. ASSUME NEW k \in Index
         PROVE  ~(from' <= k /\ k <= to' /\ (k < from' + i' \/ k > to' - i')) \/ turn' = 4
    <3>1. from' \in Int /\ to' \in Int
      BY <1>0, <2>1 DEF from, to
    <3>2. k \in Int
      BY <1>0 DEF Index
    <3>3. i' = 0
      BY <2>1
    <3>4. \A a, b \in Int : ~(a <= k /\ k <= b /\ (k < a + 0 \/ k > b - 0))
      BY <3>2
    <3> QED
      BY <3>1, <3>3, <3>4
  <2>12. PartlyReversed'
    BY <2>1, <2>7, <2>8, <2>9, <2>10, <2>11 DEF PartlyReversed
  <2> QED
    BY <2>2, <2>12 DEF RInv
<1>3. CASE UNCHANGED shiftVars
  <2>1. from' = from /\ to' = to /\ Index' = Index /\ Swaps' = Swaps
    BY <1>3 DEF shiftVars, from, to, Index, Swaps
  <2>2. \A t, k : Before(t, k)' = Before(t, k)
    BY <1>3 DEF shiftVars, Before, Target
  <2> QED
    BY <1>0, <1>3, <2>1, <2>2 DEF shiftVars, RInv, ShiftTypeOK, PartlyReversed
<1> QED
  BY <1>1, <1>2, <1>3 DEF ShiftNext, Returned

\* For every length, every distance and every content, what shift leaves is the
\* array rotated: three reversals in place lose no reading and double none.
THEOREM ShiftRotates == ShiftSpec => []Rotated
<1>1. RInv => Rotated
  BY DEF RInv, ShiftTypeOK, PartlyReversed, Rotated, Before, Index
<1> QED
  BY <1>1, RInvInit, RInvStep, PTL DEF ShiftSpec

\* What History takes as one step of humi_th is what the loops of shift leave:
\* shift(R, N, 1) has made of the array what Shifted says.
THEOREM ShiftIsShifted == ShiftSpec => [](turn = 4 /\ n = N /\ p = 1 => R = Shifted(R0))
<1>1. ASSUME RInv, turn = 4, n = N, p = 1 PROVE R = Shifted(R0)
  <2>1. Index = Points /\ N \in Nat /\ R \in [Points -> Values]
    BY <1>1, HistoryAssumption DEF RInv, ShiftTypeOK, Index, Points
  <2>2. ASSUME NEW k \in Points PROVE R[k] = IF k + 1 < N THEN R0[k + 1] ELSE R0[0]
    <3>1. R[k] = R0[IF k + 1 < N THEN k + 1 ELSE k + 1 - N]
      BY <1>1, <2>1 DEF RInv, ShiftTypeOK, PartlyReversed, Before, Target
    <3>2. k \in Int /\ (~(k + 1 < N) => k + 1 - N = 0)
      BY <2>1 DEF Points
    <3> QED
      BY <3>1, <3>2
  <2> QED
    BY <2>1, <2>2 DEF Shifted
<1> QED
  BY <1>1, RInvInit, RInvStep, PTL DEF ShiftSpec

-----------------------------------------------------------------------------
(* The arrays and the chart.                                               *)

LEMMA DueType ==
    ASSUME NEW k \in Points, NEW s \in Nat
    PROVE  Due(k, s) \in Nat /\ Due(k, s) <= s
  BY HistoryAssumption DEF Due, Points

\* A later sample is never due at an earlier place.
LEMMA DueOrder ==
    ASSUME NEW k \in Points, NEW s \in Nat, NEW t \in Nat, s <= t
    PROVE  /\ Due(k, s) <= Due(k, t)
           /\ k > 0 /\ Due(k, t) > 0 => Due(k - 1, t) < Due(k, t)
  BY HistoryAssumption DEF Due, Points

HInv == Types /\ EnteringOK /\ NewestLast /\ DrawnCoherent

LEMMA HInvInit == Init => HInv
<1> SUFFICES ASSUME Init PROVE HInv
  OBVIOUS
<1> USE HistoryAssumption
<1>1. samples = 0 /\ history = [k \in Points |-> 0] /\ gui = "idle" /\ begun = 0 /\ point = 0
      /\ series = [l \in Lines |-> [k \in Points |-> 0]] /\ enters = 0
  BY DEF Init
<1>2. history \in [Points -> 0 .. MaxSamples]
      /\ series \in [Lines -> [Points -> 0 .. MaxSamples]]
  BY <1>1
<1>3. value \in [Quantities -> Nat] /\ low \in [Quantities -> Nat] /\ high \in [Quantities -> Nat]
  BY DEF Init
<1>4. pin \in Levels /\ pinRead \in Levels
  BY DEF Init, Levels
<1>8. EnteringOK
  BY <1>1 DEF EnteringOK
<1>5. Types
  BY <1>1, <1>2, <1>3, <1>4 DEF Types, Lines
<1>6. NewestLast
  BY <1>1 DEF NewestLast, Due, Points
<1>7. DrawnCoherent
  BY <1>1 DEF DrawnCoherent, Lines
<1> QED
  BY <1>5, <1>6, <1>7, <1>8 DEF HInv

LEMMA HInvStep == HInv /\ [Next]_vars => HInv'
<1> SUFFICES ASSUME HInv, [Next]_vars PROVE HInv'
  OBVIOUS
<1> USE HistoryAssumption
<1>0. /\ Types /\ EnteringOK /\ NewestLast /\ DrawnCoherent
      /\ samples \in Nat /\ begun \in Nat /\ begun <= samples
      /\ history \in [Points -> 0 .. MaxSamples]
      /\ series \in [Lines -> [Points -> 0 .. MaxSamples]]
  BY DEF HInv, Types
<1>1. CASE Sample
  <2>1. /\ samples' = samples + 1 /\ samples < MaxSamples
        /\ history' = Shifted([history EXCEPT ![0] = samples + 1])
        /\ UNCHANGED <<low, high, gui, point, series, begun, pinRead, entering, enters>>
        /\ touched' = FALSE
    BY <1>1 DEF Sample, lineVars, enterVars
  <2>2. 0 \in Points
    BY DEF Points
  <2>3. ASSUME NEW k \in Points
        PROVE  history'[k] = Due(k, samples + 1) /\ history'[k] \in 0 .. MaxSamples
    <3>1. k \in Int /\ 0 <= k /\ k <= N - 1
      BY DEF Points
    <3>2. CASE k + 1 < N
      <4>1. k + 1 \in Points /\ k + 1 # 0
        BY <3>1, <3>2 DEF Points
      <4>2. history'[k] = history[k + 1]
        BY <1>0, <2>1, <3>2, <4>1 DEF Shifted
      <4>3. history[k + 1] = Due(k + 1, samples)
        BY <1>0, <4>1 DEF NewestLast
      <4>4. Due(k + 1, samples) = Due(k, samples + 1)
        BY <1>0, <3>1 DEF Due
      <4> QED
        BY <1>0, <4>1, <4>2, <4>3, <4>4
    <3>3. CASE ~(k + 1 < N)
      <4>1. history'[k] = samples + 1
        BY <1>0, <2>1, <2>2, <3>3 DEF Shifted
      <4>2. k = N - 1
        BY <3>1, <3>3
      <4>3. Due(k, samples + 1) = samples + 1
        BY <1>0, <4>2 DEF Due
      <4> QED
        BY <1>0, <2>1, <4>1, <4>3
    <3> QED
      BY <3>2, <3>3
  <2>4. history' \in [Points -> 0 .. MaxSamples]
    <3>1. history' = [k \in Points |-> history'[k]]
      BY <2>1 DEF Shifted
    <3> QED
      BY <2>3, <3>1
  <2>5. NewestLast'
    BY <2>1, <2>3 DEF NewestLast
  <2>6. /\ value' \in [Quantities -> Nat] /\ pin' \in Levels 
    BY <1>0, <1>1 DEF Sample, Warning, OutOfLimits, Toggled, Levels, Types
  <2>10. EnteringOK'
    BY <1>0, <2>1 DEF EnteringOK
  <2>7. Types'
    <3>1. samples' \in 0 .. MaxSamples /\ begun' \in 0 .. samples'
      BY <1>0, <2>1 DEF Types
    <3>2. /\ enters' \in 0 .. MaxEnters /\ point' \in 0 .. N /\ (gui' \in Lines => point' < N)
          /\ gui' \in {"idle", "refresh", "toggle", "setLow", "setHigh"} \cup Lines
      BY <1>0, <2>1 DEF Types
    <3>3. /\ low' \in [Quantities -> Nat] /\ high' \in [Quantities -> Nat]
          /\ pinRead' \in Levels /\ series' \in [Lines -> [Points -> 0 .. MaxSamples]]
      BY <1>0, <2>1 DEF Types
    <3> QED
      BY <2>4, <2>6, <3>1, <3>2, <3>3 DEF Types
  <2>8. DrawnCoherent'
    <3>1. ASSUME NEW l \in Lines, NEW k \in Points
          PROVE  Due(k, samples) <= Due(k, samples') /\ series[l][k] \in Int
                 /\ Due(k, samples) \in Int /\ Due(k, samples') \in Int
      BY <1>0, <2>1, DueType, DueOrder
    <3> QED
      BY <1>0, <2>1, <3>1 DEF DrawnCoherent, Drawn
  <2> QED
    BY <2>5, <2>7, <2>8, <2>10 DEF HInv
<1>2. CASE StartDrawing
  <2>1. Types' /\ EnteringOK' /\ NewestLast'
    BY <1>0, <1>2 DEF StartDrawing, enterVars, Types, EnteringOK, NewestLast, Lines
  <2>2. DrawnCoherent'
    BY <1>0, <1>2 DEF StartDrawing, DrawnCoherent, Drawn, Points, Lines
  <2> QED
    BY <2>1, <2>2 DEF HInv
<1>3. CASE DrawPoint
  <2>1. /\ gui \in Lines /\ point \in Points /\ point \in Nat
        /\ series' = [series EXCEPT ![gui][point] = history[point]]
        /\ UNCHANGED <<samples, history, value, low, high, pin, begun, pinRead, entering,
                       enters, touched, out>>
    BY <1>0, <1>3 DEF DrawPoint, enterVars, Types, Points
  <2>2. series' \in [Lines -> [Points -> 0 .. MaxSamples]]
    BY <1>0, <2>1
  <2>3. point' \in 0 .. N /\ gui' \in Lines \cup {"refresh"} /\ (gui' \in Lines => point' < N)
    BY <1>0, <1>3, <2>1 DEF DrawPoint, Lines, Points
  <2>8. EnteringOK'
    BY <2>3 DEF EnteringOK, Lines
  <2>4. Types' /\ NewestLast'
    BY <1>0, <2>1, <2>2, <2>3 DEF Types, NewestLast
  <2>5. history[point] = Due(point, samples)
    BY <1>0, <2>1 DEF NewestLast
  <2>6. ASSUME NEW l \in Lines, NEW k \in Points, k < Drawn(l)'
        PROVE  /\ Due(k, begun) <= series'[l][k] /\ series'[l][k] <= Due(k, samples)
               /\ k > 0 /\ series'[l][k] > 0 => series'[l][k - 1] < series'[l][k]
    <3>1. k \in Nat /\ (k > 0 => k - 1 \in Points)
      BY DEF Points
    <3>0. k < Drawn(l)'
      BY <2>6
    <3>2. CASE l = gui /\ k = point
      <4>1. series'[l][k] = Due(k, samples)
        BY <1>0, <2>1, <2>5, <3>2
      <4>2. Due(k, begun) <= Due(k, samples) /\ Due(k, samples) \in Nat
        BY <1>0, DueType, DueOrder
      <4>3. ASSUME k > 0, Due(k, samples) > 0
            PROVE  series'[l][k - 1] < Due(k, samples)
        <5>1. k - 1 < Drawn(l)
          BY <2>1, <3>1, <3>2 DEF Drawn, Lines
        <5>2. series[l][k - 1] <= Due(k - 1, samples) /\ series[l][k - 1] \in Nat
              /\ Due(k - 1, samples) \in Nat
          BY <1>0, <2>1, <3>1, <4>3, <5>1, DueType DEF DrawnCoherent
        <5>3. series'[l][k - 1] = series[l][k - 1]
          BY <1>0, <2>1, <3>1, <3>2, <4>3
        <5>4. Due(k - 1, samples) < Due(k, samples)
          BY <1>0, <4>3, DueOrder
        <5> QED
          BY <4>2, <5>2, <5>3, <5>4
      <4> QED
        BY <4>1, <4>2, <4>3
    <3>3. CASE ~(l = gui /\ k = point)
      <4>1. k < Drawn(l)
        <5>1. CASE gui = "temperature"
          <6>1. gui' = "humidity" /\ point' = point
            BY <1>3, <5>1 DEF DrawPoint
          <6> QED
            BY <2>1, <3>0, <3>1, <3>3, <5>1, <6>1 DEF Drawn, Lines
        <5>2. CASE gui = "humidity"
          <6>1. point' = point + 1 /\ (gui' = "temperature" \/ (gui' = "refresh" /\ N <= point + 1))
            BY <1>3, <2>1, <5>2 DEF DrawPoint, Points
          <6>2. k < point + 1
            BY <2>1, <3>1, <3>0, <6>1 DEF Drawn
          <6> QED
            BY <2>1, <3>1, <3>3, <5>2, <6>2 DEF Drawn, Lines
        <5> QED
          BY <2>1, <5>1, <5>2 DEF Lines
      <4>2. series'[l][k] = series[l][k]
        BY <1>0, <2>1, <3>3
      <4>3. k > 0 => series'[l][k - 1] = series[l][k - 1]
        <5>1. ~(l = gui /\ k - 1 = point)
          BY <2>1, <3>1, <4>1 DEF Drawn, Lines
        <5> QED
          BY <1>0, <2>1, <3>1, <5>1
      <4> QED
        BY <1>0, <2>1, <4>1, <4>2, <4>3 DEF DrawnCoherent
    <3> QED
      BY <3>2, <3>3
  <2>7. DrawnCoherent'
    BY <2>1, <2>6 DEF DrawnCoherent
  <2> QED
    BY <2>4, <2>7, <2>8 DEF HInv
<1>4. CASE Refresh
  BY <1>0, <1>4 DEF Refresh, lineVars, enterVars, HInv, Types, EnteringOK, NewestLast, DrawnCoherent, Lines
<1>5. CASE PressEnter
  BY <1>0, <1>5 DEF PressEnter, lineVars, HInv, Types, EnteringOK, NewestLast, DrawnCoherent, Lines
<1>6. CASE TogglePin
  <2>1. pin' \in Levels
    BY <1>6 DEF TogglePin, Toggled, Levels
  <2> QED
    BY <1>0, <1>6, <2>1
    DEF TogglePin, lineVars, enterVars, HInv, Types, EnteringOK, NewestLast, DrawnCoherent, Lines
<1>7. CASE SetLow \/ SetHigh
  <2>2. EnteringOK'
    BY <1>0, <1>7 DEF SetLow, SetHigh, Types, EnteringOK, enterVars
  <2>1. low' \in [Quantities -> Nat] /\ high' \in [Quantities -> Nat]
    <3>1. CASE SetLow
      BY <1>0, <3>1 DEF SetLow, Types, EnteringOK
    <3>2. CASE SetHigh
      BY <1>0, <3>2 DEF SetHigh, Types, EnteringOK
    <3> QED
      BY <1>7, <3>1, <3>2
  <2> QED
    BY <1>0, <1>7, <2>1, <2>2
    DEF SetLow, SetHigh, lineVars, enterVars, HInv, Types, EnteringOK, NewestLast, DrawnCoherent, Lines
<1>8. CASE UNCHANGED vars
  BY <1>0, <1>8 DEF vars, lineVars, enterVars, HInv, Types, EnteringOK, NewestLast, DrawnCoherent, Drawn
<1> QED
  BY <1>1, <1>2, <1>3, <1>4, <1>5, <1>6, <1>7, <1>8 DEF Next

\* The newest reading is always the last element, and the elements before it are
\* the readings before it, for arrays of any length.
THEOREM HistoryNewestLast == Spec => []NewestLast
<1>1. HInv => NewestLast
  BY DEF HInv
<1> QED
  BY <1>1, HInvInit, HInvStep, PTL DEF Spec

\* However many samples arrive while a chart of any size is copied without a
\* lock, what is then drawn is in order, with no sample twice on a line and none
\* older than the start of the drawing allows.
THEOREM HistoryChartCoherent == Spec => []ChartCoherent
<1>1. ASSUME HInv PROVE ChartCoherent
  <2>1. ASSUME gui = "refresh", NEW l \in Lines, NEW k \in Points PROVE k < Drawn(l)
    BY <2>1, HistoryAssumption DEF Drawn, Points
  <2> QED
    BY <1>1, <2>1 DEF HInv, ChartCoherent, DrawnCoherent
<1> QED
  BY <1>1, HInvInit, HInvStep, PTL DEF Spec

-----------------------------------------------------------------------------
(* The LED and the limits.                                                 *)

Lit == touched \in BOOLEAN /\ out \in BOOLEAN /\ (pin = "low" => out \/ touched)

LEMMA LitStep == Lit /\ [Next]_vars => Lit'
<1> SUFFICES ASSUME Lit, [Next]_vars PROVE Lit'
  OBVIOUS
<1>1. CASE Sample
  <2>1. touched' = FALSE
    BY <1>1 DEF Sample
  <2>2. PICK reading \in [Quantities -> Readings] : Warning(reading) /\ out' = OutOfLimits(reading)
    BY <1>1 DEF Sample
  <2>3. out' \in BOOLEAN
    BY <2>2 DEF OutOfLimits
  <2>4. pin' = "low" => out'
    BY <2>2 DEF Warning
  <2> QED
    BY <2>1, <2>3, <2>4 DEF Lit
<1>2. CASE TogglePin
  BY <1>2 DEF TogglePin, Lit
<1>3. CASE StartDrawing \/ DrawPoint \/ Refresh \/ PressEnter \/ SetLow \/ SetHigh \/ UNCHANGED vars
  <2>1. UNCHANGED <<pin, touched, out>>
    BY <1>3 DEF StartDrawing, DrawPoint, Refresh, PressEnter, SetLow, SetHigh, vars
  <2> QED
    BY <2>1 DEF Lit
<1> QED
  BY <1>1, <1>2, <1>3 DEF Next

\* However the blinks of humi_th and the toggles of the GUI fall between each
\* other's reads and writes of the pin, the LED is lit only by the last sample's
\* alarm or an Enter since.
THEOREM HistoryLitForReason == Spec => []LitForReason
<1>1. Init => Lit
  BY DEF Init, Lit
<1>2. HInv /\ Lit => LitForReason
  BY DEF HInv, Lit, LitForReason, TypeOK
<1> QED
  BY <1>1, <1>2, HInvInit, HInvStep, LitStep, PTL DEF Spec

\* Where Enter stands between its two assignments: what the limits were at the
\* press, and which of them is set.
AInv ==
    gui \in {"toggle", "setLow", "setHigh"} /\ entering.of \in Quantities =>
        /\ entering.wasLow \in Nat /\ entering.wasHigh \in Nat
        /\ low[entering.of] = IF gui = "setHigh" THEN entering.low ELSE entering.wasLow
        /\ high[entering.of] = entering.wasHigh

LEMMA AInvStep == HInv /\ AInv /\ [Next]_vars => AInv'
<1> SUFFICES ASSUME HInv, AInv, [Next]_vars PROVE AInv'
  OBVIOUS
<1>0. low \in [Quantities -> Nat] /\ high \in [Quantities -> Nat]
  BY DEF HInv, Types
<1>1. CASE Sample \/ UNCHANGED vars
  <2>1. UNCHANGED <<gui, entering, low, high>>
    BY <1>1 DEF Sample, vars, enterVars
  <2> QED
    BY <2>1 DEF AInv
<1>2. CASE StartDrawing \/ DrawPoint \/ Refresh \/ SetHigh
  <2>1. gui' \notin {"toggle", "setLow", "setHigh"}
    BY <1>2 DEF StartDrawing, DrawPoint, Refresh, SetHigh, Lines
  <2> QED
    BY <2>1 DEF AInv
<1>3. CASE PressEnter
  <2>1. gui' = "toggle" /\ UNCHANGED <<low, high>>
    BY <1>3 DEF PressEnter
  <2>2. CASE entering' = [of |-> "clock"]
    BY <2>2, HistoryAssumption DEF AInv
  <2>3. ASSUME NEW q \in Quantities, NEW positions \in Choices,
               entering' = [of |-> q, low |-> positions[1], high |-> positions[2],
                            wasLow |-> low[q], wasHigh |-> high[q]]
        PROVE  AInv'
    BY <1>0, <2>1, <2>3 DEF AInv
  <2> QED
    BY <1>3, <2>2, <2>3 DEF PressEnter
<1>4. CASE TogglePin
  BY <1>4 DEF TogglePin, enterVars, AInv
<1>5. CASE SetLow
  <2>1. /\ gui = "setLow" /\ gui' = "setHigh" /\ entering' = entering /\ high' = high
        /\ low' = [low EXCEPT ![entering.of] = entering.low]
    BY <1>5 DEF SetLow, enterVars
  <2> QED
    BY <1>0, <2>1 DEF AInv
<1> QED
  BY <1>1, <1>2, <1>3, <1>4, <1>5 DEF Next

\* The limits in force when a sample falls inside an Enter are the old upper and
\* the old or the new lower one, so that what old and new settings agree on
\* decides the alarm -- but for the range moved below the old one.
LEMMA AlarmStep ==
    ASSUME HInv, AInv, [Next]_vars, samples' # samples
    PROVE  /\ (\A q \in Quantities : AllowedBefore(q, value'[q]) /\ AllowedAfter(q, value'[q]))
                => pin' = "high"
           /\ (\E q \in Quantities :
                 /\ ~AllowedBefore(q, value'[q]) /\ ~AllowedAfter(q, value'[q])
                 /\ ~(Changing(q) /\ entering.high < entering.wasLow))
                => pin' # pin
<1>1. Sample
  BY DEF Next, StartDrawing, DrawPoint, Refresh, PressEnter, TogglePin, SetLow, SetHigh, vars
<1>2. /\ value' \in [Quantities -> Readings] /\ Warning(value')
  BY <1>1 DEF Sample
<1>3. ASSUME NEW q \in Quantities
      PROVE  value'[q] \in Nat /\ low[q] \in Nat /\ high[q] \in Nat
  BY <1>2, HistoryAssumption DEF HInv, Types
<1>4. ASSUME NEW q \in Quantities, Changing(q)
      PROVE  /\ entering.wasLow \in Nat /\ entering.wasHigh \in Nat
             /\ entering.low \in Nat /\ entering.high \in Nat
             /\ low[q] = IF gui = "setHigh" THEN entering.low ELSE entering.wasLow
             /\ high[q] = entering.wasHigh
  BY <1>4 DEF Changing, AInv, HInv, EnteringOK
<1>5. ASSUME NEW q \in Quantities, AllowedBefore(q, value'[q]), AllowedAfter(q, value'[q])
      PROVE  ~(value'[q] > high[q] \/ value'[q] < low[q])
  <2>1. CASE Changing(q)
    BY <1>3, <1>4, <1>5, <2>1 DEF AllowedBefore, AllowedAfter, Within
  <2>2. CASE ~Changing(q)
    BY <1>3, <1>5, <2>2 DEF AllowedBefore, AllowedAfter, Within
  <2> QED
    BY <2>1, <2>2
<1>6. ASSUME NEW q \in Quantities, ~AllowedBefore(q, value'[q]), ~AllowedAfter(q, value'[q]),
             ~(Changing(q) /\ entering.high < entering.wasLow)
      PROVE  value'[q] > high[q] \/ value'[q] < low[q]
  <2>1. CASE Changing(q)
    BY <1>3, <1>4, <1>6, <2>1 DEF AllowedBefore, AllowedAfter, Within
  <2>2. CASE ~Changing(q)
    BY <1>3, <1>6, <2>2 DEF AllowedBefore, AllowedAfter, Within
  <2> QED
    BY <2>1, <2>2
<1>7. ASSUME \A q \in Quantities : AllowedBefore(q, value'[q]) /\ AllowedAfter(q, value'[q])
      PROVE  pin' = "high"
  <2>1. ~OutOfLimits(value')
    BY <1>5, <1>7 DEF OutOfLimits
  <2> QED
    BY <1>2, <2>1 DEF Warning
<1>8. ASSUME NEW q \in Quantities, ~AllowedBefore(q, value'[q]), ~AllowedAfter(q, value'[q]),
             ~(Changing(q) /\ entering.high < entering.wasLow)
      PROVE  pin' # pin
  <2>1. OutOfLimits(value')
    BY <1>6, <1>8 DEF OutOfLimits
  <2>2. Toggled(pin) # pin
    BY DEF Toggled
  <2> QED
    BY <1>2, <2>1, <2>2 DEF Warning
<1> QED
  BY <1>7, <1>8

\* With any readings and any limits, a reading that the settings before and after
\* an Enter judge alike is judged so in the midst of it.
THEOREM HistoryAlarms == Spec => AlarmFollowsSettings
<1>1. Init => AInv
  BY DEF Init, AInv
<1>2. HInv /\ AInv /\ [Next]_vars =>
        [samples' # samples =>
           /\ (\A q \in Quantities : AllowedBefore(q, value'[q]) /\ AllowedAfter(q, value'[q]))
                => pin' = "high"
           /\ (\E q \in Quantities :
                 /\ ~AllowedBefore(q, value'[q]) /\ ~AllowedAfter(q, value'[q])
                 /\ ~(Changing(q) /\ entering.high < entering.wasLow))
                => pin' # pin]_vars
  BY AlarmStep
<1> QED
  BY <1>1, <1>2, HInvInit, HInvStep, AInvStep, PTL DEF Spec, AlarmFollowsSettings
=============================================================================
