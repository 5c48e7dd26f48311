------------------------------ MODULE Rotation ------------------------------
(***************************************************************************)
(* reverse and shift of HARDWARE/Src/dht11.c: the history arrays are       *)
(* rotated in place by three reversals.  The model runs one swap at a time *)
(* over every length, distance and content.                                *)
(***************************************************************************)
EXTENDS Integers

CONSTANTS
    MaxLength,      \* the longest array: 40 in the code
    Values          \* what an element may be: a u8 in the code

ASSUME RotationAssumption == MaxLength \in Nat \ {0}

VARIABLES
    n, p,           \* the arguments of shift: length and distance
    R,              \* the array
    R0,             \* history: the array at the call
    turn,           \* which call of reverse runs; 4: shift has returned
    i               \* the loop counter of reverse

shiftVars == <<n, p, R, R0, turn, i>>

Index == 0 .. n - 1

\* The bounds of each call of reverse.  (p = 0 gives to = -1, p = n from = n.)
from == IF turn = 2 THEN p ELSE 0
to   == IF turn = 1 THEN p - 1 ELSE n - 1

ShiftInit ==
    /\ n \in 1 .. MaxLength
    /\ p \in 0 .. n
    /\ R0 \in [Index -> Values]
    /\ R = R0 /\ turn = 1 /\ i = 0

\* (Variant of Swaps: a loop over the whole range, which undoes its own swaps.)
SwapsTwice == to - from + 1

\* How many swaps reverse makes.
Swaps == (to - from + 1) \div 2

\* One turn of the loop of reverse.
Swap ==
    /\ turn <= 3 /\ i < Swaps
    /\ R' = [R EXCEPT ![from + i] = R[to - i], ![to - i] = R[from + i]]
    /\ i' = i + 1
    /\ UNCHANGED <<n, p, R0, turn>>

\* The loop of reverse ends, and shift calls it with the next bounds.
Return ==
    /\ turn <= 3 /\ i >= Swaps
    /\ turn' = turn + 1 /\ i' = 0
    /\ UNCHANGED <<n, p, R, R0>>

Returned == turn = 4 /\ UNCHANGED shiftVars

ShiftNext == Swap \/ Return \/ Returned

ShiftSpec == ShiftInit /\ [][ShiftNext]_shiftVars

-----------------------------------------------------------------------------
(* Properties.                                                             *)

ShiftTypeOK ==
    /\ n \in 1 .. MaxLength /\ p \in 0 .. n
    /\ R0 \in [Index -> Values] /\ R \in [Index -> Values]
    /\ turn \in 1 .. 4 /\ i \in 0 .. n

\* Element k of the array that shift is called to make.
Target(k) == R0[IF k + p < n THEN k + p ELSE k + p - n]

\* When shift returns, the array is rotated by p towards its start: no reading
\* of the 40 is lost or doubled, and the newest, put in at 0, is at 39 (which
\* the alarm and both windows read), whatever the length and the distance.
Rotated == turn = 4 => \A k \in Index : R[k] = Target(k)

\* Element k before call t of reverse.
Before(t, k) ==
    IF t = 1 THEN R0[k]
    ELSE IF t = 4 THEN Target(k)
    ELSE IF k < p THEN R0[p - 1 - k]
    ELSE IF t = 2 THEN R0[k]
    ELSE R0[n - 1 + p - k]

\* (Inductive with ShiftTypeOK.)  In a call of reverse the outer i elements of each
\* end have changed places and the others are as they were before the call.
PartlyReversed ==
    /\ turn <= 3 => i <= Swaps
    /\ \A k \in Index :
          R[k] = Before(turn, IF turn <= 3 /\ from <= k /\ k <= to
                                   /\ (k < from + i \/ k > to - i)
                              THEN from + to - k ELSE k)
=============================================================================
