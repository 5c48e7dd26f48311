------------------------------ MODULE Regions -------------------------------
(***************************************************************************)
(* What an allocator promises: the regions it has given out lie inside its *)
(* memory and apart from one another, and only the caller's own region     *)
(* changes with a call.                                                    *)
(***************************************************************************)
EXTENDS Integers

CONSTANTS
    Memory,     \* the addresses there are
    Lengths     \* of regions

VARIABLE given  \* of each region given out, by its first address: the length

Cells(a, n) == a .. a + n - 1

Apart(f) ==
    \A a, b \in DOMAIN f :
        /\ f[a] > 0 /\ Cells(a, f[a]) \subseteq Memory
        /\ a # b => Cells(a, f[a]) \cap Cells(b, f[b]) = {}

Init == given = [a \in {} |-> 0]

Give(a, n) ==
    /\ a \notin DOMAIN given
    /\ given' = [b \in DOMAIN given \cup {a} |-> IF b = a THEN n ELSE given[b]]
    /\ Apart(given')

Resize(a, n) ==
    /\ a \in DOMAIN given
    /\ given' = [given EXCEPT ![a] = n]
    /\ Apart(given')

TakeBack(a) ==
    /\ a \in DOMAIN given
    /\ given' = [b \in DOMAIN given \ {a} |-> given[b]]

Next ==
    \E a \in Memory :
        \/ \E n \in Lengths : Give(a, n) \/ Resize(a, n)
        \/ TakeBack(a)

Spec == Init /\ [][Next]_given
=============================================================================
