------------------------------- MODULE MCHeap -------------------------------
(***************************************************************************)
(* Heap for TLC: two threads that may be in rt_realloc at a time, a heap   *)
(* of up to four blocks, sizes below the least room, near and exact fits   *)
(* and too large.                                                          *)
(***************************************************************************)
EXTENDS Heap, TLC

CONSTANTS t1, t2

TwoThreads == {t1, t2}
SomeSizes == {1, 2, 3, 6, 11}
Symmetry == Permutations(TwoThreads)
=============================================================================
