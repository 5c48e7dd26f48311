---------------------------- MODULE MCEventFlags ----------------------------
(***************************************************************************)
(* EventFlags for TLC: three threads and two flags, so that one send may   *)
(* wake a thread that clears one flag, pass over one that wanted it and    *)
(* reach one that wants the other.  Threads and flags are interchangeable. *)
(***************************************************************************)
EXTENDS EventFlags, TLC

CONSTANTS t1, t2, t3, f1, f2

Symmetry == Permutations({t1, t2, t3}) \cup Permutations({f1, f2})
=============================================================================
