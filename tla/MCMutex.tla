------------------------------ MODULE MCMutex -------------------------------
(***************************************************************************)
(* Mutex for TLC: three threads of different priorities and the idle       *)
(* thread; the volume's mutex, in order of arrival, and a second one in    *)
(* order of priority.                                                      *)
(***************************************************************************)
EXTENDS Mutex, TLC

CONSTANTS tLow, tMiddle, tHigh, tIdle

Priority == (tHigh :> 1) @@ (tMiddle :> 2) @@ (tLow :> 3) @@ (tIdle :> 4)
=============================================================================
