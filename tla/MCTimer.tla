------------------------------ MODULE MCTimer -------------------------------
(***************************************************************************)
(* Timer for TLC: a tick of three bits that wraps again and again, and     *)
(* every time the assertion of rt_timer_start allows for it.               *)
(***************************************************************************)
EXTENDS Timer, TLC

CONSTANTS t1, t2, t3
=============================================================================
