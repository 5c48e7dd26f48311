---------------------------- MODULE MCRingBuffer ----------------------------
(***************************************************************************)
(* RingBuffer for TLC: four bytes of memory and two byte values, so that   *)
(* blocks of every length wrap at every place.  The two values are not     *)
(* symmetric: a block's order shows.                                       *)
(***************************************************************************)
EXTENDS RingBuffer

CONSTANTS a, b
=============================================================================
