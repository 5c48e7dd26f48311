----------------------------- MODULE MCRotation -----------------------------
(***************************************************************************)
(* Rotation for TLC: every length up to six, every distance.  Two values   *)
(* tell any two elements apart in some array.                              *)
(***************************************************************************)
EXTENDS Rotation

Bits == {0, 1}
=============================================================================
