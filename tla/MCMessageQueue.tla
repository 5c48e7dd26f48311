--------------------------- MODULE MCMessageQueue ---------------------------
(***************************************************************************)
(* MessageQueue for TLC.  The threads of one side have different           *)
(* priorities, so they are not symmetric; the slots are.                   *)
(***************************************************************************)
EXTENDS MessageQueue, TLC

CONSTANTS s1, s2, r1, r2, m1, m2

Priorities == (s1 :> 7) @@ (s2 :> 6) @@ (r1 :> 6) @@ (r2 :> 5)

=============================================================================
