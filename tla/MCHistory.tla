----------------------------- MODULE MCHistory ------------------------------
(***************************************************************************)
(* History for TLC: three points, so that samples fall before, inside and  *)
(* after the copy of each; limits that move a range up, down, apart and    *)
(* inside out.                                                             *)
(***************************************************************************)
EXTENDS History

Temperature == {"temperature"}
Humidity == {"humidity"}
LowFrom  == [q \in Quantities |-> 1]
HighFrom == [q \in Quantities |-> 2]
Positions == {<<0, 1>>, <<1, 2>>, <<3, 4>>, <<0, 4>>, <<2, 0>>}
Values == 0 .. 4
=============================================================================
