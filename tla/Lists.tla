------------------------------- MODULE Lists --------------------------------
(***************************************************************************)
(* The lists of the kernel, of which members are taken out wherever they   *)
(* stand.                                                                  *)
(***************************************************************************)
EXTENDS Naturals, Sequences

\* The members of l that are in S, in the order of l.
Kept(l, S) ==
    LET kept[k \in 0 .. Len(l)] ==
          IF k = 0 THEN <<>>
          ELSE IF l[k] \in S THEN Append(kept[k - 1], l[k]) ELSE kept[k - 1]
    IN  kept[Len(l)]
=============================================================================
