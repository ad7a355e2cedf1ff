-------------------------- MODULE MCPutawayOutbox --------------------------
(* Instances of PutawayOutbox for TLC: one receipt of two lines and one of    *)
(* one line.                                                                 *)
EXTENDS PutawayOutbox, TLC

CONSTANTS r1, r2, l1, l2, l3

Origin == l1 :> r1 @@ l2 :> r1 @@ l3 :> r2

\* A clerk takes a receipt as a whole.
WholeReceipts == {{l1, l2}, {l3}}
=============================================================================
