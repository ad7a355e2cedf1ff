--------------------------- MODULE MCProcurement ---------------------------
(* Instances of Procurement for TLC: an order of two lines, of 2 and 1.     *)
EXTENDS Procurement, TLC

CONSTANTS l1, l2

Quantities == l1 :> 2 @@ l2 :> 1

Take1(l, n) == [line |-> l, quantity |-> n]
Do(op, items) == [op |-> op, items |-> items]

\* A part, the rest, everything in one receipt, more than is ordered in two items of one
\* line, and the same lines in the other order.
AllRequests ==
  {Do("CREATE", <<>>), Do("APPROVE", <<>>), Do("CANCEL", <<>>),
   Do("RECEIVE", <<Take1(l1, 1)>>), Do("RECEIVE", <<Take1(l1, 1), Take1(l2, 1)>>),
   Do("RECEIVE", <<Take1(l2, 1), Take1(l1, 2)>>),
   Do("RECEIVE", <<Take1(l1, 2), Take1(l1, 1)>>)}

TxSymmetry == Permutations(Txs)
=============================================================================
