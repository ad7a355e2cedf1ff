--------------------------- MODULE MCSalePayments ---------------------------
(* Instances of SalePayments for TLC: two lines of amount 2 and 1, and an     *)
(* initial payment of 1.                                                     *)
EXTENDS SalePayments, TLC

CONSTANTS l1, l2, p1, p2, p3

Prices == l1 :> 2 @@ l2 :> 1
Deposit == p1 :> 1

Do(op, l, p, n) == [op |-> op, line |-> l, payment |-> p, amount |-> n]

\* p2 and p3 are the ids payments get that are taken during the run.
AllRequests ==
  {Do("ADD", l1, p1, 2), Do("EDIT", l1, p1, 3), Do("DELETE", l1, p1, 0),
   Do("DELETE", l1, p2, 0), Do("CANCEL", l1, p1, 0), Do("LINE", l1, p1, 1),
   Do("LINE", l2, p1, 2), Do("RETURN", l1, p1, 0)}

ClerkSymmetry == Permutations(Clerks)
=============================================================================
