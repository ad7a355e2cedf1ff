---------------------------- MODULE MCSaleGoods ----------------------------
(* Instances of SaleGoods for TLC: a retail line, a package line of two      *)
(* variants, and a retail line that is added later.                          *)
EXTENDS SaleGoods, TLC

CONSTANTS l1, l2, l3, a, b

Contents == [l \in {l1, l2, l3} |->
               IF l = l2 THEN a :> 1 @@ b :> 1 ELSE a :> 1 @@ b :> 0]
Sold == l1 :> 2 @@ l2 :> 1

Do(op, l, n) == [op |-> op, line |-> l, qty |-> n, parts |-> <<>>]
Parts(ps) == [op |-> "PARTS", line |-> l2, qty |-> 0, parts |-> ps]
One(v) == [variant |-> v, qty |-> 1]

\* Every kind of request but whole packages (Mod A) from a line that Mod B has
\* touched and one variant named twice by a request.
AllRequests ==
  {Do("CANCEL", l1, 0), Do("RETURN", l1, 1), Parts(<<One(a)>>), Parts(<<One(a), One(b)>>),
   Do("UPDATE", l1, 1), Do("UPDATE", l2, 2), Do("ADD", l3, 1), Do("REMOVE", l2, 0),
   Do("META", l1, 0)}

\* Returns lock the sale, and new lines and header edits touch no other line.
Unlocked == {"CANCEL", "UPDATE", "REMOVE"}
=============================================================================
