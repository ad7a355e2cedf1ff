-------------------------- MODULE MCStockLedger --------------------------
(* An instance of StockLedger for TLC: one variant in two stores, and a       *)
(* product of two variants in the first, whose second row was closed.         *)
EXTENDS StockLedger, TLC

CONSTANTS s1, s2, v1, v2, v3, p1, p2

Present(n) == [exists |-> TRUE, row |-> [qty |-> n, link |-> TRUE, act |-> TRUE]]
Unlinked(n) == [exists |-> TRUE, row |-> [qty |-> n, link |-> FALSE, act |-> TRUE]]
Absent == [exists |-> FALSE, row |-> NoSummary]
DatabaseRows == {Absent, Present(1), Unlinked(1)}

On(op, r, q) == [op |-> op, row |-> r, to |-> r, qty |-> q]
Move(op, a, b, q) == [op |-> op, row |-> a, to |-> b, qty |-> q]

A == <<s1, v1>>
B == <<s2, v1>>
C == <<s1, v2>>
Sibling == <<s1, v3>>

Catalogue == [v \in Variants |-> IF v = v1 THEN p1 ELSE p2]

\* Every operation, alone and in two-item requests, and a receipt that opens a sibling.
StoreRequests ==
  {<<On("RECEIVE", A, 1)>>, <<On("SELL", A, 1)>>, <<On("SELL", A, 0)>>,
   <<On("RETURN", B, 1)>>, <<On("COUNT", A, -1)>>, <<On("COUNT", A, 0)>>,
   <<On("ADJUST", A, 2)>>, <<On("RECEIVE", C, 1)>>,
   <<Move("TRANSFER", A, B, 1)>>, <<Move("TRANSFER_ALL", B, A, 0)>>,
   <<On("SELL", B, 1), On("SELL", A, 1)>>}

\* The variant of two stores has a row or none; nothing but the receipt moves the others.
MCInit ==
  /\ Init
  /\ \A r \in {A, B} : exists[r] => row[r].link
  /\ exists[C] /\ row[C].link /\ exists[Sibling] /\ ~row[Sibling].link
  /\ \A r \in Rows \ {A, B, C, Sibling} : ~exists[r]

MCSpec == MCInit /\ [][Next]_vars /\ \A t \in Txs : WF_vars(Step(t))
=============================================================================
