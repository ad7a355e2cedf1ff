---------------------------- MODULE MCApprovals ----------------------------
(* Instances of Approvals for TLC: requests about a price, stock and an      *)
(* order with four decisions, and three price changes over two stores.       *)
EXTENDS Approvals, TLC

CONSTANTS h1, h2, h3, h4, s1, s2, product, price, stock, order, u1, u2, r1, r2

Override == [kind |-> "set", todo |-> <<s1>>, patch |-> [unitPrice |-> 200, currency |-> 1]]
Types == price :> "PRICE_OVERRIDE" @@ stock :> "STOCK_ADJUSTMENT" @@ order :> "PURCHASE_ORDER"
Overrides == [k \in Subjects |-> Override]

\* Two changes for both stores in opposite orders, one of a single field, or for
\* the product, and a removal.
PriceJobs ==
  h1 :> {[kind |-> "multi", todo |-> <<s1, s2>>, patch |-> [unitPrice |-> 100, taxPercent |-> 10]],
         [kind |-> "multi", todo |-> <<product, s1>>, patch |-> [unitPrice |-> 100]]} @@
  h2 :> {[kind |-> "multi", todo |-> <<s2, s1>>, patch |-> [unitPrice |-> 300]], Override} @@
  h3 :> {[kind |-> "set", todo |-> <<s1>>, patch |-> [discountAmount |-> 20]],
         [kind |-> "set", todo |-> <<s1>>, patch |-> [unitPrice |-> Null, discountAmount |-> Null]],
         [kind |-> "clear", todo |-> <<s1>>, patch |-> <<>>]} @@
  h4 :> {}

DecideOrPrice ==
  {[clerks |-> {h1, h2, h3, h4}, pricers |-> {}], [clerks |-> {}, pricers |-> {h1, h2, h3}]}

Symmetry == Permutations(Users) \cup Permutations(Requests)
=============================================================================
