----------------------------- MODULE MCReports -----------------------------
(* Two stores, two variants of two products and a package of both. *)
EXTENDS Reports

MCProduct == [v1 |-> "shirt", v2 |-> "cup"]
MCRecipe == [set |-> [v1 |-> 1, v2 |-> 1]]
\* One shirt costs more than is paid for the set of both.
MCPartPrice == [set |-> [v1 |-> 200, v2 |-> 100]]
MCSupplier == [v1 |-> "mill", v2 |-> "none"]
MCCost == [v1 |-> 40, v2 |-> 20]

Line(item, quantity, unitPrice, percent, amount, taxPercent, campaign) ==
  [item |-> item, quantity |-> quantity, unitPrice |-> unitPrice, discountPercent |-> percent,
   discountAmount |-> amount, taxPercent |-> taxPercent, taxAmount |-> Null, lineTotal |-> 0,
   campaign |-> campaign]
MCBaskets ==
  {[store |-> "s1", customer |-> "c1", by |-> "e1",
    lines |-> <<Line("v1", 2, 100, 10, Null, 20, "summer"), Line("v2", 1, 50, Null, Null, 10, "NO_CAMPAIGN")>>],
   [store |-> "s2", customer |-> "c1", by |-> "e2",
    lines |-> <<Line("set", 1, 200, 25, Null, 20, "NO_CAMPAIGN")>>],
   [store |-> "s2", customer |-> NoCustomer, by |-> "e2",
    lines |-> <<Line("v1", 1, 100, Null, 50, 10, "NO_CAMPAIGN")>>]}

\* Shirts come to the second store with a lot and a location, or with the
\* location only.
Goods1(variant, quantity, unitPrice, lot, location) ==
  [variant |-> variant, quantity |-> quantity, unitPrice |-> unitPrice, lot |-> lot, location |-> location]
MCDeliveries ==
  {[store |-> "s1", lines |-> {Goods1("v1", 4, 40, "lot1", None), Goods1("v2", 2, 20, None, None)}],
   [store |-> "s2", lines |-> {Goods1("v1", 2, 40, None, "shelf"), Goods1("v2", 2, 20, None, None)}],
   [store |-> "s2", lines |-> {Goods1("v1", 1, 40, "lot1", "shelf")}]}
MCWarehouse == [shelf |-> "depot"]
MCAdjustments == {<<"s1", "v1", -1>>}
MCTransfers == {<<"s1", "s2", "v1">>}
MCSwitches == {<<"s1", "v1">>}

\* After 30 days, when a month ends, and 60 days later; a clerk sells at the
\* beginning, on both days or on either.
MCMoments == {720, 2160}
MCRanges == {AllTime, MonthRange(0)}

\* No total is negative here.
ASSUME PricesAreFair == FairPrices
=============================================================================
