----------------------------- MODULE StockViews -----------------------------
(***************************************************************************)
(* What InventoryService shows of the stock: the open rows of a store, of  *)
(* the tenant and of a variant, the history of the movements, the alerts   *)
(* and the balances of lots and locations.  Prices and names of a row are  *)
(* left out, and so is the text search.  A page is a part of a sequence;   *)
(* stores, products and variants are listed in any fixed order.            *)
(***************************************************************************)
EXTENDS ShopHistory

CONSTANTS
  NoStore,   \* no store in the request's context
  Warehouse  \* Warehouse[l]: the warehouse of location l

ScopeOf(context, asked) ==
  IF context # NoStore THEN {context} ELSE IF asked = {} THEN Stores ELSE asked
Scopes == {ScopeOf(c, a) : c \in Stores \cup {NoStore}, a \in SUBSET Stores}

MinLimit(n) == IF n < 1 THEN 1 ELSE IF n > 100 THEN 100 ELSE n
Slice(rows, skip, limit) ==
  SubSeq(rows, skip + 1, IF skip + limit > Len(rows) THEN Len(rows) ELSE skip + limit)
Page(rows, page, limit) == Slice(rows, (page - 1) * MinLimit(limit), MinLimit(limit))
PageCount(total, limit) == (total + limit - 1) \div limit

\* GROUP BY: one row for each value of the key.
Grouped(key(_), row(_), S) ==
  [k \in {key(x) : x \in S} |-> row({x \in S : key(x) = k})]
Column(rows, f(_)) == TotalOf(LAMBDA k : f(rows[k]), DOMAIN rows)

-----------------------------------------------------------------------------

\* A row that is not open in its store is in no list, whatever it holds.
LinkedRows(scope) == {r \in scope \X Variants : linked[r[1]][r[2]]}
StockOf(rows) == TotalOf(LAMBDA r : stock[r[1]][r[2]], rows)

\* It can still be asked for by name.
StockForVariantInStore(s, v) == stock[s][v]

StoreStockSummary(s) ==
  [items |-> [v \in {r[2] : r \in LinkedRows({s})} |-> stock[s][v]],
   totalQuantity |-> StockOf(LinkedRows({s}))]

\* Products, their variants and the variants' stores.
ProductItem(rows) ==
  [totalQuantity |-> StockOf(rows),
   variants |-> Grouped(LAMBDA r : r[2],
                        LAMBDA R : [totalQuantity |-> StockOf(R),
                                    stores |-> [s \in {r[1] : r \in R} |-> StockOf({r \in R : r[1] = s})]],
                        rows)]
\* A page shows some of the products; the total is that of all pages.
TenantStockSummary(context, asked, page, limit) ==
  LET items == Grouped(LAMBDA r : Product[r[2]], ProductItem, LinkedRows(ScopeOf(context, asked)))
      order == SetToSeq(DOMAIN items)
      shown == Page(order, page, limit)
  IN  [data |-> [k \in DOMAIN shown |-> items[shown[k]]],
       meta |-> [total |-> Len(order), totalPages |-> PageCount(Len(order), MinLimit(limit))],
       totalQuantity |-> Column(items, LAMBDA item : item.totalQuantity)]

\* All stores of the tenant, whatever store the request comes from.
VariantStockByStore(v, page, limit) ==
  LET rows  == {r \in LinkedRows(Stores) : r[2] = v}
      order == SetToSeq(rows)
      shown == Page(order, page, limit)
  IN  [data |-> [k \in DOMAIN shown |-> [store |-> shown[k][1], quantity |-> stock[shown[k][1]][v]]],
       meta |-> [total |-> Len(order), totalPages |-> PageCount(Len(order), MinLimit(limit))],
       totalQuantity |-> StockOf(rows)]

\* The threshold counts as low; the context's store is not looked at.
LowStockAlerts(asked, threshold) ==
  {r \in LinkedRows(ScopeOf(NoStore, asked)) : StockForVariantInStore(r[1], r[2]) <= threshold}

-----------------------------------------------------------------------------
(* Movements, newest first; a filter that is not asked for is AnyOf. *)

AnyOf == "any"
Filters == [store : Stores \cup {AnyOf}, variant : Variants \cup {AnyOf},
            type : {"IN", "OUT", AnyOf}, warehouse : {Warehouse[l] : l \in DOMAIN Warehouse} \cup {AnyOf}]
Asked(f, m) ==
  /\ f.store \in {AnyOf, m.store} /\ f.variant \in {AnyOf, m.variant} /\ f.type \in {AnyOf, m.type}
  /\ f.warehouse # AnyOf => m.location # None /\ Warehouse[m.location] = f.warehouse

\* What a page adds to a movement: its product, and the warehouse of its location.
Enriched(m) ==
  [movement |-> m, product |-> Product[m.variant],
   warehouse |-> IF m.location = None THEN None ELSE Warehouse[m.location]]

MovementHistory(f, offset, limit) ==
  LET found == SelectSeq(Reverse(movements), LAMBDA m : Asked(f, m))
      shown == Slice(found, offset, limit)
  IN  [data |-> [k \in DOMAIN shown |-> Enriched(shown[k])], total |-> Len(found),
       hasMore |-> offset + Len(shown) < Len(found)]

\* Balances of a store and a variant.
StockBalances(s, v) == [k \in {b \in DOMAIN balances : b[1] = s /\ b[2] = v} |-> balances[k]]

-----------------------------------------------------------------------------
(* Properties. *)

\* The lists of the stock are one stock: the pages of the tenant's summary hold
\* every product once and add up to the total that each page shows, which is
\* that of the stores' summaries and that of the variants' (getStockSummary,
\* getStoreStockSummary, getVariantStockByStore).
ViewsAgree(scope) ==
  LET first == TenantStockSummary(NoStore, scope, 1, 1)
      shown == UNION {Range(TenantStockSummary(NoStore, scope, page, 1).data) : page \in 1..first.meta.totalPages}
      here  == [s \in scope |-> StoreStockSummary(s)]
      InScope(v) == LET list == VariantStockByStore(v, 1, 100).data
                    IN  TotalOf(LAMBDA k : list[k].quantity, {k \in DOMAIN list : list[k].store \in scope})
  IN  /\ Cardinality(shown) = first.meta.total
      /\ TotalOf(LAMBDA item : item.totalQuantity, shown) = first.totalQuantity
      /\ Column(here, LAMBDA summary : summary.totalQuantity) = first.totalQuantity
      /\ TotalOf(InScope, Variants) = first.totalQuantity
      /\ \A item \in shown :
           item.totalQuantity = Column(item.variants, LAMBDA r : Column(r.stores, LAMBDA n : n))
      /\ \A s \in scope : \A v \in DOMAIN here[s].items :
           <<s, v>> \in LowStockAlerts(scope, StockForVariantInStore(s, v))

\* Paged two at a time, the history of a filter shows each of its movements once
\* and newest first, and the history of a row adds up to its stock; the balances
\* of a variant hold every unit that was received with a lot or a location
\* (getMovementHistory, applyMovementToStockBalance).
HistoryAddsUp ==
  /\ \A f \in {g \in Filters : g.store = AnyOf /\ AnyOf \in {g.type, g.warehouse}} :
       LET Part(n) == MovementHistory(f, 2 * n, 2)
           last    == CHOOSE n \in 0..Len(movements) : ~Part(n).hasMore
           shown   == FlattenSeq([n \in 1..(last + 1) |-> Part(n - 1).data])
       IN  /\ Len(shown) = Part(0).total
           /\ \A k \in 1..(Len(shown) - 1) : shown[k].movement.at >= shown[k + 1].movement.at
           /\ f.warehouse # AnyOf => \A k \in DOMAIN shown : shown[k].warehouse = f.warehouse
  /\ \A s \in Stores, v \in Variants :
       LET all == MovementHistory([store |-> s, variant |-> v, type |-> AnyOf, warehouse |-> AnyOf],
                                  0, Len(movements)).data
       IN  /\ TotalOf(LAMBDA k : all[k].movement.quantity, DOMAIN all) = StockForVariantInStore(s, v)
           /\ TotalOf(LAMBDA k : all[k].movement.quantity, {k \in DOMAIN all : Tracked(all[k].movement)})
                = Column(StockBalances(s, v), LAMBDA q : q)
=============================================================================
