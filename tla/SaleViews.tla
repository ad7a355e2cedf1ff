------------------------------ MODULE SaleViews ------------------------------
(***************************************************************************)
(* What SalesService shows of the sales and of the returns: one sale with  *)
(* what is left of its packages, the list of sales, the returns of a sale  *)
(* and of all.  Names, references and the text search are left out;        *)
(* payments are in SalePayments.                                           *)
(***************************************************************************)
EXTENDS StockViews

Newest(rows, at(_)) ==
  SetToSortSeq(rows, LAMBDA x, y : at(x) > at(y) \/ (at(x) = at(y) /\ x # y /\ SetToSeq({x, y})[1] = x))

-----------------------------------------------------------------------------
(* One sale. *)

UnitsReturned(sale, j) == TotalOf(LAMBDA k : sale.returns[k].quantity, ReturnsOf(sale, j))

\* What the customer still has of a package line's variants, how many whole
\* packages that makes, and how many that lack a variant.
Floor(a, b) == IF a >= 0 THEN a \div b ELSE -((-a + b - 1) \div b)
PackageVariantPool(sale, j) ==
  LET l    == sale.lines[j]
      per  == Recipe[l.item]
      used == {v \in Variants : per[v] > 0}
      pool == [v \in used |->
                 [sold |-> Goods(l, l.quantity)[v], returned |-> PartsReturned(sale, j, v),
                  remaining |-> Goods(l, l.quantity)[v] - PartsReturned(sale, j, v)]]
      complete == Min({Floor(pool[v].remaining, per[v]) : v \in used})
      slots(v) == Floor(pool[v].remaining - complete * per[v], per[v])
      partial  == Max({slots(v) : v \in used})
  IN  [variantPool |-> pool, completePackagesRemaining |-> complete,
       incompletePackageCount |-> partial,
       missingVariants |-> {v \in used : partial > 0 /\ slots(v) < partial}]

\* MUTANT of OriginalQuantity: the line's quantity counts as the original one.
OriginalQuantityNow(sale, j) == sale.lines[j].quantity

OriginalQuantity(sale, j) == sale.lines[j].quantity + UnitsReturned(sale, j)

SaleDetail(i) ==
  LET sale == sales[i] IN
  [j \in DOMAIN sale.lines |->
     [quantity |-> sale.lines[j].quantity, originalQuantity |-> OriginalQuantity(sale, j),
      returnedQuantity |-> UnitsReturned(sale, j)]]

-----------------------------------------------------------------------------
(* Lists, newest first. *)

\* A bound that is Null is not asked for; the lower one may not be above the upper one.
Within(n, min, max) == (min = Null \/ n >= min) /\ (max = Null \/ n <= max)
BadBounds(min, max) == min # Null /\ max # Null /\ min > max

SalesForStore(context, asked, status, min, max, page, limit) ==
  LET found == {i \in DOMAIN sales : /\ sales[i].store \in ScopeOf(context, asked)
                                     /\ sales[i].status \in status
                                     /\ Within(sales[i].lineTotal, min, max)}
      order == Newest(found, LAMBDA i : sales[i].at)
  IN  IF BadBounds(min, max) THEN [data |-> <<>>, total |-> 0]
      ELSE [data |-> Page(order, page, limit), total |-> Len(order)]

SaleReturns(i) ==
  Newest({<<i, k>> : k \in DOMAIN sales[i].returns}, LAMBDA x : sales[i].returns[x[2]].at)

\* The days are those of the database's clock.
ListReturns(context, asked, first, last) ==
  LET all == {x \in UNION {Range(SaleReturns(i)) : i \in DOMAIN sales} :
                /\ sales[x[1]].store \in ScopeOf(context, asked)
                /\ Within(Day(sales[x[1]].returns[x[2]].at), first, last)}
  IN  Newest(all, LAMBDA x : sales[x[1]].returns[x[2]].at)

\* A return of another store is not found from within a store.
FindSaleReturn(context, x) ==
  IF context \in {NoStore, sales[x[1]].store} THEN {sales[x[1]].returns[x[2]]} ELSE {}

-----------------------------------------------------------------------------
(* Properties. *)

\* The goods of a sale are told twice, by its lines with their returns and by the
\* movements, and the tales agree: what went out is the original quantity that the
\* detail shows; and of an open sale, what the pool of a package shows as remaining
\* is what went out and has not come back (findOne, buildPackageVariantPool).
DetailsAgree ==
  \A i \in DOMAIN sales : \A j \in DOMAIN sales[i].lines :
    LET sale == sales[i]
        l    == sale.lines[j]
        K    == {k \in DOMAIN movements : movements[k].ref = <<i, j>>}
        Moved(type, v) == TotalOf(LAMBDA k : movements[k].quantity,
                                {k \in K : movements[k].variant = v /\ movements[k].type = type})
        Has(v) == -Moved("OUT", v) - Moved("IN", v)
    IN  /\ \A v \in Variants : -Moved("OUT", v) = Goods(l, SaleDetail(i)[j].originalQuantity)[v]
        /\ sale.status = "CONFIRMED" =>
             IF l.item \in Variants THEN Has(l.item) = SaleDetail(i)[j].quantity
             ELSE LET pool == PackageVariantPool(sale, j)
                  IN  /\ \A v \in DOMAIN pool.variantPool : pool.variantPool[v].remaining = Has(v)
                      /\ pool.missingVariants = {} => pool.incompletePackageCount <= 0

\* Every sale is on one page of the list and every return in the list of a store
\* and of its sale, newest first; the days of the history are a partition of the
\* returns, and a store finds its own returns only (findAllForStore,
\* listSaleReturns, listAllSaleReturns, getSaleReturn).
ListsAreComplete(scope) ==
  LET all(page)  == SalesForStore(NoStore, scope, {"CONFIRMED", "CANCELLED"}, Null, Null, page, 1)
      open       == SalesForStore(NoStore, scope, {"CONFIRMED"}, Null, Null, 1, 100).data
      cheap(n)   == SalesForStore(NoStore, scope, {"CONFIRMED"}, Null, n, 1, 100).total
      dear(n)    == SalesForStore(NoStore, scope, {"CONFIRMED"}, n + 1, Null, 1, 100).total
      backs      == ListReturns(NoStore, scope, Null, Null)
  IN  /\ {all(page).data[1] : page \in 1..all(1).total} = {i \in DOMAIN sales : sales[i].store \in scope}
      /\ \A k \in 1..(Len(open) - 1) : sales[open[k]].at >= sales[open[k + 1]].at
      /\ \A k \in DOMAIN open : LET n == sales[open[k]].lineTotal IN cheap(n) + dear(n) = Len(open)
      /\ Len(backs) = TotalOf(LAMBDA i : Len(SaleReturns(i)), {i \in DOMAIN sales : sales[i].store \in scope})
      /\ \A d \in {Day(t) : t \in Moments \cup {0}} :
           Len(backs) = Len(ListReturns(NoStore, scope, Null, d)) + Len(ListReturns(NoStore, scope, d + 1, Null))
      /\ \A k \in DOMAIN backs : FindSaleReturn(sales[backs[k][1]].store, backs[k]) # {}
=============================================================================
