------------------------------ MODULE Reports ------------------------------
(***************************************************************************)
(* The reports of ReportsService over the history of a shop.  A report is  *)
(* a pure function of the tables; the properties relate reports that are   *)
(* computed along different paths (from sales, from their lines, from the  *)
(* movements, from the stock rows) and say how they change with time.      *)
(* Search filters and labels are left out.  The database's clock is UTC,   *)
(* as the code takes it to be.                                             *)
(***************************************************************************)
EXTENDS SaleViews, TLC

CONSTANTS
  Supplier,   \* Supplier[v]: supplier of v's product, or NoSupplier
  NoSupplier,
  Cost,       \* Cost[v]: defaultPurchasePrice
  Ranges      \* date ranges asked for

(* Dates. *)

In(t, range) == range.start <= t /\ t <= range.end
WholeDays(first, last) == [start |-> 24 * first, end |-> 24 * last + 23]
AllTime == WholeDays(0, Day(Max(Moments)))
Since(hours) == [start |-> now - hours, end |-> now]
DaysSince(t) == (now - t) \div 24

\* Weekdays and months; a month has 30 days here.
DayOfWeek(t) == Day(t) % 7
Month(t) == Day(t) \div 30
MonthRange(m) == WholeDays(30 * m, 30 * m + 29)

\* Math.round of a / b, for b > 0.
Rounded(a, b) == (2 * a + b) \div (2 * b)

\* What is compared is a count, a stock or a revenue, and never negative.
Trend(current, previous) ==
  IF previous = 0 THEN IF current = 0 THEN "SAME" ELSE "N/A"
  ELSE LET percent == Rounded(100 * (current - previous), previous)
       IN  IF percent > 0 THEN "INCREASE" ELSE IF percent < 0 THEN "DECREASE" ELSE "SAME"

-----------------------------------------------------------------------------
(* Sales, from the sales rows. *)

OfStatus(S, status) == {i \in S : sales[i].status = status}
Orders(scope, range) ==
  {i \in DOMAIN sales : sales[i].store \in scope /\ In(sales[i].at, range)}
Confirmed(scope, range) == OfStatus(Orders(scope, range), "CONFIRMED")
Cancelled(scope, range) ==
  {i \in DOMAIN sales : /\ sales[i].status = "CANCELLED" /\ sales[i].store \in scope
                        /\ In(sales[i].cancelledAt, range)}

Takings(S) ==
  [saleCount |-> Cardinality(S),
   totalUnitPrice |-> TotalOf(LAMBDA i : sales[i].unitPrice, S),
   totalRevenue |-> TotalOf(LAMBDA i : sales[i].lineTotal, S)]
Figures(S) ==
  [saleCount |-> Cardinality(S), confirmed |-> Takings(OfStatus(S, "CONFIRMED")),
   cancelledCount |-> Cardinality(OfStatus(S, "CANCELLED"))]

SalesSummary(scope, range) == Figures(Orders(scope, range))
StorePerformance(scope, range) ==
  Grouped(LAMBDA i : sales[i].store, Figures, Orders(scope, range))
EmployeeSalesPerformance(scope, range) ==
  Grouped(LAMBDA i : sales[i].by, Figures, Orders(scope, range))
SalesCancellations(scope, range) == Takings(Cancelled(scope, range))

\* Confirmed orders by the hour they were made, returned ones by the hour they
\* were cancelled: the total, the days of the range, today against another day.
MadeAt == [i \in DOMAIN sales |-> sales[i].at]
CancelledAt == [i \in DOMAIN sales |-> sales[i].cancelledAt]
OrdersOfTime(status, when, scope, range) ==
  {i \in OfStatus(Orders(scope, AllTime), status) : In(when[i], range)}
TotalOrdersByStatus(status, when, scope, range) ==
  Takings(OrdersOfTime(status, when, scope, range))
OrdersOfDay(status, when, scope, range, day) ==
  Takings({i \in OrdersOfTime(status, when, scope, range) : Day(when[i]) = day})
OrdersTrend(status, when, scope, compare) ==
  Trend(OrdersOfDay(status, when, scope, AllTime, Day(now)).saleCount,
        OrdersOfDay(status, when, scope, AllTime, compare).saleCount)

\* A period of so many hours is compared with the row before it, which need not be adjacent.
RevenueTrend(scope, range, hours) ==
  LET rows == Grouped(LAMBDA i : sales[i].at \div hours, Takings, Confirmed(scope, range))
      Before(p) == {q \in DOMAIN rows : q < p}
  IN  [p \in DOMAIN rows |->
         [takings |-> rows[p],
          trend |-> IF Before(p) = {} THEN "N/A"
                    ELSE Trend(rows[p].totalRevenue, rows[Max(Before(p))].totalRevenue)]]
WeekComparison(scope, weeks) == RevenueTrend(scope, Since(weeks * 7 * 24), 7 * 24)
Seasonality(scope) ==
  Grouped(LAMBDA i : Month(sales[i].at), Takings, Confirmed(scope, AllTime))

HourlySales(scope, range) ==
  LET S == Confirmed(scope, range)
  IN  [h \in 0..23 |-> Takings({i \in S : Hour(sales[i].at) = h})]
Heatmap(scope, range) ==
  Grouped(LAMBDA i : <<DayOfWeek(sales[i].at), Hour(sales[i].at)>>, Takings,
          Confirmed(scope, range))
EmployeeHourlyPerformance(scope, range) ==
  Grouped(LAMBDA i : <<sales[i].by, DayOfWeek(sales[i].at), Hour(sales[i].at)>>, Takings,
          Confirmed(scope, range))

\* Newest first.  Its names are taken by position from the rows of the join
\* with the lines, of which a sale has as many as it has lines.
AuditTrail(scope, range) ==
  LET rows == SetToSortSeq(Orders(scope, range),
                           LAMBDA i, j : sales[i].at > sales[j].at
                                         \/ (sales[i].at = sales[j].at /\ i < j))
      raw  == FlattenSeq([k \in DOMAIN rows |->
                            [n \in DOMAIN sales[rows[k]].lines |-> sales[rows[k]].by]])
  IN  [k \in DOMAIN rows |-> [sale |-> rows[k], createdBy |-> raw[k]]]

-----------------------------------------------------------------------------
(* Customers. *)

OrdersOfCustomers(scope, range) ==
  {i \in Orders(scope, range) : sales[i].customer # NoCustomer}
TopCustomers(scope, range) ==
  Grouped(LAMBDA i : sales[i].customer, Figures, OrdersOfCustomers(scope, range))

\* The summary of a page: all orders are counted, the amounts of the page added.
PurchaseHistory(scope, customer, page, limit) ==
  LET all  == {i \in OrdersOfCustomers(scope, AllTime) : sales[i].customer = customer}
      rows == Page(SetToSortSeq(all, LAMBDA i, j : i > j), page, limit)
      paid == OfStatus({rows[k] : k \in DOMAIN rows}, "CONFIRMED")
  IN  [data |-> rows, totalOrders |-> Cardinality(all), totalSpent |-> Takings(paid).totalRevenue]

Bucket(orders) == IF orders = 1 THEN "1" ELSE IF orders <= 3 THEN "2-3"
                  ELSE IF orders <= 10 THEN "4-10" ELSE "10+"
\* MUTANT of Segment: regulars are at risk after a month, all others only later.
SegmentSwapped(orders, days) ==
  IF orders >= 4 /\ days <= 30 THEN "CHAMPION"
  ELSE IF orders >= 2 /\ days >= 30 /\ days <= 60 THEN "AT_RISK"
  ELSE IF orders >= 2 /\ days <= 120 THEN "LOYAL" ELSE "LOST"

Segment(orders, days) ==
  IF orders >= 4 /\ days <= 30 THEN "CHAMPION"
  ELSE IF orders >= 2 /\ days <= 60 THEN "LOYAL"
  ELSE IF orders >= 2 /\ days > 60 /\ days <= 120 THEN "AT_RISK" ELSE "LOST"

\* Cancelled orders count as orders here.
CustomerFrequency(scope, range) ==
  LET LastOrder(S) == Max({sales[i].at : i \in S})
      Row(S)  == [orderCount |-> Cardinality(S), bucket |-> Bucket(Cardinality(S)),
                  segment |-> Segment(Cardinality(S), DaysSince(LastOrder(S)))]
  IN  Grouped(LAMBDA i : sales[i].customer, Row, OrdersOfCustomers(scope, range))

-----------------------------------------------------------------------------
(* Sales, from the lines. *)

LinesOf(S) == UNION {{<<i, j>> : j \in DOMAIN sales[i].lines} : i \in S}
LineAt(x) == sales[x[1]].lines[x[2]]
VariantLines(S) == {x \in LinesOf(S) : LineAt(x).item \in Variants}
PackageLines(S) == {x \in LinesOf(S) : LineAt(x).item \in Packages}
LinesOfVariant(S, v) == {x \in LinesOf(S) : LineAt(x).item = v}

SalesIn(L) == Cardinality({x[1] : x \in L})
Quantity(L) == TotalOf(LAMBDA x : LineAt(x).quantity, L)
NetOf(L) == TotalOf(LAMBDA x : Net(LineAt(x)), L)
Revenue(L) == TotalOf(LAMBDA x : LineAt(x).lineTotal, L)
DiscountOf(L) == TotalOf(LAMBDA x : Discount(LineAt(x), Net(LineAt(x))), L)

ItemRow(L) ==
  [saleCount |-> SalesIn(L), quantity |-> Quantity(L), totalUnitPrice |-> NetOf(L),
   totalDiscount |-> DiscountOf(L),
   totalTax |-> TotalOf(LAMBDA x : Tax(LineAt(x), Taxable(LineAt(x))), L), lineTotal |-> Revenue(L)]
\* A package's percentages are taken of its total; its net is not added.
PackageRow(L) ==
  [saleCount |-> SalesIn(L), quantity |-> Quantity(L), totalUnitPrice |-> 0,
   totalDiscount |-> TotalOf(LAMBDA x : Discount(LineAt(x), LineAt(x).lineTotal), L),
   totalTax |-> TotalOf(LAMBDA x : Tax(LineAt(x), LineAt(x).lineTotal), L), lineTotal |-> Revenue(L)]

SalesByProduct(scope, range) ==
  Grouped(LAMBDA x : LineAt(x).item, ItemRow, VariantLines(Confirmed(scope, range)))
    @@ Grouped(LAMBDA x : LineAt(x).item, PackageRow, PackageLines(Confirmed(scope, range)))

SupplierSalesPerformance(scope, range) ==
  Grouped(LAMBDA x : Supplier[LineAt(x).item], ItemRow,
          {x \in VariantLines(Confirmed(scope, range)) : Supplier[LineAt(x).item] # NoSupplier})

ProfitMargin(scope, range) ==
  LET Row(L) == [totalRevenue |-> Revenue(L),
                 grossProfit |-> Revenue(L) - TotalOf(LAMBDA x : LineAt(x).quantity * Cost[LineAt(x).item], L)]
  IN  Grouped(LAMBDA x : LineAt(x).item, Row, VariantLines(Confirmed(scope, range)))

\* Best sellers first; the class is decided by the share up to and with the
\* row, so a single best seller above 95 percent is in class C.
ABCAnalysis(scope, range) ==
  LET rows  == Grouped(LAMBDA x : LineAt(x).item, Revenue, VariantLines(Confirmed(scope, range)))
      order == SetToSortSeq(DOMAIN rows, LAMBDA v, w : rows[v] > rows[w])
      all   == TotalOf(LAMBDA v : rows[v], DOMAIN rows)
      UpTo(k) == TotalOf(LAMBDA n : rows[order[n]], 1..k)
      Class(k) == IF 100 * UpTo(k) <= 80 * all THEN "A"
                  ELSE IF 100 * UpTo(k) <= 95 * all THEN "B" ELSE "C"
  IN  [k \in DOMAIN order |-> [variant |-> order[k], revenue |-> rows[order[k]], class |-> Class(k)]]

VariantComparison(scope, range, product) ==
  LET L == {x \in VariantLines(Confirmed(scope, range)) : Product[LineAt(x).item] = product}
      Row(M) == [soldQuantity |-> Quantity(M), revenue |-> Revenue(M)]
  IN  Grouped(LAMBDA x : LineAt(x).item, Row, L)

DiscountRow(L) ==
  [saleCount |-> SalesIn(L), totalDiscount |-> DiscountOf(L), totalRevenue |-> Revenue(L)]
DiscountBy(key(_), scope, range) == Grouped(key, DiscountRow, LinesOf(Confirmed(scope, range)))
DiscountEffectiveness(scope, range) == DiscountBy(LAMBDA x : LineAt(x).campaign, scope, range)

Band(percent) ==
  IF percent = Null \/ percent = 0 THEN "0%" ELSE IF percent <= 10 THEN "1-10%"
  ELSE IF percent <= 20 THEN "11-20%" ELSE IF percent <= 30 THEN "21-30%"
  ELSE IF percent <= 50 THEN "31-50%" ELSE "50%+"
SalesByDiscountBand(scope, range) == DiscountBy(LAMBDA x : Band(LineAt(x).discountPercent), scope, range)

DiscountSummary(scope, range) ==
  [byCampaign |-> DiscountEffectiveness(scope, range),
   byEmployee |-> DiscountBy(LAMBDA x : sales[x[1]].by, scope, range),
   byStore |-> DiscountBy(LAMBDA x : sales[x[1]].store, scope, range)]

\* Tax by rate, of the net amount: a discount is not taken off first.
TaxRows(S) ==
  LET Row(L) == [transactionCount |-> SalesIn(L), netSales |-> NetOf(L),
                 taxAmount |-> TotalOf(LAMBDA x : Tax(LineAt(x), Net(LineAt(x))), L)]
      Rate(x) == IF LineAt(x).taxPercent = Null THEN 0 ELSE LineAt(x).taxPercent
  IN  Grouped(Rate, Row, LinesOf(S))
TaxSummary(scope, range) == TaxRows(Confirmed(scope, range))

\* What was cancelled in the month is taken off, at the rates something was sold.
VatSummary(scope, month) ==
  LET sold == TaxSummary(scope, MonthRange(month))
      back == TaxRows(Cancelled(scope, MonthRange(month)))
      Off(r, n) == IF r \in DOMAIN back THEN n ELSE 0
  IN  [r \in DOMAIN sold |->
         [netSales |-> sold[r].netSales - Off(r, back[r].netSales),
          taxAmount |-> sold[r].taxAmount - Off(r, back[r].taxAmount)]]

-----------------------------------------------------------------------------
(* Stock: the rows that are open in their store, and the movements. *)

LinkedVariants(scope) == {r[2] : r \in LinkedRows(scope)}
VariantStock(scope, v) == StockOf({r \in LinkedRows(scope) : r[2] = v})

StockSummary(scope) == Grouped(LAMBDA r : Product[r[2]], StockOf, LinkedRows(scope))
LowStock(scope, threshold) == {r \in LinkedRows(scope) : stock[r[1]][r[2]] <= threshold}

ProductPerformanceRanking(scope, range) ==
  LET rows == SalesByProduct(scope, range)
      Status(n) == IF n <= 0 THEN "OUT_OF_STOCK" ELSE IF n <= 10 THEN "LOW" ELSE "IN_STOCK"
  IN  [x \in DOMAIN rows |->
         [soldQuantity |-> rows[x].quantity, saleCount |-> rows[x].saleCount,
          stockStatus |-> IF x \in Packages THEN "none" ELSE Status(VariantStock(scope, x))]]

MovesIn(scope, range) ==
  {k \in DOMAIN movements : movements[k].store \in scope /\ In(movements[k].at, range)}
NetQuantity(K) == TotalOf(LAMBDA k : movements[k].quantity, K)

\* MUTANT of TotalStockQuantity: the movements of the day itself are taken off too.
TotalStockQuantityFromDay(scope, day) ==
  StockOf(LinkedRows(scope)) - NetQuantity({k \in MovesIn(scope, AllTime) : Day(movements[k].at) >= day})

\* Today's stock of the open rows, less every movement of later days.
TotalStockQuantity(scope, day) ==
  StockOf(LinkedRows(scope)) - NetQuantity({k \in MovesIn(scope, AllTime) : Day(movements[k].at) > day})
StockChange(scope, day) == Trend(StockOf(LinkedRows(scope)), TotalStockQuantity(scope, day))

InventoryMovementsSummary(scope, range) ==
  LET Row(K) == [movementCount |-> Cardinality(K), totalQuantity |-> NetQuantity(K)]
  IN  Grouped(LAMBDA k : movements[k].type, Row, MovesIn(scope, range))

Price(k) == IF movements[k].unitPrice = Null THEN 0 ELSE movements[k].unitPrice
\* Receipts, and what customers brought back at their price.
COGSMovement(scope, range) ==
  LET Row(K) == [totalQuantity |-> NetQuantity(K),
                 totalCost |-> TotalOf(LAMBDA k : Price(k) * movements[k].quantity, K)]
  IN  Grouped(LAMBDA k : movements[k].variant, Row,
              {k \in MovesIn(scope, range) : movements[k].type = "IN"})

\* MUTANT of LastSold: a cancelled sale keeps its goods from being dead stock.
LastSoldAny(scope, v) ==
  LET L == LinesOfVariant(Orders(scope, AllTime), v)
  IN  IF L = {} THEN Null ELSE Max({sales[x[1]].at : x \in L})

\* The variants of a package are sold by no line of their own.
LastSold(scope, v) ==
  LET L == LinesOfVariant(Confirmed(scope, AllTime), v)
  IN  IF L = {} THEN Null ELSE Max({sales[x[1]].at : x \in L})

DeadStock(scope, noSaleDays) ==
  {v \in LinkedVariants(scope) :
     /\ VariantStock(scope, v) > 0
     /\ LastSold(scope, v) = Null \/ DaysSince(LastSold(scope, v)) >= noSaleDays}

SupplyDays(inStock, sold, days) == IF sold = 0 THEN Null ELSE Rounded(inStock * days, sold)

\* sold / (stock + sold / 2) is at most 2.
StockTurnover(scope, periodDays) ==
  LET Sold(v) == Quantity(LinesOfVariant(Confirmed(scope, Since(24 * periodDays)), v))
      Row(have, sold) ==
        [soldQuantity |-> sold, supplyDays |-> SupplyDays(have, sold, periodDays),
         classification |-> IF sold = 0 THEN "SLOW"
                            ELSE IF 2 * sold >= 4 * (2 * have + sold) THEN "FAST"
                            ELSE IF 2 * sold >= 2 * have + sold THEN "NORMAL" ELSE "SLOW"]
  IN  [v \in LinkedVariants(scope) |-> Row(VariantStock(scope, v), Sold(v))]

ReorderAnalysis(scope, safetyDays) ==
  LET Sold(r) == Quantity(LinesOfVariant(Confirmed({r[1]}, Since(24 * 30)), r[2]))
      Urgency(days) == IF days # Null /\ days <= safetyDays THEN "CRITICAL"
                       ELSE IF days # Null /\ days <= 2 * safetyDays THEN "WARNING" ELSE "NORMAL"
      Row(have, sold) ==
        [soldLast30 |-> sold, reorderPoint |-> (sold * safetyDays + 29) \div 30,
         urgency |-> Urgency(SupplyDays(have, sold, 30))]
  IN  [r \in LinkedRows(scope) |-> Row(stock[r[1]][r[2]], Sold(r))]

\* Days since the last receipt of the variant anywhere in the scope; 999 if none.
DaysInStock(scope, v) ==
  LET K == {k \in MovesIn(scope, AllTime) : movements[k].type = "IN" /\ movements[k].variant = v}
  IN  IF K = {} THEN 999 ELSE DaysSince(Max({movements[k].at : k \in K}))
AgingBucket(days) == IF days <= 30 THEN 1 ELSE IF days <= 60 THEN 2 ELSE IF days <= 90 THEN 3
                     ELSE IF days <= 180 THEN 4 ELSE 5
StockAging(scope) ==
  [b \in 1..5 |-> TotalOf(LAMBDA v : VariantStock(scope, v),
                        {v \in LinkedVariants(scope) : /\ VariantStock(scope, v) > 0
                                                       /\ AgingBucket(DaysInStock(scope, v)) = b})]

-----------------------------------------------------------------------------
(* Properties. *)

\* One revenue, along every path: the headers of the confirmed sales (which
\* returns rewrite), grouped in six ways, and their lines, grouped in five.
RevenueAgrees(scope, range) ==
  LET revenue == SalesSummary(scope, range).confirmed.totalRevenue
      Sums(rows) == Column(rows, LAMBDA r : r.totalRevenue) = revenue
      abc == ABCAnalysis(scope, range)
      parts == TotalOf(LAMBDA k : abc[k].revenue, DOMAIN abc)
  IN  /\ Column(StorePerformance(scope, range), LAMBDA r : r.confirmed.totalRevenue) = revenue
      /\ Column(EmployeeSalesPerformance(scope, range), LAMBDA r : r.confirmed.totalRevenue) = revenue
      /\ range = AllTime => Sums(Seasonality(scope))
      /\ Sums(HourlySales(scope, range)) /\ Sums(Heatmap(scope, range))
      /\ Sums(EmployeeHourlyPerformance(scope, range))
      /\ Column(RevenueTrend(scope, range, 24), LAMBDA r : r.takings.totalRevenue) = revenue
      /\ Sums(DiscountEffectiveness(scope, range)) /\ Sums(SalesByDiscountBand(scope, range))
      /\ Column(SalesByProduct(scope, range), LAMBDA r : r.lineTotal) = revenue
      /\ Column(SupplierSalesPerformance(scope, range), LAMBDA r : r.lineTotal)
           = Revenue({x \in VariantLines(Confirmed(scope, range)) : Supplier[LineAt(x).item] # NoSupplier})
      /\ Column(ProfitMargin(scope, range), LAMBDA r : r.totalRevenue) = parts
      /\ parts = revenue - Revenue(PackageLines(Confirmed(scope, range)))
      /\ TotalOf(LAMBDA p : Column(VariantComparison(scope, range, p), LAMBDA r : r.revenue),
               {Product[v] : v \in Variants}) = parts

\* Every sale is counted once: by status, by customer or none, by page of a
\* customer's history; and all that was returned is what was cancelled.  The
\* audit trail names the clerk of a sale when all before it have one line.
CountsAgree(scope, range) ==
  LET all    == SalesSummary(scope, range)
      trail  == AuditTrail(scope, range)
      groups == DiscountSummary(scope, range)
      Spent(c, limit) == TotalOf(LAMBDA p : PurchaseHistory(scope, c, p, limit).totalSpent, 1..MaxSales)
  IN  /\ all.saleCount = all.confirmed.saleCount + all.cancelledCount
      /\ Column(TopCustomers(scope, range), LAMBDA r : r.saleCount)
           = Column(CustomerFrequency(scope, range), LAMBDA r : r.orderCount)
      /\ \A c \in Customers :
           Spent(c, 0) = Takings({i \in Confirmed(scope, AllTime) : sales[i].customer = c}).totalRevenue
      /\ SalesCancellations(scope, AllTime).saleCount = SalesSummary(scope, AllTime).cancelledCount
      /\ TotalOrdersByStatus("CANCELLED", CancelledAt, scope, range) = SalesCancellations(scope, range)
      /\ TotalOrdersByStatus("CONFIRMED", MadeAt, scope, range) = all.confirmed
      /\ TotalOf(LAMBDA d : OrdersOfDay("CONFIRMED", MadeAt, scope, range, d).saleCount,
               {Day(t) : t \in Moments \cup {0}})
           = all.confirmed.saleCount
      /\ \A k \in DOMAIN trail :
           (\A n \in 1..(k - 1) : Len(sales[trail[n].sale].lines) = 1)
             => trail[k].createdBy = sales[trail[k].sale].by
      /\ \A d \in {"byEmployee", "byStore"} :
           Column(groups[d], LAMBDA r : r.totalDiscount)
             = Column(groups.byCampaign, LAMBDA r : r.totalDiscount)

\* The months of the VAT summary are a partition of time: together they show
\* the tax summary of all time, less the cancelled lines of a rate in each
\* month that sold something at the rate.
MonthsAddUp(scope) ==
  LET Off(m) == LET back == TaxRows(Cancelled(scope, MonthRange(m)))
                IN  TotalOf(LAMBDA r : back[r].netSales,
                          DOMAIN back \cap DOMAIN TaxSummary(scope, MonthRange(m)))
  IN  TotalOf(LAMBDA m : Column(VatSummary(scope, m), LAMBDA r : r.netSales) + Off(m), 0..Month(Max(Moments)))
        = Column(TaxSummary(scope, AllTime), LAMBDA r : r.netSales)

\* The books agree: getSalesSummaryReport and the reports that split it up,
\* after any sequence of sales, returns and cancellations.
BooksAgree ==
  /\ DetailsAgree /\ HistoryAddsUp
  /\ \A scope \in Scopes :
       /\ \A range \in Ranges : RevenueAgrees(scope, range) /\ CountsAgree(scope, range)
       /\ MonthsAddUp(scope) /\ ListsAreComplete(scope) /\ ViewsAgree(scope)
       /\ Column(WeekComparison(scope, 5), LAMBDA r : r.takings.totalRevenue)
            = SalesSummary(scope, Since(24 * 35)).confirmed.totalRevenue

\* The stock of a table in one store, in a scope, and in its closed rows.
StoreStock(table, s) == TotalOf(LAMBDA v : table[s][v], Variants)
AllStock(scope, table) == TotalOf(LAMBDA s : StoreStock(table, s), scope)
ClosedStock(scope) == AllStock(scope, stock) - StockOf(LinkedRows(scope))

\* The stock of a past day, computed backwards from today, is what the rows
\* held when that day ended, but for the rows that are closed by now.
PastIsRebuilt(scope) ==
  \A k \in DOMAIN closing : \A day \in {closing[k].first, closing[k].last} :
    TotalStockQuantity(scope, day) = AllStock(scope, closing[k].stock) - ClosedStock(scope)

\* The movements by type are all of the stock; the receipts are those of the
\* variants' costs.
MovementsAddUp(scope) ==
  LET summary == InventoryMovementsSummary(scope, AllTime) IN
  /\ Column(summary, LAMBDA r : r.totalQuantity) = AllStock(scope, stock)
  /\ Column(COGSMovement(scope, AllTime), LAMBDA r : r.totalQuantity)
       = IF "IN" \in DOMAIN summary THEN summary["IN"].totalQuantity ELSE 0

\* The stock of the products is that of the rows that are not low and that of
\* every age; what is out of stock is low in every store.
RowsAddUp(scope) ==
  LET summary == StockSummary(scope)
      ranking == ProductPerformanceRanking(scope, AllTime)
  IN  /\ TotalOf(LAMBDA p : summary[p], DOMAIN summary)
           = StockOf(LowStock(scope, 0)) + TotalOf(LAMBDA b : StockAging(scope)[b], 1..5)
      /\ \A v \in DOMAIN ranking \cap Variants :
           (ranking[v].stockStatus = "OUT_OF_STOCK")
             = ({r \in LinkedRows(scope) : r[2] = v} \subseteq LowStock(scope, 0))

\* The reports of the stock agree with its rows, today and for the days that
\* have passed (getTotalStockQuantityReport,
\* getInventoryMovementsSummaryReport, getStockAgingReport).
StockAgrees ==
  /\ ShopTypeOK
  /\ \A scope \in Scopes : PastIsRebuilt(scope) /\ MovementsAddUp(scope) /\ RowsAddUp(scope)

\* What stores sold of a variant, as the rows of the reorder analysis have it.
StoresSold(rows, v, S) == TotalOf(LAMBDA s : rows[<<s, v>>].soldLast30, S)

\* What the reports of one scope say of the demand.
DemandAgreesIn(scope) ==
  LET turnover == StockTurnover(scope, 30)
      reorder  == ReorderAnalysis(scope, 7)
      dead     == DeadStock(scope, 30)
      recent(v) == LinesOfVariant(Confirmed(scope, Since(24 * 30)), v)
  IN  /\ \A v \in dead :
           turnover[v].soldQuantity = 0 \/ now - LastSold(scope, v) = 24 * 30
      /\ \A v \in DOMAIN turnover \ dead : VariantStock(scope, v) > 0 =>
           turnover[v].soldQuantity > 0 \/ \E x \in recent(v) : LineAt(x).quantity = 0
      /\ \A v \in DOMAIN turnover :
           LET open == {s \in scope : linked[s][v]} IN
           open = scope => StoresSold(reorder, v, open) = turnover[v].soldQuantity
      /\ \A r \in DOMAIN reorder :
           stock[r[1]][r[2]] < reorder[r].reorderPoint => reorder[r].urgency = "CRITICAL"
      /\ \A v \in DOMAIN turnover : turnover[v].classification # "FAST" \/ VariantStock(scope, v) = 0

\* Demand is read in one way: dead stock sold nothing in the same number of
\* days; other stock did, or was brought back.  The stores' sales of the reorder
\* analysis are those of the turnover, and stock below the reorder point is
\* critical.
DemandAgrees == \A scope \in Scopes : DemandAgreesIn(scope)

Rank(segment) == CHOOSE k \in 1..4 : <<"LOST", "AT_RISK", "LOYAL", "CHAMPION">>[k] = segment

\* When only time passes, a customer's segment never improves, stock never
\* gets younger and dead stock stays dead (getCustomerFrequencyReport,
\* getStockAgingReport, getDeadStockReport).
TimeOnlyAges ==
  [][now' # now =>
       /\ \A c \in DOMAIN CustomerFrequency(Stores, AllTime) :
            Rank(CustomerFrequency(Stores, AllTime)'[c].segment)
              <= Rank(CustomerFrequency(Stores, AllTime)[c].segment)
       /\ \A v \in Variants : AgingBucket(DaysInStock(Stores, v)) <= AgingBucket(DaysInStock(Stores, v))'
       /\ DeadStock(Stores, 30) \subseteq DeadStock(Stores, 30)']_shopVars
=============================================================================
