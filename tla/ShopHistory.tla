---------------------------- MODULE ShopHistory ----------------------------
(***************************************************************************)
(* What the reports read: the sales of a tenant with their lines, the      *)
(* stock movements and the stock rows, as they grow over months.  Every    *)
(* request is one step here; SaleGoods and StockLedger model what happens  *)
(* when requests overlap.  Time is counted in hours.  Amounts are whole;   *)
(* the baskets are priced so that every percentage is exact.               *)
(***************************************************************************)
EXTENDS Integers, Sequences, FiniteSets, FiniteSetsExt, SequencesExt

CONSTANTS
  Stores, Variants, Packages, Customers, Employees, Campaigns, Lots, Locations,
  Product,    \* Product[v]: product of variant v
  Recipe,     \* Recipe[p][v]: units of v in one package p
  PartPrice,  \* PartPrice[p][v]: refund of one v taken back from a package p
  Baskets,    \* sales that clerks may enter
  Deliveries, \* goods receipts: [store, lines: set of
              \* [variant, quantity, unitPrice, lot, location]], a variant once
  Adjustments, \* counts corrected: <<store, variant, difference>>
  Transfers,  \* units moved: <<from, to, variant>>
  Switches,   \* rows the catalogue opens and closes: <<store, variant>>
  Moments,    \* the hours at which something happens
  MaxSales, MaxMoves, MaxReturns  \* bounds on sales, on movements when a stock
                                  \* request is made (a transfer may exceed it
                                  \* by one), and before a return

Null == -1
None == "none"  \* no lot, no location
NoCustomer == "nobody"
NotCancelled == -1

OrNull(S) == S \cup {Null}

\* A line of a sale, a sale, what came back of it, and a movement.
LineRow ==
  [item : Variants \cup Packages, quantity : Nat, unitPrice : Nat, campaign : Campaigns,
   discountPercent : OrNull(Nat), discountAmount : OrNull(Nat),
   taxPercent : OrNull(Nat), taxAmount : OrNull(Nat), lineTotal : Int]
ReturnRow ==
  [at : Nat, line : Nat, quantity : Nat, parts : [Variants -> Nat], totalRefund : Nat]
SaleRow ==
  [store : Stores, customer : Customers \cup {NoCustomer}, by : Employees, at : Nat,
   status : {"CONFIRMED", "CANCELLED"}, cancelledAt : Int, lines : Seq(LineRow),
   returns : Seq(ReturnRow), unitPrice : Int, lineTotal : Int]
MovementRow ==
  [at : Nat, type : {"IN", "OUT", "TRANSFER_IN", "TRANSFER_OUT", "ADJUSTMENT"},
   store : Stores, variant : Variants, quantity : Int, unitPrice : OrNull(Nat),
   ref : Nat \X Nat, lot : Lots \cup {None}, location : Locations \cup {None}]
Basket ==
  [store : Stores, customer : Customers \cup {NoCustomer}, by : Employees, lines : Seq(LineRow)]
Delivery ==
  [store : Stores,
   lines : SUBSET [variant : Variants, quantity : Nat, unitPrice : Nat,
                   lot : Lots \cup {None}, location : Locations \cup {None}]]

\* Requests name stores, variants and packages that there are.  That no discount
\* and no tax of a basket is negative is assumed too: create-sale-line.dto.ts
\* does not check it.
ASSUME ShopAssumption ==
  /\ IsFiniteSet(Stores) /\ IsFiniteSet(Variants) /\ Variants \cap Packages = {}
  /\ Recipe \in [Packages -> [Variants -> Nat]]
  /\ PartPrice \in [Packages -> [Variants -> Nat]]
  /\ Moments \in SUBSET Nat /\ IsFiniteSet(Moments) /\ Moments # {}
  /\ Baskets \subseteq Basket
  /\ Deliveries \subseteq Delivery /\ \A d \in Deliveries : IsFiniteSet(d.lines)
  /\ Adjustments \subseteq Stores \X Variants \X Int
  /\ Transfers \subseteq Stores \X Stores \X Variants
  /\ Switches \subseteq Stores \X Variants

VARIABLES
  now,       \* hours since the first day
  sales,     \* sequence of sales, with their lines
  movements, \* sequence of inventory_movements
  stock,     \* stock[s][v]: store_variant_stock.quantity
  balances,  \* stock_balances: <<store, variant, lot, location>> to quantity
  linked,    \* linked[s][v]: store_variant_stock.isActiveStore
  closing    \* history: stock at the end of the days that have passed

shopVars == <<now, sales, movements, stock, balances, linked, closing>>

Day(t) == t \div 24
Hour(t) == t % 24

TotalOf(f(_), S) == MapThenSumSet(f, S)

-----------------------------------------------------------------------------
(* Amounts of a line. *)

Discount(l, base) == IF l.discountAmount # Null THEN l.discountAmount
                     ELSE IF l.discountPercent # Null
                     THEN (base * l.discountPercent) \div 100 ELSE 0
Tax(l, base) == IF l.taxAmount # Null THEN l.taxAmount
                ELSE IF l.taxPercent # Null THEN (base * l.taxPercent) \div 100 ELSE 0
Net(l) == l.quantity * l.unitPrice
Taxable(l) == Net(l) - Discount(l, Net(l))
AmountOf(l) == Taxable(l) + Tax(l, Taxable(l))

\* The line for another quantity: amounts shrink in proportion, percentages stay.
Scaled(amount, percent, l, q) ==
  IF amount = Null \/ percent # Null THEN Null
  ELSE IF l.quantity > 0 THEN (amount * q) \div l.quantity ELSE 0
ForQuantity(l, q) ==
  LET m == [l EXCEPT !.quantity = q,
                     !.discountAmount = Scaled(@, l.discountPercent, l, q),
                     !.taxAmount = Scaled(@, l.taxPercent, l, q)]
  IN  [m EXCEPT !.lineTotal = AmountOf(m)]

\* No discount above the line's price; createSale takes the request's at its
\* word, and a line with a larger one has a negative total.
FairLine(l) ==
  l.discountPercent <= 100 /\ (l.discountAmount # Null => l.discountAmount <= Net(l))
FairPrices == \A b \in Baskets : \A j \in DOMAIN b.lines : FairLine(b.lines[j])

HeaderOf(lines) ==
  [unitPrice |-> TotalOf(LAMBDA i : Net(lines[i]), DOMAIN lines),
   lineTotal |-> TotalOf(LAMBDA i : lines[i].lineTotal, DOMAIN lines)]

\* MUTANT of WithLines: a return saves its lines and not the sale's totals.
WithLinesOnly(sale, lines) ==
  IF sale.lines = <<>> THEN [sale EXCEPT !.lines = lines,
                                         !.unitPrice = HeaderOf(lines).unitPrice,
                                         !.lineTotal = HeaderOf(lines).lineTotal]
  ELSE [sale EXCEPT !.lines = lines]

WithLines(sale, lines) ==
  [sale EXCEPT !.lines = lines, !.unitPrice = HeaderOf(lines).unitPrice,
               !.lineTotal = HeaderOf(lines).lineTotal]

-----------------------------------------------------------------------------
(* Movements: each changes its stock row by its signed quantity. *)

\* ref: the sale and its line, or NoRef.
NoRef == <<0, 0>>
Move(type, store, variant, quantity, unitPrice, ref) ==
  [at |-> now, type |-> type, store |-> store, variant |-> variant,
   quantity |-> quantity, unitPrice |-> unitPrice, ref |-> ref, lot |-> None, location |-> None]

Record(moves) ==
  /\ movements' = movements \o SetToSeq(moves)
  /\ stock' = [s \in Stores |-> [v \in Variants |-> stock[s][v] +
                 TotalOf(LAMBDA m : m.quantity,
                       {m \in moves : m.store = s /\ m.variant = v})]]

\* Units of each variant in q units of a line.
Goods(l, q) ==
  [v \in Variants |-> IF l.item \in Packages THEN q * Recipe[l.item][v]
                      ELSE IF v = l.item THEN q ELSE 0]

\* The movements of a line; those of a package have no price.
Moves(type, store, ref, l, goods, sign) ==
  {Move(type, store, v, sign * goods[v],
        IF l.item \in Packages THEN Null ELSE l.unitPrice, ref)
     : v \in {w \in Variants : goods[w] > 0}}

\* A stock action opens every variant of the product in the store.
Opened(s, moved) ==
  [linked EXCEPT ![s] = [w \in Variants |-> @[w] \/ \E v \in moved : Product[w] = Product[v]]]

ShopInit ==
  /\ now = 0
  /\ sales = <<>>
  /\ movements = <<>>
  /\ stock = [s \in Stores |-> [v \in Variants |-> 0]]
  /\ linked = [s \in Stores |-> [v \in Variants |-> TRUE]]
  /\ balances = <<>>
  /\ closing = <<>>

Room(n) == Len(movements) + n <= MaxMoves

Pass(hour) ==
  /\ hour > now
  /\ now' = hour
  /\ closing' = IF Day(hour) = Day(now) THEN closing
                ELSE Append(closing, [first |-> Day(now), last |-> Day(hour) - 1, stock |-> stock])
  /\ UNCHANGED <<sales, movements, stock, balances, linked>>

\* The balance that a received line changes: an undefined lot or location is
\* no condition of the search, so any row that agrees on the other is taken.
Tracked(l) == l.lot # None \/ l.location # None
BalanceRows(s, l) ==
  LET found == {k \in DOMAIN balances : /\ k[1] = s /\ k[2] = l.variant
                                        /\ l.lot \in {None, k[3]} /\ l.location \in {None, k[4]}}
  IN  IF found = {} THEN {<<s, l.variant, l.lot, l.location>>} ELSE found

\* MUTANT of BalanceAfter: the received quantity replaces the balance.
BalanceAfterOverwritten(lines, k) == TotalOf(LAMBDA l : l.quantity, lines)

BalanceAfter(lines, k) ==
  (IF k \in DOMAIN balances THEN balances[k] ELSE 0) + TotalOf(LAMBDA l : l.quantity, lines)

\* Only receipts carry a lot or a location; what leaves the shop leaves no balance.
ReceiveGoods(d) ==
  LET tracked == {l \in d.lines : Tracked(l)}
      Received(l) == [Move("IN", d.store, l.variant, l.quantity, l.unitPrice, NoRef)
                        EXCEPT !.lot = l.lot, !.location = l.location]
  IN  /\ Room(Cardinality(d.lines))
      /\ Record({Received(l) : l \in d.lines})
      /\ linked' = Opened(d.store, {l.variant : l \in d.lines})
      /\ \E row \in [tracked -> UNION {BalanceRows(d.store, l) : l \in tracked}] :
           /\ \A l \in tracked : row[l] \in BalanceRows(d.store, l)
           /\ balances' = [k \in DOMAIN balances \cup {row[l] : l \in tracked} |->
                              IF \E l \in tracked : row[l] = k
                              THEN BalanceAfter({l \in tracked : row[l] = k}, k) ELSE balances[k]]
      /\ UNCHANGED <<now, sales, closing>>

Adjust(s, v, diff) ==
  /\ Room(1) /\ stock[s][v] + diff >= 0
  /\ Record({Move("ADJUSTMENT", s, v, diff, Null, NoRef)})
  /\ linked' = Opened(s, {v})
  /\ UNCHANGED <<now, sales, balances, closing>>

Transfer(from, to, v) ==
  /\ Room(1) /\ stock[from][v] >= 1
  /\ Record({Move("TRANSFER_OUT", from, v, -1, Null, NoRef), Move("TRANSFER_IN", to, v, 1, Null, NoRef)})
  /\ UNCHANGED <<now, sales, balances, linked, closing>>

\* The catalogue takes a variant out of a store or puts it back.
SwitchLink(s, v) ==
  /\ linked' = [linked EXCEPT ![s][v] = ~@]
  /\ UNCHANGED <<now, sales, movements, stock, balances, closing>>

Sell(b) ==
  LET lines == [j \in DOMAIN b.lines |-> ForQuantity(b.lines[j], b.lines[j].quantity)]
      moves == UNION {Moves("OUT", b.store, <<Len(sales) + 1, j>>, lines[j], Goods(lines[j], lines[j].quantity), -1)
                        : j \in DOMAIN lines}
      sale  == [store |-> b.store, customer |-> b.customer, by |-> b.by, at |-> now,
                status |-> "CONFIRMED", cancelledAt |-> NotCancelled, lines |-> <<>>,
                returns |-> <<>>, unitPrice |-> 0, lineTotal |-> 0]
  IN  /\ Len(sales) < MaxSales
      /\ \A v \in Variants :
           TotalOf(LAMBDA m : -m.quantity, {m \in moves : m.variant = v}) <= stock[b.store][v]
      /\ sales' = Append(sales, WithLines(sale, lines))
      /\ Record(moves)
      /\ UNCHANGED <<now, balances, linked, closing>>

\* createSaleReturn keeps what came back under which line.
Returned(sale, j, q, back, refund) ==
  [sale EXCEPT !.returns = Append(@, [at |-> now, line |-> j, quantity |-> q, parts |-> back,
                                      totalRefund |-> refund])]
NoParts == [v \in Variants |-> 0]
ReturnsOf(sale, j) == {k \in DOMAIN sale.returns : sale.returns[k].line = j}
PartsReturned(sale, j, v) == TotalOf(LAMBDA k : sale.returns[k].parts[v], ReturnsOf(sale, j))

\* Every line comes back but what returns of single variants brought back; a
\* variant line with nothing left makes the request fail.
Cancel(i) ==
  LET sale == sales[i]
      Left(j) == [v \in Variants |-> Goods(sale.lines[j], sale.lines[j].quantity)[v]
                                       - PartsReturned(sale, j, v)]
  IN  /\ sale.status = "CONFIRMED"
      /\ \A j \in DOMAIN sale.lines :
           sale.lines[j].item \in Variants => sale.lines[j].quantity > 0
      /\ sales' = [sales EXCEPT ![i].status = "CANCELLED", ![i].cancelledAt = now]
      /\ Record(UNION {Moves("IN", sale.store, <<i, j>>, sale.lines[j], Left(j), 1)
                         : j \in DOMAIN sale.lines})
      /\ UNCHANGED <<now, balances, linked, closing>>

AtLeast0(n) == IF n < 0 THEN 0 ELSE n

\* A package keeps what earlier returns of single variants took off its total.
Reduced(l, q) ==
  LET rest == ForQuantity(l, l.quantity - q)
  IN  IF l.item \in Variants THEN rest
      ELSE [rest EXCEPT !.lineTotal = AtLeast0(l.lineTotal - ForQuantity(l, q).lineTotal)]

\* createSaleReturn for one line: q units of it, with no refund stated,
ReturnUnits(i, j, q) ==
  LET sale == sales[i]
      l    == sale.lines[j]
  IN  /\ sale.status = "CONFIRMED" /\ q <= l.quantity
      /\ sales' = [sales EXCEPT ![i] =
           Returned(WithLines(sale, [sale.lines EXCEPT ![j] = Reduced(l, q)]), j, q, NoParts, 0)]
      /\ Record(Moves("IN", sale.store, <<i, j>>, l, Goods(l, q), 1))
      /\ UNCHANGED <<now, balances, linked, closing>>

\* or n units of one variant of a package, refunded at the variant's price.
ReturnPart(i, j, v, n) ==
  LET sale == sales[i]
      l    == sale.lines[j]
      refund == n * PartPrice[l.item][v]
      m      == [l EXCEPT !.lineTotal = AtLeast0(@ - refund)]
  IN  /\ sale.status = "CONFIRMED" /\ l.item \in Packages
      /\ Recipe[l.item][v] > 0 /\ n <= Goods(l, l.quantity)[v] - PartsReturned(sale, j, v)
      /\ sales' = [sales EXCEPT ![i] =
           Returned(WithLines(sale, [sale.lines EXCEPT ![j] = m]), j, 0, [NoParts EXCEPT ![v] = n], refund)]
      /\ Record({Move("IN", sale.store, v, n, PartPrice[l.item][v], <<i, j>>)})
      /\ UNCHANGED <<now, balances, linked, closing>>

\* One unit at a time is adjusted, transferred or taken back.
ShopNext ==
  \/ \E hour \in Moments : Pass(hour)
  \/ \E d \in Deliveries : ReceiveGoods(d)
  \/ \E x \in Adjustments : Adjust(x[1], x[2], x[3])
  \/ \E x \in Transfers : Transfer(x[1], x[2], x[3])
  \/ \E x \in Switches : SwitchLink(x[1], x[2])
  \/ \E b \in Baskets : Sell(b)
  \/ \E i \in DOMAIN sales : Cancel(i)
  \/ \E i \in DOMAIN sales : \E j \in DOMAIN sales[i].lines :
       /\ Len(movements) < MaxReturns
       /\ \/ ReturnUnits(i, j, 1)
          \/ \E v \in Variants : ReturnPart(i, j, v, 1)

-----------------------------------------------------------------------------

\* Types: no request brings a line's total, its quantity or a stock row below
\* zero, and a sale is cancelled at a time that has come (createSaleReturn,
\* cancelSale, sellFromStore).
ShopTypeOK ==
  /\ now \in Moments \cup {0}
  /\ stock \in [Stores -> [Variants -> Nat]] /\ linked \in [Stores -> [Variants -> BOOLEAN]]
  /\ sales \in Seq(SaleRow) /\ movements \in Seq(MovementRow)
  /\ \A i \in DOMAIN sales :
       LET sale == sales[i] IN
       /\ sale.at <= now
       /\ (sale.status = "CANCELLED") = (sale.cancelledAt \in sale.at..now)
       /\ \A j \in DOMAIN sale.lines : sale.lines[j].lineTotal \in Nat
       /\ \A k \in DOMAIN sale.returns :
            sale.returns[k].at \in sale.at..now /\ sale.returns[k].line \in DOMAIN sale.lines
  /\ \A i \in DOMAIN movements : movements[i].at <= now
  /\ \A k \in DOMAIN balances : k[1] \in Stores /\ k[2] \in Variants /\ balances[k] \in Nat
  /\ \A i \in DOMAIN closing : closing[i].last < Day(now)

ShopSpec == ShopInit /\ [][ShopNext]_shopVars
=============================================================================
