# Verification of gase-inventory

TLA+ models of the gase-inventory backend: a multi-tenant inventory and sales
service written in TypeScript (NestJS) over PostgreSQL through TypeORM 0.3.
Paths below are relative to `src/src/`.

## 1. The system

Every HTTP request is handled by one asynchronous call chain in a Node.js
process; several processes may run against one database. Handlers interleave at
every `await`, and the database runs their transactions at READ COMMITTED, the
PostgreSQL default, which the code never changes. Four facts of the platform
shape every model:

- `repo.save(entity)` re-reads the stored row by id and writes **every column in
  which the entity in memory differs from it**. An entity that was loaded
  without a lock and saved later undoes what others wrote in between.
- Relations declared `cascade: true` are saved with their owner; a child that the
  loaded owner lacks is detached, and fails the save where its key is NOT NULL.
- `findOne({ where: { c: undefined } })` ignores the condition on `c`.
- `pessimistic_write` is `SELECT ... FOR UPDATE`: it waits, then sees the newest
  committed version of the row.

### Components

| component | state | operations | hard behaviour | correct when |
|---|---|---|---|---|
| Inventory (`inventory/`) | `inventory_movements`, `store_variant_stock`, `stock_balances` | receive, sell, return, count, adjust, transfer | concurrent requests on one row, lock cycles, stale saves | summary = sum of movements; no oversell; transfers conserve |
| Sales (`sales/`) | sales, lines, payments, returns, package return items | create, update, cancel, pay, edit lines, return | unlocked reads of the sale, cancel against pay or return | stock given back at most once; no more is returned than was sold; paid amount = active payments |
| Procurement (`procurement/`) | purchase orders and lines, goods receipts | create, approve, cancel, receive | overlapping receipts, stale saves of an order with its lines | received <= ordered and <= what is in the stock; status follows the lines |
| Outbox (`outbox/`) | outbox events, putaway tasks made from them | publish, poll, dispatch, retry, dead-letter | crash between dispatch and mark, overlapping pollers | each receipt is put away, once |
| Warehouse (`warehouse/`) | count sessions and lines, putaway tasks, waves, picking tasks | open, count, close; create, assign, complete, cancel | double close, crossing completions | one adjustment per counted line; finished tasks stay finished |
| Sync (`sync/`) | idempotency keys, the feed of outbox events, the client's cursor | push with retry, pull since a cursor | lost answers, concurrent duplicates, late commits | an operation applies as the client was told; a client misses no change |
| Approval (`approval/`) | approval requests | create, review L1/L2, cancel, execute | the execution follows the saved decision; two reviewers | nothing is carried out unreviewed; what is approved is carried out once |
| Pricing (`pricing/`) | `store_product_prices` | override for one store, several stores or a product; clear; effective price | two saves of one row, a change for several stores failing half-way | rows add up; a change is in all its stores or in none |
| Replenishment (`replenishment/`) | rules, suggestions, orders made of them | scan, accept, dismiss | overlapping scans and decisions, crash after the order | one pending suggestion per rule, one order per acceptance |
| Catalogue (`product/`) | products, variants, their rows in the stores | generate variants, open, close, switch, scope | unique codes, overlapping syncs, rows made on demand | codes never clash; prices follow links; closed stores stay closed |
| Reports and views (`reports/`, lists of `inventory/` and `sales/`) | none of their own | fifty-odd queries | one figure computed along several paths | the paths agree; time alone does not improve a report |
| Auth, Permission | sessions, tokens, roles | login, refresh, logout | none that touches stock, money or tasks | not modelled |
| Exchange rate, E-invoice, Mail, AI, Integration | caches, external services | fetch, send | I/O | not modelled |
| Customer, Supplier, Store, User, Tenant, Trade, Package, Attribute, Audit log, common, migrations | single tables | CRUD | little beyond unique names | not modelled |

### Interaction

Sales and procurement call `InventoryService` inside their own transaction, so a
sale or a receipt is, for the stock, a sequence of items handled by one
transaction. A goods receipt also publishes an outbox event in that transaction;
the outbox processor later creates the putaway tasks, and the sync feed shows the
event to offline clients once it is SENT. Count sessions close through
`createCountAdjustment`. Approvals carry out price overrides through
`PriceService` and stock adjustments through `InventoryService`. An accepted
suggestion creates a purchase order, whose receipt ends the shortage. Sync wraps
stock and sale calls in an idempotency key. Catalogue scopes decide which
rows the stock, the reports and the prices see.

## 2. The modules

| module | models | proofs |
|---|---|---|
| `StockLedger`, `AtomicStock` | stock operations, and their abstract specification | `StockLedger_proofs` |
| `SaleGoods` | lines, returns, cancellation of a sale and the goods they move | `SaleGoods_proofs` |
| `SalePayments` | payments and totals of a sale | `SyncSales_proofs` |
| `PutawayOutbox` | outbox, putaway tasks of receipts | `PutawayOutbox_proofs` |
| `Procurement` | one purchase order: approvals, cancellations, receipts | `Procurement_proofs` |
| `Replenishment` | scan, suggestions, the orders they become | `Replenishment_proofs` |
| `Warehouse` | count sessions, putaway and picking tasks, waves | `Warehouse_proofs` |
| `SyncDelivery` | idempotent pushes, change feed | `SyncSales_proofs` |
| `StorePrices`, extended by `Approvals` | price overrides; requests, reviews and what they carry out | `Prices_proofs` |
| `Catalogue` | generated variants, codes, store rows | `Prices_proofs` |
| `ShopHistory`, extended by `StockViews`, `SaleViews`, `Reports` | the months of a shop, and all that is shown of them | `SyncSales_proofs` |

Each module that is run has an `MC` module that names its instance for TLC.
Requests are given as sets of records, so that a configuration chooses which ones
clients send; the models take any.

`SyncSales_proofs` and `Prices_proofs` extend several specifications each that share no state
and no name, so the initial predicate and the like of `SalePayments`, `Reports` and `Catalogue`
carry a name of their own. `SalePayments` and `Reports` are proved about in one module
because both need the lemmas about sums over finite sets.

## 3. How the models are built

A step of a module is one SQL statement, or a commit or a rollback, together
with the code around it up to the next `await`. Row locks are a variable; a
guard `Free` is the wait for a lock. A transaction's writes are kept aside until
its commit (READ COMMITTED); `repo.save` is two steps, a reload that finds the
columns that differ and a write of those columns. Any handler may fail at every
`await` (`Fail`): errors thrown by later calls, lost connections and crashes are
this one step. PostgreSQL aborts a member of a cycle of waits (`DeadlockAbort`,
or `Fail` where nothing else has to tell them apart). Variables marked *history*
in their module record what has overlapped or happened; no step of the code's
depends on one, only properties read them.

### `StockLedger` (inventory)

State: `exists`, `row`, `ledger` are `store_variant_stock` and the sum of
`inventory_movements`; `lock` and `cur` are the row locks and what their holders
see; `pc`, `req`, `pos`, `moves`, `moved`, `saves` are a transaction's place, its
request, the item it is at, and what it has still to write.

- `Begin`, `NextItem`, `LastItemDone`, `Commit`: the loop over items in
  `receiveStock`, `sellFromStore`, `adjustStock`, `transferStock`, and of sales and
  receipts, in one transaction.
- `ScopeFind`, `ScopeReload`, `ScopeInsert`, `ScopeUpdate`, `ScopeDone`:
  `ensureStoreProductVariantsScopeForStockAction`, which creates and re-activates
  the rows of all variants of the product, saving entities it read without a lock.
- `CheckStock`, `RejectStock`, `CheckMiss`, `CheckCreate`: the locked check of
  `getLockedStockForVariantInStore`.
- `ReturnStock`, `CountAdjustment`, `AdjustRead`: the other operations.
- `InsertMovement`, `ApplyMovement`, `ApplyMiss`, `ApplyCreate`: `createMovement` and
  `applyMovementToStockSummary`.

Abstracted: lot and location balances (in `ShopHistory`), prices, currency,
references, campaign and audit fields, and the permission of a user for a store.

### `SaleGoods` (sales: goods)

One sale. `status`, `line`, `parts`, `returned` are its rows, `out` is the net of
the movements it has caused, for each line and variant. Requests: cancel, return of
quantities (`RETURN`; for a package line whole packages, "Mod A"), return of
package parts (`PARTS`, "Mod B"), update, add and remove a line, and edit of the
header. Returns lock the sale and its lines; all others read it without a lock.
Movements of other sales are the stock's business: a failure for lack of stock is
`Fail`. A return request names one line here; the code loops over several.
`Exclusive` lists the operations whose overlap `GoodsMatchSale` excuses;
`MaxOverlap` bounds the requests that run beside one of them.

### `SalePayments` (sales: money)

One sale's header, line amounts and payments. `ADD`, `EDIT`, `DELETE` are the
payment handlers, which run without a transaction, so each statement is durable by
itself; `LINE`, `RETURN`, `CANCEL` are the transactions that touch the totals, and
they sum the payments on another connection, as the code does. A handler that has
to refuse has no step but `Fail`. Amounts stand for base-currency amounts; the
exchange rate is a call that may fail.

### `PutawayOutbox` (outbox and warehouse)

`published` and `event` are the outbox table, `made`, `auto`, `open` count the
putaway tasks of each receipt line (all, those made by the processor, those not
cancelled), `pc` and `batch` are each process's `OutboxProcessor` in memory.
`Fetch`, `CountTasks`, `CreateTasks`, `MarkSent`, `MarkFailure`,
`IncrementRetries`, `NextEvent` follow `processPendingEvents`; `Error` is an
exception inside its `try`, `Crash` a crash of the process or an exception outside.
`ChooseLines` and `SaveTasks` are the clerk's `createPutawayTasksFromGoodsReceipt`.
`usable` says that the receiving warehouse has exactly one active location, which the
processor requires. `nextRetryAt` is left out: it delays only failed events, and
those are never fetched again.

### `Procurement` (purchase orders)

One order: `status`, `received` (the lines) and `receipts` are its rows, `stock` what
its committed receipts have put on the shelf. Each request loads the order with lines
and receipts and no lock (`FindOrder`; `po` is the copy). `CreatePurchaseOrder`
makes it. A receipt goes item by item: `ReceiveItem` checks `Remaining` in the copy,
receives into the stock and counts the copy's line up, `SaveLine` writes it; `SetStatus`
decides the status from the copy (`Full`). An approval or a cancellation changes the
copy's status and saves the whole of it (`ReloadOrder`, `WriteOrder`): lines that
differ are written back, and `Orphans`, receipts made since the load, fail the save,
since `goods_receipts.purchaseOrderId` is NOT NULL. This is why a stale save cannot
undo a receipt, a fact nowhere stated in the code, on which `LinesMatchStock` rests.

### `Replenishment` (rules, scan, suggestions)

`setting`, `stock`, `suggestion`, `order` are the rows; `scan[p]` is the cron job of
process `p` with its copies of the rules. `StartScan`, `FindPending`, `ReadStock`,
`InsertSuggestion` are `runReplenishmentCheck` and `processRule`; `ScanFault` is the
`catch` that skips one rule, or the end of the process. `FindSuggestion`,
`CreateOrder`, `Reload`, `Write` are `acceptSuggestion` and `dismissSuggestion`; the
order commits by itself before the suggestion is saved. `Sell`, `Arrive` and
`UpdateRule` change what the scan looks at. Several rules on one variant, and the
supplier of an order, are left out.

### `Warehouse` (counts, tasks, waves)

`session`, `line`, `booked` are a count session, its lines and the adjustments booked
for them; `task` holds putaway tasks, picking tasks and waves by `Kind`. `ADD`, `COUNT`,
`CLOSE` are the session's handlers: `FindSession`, `InsertLine`, `FindLine`,
`UpdateLine`, and for closing `BookLine` for each line, `AllBooked`, `ReloadSession`,
`WriteSession`, `CommitClosing`, under the locks of stock and rows it takes on its way.
`FindTask`, `ReloadTask`, `WriteTask` are `CREATE`, `START`, `ASSIGN`, `COMPLETE` and
`CANCEL` with the guards of each kind (`Allowed`) and what each makes of the row
(`After`). Movements of picked or stored goods do not exist in this code.

### `SyncDelivery` (push and pull)

`attempt[a]` is a request of the client from its arrival to its answer: `Send`,
`Lookup`, `RunOperation`, `Respond`, `StoreKey`, `Deliver`. As in the interceptor, the
upsert of the key is started beside the answer and not waited for. `Lose` loses a
request or an answer, `Crash` a process or the upsert, `Expire` a key. The feed: `Publish`,
`MarkSent`, `MarkDeadLetter`, `Requeue` of the outbox, `Pull`, `Receive`, `LosePage` of
the client; `ToMillis` is what the cursor loses when a `timestamptz` passes through
a JavaScript `Date`. What an operation does is in the other modules.

### `StorePrices` and `Approvals`

`row[s]` is the price row of one variant in store `s`, and `row[Product]` stands for the
product's default. A `job` sets fields in one store (`set`), in several or for a product with
its stores in one transaction (`multi`), or removes the override (`clear`), by `Find`,
`Compare`, `Write` or `Remove`, `Commit`; `Effective` is the price a sale would take.
`Approvals` extends it: `CheckNew` and `Insert` are `create`, `Read` and `Save` the two
steps of `reviewL1`, `reviewL2` and `cancel`; `ExecuteStock`, `ExecutePrice` with
`PriceDone`, and `ExecuteNothing` carry out what was approved, after the decision has
been saved. `Crash` may come between.

### `Catalogue` (products and variants)

`variants` and `rows` are the product's variants with their codes and their rows in the
stores. `SyncRead` and `SyncWrite` are `syncGeneratedVariants`: one variant for every
choice of values (`Combinations`), a code from their names that is unique in the product
(`NextUniqueCode`), rows made on demand (`NewRow`), and what is no longer selected
switched off (`Dropped`). `SaveAll` is its loop, `SaveOne` a round of it: a variant that exists
gives back the code that its entity in memory has, not the one in the table. A code is the
sequence of its words, a word that may be a suffix being a number, so that `RED-2` may
be a name of two words or a second `RED`. `SetProductActive`, `SetVariantActive`,
`ApplyProductStoresScope`, `OpenStore`, `RenameValue` are the requests around it; their
several UPDATEs of one transaction are one step here.

### `ShopHistory`, `StockViews`, `SaleViews`, `Reports`

`ShopHistory` is the shop as time goes by, each request one step: deliveries with lots and
locations, adjustments, transfers, sales with discounts and taxes, cancellations, and
returns of units and of parts of packages. The other three are pure operators over its
state, one for each list and report: `StockViews` and `SaleViews` for the read
operations of `InventoryService` and `SalesService`, `Reports` for `ReportsService`. A report
that groups rows by a key is a function of that key; names, labels, text search, and
sort orders that no figure depends on are left out. Time is counted in hours, a month
has 30 days, and amounts are whole numbers; in the instance they are chosen so that
percentages are exact. `StockAgrees` is about the reports of stock (`PastIsRebuilt`,
`MovementsAddUp`, `RowsAddUp`), `DemandAgrees` about those of demand, and `BooksAgree` about
the money, the counts of sales, and the lists and histories of `StockViews` and `SaleViews`
(`ViewsAgree`, `HistoryAddsUp`), the balances of lots among them.

## 4. The runs

| run | shows | instance |
|---|---|---|
| `stock` | `LedgerMatchesSummary`: summary = sum of movements. `CheckedStockStaysAvailable`: the stock a sale has checked is there when it is taken. `TransferConserves`. `RefinesAtomicStock`: commits are atomic requests. `EveryRequestEnds`, lock cycles included. | 2 stores, 3 variants of 2 products, 2 transactions, 11 requests with every operation, some of two items |
| `sale` | `GoodsMatchSale`: what is out of the stock is what the sale shows. `ReturnsAreExact` and `EveryRequestEnds` with everything overlapping | 3 lines (one a package, one added later), 3 requests of 9; 2 where cancel, update or remove overlaps another |
| `payments` | `SoloRequestBalances`: whatever overlaps and failures have left, a request that runs alone sets paid amount, status and total right | 3 requests of 8 kinds, 2 lines, 3 payments |
| `outbox` | `SentMeansPutAway`, `PutAwayOnce`, `EveryEventIsTried` | 2 receipts of 2 and 1 lines, 1 process, 1 clerk, 2 faults, 1 change of locations |
| `procurement` | `LinesNeverAhead`: a line never claims more than is in the stock or was ordered. `LinesMatchStock`, `StatusFollowsLines`: without overlapping receipts nothing is forgotten | 1 order of 2 lines, 3 requests of 7 |
| `replenishment` | `OnePendingPerRule`, `OrdersAccountedFor`, `ShortageIsSuggested` | 1 scheduler; 2 rules and 1 clerk, or 1 rule and 2 clerks; 3 suggestions, 2 orders, 1 fault, 1 sale or change |
| `warehouse` | `AdjustedOnce`, `ClosedMeansBooked`: a difference is booked once and not forgotten. `FinishedStaysFinished` | 4 requests, on 2 count lines or on a wave, a picking and a putaway task |
| `sync` | `AppliedAsAnswered`, `FeedComplete`, `EveryBatchIsAnswered`, `EveryEventArrives` | 1 batch of 2 operations and 3 attempts, or 4 events, two of them in one millisecond, in pages of 2; 2 faults |
| `sync_missed` (violated) | an event marked SENT after a later one was delivered is behind the cursor for ever | 2 events |
| `approvals` | `OnePending`, `ReviewedFirst`, `CarriedOutAsDecided`; `PricesHold` | 4 handlers, 2 requests about a price, stock or an order; or 3 price changes in 2 stores and the product |
| `catalogue` | `LoneSyncSucceeds`, `PricesFollowLinks`, `SyncKeepsItsBounds` | 2 stores, 3 values with one slug and names that end in a number, 2 clerks, 4 requests |
| `reports` | `BooksAgree`, `StockAgrees`, `DemandAgrees`: figures computed along different paths agree. `TimeOnlyAges` | 2 sales of 3 baskets, 3 movements before a stock request, 5 before a return; days 30 and 90 |

Why the bounds are enough. Every hazard of section 1 is a conflict of two, and for
cycles of waits three, transactions; the runs have that many, and a third or fourth
request where a conflict has to be followed by one that meets what it left. Two
stores give a transfer its two rows, and two variants a product its siblings.
Quantities of one or two units reach "exactly enough", "one too few" and zero. Two
faults allow a crash after a crash and a crash after an error. `MaxRetries` is 1 in
`outbox` and 5 in the code: with 5 no event ever gets a second attempt and so no dead
letter exists; 1 makes the first failure a dead letter, so that `RequeueDeadLetter` and
the redelivery of an event that may have been handled are explored. Three suggestions
are as many as the requests of the clerks can use up with one waiting for each rule.
Pages of two with two events in one millisecond reach every position of the cursor's
truncation (`PagesMakeProgress` in `MCSyncDelivery`; see the disagreements below). The
months of `reports` lie on the boundaries of its periods (30, 60 and 90 days).
Symmetry is used for handlers and ids that no property names, in runs without liveness.

`CHECK_DEADLOCK FALSE` is set where work is bounded and may be used up: `outbox`,
`replenishment`, `sync`, `approvals`, `catalogue`. In `reports` a switch of a row is
always possible; the other modules have a `Finished` step, so that a handler stuck for
ever would be reported.

Fairness. `WF_vars(Step(t))` for a transaction that has begun (`stock`, `sale`): the event
loop runs every continuation and the database answers every statement or breaks the
connection. Nothing obliges a client to send a request, nor a failure to happen.
`WF_vars(Process(p))` for an outbox processor and `WF_vars(Scan(p))` for the cron job:
their timers keep firing and restart the loop after a crash, of which there are finitely
many. In `sync` the client keeps sending and pulling (`Send`, `Pull`, `Receive`), the
server serves what arrives (`Serve`) and the outbox sends what is waiting (`MarkSent`);
losses are bounded by `MaxFaults`.

### Disagreements and losses the models reach

`sync_missed` is the one checked against the code's own words
(`sync/sync.controller.ts` promises that a client misses no change). The others are states
that the code does reach and that the properties above name as excused; each can be seen
by dropping the excuse.

- *Stock.* The scope step saves sibling rows read without a lock; when it links or
  activates a row, a movement in between is undone in the summary. The proofs'
  `Settled` and the restriction in `LedgerMatchesSummary` exclude exactly this.
- *Stock adjustment.* The difference is taken from an unlocked read, so a movement in
  between shifts the result off the requested quantity.
- *Sales, goods.* Two cancellations return the goods twice; a line edit beside a
  cancellation is undone or left out of the stock; whole packages (Mod A) may be taken
  back although parts of them (Mod B) are back already; a return that names a variant
  of a package twice is checked for each mention alone and may take back too many.
- *Sales, money.* A payment beside a cancellation leaves a balance on a cancelled sale, or
  puts the sale's old status back; overlapping payments leave a stale paid amount until
  the next request; a correction that fails at the exchange rate has already cancelled
  the old payment.
- *Outbox.* `requeueFailed` has no caller: a FAILED event stays FAILED, although the
  processor computes its next retry. Two processes, or a clerk and a process, make tasks
  twice; a clerk who takes a part of a receipt makes the outbox skip its other lines.
- *Procurement.* Two overlapping receipts can receive more than was ordered, lose one of
  the two in the line, or leave PARTIALLY_RECEIVED for ever.
- *Replenishment.* Two processes with the cron job make two suggestions; overlapping
  decisions make two orders, or one for a dismissed suggestion; a crash after the order
  leaves the suggestion pending, and it is ordered again.
- *Warehouse.* Two closings book a difference twice; overlapping requests change a task
  that is finished.
- *Sync.* A retry before the key is stored, or after it expired, applies again. `conflict`
  is a documented answer that is never given. The cursor has milliseconds: as many events
  in one millisecond as a page holds stop the feed.
- *Approvals.* APPROVED does not mean applied: the execution may fail after the decision
  is saved, and nothing tries again; for purchase orders it is a TODO. Two reviewers at
  once may execute twice.
- *Prices.* Two saves at once mix columns; the total is then that of neither.
- *Catalogue.* A selection that drops a variant creates its missing row in a store as an
  open, inactive one. A store without any row counts as open when the tenant syncs.
- *Balances.* A receipt without lot or location finds any balance that agrees on the
  rest, since an undefined condition is ignored; and no sale ever decreases a balance,
  although `inventory/stock-balance.entity.ts` speaks of current stock.
- *Reports.* The VAT summary takes cancelled sales off a total that never had them, and
  tax is reported of the amount before the discount; a single best-seller is class C in
  the ABC analysis; the audit trail takes its names by position from rows of the join
  with the lines, so a sale may show another's clerk; only a product of which nothing is
  left reaches the class FAST; the cost of goods sold counts customers' returns at
  their sale price; the daily stock curve applies today's links to the past.

## 5. What is proved

Every theorem holds for all values of the constants that meet the module's
assumption, so for any number of rows, requests and handlers. An invariant is
proved by way of one that is inductive; what that adds is told here.

`StockLedger_proofs` (`ConstantsAssumption`):

- `TypeCorrect`: `Spec => []TypeOK`. Types alone are not inductive: a transaction
  that is about to apply a movement needs one to be left. `ControlOK` adds that.
- `StockIsReserved`: `Spec => []CheckedStockStaysAvailable`. From the step of the
  check on, the transaction holds the lock (`StepRespectsLocks`: no other
  transaction touches a locked row), and between the check and the movement only the
  transaction itself could change the row, which `ControlOf` excludes.
- `BooksAreKept` and `LedgerIsSummary`: `Settled => (Spec => []LedgerMatchesSummary)`.
  The inductive invariant `SettledInv` says that behind each row lock the summary is
  ahead of the committed ledger by exactly the holder's own applied movements
  (`Bookkeeping`), and that no row is saved from an old read (`NoStaleSave`). The
  latter needs that all rows are active and that no row appears beside existing ones
  (`AllActive`), which is what `Settled` asks of the initial rows; without it a
  movement can be lost (section 4).
- `StockIsAtomic`: `Settled => (Spec => RefinesAtomicStock)`: a commit is one step of
  `AtomicStock`, every other step a stutter of it. The inductive invariant `AtomicInv` looks at a
  transaction under way: the movements it has recorded and still holds are what its items, one
  after the other, do to the stock *of this instant* (`Serialised`), whatever others have
  committed since it read anything. An item that adds or takes a fixed quantity does
  the same to every stock (`AfterShift`); one that transfers all it finds does so only to a
  row that stays as it was, which its lock guarantees (`HoldsAll`). An adjustment is the
  exception the abstract specification allows: it sets its rows to a quantity worked out from
  an old read, and touches no other (`OnlyAdjusts`).
- `TransfersConserve`: `Spec => TransferConserves`, in any catalogue. The invariant pairs the
  movements of a transfer: what is recorded and what is held add up to nothing for every variant.
  Totals over the stores are sums over a finite set (`StoresAssumption`); that a sum exists,
  is unique and changes by what one row changes by is shown from least counterexamples
  (`LeastStores`, `SumUnique`) instead of an induction theorem.

The assumptions on items are those of the code: a transfer goes to another store and keeps
the variant, a stock adjustment is a request of its own to a quantity that is not negative.

`PutawayOutbox_proofs` (`OutboxAssumption`):

- `OutboxTypes`: `Spec => []TypeOK`; a working processor has a published event.
- `SentIsPutAway`: if clerks take whole receipts (`WholeManual`), then
  `Spec => []SentMeansPutAway`, for any number of processes. The invariant adds that
  the lines of a receipt get their first tasks together (`Whole`) and that a
  processor about to mark an event has tasks for it (`Marked`).
- `AutoPutAwayOnce`: with one process (`Solo`), `Spec => []PutAwayOnce`. The invariant
  adds that the processor's tasks are among the tasks (`AutoIsMade`) and that none
  exists where it is about to create some (`Fresh`).

`Procurement_proofs` (`OrderAssumption`):

- `OrderTypes`: `Spec => []TypeOK`.
- `LinesAreBacked`: `Spec => []LinesNeverAhead`, whatever overlaps. The invariant looks
  into memory: what a transaction's copy of the order says of a line was ordered, and is in
  the stock or among the goods the transaction itself has received (`InMemory`); and
  between the receipt of an item and the save of its line the item still fits
  (`ItemIsAhead`). So even a stale copy that is written back claims nothing that is not
  there.
- `NothingReceivedIsForgotten`: `Spec => []LinesMatchStock`. The invariant says that
  a receipt's copy is ahead of the stock by its own goods alone (`Exact`), and that an
  approval or cancellation whose lines are old lacks a receipt (`LeavesLines`), so that
  the orphan stops its save before it can write them.
- `StatusIsRight`: `Spec => []StatusFollowsLines`, on top of the last. A receipt decides the
  status from lines that are the stored ones when it commits; where it leaves the status out,
  because the row had it already, the row still has it or an approval or a cancellation has
  put its own there (`Tells`).

`Warehouse_proofs` (`WarehouseAssumption`):

- `WarehouseTypes`: `Spec => []TypeOK`, with the places a request of each kind may be at
  (`Control`), and that a task completed or picked short has its amount and time
  unless requests overlapped on it (`TasksMakeSense`).
- `FinishedForGood`: `Spec => FinishedStaysFinished`. The invariant adds that two handlers
  with one task have marked it as raced (`Apart`), and that the copy of a handler whose task
  is not raced is still the row (`AllFresh`), so that its guard still holds when it writes.
- `LinesAreAdjustedOnce` and `ClosedIsBooked`: `Spec => []AdjustedOnce` and
  `Spec => []ClosedMeansBooked`, from one invariant, `Counted`. As long as no closing clashes, a
  closing is alone (`ClosesAlone`) and has each line in memory as it is in the table, or as it
  has booked it (`Books`); a new count does not touch the mark (`CountsLine`); and a line is
  marked exactly when it is adjusted, by what it was counted to differ by (`Adjusted`). A line
  added while a closing runs is the one it may miss; it counts as late. `Opens` is needed since
  adding the first line saves the session with the lines it has loaded, which are then none.

`Prices_proofs` about approvals and prices (`ApprovalAssumption`, `PriceAssumption`):

- `NothingUnreviewed`: `Spec => []ReviewedFirst`, whatever overlaps and wherever a process
  stops. The invariant says what a handler holds in memory (`Holds`), that a second
  review is about a price with its first and that what is carried out has all its reviews
  (`Reviewed`), and that no request has reviews it does not need (`Granted`). A stale
  save may put an old status back, but never makes a review that did not happen.
- `DecisionsAreCarriedOut`: `Spec => []CarriedOutAsDecided`. A request on which no decisions have
  clashed is in the hands of one handler at most, whose copy is the row, and once approved it is
  being carried out, has been, or that has failed (`DecidedOnce`).
- `OneWaits`: `Spec => []OnePending`. From the search for a pending request of the subject to the
  insertion nobody else creates one, and none that is not clashed goes back to waiting
  (`WaitsOnce`); `RunsFor` ties a price job to a clerk or an approved request.
- `PricesAreWhole`: `Spec => []PricesHold`, for any number of stores. Of rows that handlers worked
  on one after another the invariant `PricesInv` says: one handler works on a row (`AloneOn`), what
  it has read is still there, and the columns it will write are those that differ (`SeenRow`);
  the rows of a change for several stores are ahead of its handler, held by it or
  written (`AllRows`); a row adds up and shows what its last writer asked for (`RowIs`).

The assumptions on a price change are those of the code: a list of stores names none
twice (the service makes `storeIds` a `Set`, and all stores are rows of a table), a
single override is about one store, and a patch gives some of the columns.

`Prices_proofs` about the catalogue (`CatalogueAssumption`: a selection is finitely many groups of
finitely many values, names have words):

- `PricesAreWhereOpen`: `CatalogueSpec => []PricesFollowLinks`, and
  `CodesAreFree`: `CatalogueSpec => []LoneSyncSucceeds`, from one invariant, `CatalogueInv`. Rows are
  typed, open only where there is a store, and priced only where open; a sync that nothing
  disturbed has in memory what is in the tables; one that failed was disturbed. For the
  step that writes, the same is shown of its loop, round after round (`SavedSoFar`,
  `LoneSoFar`): what is reserved are the codes of the entities in memory as they are now, all
  different, so that a code given back is taken by nobody else. `NextIsFree` says that
  `NextUniqueCode` finds a code that is not reserved: base and suffixes are more than there
  are codes, and no two are the same (pigeonhole).
- `SyncsKeepTheirBounds`: `CatalogueSpec => SyncKeepsItsBounds`, from the same loop: a new variant is
  open only where one was, an old one stays as it was, and what the loop did not save
  is switched off in every store (`SwitchedOff`).

The choices of a selection and the loop are functions on `0..n` defined from the value before.
That such a function exists and has its type for every `n` is shown for the set of
numbers it holds of, which has a least counterexample or none (`LeastOf`, `UpTo`).

`Replenishment_proofs` (`RuleAssumption`):

- `OneSuggestion`: with one process that scans (`Solo`), `Spec => []OnePendingPerRule`.
  The invariant says that from the search to the insertion no suggestion of the rule is
  waiting (`Scans`): decisions only make suggestions stop waiting (`Decisions`,
  `NoneWaitsAnew`), and only the scan makes one wait.
- `OrdersAreAccountedFor`: `Spec => []OrdersAccountedFor`, for any number of processes that scan.
  Each order made for a suggestion is lost with the acceptance that made it, in the hands of
  the one clerk at work on the suggestion, or the one it names; the invariant counts them
  (`Account`), and that clerk is about to write a status that goes with the order (`Holds`).

`SaleGoods_proofs` (`SaleAssumption`; all for requests of which none names a
variant of a package twice, `NamedOnce`):

- `SaleTypes`: `Spec => []TypeOK`.
- `ReturnsLockTheSale`: `Spec => ReturnsAreExact`. Edits, removals and cancellations read
  the sale without a lock, but every transaction that is about to commit holds the lock
  of the header (`Serial`), and a return holds it from its first statement on. So the
  sale stays open and the lines are those the return has seen until it commits
  (`Exact`); a step of one transaction disturbs no other (`StepOf`).
- `GoodsAreCounted`: `Spec => []GoodsMatchSale`, if the overlap of cancellations, edits and removals
  with other requests is excused (`overlapped`), parts come back from packages only and
  not from lines whose whole packages come back (`GoodsCompared`); the run `sale` is such an
  instance, and section 4 says what happens otherwise. The invariant `Match` says that what
  a request has recorded for the stock goes with what it will write of its line, both
  worked out from lines it has seen (`Doing`), and that a request that is not excused sees the
  stored ones: a return by its locks, the others because they have the sale to
  themselves (`Together`, `RunOf`). `PartsOf` keeps parts that came back below those of
  the line, so that a cancellation gives back what is still out and no less than nothing.

`SyncSales_proofs` about `SyncDelivery` (`SyncAssumption`: an operation is in one batch, no two events have
one creation time, and there are finitely many):

- `AnswersAreTrue`: `Spec => []AppliedAsAnswered`. Of a batch that is not disturbed, one
  attempt at most has looked for the key in vain and not stored it (`Alone`); what is
  stored or told is what was done, and nothing is told before it is stored or about to be
  (`Told`); the results a running attempt has noted are what was done, and when
  nobody is at work and no key is stored, nothing was (`Done`).
- `FeedIsComplete`: `Spec => []FeedComplete`. What is on the page or was got is closed
  downwards: of an event SENT in order that is not later than one of them none is missing
  (`Pages`). The cursor never passes the last event it was taken from (`MillisBelow`).

`SyncSales_proofs` about `SalePayments` (`PaymentsAssumption`: lines and payments are finitely
many, amounts are whole numbers):

- `MoneyTypesHold`: `PaymentsSpec => []TypeOK`, whatever overlaps. The sums over lines and payments
  are the point: `SumOf` is a recursive function on the subsets of a finite set, and that it
  exists and has natural numbers for values is shown from least counterexamples
  (`LeastSubset`).
- `PaymentsBalance`: `PaymentsSpec => SoloRequestBalances`. The invariant `SoloInv` says which
  operations may be where (`Route`) and of a request alone so far that no other is
  under way, that the header in its memory is in order from the recalculation on
  (`Balanced`), and that the columns that differ, written to the stored row, make it
  the one in memory (`Solo`). What other requests left behind before it began plays no
  part: every figure is worked out anew from the rows.

`SyncSales_proofs` about `Reports` (`ShopAssumption`: finitely many stores, variants and moments,
packages are no variants, and requests name what there is):

- `LedgerHolds`: `ShopSpec => [](ShopTypes /\ Ledger /\ Past)`. A stock row is the sum of its
  movements (`Ledger`), and so it was at the end of each day that has passed (`Past`), of the
  movements up to that day. Each request is shown to book a finite set of movements of now
  that brings no row below zero (`Recorded`, one lemma for each action); that rows and
  movements then go on together is shown once (`RecordLedger`, `RecordPast`).
- `StockReportsAddUp`: from it, the reports of `StockAgrees` agree in every scope. Each side is
  brought to a sum over one function of the movements (`Moved`) or of the rows (`Shelf`); a
  report that groups them is a sum by parts (`SumParts`, `GroupedNet`), one that goes
  back in time a sum over two disjoint sets.
- `StockReportsAgree`: `ShopSpec => []StockAgrees`, which adds the types, and with them that no
  line's total is negative. This needs `FairPrices`, that no basket has a discount above its
  price: `calculateLineAmounts` takes any, and `create-sale-line.dto.ts` checks none. From
  there on the returns keep it (`FairSales`): what is scaled stays fair (`FairScaled`), and
  a part that is taken back takes no more than the line has.
- `DemandIsReadOnce`: `ShopSpec => []DemandAgrees`. The quantities of all three reports are sums
  of one function of the lines (`Units`) over lines of one kind (`Recent`); a sale exactly 30
  days old is the one that counts for two of them only, as the property says.
- `ReportsOnlyAge`: `ShopSpec => TimeOnlyAges`. `Readings` says of each of the three reports what
  times it is read from; the clock changes none of them, and the days since the newest
  of them can only grow (`OldestLater`).

`TotalOf` and `Column` take the measure as an operator, which no lemma can be about; so
that a total is a sum is shown for each of the fifteen measures the proofs meet, and
all else for sums of functions.

Only model-checked:

- liveness (`EveryRequestEnds`, `EveryEventIsTried`, `ShortageIsSuggested`,
  `EveryBatchIsAnswered`, `EveryEventArrives`), which is outside the prover;
- `BooksAgree`: it equates some thirty figures, over sorted and paged lists, cumulative
  shares and joins (`SetToSortSeq`, `FlattenSeq`), which take inductions over sequences, and
  each grouping would need its own total.

## 6. Not modelled

- Authentication, permissions, tenants and the visibility of stores beyond the scope of a
  list: no stock, money or task state.
- Exchange rates, e-invoices, mail, marketplace integration and the AI assistant: calls to
  other services, with a status column at most. A failing exchange rate is `Fail` in
  `SalePayments`.
- Customers, suppliers, stores, users, trade, categories, packages, attributes' own tables,
  barcodes, warehouses and locations: single tables, created, changed and deleted by id.
- The audit log, which is only appended to, and serial numbers, which movements carry along.
- In modelled parts: names, references, text search and sort orders of lists; default
  prices and currencies of the catalogue; several rules for one variant; overlapping receipts
  on one lot balance; the retry delay of outbox events.
- Common infrastructure and migrations. The schema's constraints are modelled where they
  refuse a step.
