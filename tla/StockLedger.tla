---------------------------- MODULE StockLedger ----------------------------
(***************************************************************************)
(* The stock of one tenant: the movement ledger (inventory_movements) and  *)
(* the summary rows (store_variant_stock) that InventoryService keeps in   *)
(* step with it, under concurrent READ COMMITTED transactions.             *)
(*                                                                         *)
(* A request is a sequence of items handled in order by one database       *)
(* transaction.  An item is one call of receiveStockItem (RECEIVE),        *)
(* sellFromStore (SELL), createReturnMovementForSaleLine (RETURN),         *)
(* createCountAdjustment (COUNT), adjustStockSingle (ADJUST) or            *)
(* transferStockSingle (TRANSFER; TRANSFER_ALL is the productId scenario   *)
(* without a quantity).  Sales, goods receipts and count sessions reach    *)
(* the stock only through such sequences.                                  *)
(*                                                                         *)
(* Every SQL statement that reads or writes shared data is a step, so      *)
(* transactions interleave wherever the code awaits the database.          *)
(***************************************************************************)
EXTENDS Integers, Sequences, FiniteSets

CONSTANTS
  Stores,      \* stores of the tenant
  Variants,    \* product variants
  Products,    \* products
  ProductOf,   \* the product of each variant
  Txs,         \* database transactions; each serves one request
  Requests,    \* requests that clients may send: sequences of items
  InitialRows, \* summary rows the database may start with, absent included
  NoTx         \* "nobody": the owner of an unlocked row

Rows == Stores \X Variants

Ops == {"RECEIVE", "SELL", "RETURN", "COUNT", "ADJUST", "TRANSFER", "TRANSFER_ALL"}

\* For every operation but a transfer, to = row.
Items == [op : Ops, row : Rows, to : Rows, qty : Int]

\* A column set of store_variant_stock: quantity, isActiveStore, isActive.
Summary == [qty : Int, link : BOOLEAN, act : BOOLEAN]

NoSummary == [qty |-> 0, link |-> FALSE, act |-> FALSE]
Columns == {"qty", "link", "act"}

ASSUME StoresAssumption == IsFiniteSet(Stores)

ASSUME ConstantsAssumption ==
  /\ ProductOf \in [Variants -> Products]
  /\ NoTx \notin Txs
  /\ Requests \subseteq Seq(Items)
  /\ \A q \in Requests : \A i \in 1..Len(q) :
       /\ q[i].op \in {"TRANSFER", "TRANSFER_ALL"} =>
            q[i].to # q[i].row /\ q[i].to[2] = q[i].row[2]   \* one variant, two stores
       /\ q[i].op = "ADJUST" => /\ q[i].qty >= 0     \* @Min(0) newQuantity
                                /\ \A j \in 1..Len(q) : q[j].op = "ADJUST"  \* adjustStock
  /\ InitialRows \subseteq [exists : BOOLEAN, row : Summary]
  /\ \A c \in InitialRows : c.row.qty >= 0 /\ (~c.exists => c.row = NoSummary)

VARIABLES
  exists,  \* exists[r]: the summary row is committed
  row,     \* row[r]: its committed columns
  ledger,  \* ledger[r]: committed sum of the movements of r
  lock,    \* lock[r]: the transaction that holds r's row lock, or has inserted r
  cur,     \* cur[r]: the columns of r as the holder of its lock sees them
  pc,      \* pc[t]: where transaction t stands
  req,     \* req[t]: the request it serves
  pos,     \* pos[t]: the item it is at
  moves,   \* moves[t]: movements this item has still to write
  moved,   \* moved[t][r]: uncommitted sum of movements t has inserted for r
  saves    \* saves[t]: the rows that t's scope step has still to save

vars == <<exists, row, ledger, lock, cur, pc, req, pos, moves, moved, saves>>

db == <<exists, row, ledger>>           \* what other transactions can read

PCs == {"idle", "item", "reload", "save", "read", "checkCreate", "insert",
        "apply", "create", "commit", "committed", "aborted"}

Movement == [row : Rows, qty : Int]

\* An entity passed to repo.save: new or loaded earlier, its values in memory,
\* and the columns the save has found to differ from the stored row.
Save == [row : Rows, new : BOOLEAN, val : Summary, cols : SUBSET Columns]

Init ==
  /\ \E f \in [Rows -> InitialRows] :
       /\ exists = [r \in Rows |-> f[r].exists]
       /\ row = [r \in Rows |-> f[r].row]
  /\ ledger = [r \in Rows |-> row[r].qty]
  /\ lock = [r \in Rows |-> NoTx]
  /\ cur = row
  /\ pc = [t \in Txs |-> "idle"]
  /\ req = [t \in Txs |-> <<>>]
  /\ pos = [t \in Txs |-> 1]
  /\ moves = [t \in Txs |-> <<>>]
  /\ moved = [t \in Txs |-> [r \in Rows |-> 0]]
  /\ saves = [t \in Txs |-> {}]

-----------------------------------------------------------------------------
(* What a statement of transaction t sees (READ COMMITTED). *)

Item(t) == req[t][pos[t]]
Visible(t, r) == exists[r] \/ lock[r] = t
View(t, r) == IF lock[r] = t THEN cur[r] ELSE row[r]
Free(t, r) == lock[r] \in {NoTx, t}

Goto(t, label) == pc' = [pc EXCEPT ![t] = label]

\* The whole transaction is rolled back: its row versions and movements vanish.
Rollback(t) ==
  /\ Goto(t, "aborted")
  /\ lock' = [r \in Rows |-> IF lock[r] = t THEN NoTx ELSE lock[r]]
  /\ cur' = [r \in Rows |-> IF lock[r] = t THEN row[r] ELSE cur[r]]
  /\ moved' = [moved EXCEPT ![t] = [r \in Rows |-> 0]]
  /\ moves' = [moves EXCEPT ![t] = <<>>]
  /\ saves' = [saves EXCEPT ![t] = {}]
  /\ UNCHANGED <<db, req, pos>>

\* t (which may lock r now) leaves r with columns s.
Write(t, r, s) ==
  /\ lock' = [lock EXCEPT ![r] = t]
  /\ cur' = [cur EXCEPT ![r] = s]

-----------------------------------------------------------------------------
(* The frame of a request: begin, walk the items, commit. *)

Begin(t) ==
  /\ pc[t] = "idle"
  /\ \E q \in Requests : req' = [req EXCEPT ![t] = q]
  /\ Goto(t, "item")
  /\ UNCHANGED <<db, lock, cur, pos, moves, moved, saves>>

At(t, ops) == pc[t] = "item" /\ pos[t] <= Len(req[t]) /\ Item(t).op \in ops

LastItemDone(t) ==
  /\ pc[t] = "item" /\ pos[t] > Len(req[t])
  /\ Goto(t, "commit")
  /\ UNCHANGED <<db, lock, cur, req, pos, moves, moved, saves>>

\* MUTANT of NextItem: the loop counts down.
NextItemBackwards(t) ==
  /\ Goto(t, "item")
  /\ pos' = [pos EXCEPT ![t] = @ - 1]

NextItem(t) ==
  /\ Goto(t, "item")
  /\ pos' = [pos EXCEPT ![t] = @ + 1]

\* The item needs the movements ms.
Plan(t, ms) ==
  /\ moves' = [moves EXCEPT ![t] = ms]
  /\ Goto(t, "insert")

\* INVALID_QUANTITY, thrown before the item touches anything.
RejectQuantity(t) ==
  /\ At(t, {"RECEIVE", "SELL", "RETURN", "TRANSFER"})
  /\ Item(t).qty <= 0
  /\ Rollback(t)

Commit(t) ==
  /\ pc[t] = "commit"
  /\ exists' = [r \in Rows |-> exists[r] \/ lock[r] = t]
  /\ row' = [r \in Rows |-> View(t, r)]
  /\ ledger' = [r \in Rows |-> ledger[r] + moved[t][r]]
  /\ lock' = [r \in Rows |-> IF lock[r] = t THEN NoTx ELSE lock[r]]
  /\ moved' = [moved EXCEPT ![t] = [r \in Rows |-> 0]]
  /\ Goto(t, "committed")
  /\ UNCHANGED <<cur, req, pos, moves, saves>>

-----------------------------------------------------------------------------
(* ensureStoreProductVariantsScopeForStockAction: read the rows of all     *)
(* variants of the product in the store without a lock, flag them in       *)
(* memory, then repo.save() the new and the changed ones.                  *)

Siblings(r) == {s \in Rows : s[1] = r[1] /\ ProductOf[s[2]] = ProductOf[r[2]]}

\* The columns in memory for sibling s once the loops have run for target r.
Scoped(t, r, s) ==
  LET linked == \E u \in Siblings(r) : Visible(t, u) /\ View(t, u).link
      old    == View(t, s)
  IN  [qty  |-> IF Visible(t, s) THEN old.qty ELSE 0,
       link |-> TRUE,
       act  |-> s = r \/ (Visible(t, s) /\ linked /\ old.act)]

ToSave(t, r) ==
  {s \in Siblings(r) : ~Visible(t, s) \/ Scoped(t, r, s) # View(t, s)}

AfterScope(t) ==
  IF Item(t).op = "RECEIVE"
  THEN Plan(t, <<[row |-> Item(t).row, qty |-> Item(t).qty]>>)
  ELSE Goto(t, "read") /\ UNCHANGED moves

ScopeFind(t) ==
  /\ At(t, {"RECEIVE", "ADJUST"})
  /\ Item(t).op = "RECEIVE" => Item(t).qty > 0
  /\ LET r == Item(t).row IN
     IF ToSave(t, r) = {}
     THEN AfterScope(t) /\ UNCHANGED saves
     ELSE /\ saves' = [saves EXCEPT ![t] =
               {[row |-> s, new |-> ~Visible(t, s), val |-> Scoped(t, r, s),
                 cols |-> Columns] : s \in ToSave(t, r)}]
          /\ Goto(t, "reload")
          /\ UNCHANGED moves
  /\ UNCHANGED <<db, lock, cur, req, pos, moved>>

\* TypeORM's save reloads the stored rows and writes every column whose value
\* in memory differs from the reloaded one, the quantity among them.
Reloaded(t, s) ==
  [s EXCEPT !.cols = {c \in Columns : s.new \/ s.val[c] # View(t, s.row)[c]}]

ScopeReload(t) ==
  /\ pc[t] = "reload"
  /\ saves' = [saves EXCEPT ![t] = {Reloaded(t, s) : s \in saves[t]}]
  /\ Goto(t, "save")
  /\ UNCHANGED <<db, lock, cur, req, pos, moves, moved>>

Saved(t, s) == saves' = [saves EXCEPT ![t] = @ \ {s}]

\* INSERT of a new row: waits for a concurrent inserter.
ScopeInsert(t) ==
  /\ pc[t] = "save"
  /\ \E s \in saves[t] :
       /\ s.new /\ ~exists[s.row] /\ lock[s.row] = NoTx
       /\ Write(t, s.row, s.val)
       /\ Saved(t, s)
  /\ UNCHANGED <<db, pc, req, pos, moves, moved>>

\* UPDATE of a stored row, after every INSERT; waits for the row lock.
ScopeUpdate(t) ==
  /\ pc[t] = "save"
  /\ \A s \in saves[t] : ~s.new
  /\ \E s \in saves[t] :
       /\ IF s.cols = {}
          THEN UNCHANGED <<lock, cur>>
          ELSE /\ Free(t, s.row)
               /\ Write(t, s.row, [c \in Columns |-> IF c \in s.cols THEN s.val[c]
                                                     ELSE View(t, s.row)[c]])
       /\ Saved(t, s)
  /\ UNCHANGED <<db, pc, req, pos, moves, moved>>

ScopeDone(t) ==
  /\ pc[t] = "save" /\ saves[t] = {}
  /\ AfterScope(t)
  /\ UNCHANGED <<db, lock, cur, req, pos, moved, saves>>

-----------------------------------------------------------------------------
(* The operations, up to the movements they decide to write. *)

\* createReturnMovementForSaleLine: no check, the stock comes back.
ReturnStock(t) ==
  /\ At(t, {"RETURN"}) /\ Item(t).qty > 0
  /\ Plan(t, <<[row |-> Item(t).row, qty |-> Item(t).qty]>>)
  /\ UNCHANGED <<db, lock, cur, req, pos, moved, saves>>

\* createCountAdjustment: the signed difference a count session found.
CountAdjustment(t) ==
  /\ At(t, {"COUNT"})
  /\ IF Item(t).qty = 0
     THEN NextItem(t) /\ UNCHANGED moves
     ELSE /\ Plan(t, <<[row |-> Item(t).row, qty |-> Item(t).qty]>>)
          /\ UNCHANGED pos
  /\ UNCHANGED <<db, lock, cur, req, moved, saves>>

\* adjustStockSingle: the current quantity is read without a lock.
AdjustRead(t) ==
  /\ pc[t] = "read"
  /\ LET diff == Item(t).qty - View(t, Item(t).row).qty IN
     IF diff = 0
     THEN NextItem(t) /\ UNCHANGED moves
     ELSE Plan(t, <<[row |-> Item(t).row, qty |-> diff]>>) /\ UNCHANGED pos
  /\ UNCHANGED <<db, lock, cur, req, moved, saves>>

\* MUTANT of Outgoing: the legs of a transfer are swapped.
OutgoingSwapped(t, have) ==
  LET i   == Item(t)
      out == IF i.op = "TRANSFER_ALL" THEN have ELSE i.qty
      leg1 == [row |-> i.to, qty |-> -out]
      leg2 == [row |-> i.row, qty |-> out]
  IN  IF i.op = "TRANSFER_ALL" /\ have <= 0
      THEN NextItem(t) /\ UNCHANGED moves
      ELSE /\ Plan(t, IF i.op = "SELL" THEN <<leg1>> ELSE <<leg1, leg2>>)
           /\ UNCHANGED pos

\* What sellFromStore and transferStockSingle do with the locked quantity have.
Outgoing(t, have) ==
  LET i   == Item(t)
      out == IF i.op = "TRANSFER_ALL" THEN have ELSE i.qty
      leg1 == [row |-> i.row, qty |-> -out]
      leg2 == [row |-> i.to, qty |-> out]
  IN  IF i.op = "TRANSFER_ALL" /\ have <= 0
      THEN NextItem(t) /\ UNCHANGED moves
      ELSE /\ Plan(t, IF i.op = "SELL" THEN <<leg1>> ELSE <<leg1, leg2>>)
           /\ UNCHANGED pos

Enough(t, have) == Item(t).op = "TRANSFER_ALL" \/ have >= Item(t).qty

Outgoings == {"SELL", "TRANSFER", "TRANSFER_ALL"}

AtStockCheck(t) ==
  At(t, Outgoings) /\ (Item(t).op # "TRANSFER_ALL" => Item(t).qty > 0)

\* MUTANT of CheckStock: the SELECT takes no row lock.
CheckStockUnlocked(t) ==
  LET r == Item(t).row IN
  /\ AtStockCheck(t)
  /\ Visible(t, r)
  /\ Enough(t, View(t, r).qty)
  /\ Outgoing(t, View(t, r).qty)
  /\ UNCHANGED <<db, lock, cur, req, moved, saves>>

\* getLockedStockForVariantInStore on a stored row: SELECT ... FOR UPDATE.
CheckStock(t) ==
  LET r == Item(t).row IN
  /\ AtStockCheck(t)
  /\ Visible(t, r) /\ Free(t, r)
  /\ Enough(t, View(t, r).qty)
  /\ Write(t, r, View(t, r))
  /\ Outgoing(t, View(t, r).qty)
  /\ UNCHANGED <<db, req, moved, saves>>

\* NOT_ENOUGH_STOCK.
RejectStock(t) ==
  LET r == Item(t).row IN
  /\ AtStockCheck(t)
  /\ Visible(t, r) /\ Free(t, r)
  /\ ~Enough(t, View(t, r).qty)
  /\ Rollback(t)

\* The locking SELECT finds no row: none is locked.
CheckMiss(t) ==
  /\ AtStockCheck(t)
  /\ ~Visible(t, Item(t).row)
  /\ Goto(t, "checkCreate")
  /\ UNCHANGED <<db, lock, cur, req, pos, moves, moved, saves>>

\* ... and one is inserted with the sum of the movements.
CheckCreate(t) ==
  LET r   == Item(t).row
      sum == ledger[r] + moved[t][r]
  IN
  /\ pc[t] = "checkCreate"
  /\ ~exists[r] /\ lock[r] = NoTx
  /\ IF sum >= 0 /\ Enough(t, sum)
     THEN /\ Write(t, r, [qty |-> sum, link |-> TRUE, act |-> TRUE])
          /\ Outgoing(t, sum)
          /\ UNCHANGED <<db, req, moved, saves>>
     ELSE Rollback(t)

-----------------------------------------------------------------------------
(* createMovement: the movement, then its effect on the summary row. *)

InsertMovement(t) ==
  LET m == Head(moves[t]) IN
  /\ pc[t] = "insert"
  /\ moved' = [moved EXCEPT ![t][m.row] = @ + m.qty]
  /\ Goto(t, "apply")
  /\ UNCHANGED <<db, lock, cur, req, pos, moves, saves>>

\* MUTANT of Applied: the item ends with its first movement.
AppliedFirstOnly(t) ==
  /\ moves' = [moves EXCEPT ![t] = <<>>]
  /\ NextItem(t)

\* The movement at the head is done: the next one of the item, or the next item.
Applied(t) ==
  /\ moves' = [moves EXCEPT ![t] = Tail(@)]
  /\ IF Tail(moves[t]) # <<>>
     THEN Goto(t, "insert") /\ UNCHANGED pos
     ELSE NextItem(t)

\* MUTANT of ApplyMovement: the row is read and written without its lock.
ApplyMovementUnlocked(t) ==
  LET m == Head(moves[t])
      s == [View(t, m.row) EXCEPT !.qty = @ + m.qty]
  IN
  /\ pc[t] = "apply"
  /\ Visible(t, m.row)
  /\ IF s.qty >= 0
     THEN Write(t, m.row, s) /\ Applied(t) /\ UNCHANGED <<db, req, moved, saves>>
     ELSE Rollback(t)

\* applyMovementToStockSummary on a stored row, under its lock.  CHECK
\* (quantity >= 0) turns a negative result into an error.
ApplyMovement(t) ==
  LET m == Head(moves[t])
      s == [View(t, m.row) EXCEPT !.qty = @ + m.qty]
  IN
  /\ pc[t] = "apply"
  /\ Visible(t, m.row) /\ Free(t, m.row)
  /\ IF s.qty >= 0
     THEN Write(t, m.row, s) /\ Applied(t) /\ UNCHANGED <<db, req, moved, saves>>
     ELSE Rollback(t)

ApplyMiss(t) ==
  /\ pc[t] = "apply"
  /\ ~Visible(t, Head(moves[t]).row)
  /\ Goto(t, "create")
  /\ UNCHANGED <<db, lock, cur, req, pos, moves, moved, saves>>

\* No row: one is inserted with quantity 0 and the movement added to it.
ApplyCreate(t) ==
  LET m == Head(moves[t]) IN
  /\ pc[t] = "create"
  /\ ~exists[m.row] /\ lock[m.row] = NoTx
  /\ IF m.qty >= 0
     THEN /\ Write(t, m.row, [qty |-> m.qty, link |-> TRUE, act |-> TRUE])
          /\ Applied(t)
          /\ UNCHANGED <<db, req, moved, saves>>
     ELSE Rollback(t)

-----------------------------------------------------------------------------
(* The database and the environment. *)

\* The row whose lock, or whose insertion, transaction t is about to need.
Needs(t) ==
  CASE AtStockCheck(t) /\ Visible(t, Item(t).row) -> {Item(t).row}
    [] pc[t] = "checkCreate" -> {Item(t).row}
    [] pc[t] = "apply" /\ Visible(t, Head(moves[t]).row) -> {Head(moves[t]).row}
    [] pc[t] = "create" -> {Head(moves[t]).row}
    [] pc[t] = "save" -> {s.row : s \in {x \in saves[t] : x.new \/ x.cols # {}}}
    [] OTHER -> {}

Inserting(t, r) ==
  \/ pc[t] \in {"checkCreate", "create"} /\ r \in Needs(t)
  \/ pc[t] = "save" /\ \E s \in saves[t] : s.row = r /\ s.new

WaitsFor(t, u) == t # u /\ \E r \in Needs(t) : lock[r] = u

\* ux_store_variant_stock_tenant_store_variant: the other inserter committed.
UniqueViolation(t) ==
  /\ \E r \in Rows : Inserting(t, r) /\ exists[r] /\ lock[r] # t
  /\ Rollback(t)

\* MUTANT of DeadlockAbort: a transaction in a cycle waits for ever.
DeadlockIgnored(t) == FALSE /\ WaitsFor(t, t) /\ Rollback(t)

\* PostgreSQL aborts a transaction of every cycle of waits.
DeadlockAbort(t) ==
  /\ \E C \in SUBSET Txs :
       /\ t \in C
       /\ \A u \in C : /\ \E w \in C : WaitsFor(u, w)
                       /\ \E w \in C : WaitsFor(w, u)
  /\ Rollback(t)

\* The process dies, the connection drops, or a later statement of the caller fails.
Fail(t) ==
  /\ pc[t] \notin {"idle", "committed", "aborted"}
  /\ Rollback(t)

Step(t) ==
  \/ LastItemDone(t) \/ RejectQuantity(t) \/ Commit(t)
  \/ ScopeFind(t) \/ ScopeReload(t) \/ ScopeInsert(t) \/ ScopeUpdate(t) \/ ScopeDone(t)
  \/ ReturnStock(t) \/ CountAdjustment(t) \/ AdjustRead(t)
  \/ CheckStock(t) \/ RejectStock(t) \/ CheckMiss(t) \/ CheckCreate(t)
  \/ InsertMovement(t) \/ ApplyMovement(t) \/ ApplyMiss(t) \/ ApplyCreate(t)
  \/ UniqueViolation(t) \/ DeadlockAbort(t)

Finished == /\ \A t \in Txs : pc[t] \in {"committed", "aborted"}
            /\ UNCHANGED vars

Next == (\E t \in Txs : Begin(t) \/ Step(t) \/ Fail(t)) \/ Finished

Spec == Init /\ [][Next]_vars

\* A transaction that has begun is driven on by the event loop and the
\* database; nothing obliges a client to send a request.
FairSpec == Spec /\ \A t \in Txs : WF_vars(Step(t))

-----------------------------------------------------------------------------
(* Properties. *)

TypeOK ==
  /\ exists \in [Rows -> BOOLEAN]
  /\ row \in [Rows -> Summary]
  /\ ledger \in [Rows -> Int]
  /\ lock \in [Rows -> Txs \cup {NoTx}]
  /\ cur \in [Rows -> Summary]
  /\ pc \in [Txs -> PCs]
  /\ req \in [Txs -> Seq(Items)]
  /\ pos \in [Txs -> Nat \ {0}]
  /\ moves \in [Txs -> Seq(Movement)]
  /\ moved \in [Txs -> [Rows -> Int]]
  /\ saves \in [Txs -> SUBSET Save]

\* The rows the scope step loads are all active: either no variant has
\* siblings or no row is ever created beside an existing one, and the database
\* starts with no inactive row.
Settled ==
  /\ \A c \in InitialRows : c.exists => c.row.link /\ c.row.act
  /\ \/ \A v, w \in Variants : ProductOf[v] = ProductOf[w] => v = w
     \/ \A c \in InitialRows : c.exists

\* store_variant_stock is the total of inventory_movements: the quantity any
\* reader sees in a summary row is the sum of that row's movements, whatever
\* receipts, sales, adjustments and transfers run at the same time.
LedgerMatchesSummary == \A r \in Rows : row[r].qty = ledger[r]

\* A sale or transfer that passed the locked stock check still finds that
\* stock when its OUT movement reaches the summary: no other transaction can
\* take it in between, so CHECK (quantity >= 0) never fires for it.
Reserved(t) ==
  (/\ pc[t] \in {"insert", "apply"}
   /\ Item(t).op \in Outgoings
   /\ Head(moves[t]).row = Item(t).row)
  => /\ lock[Item(t).row] = t
     /\ cur[Item(t).row].qty + Head(moves[t]).qty >= 0

CheckedStockStaysAvailable == \A t \in Txs : Reserved(t)

\* A transaction that only transfers leaves the tenant's total of every
\* variant as it was, whichever of its rows others changed meanwhile.
IsTransfer(t) ==
  \A i \in 1..Len(req[t]) : req[t][i].op \in {"TRANSFER", "TRANSFER_ALL"}

TotalOf(v, f) ==
  LET Sum[S \in SUBSET Stores] ==
        IF S = {} THEN 0
        ELSE LET s == CHOOSE x \in S : TRUE IN f[<<s, v>>].qty + Sum[S \ {s}]
  IN  Sum[Stores]

TransferConserves ==
  [][\A t \in Txs :
       pc[t] = "commit" /\ pc'[t] = "committed" /\ IsTransfer(t)
       => \A v \in Variants : TotalOf(v, row') = TotalOf(v, row)]_vars

\* Every request that has begun ends, whatever others hold or wait for.
EveryRequestEnds ==
  \A t \in Txs : pc[t] = "item" ~> pc[t] \in {"committed", "aborted"}

\* The summary and the ledger behave as an atomic stock.
Abstract == INSTANCE AtomicStock WITH stock <- [r \in Rows |-> row[r].qty]

RefinesAtomicStock == Abstract!Spec

-----------------------------------------------------------------------------
(* The invariants behind the properties. *)

\* The part of t's movement at hand that the summary does not show yet.
Unapplied(t, r) ==
  IF pc[t] \in {"apply", "create"} /\ Head(moves[t]).row = r
  THEN Head(moves[t]).qty ELSE 0

\* Where t stands agrees with the item it is at and the movements it has left.
ControlOf(t) ==
  /\ pc[t] \in {"reload", "save", "read"} =>
       pos[t] <= Len(req[t]) /\ Item(t).op \in {"RECEIVE", "ADJUST"}
  /\ pc[t] = "read" => Item(t).op = "ADJUST"
  /\ pc[t] = "checkCreate" => pos[t] <= Len(req[t]) /\ Item(t).op \in Outgoings
  /\ pc[t] \in {"insert", "apply", "create"} =>
       /\ pos[t] <= Len(req[t])
       /\ moves[t] # <<>>
       /\ Item(t).op \in Outgoings =>
            \A i \in 2..Len(moves[t]) : moves[t][i].row # Item(t).row
  /\ \A i \in 1..Len(req[t]) :
       req[t][i].op \in {"TRANSFER", "TRANSFER_ALL"} =>
         req[t][i].to # req[t][i].row /\ req[t][i].to[2] = req[t][i].row[2]

ControlOK == \A t \in Txs : ControlOf(t)

\* Behind a row lock the summary runs ahead of the committed ledger by exactly
\* the holder's own movements; without the lock a movement is not applied.
BookOf(r, t) ==
  IF lock[r] = t
  THEN cur[r].qty = ledger[r] + moved[t][r] - Unapplied(t, r)
  ELSE moved[t][r] = Unapplied(t, r)

Bookkeeping ==
  \A r \in Rows : row[r].qty = ledger[r] /\ \A t \in Txs : BookOf(r, t)

\* In a settled catalogue every row is active, whether committed or not.
Active(s) == s.qty >= 0 /\ s.link /\ s.act

AllActive ==
  /\ \A r \in Rows : IF exists[r] THEN Active(row[r]) ELSE row[r] = NoSummary
  /\ \A r \in Rows : lock[r] # NoTx => Active(cur[r])
  /\ (\E c \in InitialRows : ~c.exists) \/ \A r \in Rows : exists[r]

\* ... and so no transaction saves a row that it has read earlier.
FirstRow == [qty |-> 0, link |-> TRUE, act |-> TRUE]

NoStaleSave == \A t \in Txs : \A s \in saves[t] : s.new /\ s.val = FirstRow

SettledInv == TypeOK /\ ControlOK /\ Bookkeeping /\ AllActive /\ NoStaleSave

ReserveInv == TypeOK /\ ControlOK /\ CheckedStockStaysAvailable

=============================================================================
