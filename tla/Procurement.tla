---------------------------- MODULE Procurement ----------------------------
(***************************************************************************)
(* One purchase order: approval, cancellation and goods receipts, each a   *)
(* transaction that reads the order with its lines and receipts without a  *)
(* lock, decides from what it read, and saves it later.                    *)
(*                                                                         *)
(* An approval and a cancellation save the order as they loaded it: its    *)
(* lines are cascaded, and a receipt that is in the table but not in the   *)
(* loaded order would lose its order, which the schema refuses.            *)
(***************************************************************************)
EXTENDS Integers, Sequences

CONSTANTS
  Lines,     \* lines of the order
  Ordered,   \* Ordered[l]: quantity of line l
  Txs,       \* transactions; each serves one request
  Requests,  \* requests clients may send
  OrderKey,  \* lock key of the purchase_orders row
  Nobody     \* owner of an unlocked row

Statuses == {"NONE", "DRAFT", "APPROVED", "PARTIALLY_RECEIVED", "RECEIVED", "CANCELLED"}

Item == [line : Lines, quantity : Nat \ {0}]
Request == [op : {"CREATE", "APPROVE", "CANCEL", "RECEIVE"}, items : Seq(Item)]

ASSUME OrderAssumption ==
  /\ Ordered \in [Lines -> Nat \ {0}]
  /\ Requests \subseteq Request
  /\ OrderKey \notin Lines /\ Nobody \notin Txs

VARIABLES
  status,    \* purchase_orders.status; "NONE" before the order is created
  received,  \* received[l]: purchase_order_lines.receivedQuantity
  receipts,  \* goods receipts, named by the transaction that made them
  stock,     \* stock[l]: what the receipts of the order have added to the stock
  lock,      \* lock[k]: transaction that holds the row lock of k
  pc, req,
  po,        \* po[t]: the order as t holds it in memory
  dirty,     \* dirty[t]: columns t will write or has written, not committed
  goods,     \* goods[t][l]: quantity t has received into the stock, not committed
  raced      \* two receipts have overlapped (history)

vars == <<status, received, receipts, stock, lock, pc, req, po, dirty, goods, raced>>

None == [l \in Lines |-> 0]
Keys == Lines \cup {OrderKey}
Loaded == [status |-> status, received |-> received, receipts |-> receipts]

Init ==
  /\ status \in {"NONE", "DRAFT", "APPROVED"} /\ received = None /\ stock = None /\ receipts = {}
  /\ lock = [k \in Keys |-> Nobody]
  /\ pc = [t \in Txs |-> "idle"]
  /\ req \in [Txs -> Requests]
  /\ po = [t \in Txs |-> Loaded]
  /\ dirty = [t \in Txs |-> {}]
  /\ goods = [t \in Txs |-> None]
  /\ raced = FALSE

-----------------------------------------------------------------------------
(* Transactions. *)

Active(t) == pc[t] \notin {"idle", "done", "failed"}
Goto(t, label) == pc' = [pc EXCEPT ![t] = label]
Free(t, K) == \A k \in K : lock[k] \in {Nobody, t}
Take(t, K) == lock' = [k \in Keys |-> IF k \in K THEN t ELSE lock[k]]
Release(t) == lock' = [k \in Keys |-> IF lock[k] = t THEN Nobody ELSE lock[k]]

\* A refusal, an error, a lost connection, a crash or a deadlock: the rollback.
Fail(t) ==
  /\ Active(t)
  /\ Goto(t, "failed")
  /\ Release(t)
  /\ UNCHANGED <<status, received, receipts, stock, req, po, dirty, goods, raced>>

Commit(t) ==
  /\ pc[t] = "commit"
  /\ Goto(t, "done")
  /\ Release(t)
  /\ status' = IF OrderKey \in dirty[t] THEN po[t].status ELSE status
  /\ received' = [l \in Lines |-> IF l \in dirty[t] THEN po[t].received[l] ELSE received[l]]
  /\ stock' = [l \in Lines |-> stock[l] + goods[t][l]]
  /\ receipts' = receipts \cup (IF req[t].op = "RECEIVE" THEN {t} ELSE {})
  /\ UNCHANGED <<req, po, dirty, goods, raced>>

-----------------------------------------------------------------------------
(* Creation, approval and cancellation. *)

\* The order and its lines are inserted by one transaction; its id is in the answer.
CreatePurchaseOrder(t) ==
  /\ pc[t] = "idle" /\ req[t].op = "CREATE" /\ status = "NONE"
  /\ status' = "DRAFT"
  /\ received' = None
  /\ Goto(t, "done")
  /\ UNCHANGED <<receipts, stock, lock, req, po, dirty, goods, raced>>

Accepts(op, s) ==
  CASE op = "APPROVE" -> s = "DRAFT"
    [] op = "CANCEL"  -> s \in {"DRAFT", "APPROVED"}
    [] op = "RECEIVE" -> s \in {"APPROVED", "PARTIALLY_RECEIVED"}
    [] OTHER          -> FALSE

Receiving(t) == req[t].op = "RECEIVE" /\ pc[t] \in {"item", "saveLine", "write", "commit"}

\* findPurchaseOrderOrThrow and the check of the status; otherwise Fail refuses.  A
\* receipt also finds its warehouse and inserts its header.
FindOrder(t) ==
  LET op == req[t].op IN
  /\ pc[t] = "start"
  /\ Accepts(op, status)
  /\ po' = [po EXCEPT ![t] = [Loaded EXCEPT !.status =
              CASE op = "APPROVE" -> "APPROVED" [] op = "CANCEL" -> "CANCELLED"
                [] OTHER -> status]]
  /\ Goto(t, IF op = "RECEIVE" THEN "item" ELSE "save")
  /\ raced' = (raced \/ (op = "RECEIVE" /\ \E u \in Txs \ {t} : Receiving(u)))
  /\ UNCHANGED <<status, received, receipts, stock, lock, req, dirty, goods>>

Begin(t) ==
  /\ pc[t] = "idle" /\ req[t].op # "CREATE" /\ status # "NONE"
  /\ Goto(t, "start")
  /\ UNCHANGED <<status, received, receipts, stock, lock, req, po, dirty, goods, raced>>

\* MUTANT of Orphans: the order is loaded without its receipts.
NoReceiptsLoaded(t) == {}

\* Receipts in the table that the loaded order does not have.
Orphans(t) == receipts \ po[t].receipts

\* save(po): the stored order is read again; orphans fail on the NOT NULL of
\* goods_receipts.purchaseOrder, which Fail stands for.
ReloadOrder(t) ==
  /\ pc[t] = "save"
  /\ Orphans(t) = {}
  /\ dirty' = [dirty EXCEPT ![t] =
       {l \in Lines : po[t].received[l] # received[l]}
       \cup {k \in {OrderKey} : po[t].status # status}]
  /\ Goto(t, "write")
  /\ UNCHANGED <<status, received, receipts, stock, lock, req, po, goods, raced>>

\* The UPDATEs of the changed rows, also of the status at the end of a receipt.
WriteOrder(t) ==
  /\ pc[t] = "write"
  /\ Free(t, dirty[t])
  /\ Take(t, dirty[t])
  /\ Goto(t, "commit")
  /\ UNCHANGED <<status, received, receipts, stock, req, po, dirty, goods, raced>>

-----------------------------------------------------------------------------
(* Goods receipts. *)

Remaining(t, l) == Ordered[l] - po[t].received[l]

\* MUTANT of Fits: the quantity ordered is checked, not what remains of it.
FitsOrder(t, i) == i.quantity <= Ordered[i.line]

Fits(t, i) == i.quantity <= Remaining(t, i.line)

\* One item: the receipt line, and receiveStock, which locks the stock of the line's
\* variant until the end.  An item that does not fit fails the whole receipt.
ReceiveItem(t) ==
  /\ pc[t] = "item" /\ req[t].items # <<>>
  /\ LET i == Head(req[t].items) IN
       /\ Fits(t, i)
       /\ Free(t, {i.line})
       /\ Take(t, {i.line})
       /\ goods' = [goods EXCEPT ![t][i.line] = @ + i.quantity]
  /\ Goto(t, "saveLine")
  /\ UNCHANGED <<status, received, receipts, stock, req, po, dirty, raced>>

\* The line gets what was read of it plus what is received now.
SaveLine(t) ==
  /\ pc[t] = "saveLine"
  /\ LET i == Head(req[t].items) IN
       /\ po' = [po EXCEPT ![t].received[i.line] = @ + i.quantity]
       /\ dirty' = [dirty EXCEPT ![t] = @ \cup {i.line}]
  /\ req' = [req EXCEPT ![t].items = Tail(@)]
  /\ Goto(t, "item")
  /\ UNCHANGED <<status, received, receipts, stock, lock, goods, raced>>

\* MUTANT of Full: the lines of this receipt decide.
FullTouched(t) == \A l \in dirty[t] \cap Lines : po[t].received[l] >= Ordered[l]

Full(t) == \A l \in Lines : po[t].received[l] >= Ordered[l]

StatusAfter(t) == IF Full(t) THEN "RECEIVED" ELSE "PARTIALLY_RECEIVED"

\* The new status is saved alone, by id: it is written if the stored one differs.
SetStatus(t) ==
  LET new == StatusAfter(t) IN
  /\ pc[t] = "item" /\ req[t].items = <<>>
  /\ po' = [po EXCEPT ![t].status = new]
  /\ dirty' = [dirty EXCEPT ![t] = @ \cup {k \in {OrderKey} : new # status}]
  /\ Goto(t, "write")
  /\ UNCHANGED <<status, received, receipts, stock, lock, req, goods, raced>>

-----------------------------------------------------------------------------

\* Every request has been served.
Finished ==
  /\ \A t \in Txs : ~Active(t)
  /\ UNCHANGED vars

Step(t) ==
  \/ CreatePurchaseOrder(t) \/ Begin(t) \/ FindOrder(t) \/ ReloadOrder(t) \/ WriteOrder(t)
  \/ ReceiveItem(t) \/ SaveLine(t) \/ SetStatus(t) \/ Commit(t) \/ Fail(t)

Next == (\E t \in Txs : Step(t)) \/ Finished

Spec == Init /\ [][Next]_vars

-----------------------------------------------------------------------------
(* Properties. *)

\* Statuses and quantities are those of the schema; a transaction is at a place of its code.
TypeOK ==
  /\ status \in Statuses
  /\ received \in [Lines -> Nat] /\ stock \in [Lines -> Nat]
  /\ receipts \subseteq Txs
  /\ lock \in [Keys -> Txs \cup {Nobody}]
  /\ pc \in [Txs -> {"idle", "start", "item", "saveLine", "save", "write", "commit",
                     "done", "failed"}]
  /\ req \in [Txs -> Request]
  /\ po \in [Txs -> [status : Statuses, received : [Lines -> Nat], receipts : SUBSET Txs]]
  /\ dirty \in [Txs -> SUBSET Keys]
  /\ goods \in [Txs -> [Lines -> Nat]]
  /\ raced \in BOOLEAN

\* However receipts, approvals and cancellations overlap, a line never claims more than
\* the stock has got for it, and never more than was ordered.
LinesNeverAhead ==
  /\ TypeOK
  /\ \A l \in Lines : received[l] <= stock[l] /\ received[l] <= Ordered[l]

\* As long as receipts do not overlap each other, no overlapping approval or cancellation
\* makes a line forget what was received: the stale lines they hold are not written back.
LinesMatchStock == ~raced => received = stock

\* As long as receipts do not overlap each other, RECEIVED and PARTIALLY_RECEIVED say
\* whether every line is complete, whatever approvals and cancellations overlap them.
StatusFollowsLines ==
  LET complete == \A l \in Lines : received[l] = Ordered[l] IN
  ~raced => /\ status = "RECEIVED" => complete
            /\ status = "PARTIALLY_RECEIVED" => ~complete
=============================================================================
