------------------------ MODULE Procurement_proofs ------------------------
(* Proofs about Procurement: what the lines of the order claim is in the    *)
(* stock and was ordered, and without overlapping receipts it is the stock, *)
(* and the status follows the lines.                                        *)
EXTENDS Procurement, TLAPS

-----------------------------------------------------------------------------
(* Lines never ahead. *)

\* What t has in memory of a line is ordered, and in the stock or among t's goods.
InMemory(t) ==
  \A l \in Lines : /\ po[t].received[l] <= Ordered[l]
                   /\ po[t].received[l] <= stock[l] + goods[t][l]

\* Between the receipt of an item and the save of its line the item fits, and its goods
\* are ahead of the line.
ItemIsAhead(t) ==
  pc[t] = "saveLine" =>
    /\ req[t].items # <<>>
    /\ LET i == Head(req[t].items) IN
         /\ po[t].received[i.line] + i.quantity <= Ordered[i.line]
         /\ po[t].received[i.line] + i.quantity <= stock[i.line] + goods[t][i.line]

OrderInMemory == [status : Statuses, received : [Lines -> Nat], receipts : SUBSET Txs]

NeverAhead == LinesNeverAhead /\ \A t \in Txs : InMemory(t) /\ ItemIsAhead(t)

\* The items of a request are lines with quantities, from the first to the last.
LEMMA ItemsOfRequests ==
  ASSUME TypeOK, NEW t \in Txs, req[t].items # <<>>
  PROVE  /\ req[t].items \in Seq(Item)
         /\ Head(req[t].items) \in Item
         /\ [req[t] EXCEPT !.items = Tail(@)] \in Request
<1>1. req[t] \in Request
  BY DEF TypeOK
<1>2. req[t].items \in Seq(Item)
  BY <1>1 DEF Request
<1>3. Head(req[t].items) \in Item /\ Tail(req[t].items) \in Seq(Item)
  BY <1>2
<1> DEFINE r == [req[t] EXCEPT !.items = Tail(@)]
<1>4. r = [op |-> req[t].op, items |-> Tail(req[t].items)]
  BY <1>1 DEF Request
<1>5. r \in Request
  BY <1>1, <1>3, <1>4 DEF Request
<1> QED
  BY <1>2, <1>3, <1>5

\* More of a line in memory: the rest of the order stays.
LEMMA MoreInMemory ==
  ASSUME NEW o \in OrderInMemory, NEW l \in Lines, NEW n \in Nat
  PROVE  /\ [o EXCEPT !.received[l] = @ + n] \in OrderInMemory
         /\ [o EXCEPT !.received[l] = @ + n].received = [o.received EXCEPT ![l] = @ + n]
         /\ [o EXCEPT !.received[l] = @ + n].status = o.status
         /\ [o EXCEPT !.received[l] = @ + n].receipts = o.receipts
<1> DEFINE r == [o.received EXCEPT ![l] = @ + n]
<1>1. r \in [Lines -> Nat]
  BY DEF OrderInMemory
<1>2. [o EXCEPT !.received[l] = @ + n] = [status |-> o.status, received |-> r, receipts |-> o.receipts]
  BY DEF OrderInMemory
<1> QED
  BY <1>1, <1>2 DEF OrderInMemory

\* The types hold at the start.
LEMMA InitTypes == Init => TypeOK
<1> SUFFICES ASSUME Init PROVE TypeOK
  OBVIOUS
<1>1. None \in [Lines -> Nat] /\ received = None /\ stock = None /\ status \in Statuses
  BY DEF Init, None, Statuses
<1>2. po \in [Txs -> [status : Statuses, received : [Lines -> Nat], receipts : SUBSET Txs]]
  BY <1>1 DEF Init, Loaded
<1>3. goods \in [Txs -> [Lines -> Nat]] /\ req \in [Txs -> Request]
  BY <1>1, OrderAssumption DEF Init
<1>4. /\ lock \in [Keys -> Txs \cup {Nobody}] /\ dirty \in [Txs -> SUBSET Keys]
      /\ receipts \subseteq Txs /\ raced \in BOOLEAN
  BY DEF Init
<1>5. pc \in [Txs -> {"idle", "start", "item", "saveLine", "save", "write", "commit",
                     "done", "failed"}]
  BY DEF Init
<1> QED
  BY <1>1, <1>2, <1>3, <1>4, <1>5 DEF TypeOK

\* Every step keeps the types of the order and of the transactions.
LEMMA StepTypes ==
  ASSUME TypeOK, NEW t \in Txs, Step(t), pc[t] = "saveLine" => req[t].items # <<>>
  PROVE  TypeOK'
<1> USE OrderAssumption
<1>1. CASE CreatePurchaseOrder(t)
  BY <1>1 DEF CreatePurchaseOrder, TypeOK, None, Goto, Statuses
<1>2. CASE Begin(t)
  BY <1>2 DEF Begin, TypeOK, Goto
<1>3. CASE FindOrder(t)
  <2>1. po'[t] \in [status : Statuses, received : [Lines -> Nat], receipts : SUBSET Txs]
    BY <1>3 DEF FindOrder, TypeOK, Loaded, Statuses
  <2>2. po' \in [Txs -> [status : Statuses, received : [Lines -> Nat], receipts : SUBSET Txs]]
    BY <1>3, <2>1 DEF FindOrder, TypeOK
  <2>3. pc' \in [Txs -> {"idle", "start", "item", "saveLine", "save", "write", "commit",
                     "done", "failed"}]
    BY <1>3 DEF FindOrder, TypeOK, Goto
  <2>4. raced' \in BOOLEAN
    BY <1>3 DEF FindOrder, TypeOK
  <2> QED
    BY <1>3, <2>2, <2>3, <2>4 DEF FindOrder, TypeOK
<1>4. CASE ReloadOrder(t)
  BY <1>4 DEF ReloadOrder, TypeOK, Goto, Keys
<1>5. CASE WriteOrder(t)
  BY <1>5 DEF WriteOrder, TypeOK, Goto, Take, Keys
<1>6. CASE ReceiveItem(t)
  <2> DEFINE i == Head(req[t].items)
  <2>1. i.line \in Lines /\ i.quantity \in Nat
    BY <1>6, ItemsOfRequests DEF ReceiveItem, Item
  <2>2. goods' \in [Txs -> [Lines -> Nat]]
    <3>1. goods' = [goods EXCEPT ![t] = [goods[t] EXCEPT ![i.line] = goods[t][i.line] + i.quantity]]
      BY <1>6 DEF ReceiveItem
    <3>2. goods \in [Txs -> [Lines -> Nat]] /\ goods[t][i.line] \in Nat
      BY <2>1 DEF TypeOK
    <3> HIDE DEF i
    <3>3. [goods[t] EXCEPT ![i.line] = goods[t][i.line] + i.quantity] \in [Lines -> Nat]
      BY <2>1, <3>2
    <3> QED
      BY <3>1, <3>2, <3>3
  <2>3. lock' \in [Keys -> Txs \cup {Nobody}]
    BY <1>6 DEF ReceiveItem, TypeOK, Take
  <2> QED
    BY <1>6, <2>2, <2>3 DEF ReceiveItem, TypeOK, Goto
<1>7. CASE SaveLine(t)
  <2> DEFINE i == Head(req[t].items)
  <2>1. i.line \in Lines /\ i.quantity \in Nat
    BY <1>7, ItemsOfRequests DEF SaveLine, Item
  <2>2. po' \in [Txs -> OrderInMemory]
    <3>1. po[t] \in OrderInMemory
      BY DEF TypeOK, OrderInMemory
    <3>2. [po[t] EXCEPT !.received[i.line] = @ + i.quantity] \in OrderInMemory
      BY <2>1, <3>1, MoreInMemory
    <3>3. po' = [po EXCEPT ![t] = [po[t] EXCEPT !.received[i.line] = @ + i.quantity]]
      BY <1>7 DEF SaveLine, TypeOK
    <3> QED
      BY <3>2, <3>3 DEF TypeOK, OrderInMemory
  <2>3. dirty' \in [Txs -> SUBSET Keys]
    BY <1>7, <2>1 DEF SaveLine, TypeOK, Keys
  <2>4. req' \in [Txs -> Request]
    BY <1>7, ItemsOfRequests DEF SaveLine, TypeOK
  <2> QED
    BY <1>7, <2>2, <2>3, <2>4 DEF SaveLine, TypeOK, Goto, OrderInMemory
<1>8. CASE SetStatus(t)
  <2>1. [po[t] EXCEPT !.status = StatusAfter(t)] \in OrderInMemory
    <3>1. po[t] \in OrderInMemory /\ StatusAfter(t) \in Statuses
      BY DEF TypeOK, StatusAfter, Statuses, OrderInMemory
    <3> QED
      BY <3>1 DEF OrderInMemory
  <2>2. po' \in [Txs -> OrderInMemory]
    BY <1>8, <2>1 DEF SetStatus, TypeOK, OrderInMemory
  <2>3. dirty' \in [Txs -> SUBSET Keys]
    BY <1>8 DEF SetStatus, TypeOK, Keys
  <2> QED
    BY <1>8, <2>2, <2>3 DEF SetStatus, TypeOK, Goto, OrderInMemory
<1>9. CASE Commit(t)
  BY <1>9 DEF Commit, TypeOK, Goto, Release, Keys, Statuses
<1>10. CASE Fail(t)
  BY <1>10 DEF Fail, TypeOK, Goto, Release
<1> QED
  BY <1>1, <1>2, <1>3, <1>4, <1>5, <1>6, <1>7, <1>8, <1>9, <1>10 DEF Step

-----------------------------------------------------------------------------

LEMMA InitNeverAhead == Init => NeverAhead
<1> SUFFICES ASSUME Init PROVE NeverAhead
  OBVIOUS
<1>1. TypeOK
  BY InitTypes
<1>2. \A l \in Lines : received[l] <= stock[l] /\ received[l] <= Ordered[l]
  <2> SUFFICES ASSUME NEW l \in Lines PROVE received[l] <= stock[l] /\ received[l] <= Ordered[l]
    OBVIOUS
  <2>1. received[l] = 0 /\ stock[l] = 0
    BY DEF Init, None
  <2>2. Ordered[l] \in Nat
    BY OrderAssumption
  <2> QED
    BY <2>1, <2>2
<1>3. \A t \in Txs : InMemory(t) /\ ItemIsAhead(t)
  BY OrderAssumption DEF Init, None, Loaded, InMemory, ItemIsAhead
<1> QED
  BY <1>1, <1>2, <1>3 DEF NeverAhead, LinesNeverAhead

\* A step of t keeps the lines behind the stock, and t's own copy behind them too.
LEMMA StepNeverAhead ==
  ASSUME NeverAhead, NEW t \in Txs, Step(t)
  PROVE  NeverAhead'
<1> USE OrderAssumption
<1>1. TypeOK /\ (\A u \in Txs : InMemory(u) /\ ItemIsAhead(u))
  BY DEF NeverAhead, LinesNeverAhead
<1>2. TypeOK'
  BY <1>1, StepTypes DEF ItemIsAhead
<1>3. \A l \in Lines : /\ received[l] \in Nat /\ stock[l] \in Nat /\ Ordered[l] \in Nat
                      /\ \A u \in Txs : goods[u][l] \in Nat /\ po[u].received[l] \in Nat
  BY <1>1 DEF TypeOK
<1>4. \A l \in Lines : received[l] <= stock[l] /\ received[l] <= Ordered[l]
  BY DEF NeverAhead, LinesNeverAhead
<1>5. ASSUME NEW u \in Txs, pc[u] = "saveLine"
      PROVE  /\ Head(req[u].items).line \in Lines
             /\ Head(req[u].items).quantity \in Nat
  BY <1>1, <1>5, ItemsOfRequests DEF ItemIsAhead, Item
<1> DEFINE Kept == /\ \A l \in Lines : received'[l] <= stock'[l] /\ received'[l] <= Ordered[l]
                   /\ \A u \in Txs : InMemory(u)' /\ ItemIsAhead(u)'
<1>6. CASE \/ Begin(t) \/ ReloadOrder(t) \/ WriteOrder(t) \/ Fail(t)
  <2>1. UNCHANGED <<received, stock, po, goods, req>>
    BY <1>6 DEF Begin, ReloadOrder, WriteOrder, Fail
  <2>2. \A u \in Txs : pc'[u] = "saveLine" => pc[u] = "saveLine"
    BY <1>1, <1>6 DEF Begin, ReloadOrder, WriteOrder, Fail, Goto, TypeOK
  <2> QED
    BY <1>1, <1>2, <1>4, <2>1, <2>2 DEF NeverAhead, LinesNeverAhead, InMemory, ItemIsAhead
<1>7. CASE CreatePurchaseOrder(t)
  <2>1. UNCHANGED <<stock, po, goods, req>> /\ received' = None
    BY <1>7 DEF CreatePurchaseOrder
  <2>2. \A u \in Txs : pc'[u] = "saveLine" => pc[u] = "saveLine"
    BY <1>1, <1>7 DEF CreatePurchaseOrder, Goto, TypeOK
  <2>3. \A l \in Lines : received'[l] <= stock'[l] /\ received'[l] <= Ordered[l]
    BY <1>3, <2>1 DEF None
  <2> QED
    BY <1>1, <1>2, <2>1, <2>2, <2>3 DEF NeverAhead, LinesNeverAhead, InMemory, ItemIsAhead
<1>8. CASE FindOrder(t)
  <2>1. UNCHANGED <<received, stock, goods, req>>
    BY <1>8 DEF FindOrder
  <2>2. /\ po'[t].received = received
        /\ \A u \in Txs \ {t} : po'[u] = po[u]
        /\ \A u \in Txs : pc'[u] = "saveLine" => pc[u] = "saveLine" /\ u # t
    BY <1>1, <1>8 DEF FindOrder, Loaded, Goto, TypeOK
  <2>3. \A u \in Txs : InMemory(u)'
    BY <1>1, <1>3, <1>4, <2>1, <2>2 DEF InMemory
  <2>4. \A u \in Txs : ItemIsAhead(u)'
    BY <1>1, <2>1, <2>2 DEF ItemIsAhead
  <2> QED
    BY <1>2, <1>4, <2>1, <2>3, <2>4 DEF NeverAhead, LinesNeverAhead
<1>9. CASE ReceiveItem(t)
  <2> DEFINE i == Head(req[t].items)
  <2>1. i.line \in Lines /\ i.quantity \in Nat
    BY <1>1, <1>9, ItemsOfRequests DEF ReceiveItem, Item
  <2>2. /\ UNCHANGED <<received, stock, po, req>> /\ req[t].items # <<>>
        /\ po[t].received[i.line] + i.quantity <= Ordered[i.line]
    <3>1. UNCHANGED <<received, stock, po, req>> /\ req[t].items # <<>> /\ Fits(t, i)
      BY <1>9 DEF ReceiveItem
    <3>2. i.quantity <= Ordered[i.line] - po[t].received[i.line]
      BY <3>1 DEF Fits, Remaining
    <3>3. po[t].received[i.line] \in Nat /\ Ordered[i.line] \in Nat
      BY <1>3, <2>1
    <3> HIDE DEF i
    <3> QED
      BY <2>1, <3>1, <3>2, <3>3
  <2>3. /\ goods'[t][i.line] = goods[t][i.line] + i.quantity
        /\ \A l \in Lines \ {i.line} : goods'[t][l] = goods[t][l]
        /\ \A u \in Txs \ {t} : goods'[u] = goods[u] /\ pc'[u] = pc[u]
    BY <1>1, <1>9, <2>1 DEF ReceiveItem, TypeOK, Goto
  <2>4. \A u \in Txs : InMemory(u)'
    <3>1. \A u \in Txs, l \in Lines : goods[u][l] <= goods'[u][l] /\ goods'[u][l] \in Nat
      BY <1>3, <2>1, <2>3
    <3> QED
      BY <1>1, <1>3, <2>2, <3>1 DEF InMemory
  <2>5. ItemIsAhead(t)'
    <3>1. po[t].received[i.line] <= stock[i.line] + goods[t][i.line]
      BY <1>1, <2>1 DEF InMemory
    <3>2. po[t].received[i.line] + i.quantity <= stock[i.line] + goods'[t][i.line]
      BY <1>3, <2>1, <2>3, <3>1
    <3> QED
      BY <2>2, <3>2 DEF ItemIsAhead
  <2>6. \A u \in Txs \ {t} : ItemIsAhead(u)'
    BY <1>1, <2>2, <2>3 DEF ItemIsAhead
  <2> QED
    BY <1>2, <1>4, <2>2, <2>4, <2>5, <2>6 DEF NeverAhead, LinesNeverAhead
<1>10. CASE SaveLine(t)
  <2> DEFINE i == Head(req[t].items)
  <2>1. pc[t] = "saveLine" /\ i.line \in Lines /\ i.quantity \in Nat
    BY <1>5, <1>10 DEF SaveLine
  <2>2. UNCHANGED <<received, stock, goods>>
    BY <1>10 DEF SaveLine
  <2>3. /\ po'[t].received[i.line] = po[t].received[i.line] + i.quantity
        /\ \A l \in Lines \ {i.line} : po'[t].received[l] = po[t].received[l]
        /\ \A u \in Txs \ {t} : po'[u] = po[u] /\ pc'[u] = pc[u] /\ req'[u] = req[u]
        /\ pc'[t] = "item"
    <3>1. po[t] \in OrderInMemory /\ po[t].received \in [Lines -> Nat]
      BY <1>1 DEF TypeOK, OrderInMemory
    <3>2. po'[t] = [po[t] EXCEPT !.received[i.line] = @ + i.quantity]
      BY <1>1, <1>10 DEF SaveLine, TypeOK
    <3>3. po'[t].received = [po[t].received EXCEPT ![i.line] = @ + i.quantity]
      BY <2>1, <3>1, <3>2, MoreInMemory
    <3>4. /\ \A u \in Txs \ {t} : po'[u] = po[u] /\ pc'[u] = pc[u] /\ req'[u] = req[u]
          /\ pc'[t] = "item"
      BY <1>1, <1>10 DEF SaveLine, TypeOK, Goto
    <3> QED
      BY <2>1, <3>1, <3>3, <3>4
  <2>4. InMemory(t)'
    BY <1>1, <1>3, <2>1, <2>2, <2>3 DEF InMemory, ItemIsAhead
  <2>5. \A u \in Txs \ {t} : InMemory(u)' /\ ItemIsAhead(u)'
    BY <1>1, <2>2, <2>3 DEF InMemory, ItemIsAhead
  <2>6. ItemIsAhead(t)'
    BY <2>3 DEF ItemIsAhead
  <2> QED
    BY <1>2, <1>4, <2>2, <2>4, <2>5, <2>6 DEF NeverAhead, LinesNeverAhead
<1>11. CASE SetStatus(t)
  <2>1. UNCHANGED <<received, stock, goods, req>>
    BY <1>11 DEF SetStatus
  <2>2. /\ \A u \in Txs : po'[u].received = po[u].received
        /\ \A u \in Txs : pc'[u] = "saveLine" => pc[u] = "saveLine"
    BY <1>1, <1>11 DEF SetStatus, Goto, TypeOK
  <2> QED
    BY <1>1, <1>2, <1>4, <2>1, <2>2 DEF NeverAhead, LinesNeverAhead, InMemory, ItemIsAhead
<1>12. CASE Commit(t)
  <2>1. UNCHANGED <<goods, po, req>> /\ \A u \in Txs : pc'[u] = "saveLine" => pc[u] = "saveLine"
    BY <1>1, <1>12 DEF Commit, Goto, TypeOK
  <2>2. \A l \in Lines : /\ stock'[l] = stock[l] + goods[t][l]
                        /\ received'[l] \in {received[l], po[t].received[l]}
    BY <1>12 DEF Commit
  <2>3. \A l \in Lines : received'[l] <= stock'[l] /\ received'[l] <= Ordered[l]
    BY <1>1, <1>3, <1>4, <2>2 DEF InMemory
  <2>4. \A l \in Lines : stock[l] <= stock'[l] /\ stock'[l] \in Nat
    BY <1>3, <2>2
  <2>5. \A u \in Txs : InMemory(u)'
    BY <1>1, <1>3, <2>1, <2>4 DEF InMemory
  <2>6. ASSUME NEW u \in Txs, pc'[u] = "saveLine"
        PROVE  ItemIsAhead(u)'
    <3>1. Head(req[u].items).line \in Lines /\ Head(req[u].items).quantity \in Nat
      BY <1>5, <2>1, <2>6
    <3> DEFINE i == Head(req[u].items)
    <3>2. /\ req[u].items # <<>>
          /\ po[u].received[i.line] + i.quantity <= Ordered[i.line]
          /\ po[u].received[i.line] + i.quantity <= stock[i.line] + goods[u][i.line]
      BY <1>1, <2>1, <2>6 DEF ItemIsAhead
    <3>3. po[u].received[i.line] + i.quantity <= stock'[i.line] + goods[u][i.line]
      <4>1. i.line \in Lines /\ i.quantity \in Nat
        BY <3>1
      <4> HIDE DEF i
      <4>2. /\ po[u].received[i.line] \in Nat /\ goods[u][i.line] \in Nat
            /\ stock[i.line] \in Nat /\ stock'[i.line] \in Nat
            /\ stock[i.line] <= stock'[i.line]
        BY <1>3, <2>4, <4>1
      <4> QED
        BY <3>2, <4>1, <4>2
    <3> QED
      BY <2>1, <3>2, <3>3 DEF ItemIsAhead
  <2>7. \A u \in Txs : ItemIsAhead(u)'
    BY <2>6 DEF ItemIsAhead
  <2> QED
    BY <1>2, <2>3, <2>5, <2>7 DEF NeverAhead, LinesNeverAhead
<1> QED
  BY <1>6, <1>7, <1>8, <1>9, <1>10, <1>11, <1>12 DEF Step

\* However receipts, approvals and cancellations overlap, and wherever they fail, no
\* line of the order claims more than is in the stock for it, or than was ordered.
THEOREM LinesAreBacked == Spec => []LinesNeverAhead
<1>1. Init => NeverAhead
  BY InitNeverAhead
<1>2. NeverAhead /\ [Next]_vars => NeverAhead'
  <2> SUFFICES ASSUME NeverAhead, [Next]_vars PROVE NeverAhead'
    OBVIOUS
  <2>1. CASE \E t \in Txs : Step(t)
    BY <2>1, StepNeverAhead
  <2>2. CASE UNCHANGED vars
    BY <2>2 DEF vars, NeverAhead, LinesNeverAhead, TypeOK, InMemory, ItemIsAhead
  <2> QED
    BY <2>1, <2>2 DEF Next, Finished
<1>3. NeverAhead => LinesNeverAhead
  BY DEF NeverAhead
<1> QED
  BY <1>1, <1>2, <1>3, PTL DEF Spec

\* So a receipt never makes a line exceed its quantity: the types of the order hold.
THEOREM OrderTypes == Spec => []TypeOK
<1>1. LinesNeverAhead => TypeOK
  BY DEF LinesNeverAhead
<1> QED
  BY <1>1, LinesAreBacked, PTL

-----------------------------------------------------------------------------
(* Lines match the stock as long as receipts do not overlap. *)

Working == {"save", "item", "saveLine", "write", "commit"}

\* What a transaction may hold at the places of its code.
Control(t) ==
  /\ pc[t] = "save" => req[t].op # "RECEIVE"
  /\ pc[t] \in {"item", "saveLine"} => req[t].op = "RECEIVE"
  /\ pc[t] \in {"idle", "start"} => dirty[t] = {} /\ goods[t] = None
  /\ req[t].op # "RECEIVE" => goods[t] = None
  /\ pc[t] \in Working => po[t].status # "NONE"
  /\ po[t].receipts \subseteq receipts
  /\ t \in receipts => pc[t] = "done"
  /\ status = "NONE" => pc[t] = "idle"

\* The item of t whose goods are in the stock and whose line is not yet saved.
Unsaved(t, l) ==
  IF pc[t] = "saveLine" /\ Head(req[t].items).line = l THEN Head(req[t].items).quantity ELSE 0

\* A receipt's lines are ahead of the stock by the receipt's goods alone, and it will
\* write every line that it is ahead with.
Exact(t) ==
  Receiving(t) => \A l \in Lines :
    /\ po[t].received[l] + Unsaved(t, l) = stock[l] + goods[t][l]
    /\ l \notin dirty[t] => goods[t][l] = Unsaved(t, l)

\* An approval or a cancellation that passes the reload writes no line back.
LeavesLines(t) ==
  req[t].op # "RECEIVE" =>
    /\ pc[t] = "save" /\ Orphans(t) = {} => po[t].received = received
    /\ pc[t] \in {"write", "commit"} => dirty[t] \cap Lines = {}

Apart ==
  ~raced =>
    /\ received = stock
    /\ \A t, u \in Txs : Receiving(t) /\ Receiving(u) => t = u
    /\ \A t \in Txs : Exact(t) /\ LeavesLines(t)

NothingLost ==
  /\ NeverAhead
  /\ status = "NONE" => stock = None
  /\ \A t \in Txs : Control(t)
  /\ Apart

LEMMA InitNothingLost == Init => NothingLost
<1> SUFFICES ASSUME Init PROVE NothingLost
  OBVIOUS
<1>1. NeverAhead
  BY InitNeverAhead
<1>2. \A t \in Txs : Control(t)
  BY DEF Init, Control, Working, Loaded
<1>3. Apart
  BY DEF Init, Apart, Exact, LeavesLines, Receiving
<1>4. status = "NONE" => stock = None
  BY DEF Init
<1> QED
  BY <1>1, <1>2, <1>3, <1>4 DEF NothingLost

\* Saving a line changes the transaction's copy of that line, its dirty columns and the
\* items that are left.
LEMMA SaveLineEffect ==
  ASSUME NeverAhead, NEW t \in Txs, SaveLine(t)
  PROVE  LET i == Head(req[t].items) IN
         /\ i.line \in Lines /\ i.quantity \in Nat
         /\ pc[t] = "saveLine" /\ pc'[t] = "item" /\ req'[t].op = req[t].op
         /\ po'[t].received = [po[t].received EXCEPT ![i.line] = @ + i.quantity]
         /\ po'[t].status = po[t].status /\ po'[t].receipts = po[t].receipts
         /\ dirty'[t] = dirty[t] \cup {i.line}
         /\ \A u \in Txs \ {t} : /\ pc'[u] = pc[u] /\ req'[u] = req[u] /\ po'[u] = po[u]
                                /\ dirty'[u] = dirty[u]
<1> DEFINE i == Head(req[t].items)
<1>1. TypeOK /\ ItemIsAhead(t)
  BY DEF NeverAhead, LinesNeverAhead
<1>2. i.line \in Lines /\ i.quantity \in Nat
  BY <1>1, ItemsOfRequests DEF SaveLine, ItemIsAhead, Item
<1>3. po[t] \in OrderInMemory /\ req[t] \in Request
  BY <1>1 DEF TypeOK, OrderInMemory
<1>4. po'[t] = [po[t] EXCEPT !.received[i.line] = @ + i.quantity]
  BY <1>1 DEF SaveLine, TypeOK
<1>5. req'[t] = [req[t] EXCEPT !.items = Tail(@)]
  BY <1>1 DEF SaveLine, TypeOK
<1>6. req'[t].op = req[t].op
  BY <1>3, <1>5 DEF Request
<1>7. /\ po'[t].received = [po[t].received EXCEPT ![i.line] = @ + i.quantity]
      /\ po'[t].status = po[t].status /\ po'[t].receipts = po[t].receipts
  BY <1>2, <1>3, <1>4, MoreInMemory
<1>8. pc[t] = "saveLine" /\ pc'[t] = "item" /\ dirty'[t] = dirty[t] \cup {i.line}
  BY <1>1 DEF SaveLine, Goto, TypeOK
<1>9. \A u \in Txs \ {t} : /\ pc'[u] = pc[u] /\ req'[u] = req[u] /\ po'[u] = po[u]
                           /\ dirty'[u] = dirty[u]
  BY <1>1 DEF SaveLine, Goto, TypeOK
<1> QED
  BY <1>2, <1>6, <1>7, <1>8, <1>9

\* Every step keeps the places of the code.
LEMMA StepControl ==
  ASSUME NothingLost, TypeOK', NEW t \in Txs, Step(t)
  PROVE  (status = "NONE" => stock = None)' /\ \A u \in Txs : Control(u)'
<1> USE OrderAssumption
<1>1. TypeOK /\ (status = "NONE" => stock = None) /\ \A u \in Txs : Control(u)
  BY DEF NothingLost, NeverAhead, LinesNeverAhead
<1>2. CASE CreatePurchaseOrder(t)
  <2>1. \A u \in Txs : pc[u] = "idle"
    BY <1>1, <1>2 DEF CreatePurchaseOrder, Control
  <2>2. status' = "DRAFT" /\ pc' = [pc EXCEPT ![t] = "done"]
    BY <1>2 DEF CreatePurchaseOrder, Goto
  <2> QED
    BY <1>1, <1>2, <2>1, <2>2 DEF CreatePurchaseOrder, Control, Working, TypeOK
<1>3. CASE Begin(t)
  BY <1>1, <1>3 DEF Begin, Goto, Control, Working, TypeOK
<1>4. CASE FindOrder(t)
  <2>1. status # "NONE" /\ UNCHANGED <<status, stock, receipts, req, dirty, goods>>
    BY <1>4 DEF FindOrder, Accepts
  <2>2. /\ po'[t].receipts = receipts /\ po'[t].status # "NONE"
        /\ pc'[t] = IF req[t].op = "RECEIVE" THEN "item" ELSE "save"
        /\ \A u \in Txs \ {t} : po'[u] = po[u] /\ pc'[u] = pc[u]
    BY <1>1, <1>4 DEF FindOrder, Loaded, Goto, Accepts, TypeOK
  <2>3. t \notin receipts
    BY <1>1, <1>4 DEF Control, FindOrder
  <2> QED
    BY <1>1, <2>1, <2>2, <2>3 DEF Control, Working
<1>5. CASE ReloadOrder(t)
  BY <1>1, <1>5 DEF ReloadOrder, Goto, Control, Working, TypeOK
<1>6. CASE WriteOrder(t)
  BY <1>1, <1>6 DEF WriteOrder, Goto, Control, Working, TypeOK
<1>7. CASE ReceiveItem(t)
  <2>1. req[t].op = "RECEIVE" /\ pc[t] = "item" /\ pc'[t] = "saveLine"
    BY <1>1, <1>7 DEF ReceiveItem, Control, Goto, TypeOK
  <2>2. \A u \in Txs \ {t} : goods'[u] = goods[u] /\ pc'[u] = pc[u]
    BY <1>1, <1>7 DEF ReceiveItem, Goto, TypeOK
  <2> QED
    BY <1>1, <1>7, <2>1, <2>2 DEF ReceiveItem, Control, Working
<1>8. CASE SaveLine(t)
  <2>1. /\ pc[t] = "saveLine" /\ pc'[t] = "item"
        /\ req'[t].op = req[t].op /\ po'[t].receipts = po[t].receipts /\ po'[t].status = po[t].status
        /\ UNCHANGED <<status, stock, receipts, goods>>
    BY <1>8, SaveLineEffect DEF SaveLine, NothingLost
  <2>2. \A u \in Txs \ {t} : /\ pc'[u] = pc[u] /\ req'[u] = req[u] /\ po'[u] = po[u]
                             /\ dirty'[u] = dirty[u]
    BY <1>8, SaveLineEffect DEF NothingLost
  <2> QED
    BY <1>1, <2>1, <2>2 DEF Control, Working
<1>9. CASE SetStatus(t)
  <2>1. /\ pc[t] = "item" /\ pc'[t] = "write"
        /\ po'[t].receipts = po[t].receipts /\ po'[t].status # "NONE"
        /\ UNCHANGED <<status, stock, receipts, goods, req>>
    BY <1>1, <1>9 DEF SetStatus, StatusAfter, Goto, TypeOK
  <2>2. \A u \in Txs \ {t} : pc'[u] = pc[u] /\ po'[u] = po[u] /\ dirty'[u] = dirty[u]
    BY <1>1, <1>9 DEF SetStatus, Goto, TypeOK
  <2> QED
    BY <1>1, <2>1, <2>2 DEF Control, Working
<1>10. CASE Commit(t)
  <2>1. pc[t] = "commit" /\ po[t].status # "NONE" /\ status # "NONE"
    BY <1>1, <1>10 DEF Commit, Control, Working
  <2>2. status' # "NONE" /\ receipts \subseteq receipts' /\ receipts' \subseteq receipts \cup {t}
    BY <1>10, <2>1 DEF Commit
  <2>3. pc'[t] = "done" /\ \A u \in Txs \ {t} : pc'[u] = pc[u]
    BY <1>1, <1>10 DEF Commit, Goto, TypeOK
  <2> QED
    BY <1>1, <1>10, <2>1, <2>2, <2>3 DEF Commit, Control, Working
<1>11. CASE Fail(t)
  <2>1. status # "NONE" /\ t \notin receipts
    BY <1>1, <1>11 DEF Fail, Active, Control
  <2> QED
    BY <1>1, <1>11, <2>1 DEF Fail, Goto, Control, Working, TypeOK
<1> QED
  BY <1>2, <1>3, <1>4, <1>5, <1>6, <1>7, <1>8, <1>9, <1>10, <1>11 DEF Step

\* Every step keeps the lines and the stock together, until two receipts overlap.
LEMMA StepApart ==
  ASSUME NothingLost, NeverAhead', NEW t \in Txs, Step(t)
  PROVE  Apart'
<1> USE OrderAssumption
<1> SUFFICES ASSUME ~raced'
             PROVE  /\ received' = stock'
                    /\ \A u, w \in Txs : Receiving(u)' /\ Receiving(w)' => u = w
                    /\ \A u \in Txs : Exact(u)' /\ LeavesLines(u)'
  BY DEF Apart
<1>1. TypeOK /\ (\A u \in Txs : Control(u)) /\ (status = "NONE" => stock = None)
  BY DEF NothingLost, NeverAhead, LinesNeverAhead
<1>2. ~raced
  BY <1>1 DEF Step, CreatePurchaseOrder, Begin, FindOrder, ReloadOrder, WriteOrder, ReceiveItem,
              SaveLine, SetStatus, Commit, Fail
<1>3. /\ received = stock
      /\ \A u, w \in Txs : Receiving(u) /\ Receiving(w) => u = w
      /\ \A u \in Txs : Exact(u) /\ LeavesLines(u)
  BY <1>2 DEF NothingLost, Apart
<1>4. \A l \in Lines : /\ received[l] \in Nat /\ stock[l] \in Nat
                       /\ \A u \in Txs : goods[u][l] \in Nat /\ po[u].received[l] \in Nat
  BY <1>1 DEF TypeOK
<1>5. CASE CreatePurchaseOrder(t)
  <2>1. \A u \in Txs : pc'[u] \in {"idle", "done"}
    BY <1>1, <1>5 DEF CreatePurchaseOrder, Control, Goto, TypeOK
  <2>2. received' = stock'
    BY <1>1, <1>5 DEF CreatePurchaseOrder
  <2> QED
    BY <2>1, <2>2 DEF Receiving, Exact, LeavesLines
<1>6. CASE Begin(t)
  <2>1. UNCHANGED <<received, stock, receipts, req, po, dirty, goods>>
    BY <1>6 DEF Begin
  <2>2. pc'[t] = "start" /\ \A u \in Txs \ {t} : pc'[u] = pc[u]
    BY <1>1, <1>6 DEF Begin, Goto, TypeOK
  <2> QED
    BY <1>3, <2>1, <2>2 DEF Receiving, Exact, Unsaved, LeavesLines, Orphans
<1>7. CASE FindOrder(t)
  <2>1. UNCHANGED <<received, stock, receipts, req, dirty, goods>>
    BY <1>7 DEF FindOrder
  <2>2. /\ po'[t].receipts = receipts /\ po'[t].received = received
        /\ pc'[t] = IF req[t].op = "RECEIVE" THEN "item" ELSE "save"
        /\ \A u \in Txs \ {t} : po'[u] = po[u] /\ pc'[u] = pc[u]
    BY <1>1, <1>7 DEF FindOrder, Loaded, Goto, TypeOK
  <2>3. goods[t] = None /\ dirty[t] = {}
    BY <1>1, <1>7 DEF FindOrder, Control
  <2>4. req[t].op = "RECEIVE" => \A u \in Txs \ {t} : ~Receiving(u)
    BY <1>7 DEF FindOrder
  <2>5. \A u, w \in Txs : Receiving(u)' /\ Receiving(w)' => u = w
    BY <1>3, <2>1, <2>2, <2>4 DEF Receiving
  <2>6. Exact(t)'
    BY <1>3, <1>4, <2>1, <2>2, <2>3 DEF Exact, Unsaved, Receiving, None
  <2>7. LeavesLines(t)'
    BY <2>1, <2>2 DEF LeavesLines
  <2>8. \A u \in Txs \ {t} : Exact(u)' /\ LeavesLines(u)'
    BY <1>3, <2>1, <2>2 DEF Exact, Unsaved, Receiving, LeavesLines, Orphans
  <2> QED
    BY <1>3, <2>1, <2>5, <2>6, <2>7, <2>8
<1>8. CASE ReloadOrder(t)
  <2>1. UNCHANGED <<received, stock, receipts, req, po, goods>> /\ pc[t] = "save" /\ Orphans(t) = {}
    BY <1>8 DEF ReloadOrder
  <2>2. /\ pc'[t] = "write" /\ req[t].op # "RECEIVE"
        /\ \A u \in Txs \ {t} : pc'[u] = pc[u] /\ dirty'[u] = dirty[u]
    BY <1>1, <1>8 DEF ReloadOrder, Goto, Control, TypeOK
  <2>3. po[t].received = received
    BY <1>3, <2>1, <2>2 DEF LeavesLines
  <2>4. dirty'[t] \cap Lines = {}
    BY <1>1, <1>8, <2>3 DEF ReloadOrder, TypeOK
  <2> QED
    BY <1>3, <2>1, <2>2, <2>4 DEF Receiving, Exact, Unsaved, LeavesLines, Orphans
<1>9. CASE WriteOrder(t)
  <2>1. UNCHANGED <<received, stock, receipts, req, po, dirty, goods>> /\ pc[t] = "write"
    BY <1>9 DEF WriteOrder
  <2>2. pc'[t] = "commit" /\ \A u \in Txs \ {t} : pc'[u] = pc[u]
    BY <1>1, <1>9 DEF WriteOrder, Goto, TypeOK
  <2> QED
    BY <1>3, <2>1, <2>2 DEF Receiving, Exact, Unsaved, LeavesLines, Orphans
<1>10. CASE ReceiveItem(t)
  <2> DEFINE i == Head(req[t].items)
  <2>1. UNCHANGED <<received, stock, receipts, req, po, dirty>> /\ pc[t] = "item"
    BY <1>10 DEF ReceiveItem
  <2>2. i.line \in Lines /\ i.quantity \in Nat
    BY <1>1, <1>10, ItemsOfRequests DEF ReceiveItem, Item
  <2>3. /\ pc'[t] = "saveLine" /\ req[t].op = "RECEIVE"
        /\ goods'[t][i.line] = goods[t][i.line] + i.quantity
        /\ \A l \in Lines \ {i.line} : goods'[t][l] = goods[t][l]
        /\ \A u \in Txs \ {t} : goods'[u] = goods[u] /\ pc'[u] = pc[u]
    BY <1>1, <1>10, <2>2 DEF ReceiveItem, TypeOK, Goto, Control
  <2>4. \A l \in Lines : /\ po[t].received[l] = stock[l] + goods[t][l]
                         /\ l \notin dirty[t] => goods[t][l] = 0
    <3>1. Receiving(t)
      BY <2>1, <2>3 DEF Receiving
    <3>2. \A l \in Lines : /\ po[t].received[l] + 0 = stock[l] + goods[t][l]
                           /\ l \notin dirty[t] => goods[t][l] = 0
      BY <1>3, <2>1, <3>1 DEF Exact, Unsaved
    <3> QED
      BY <1>4, <3>2
  <2>5. Exact(t)'
    <3> SUFFICES ASSUME NEW l \in Lines
                 PROVE  /\ po[t].received[l] + Unsaved(t, l)' = stock[l] + goods'[t][l]
                        /\ l \notin dirty[t] => goods'[t][l] = Unsaved(t, l)'
      BY <2>1 DEF Exact
    <3>1. Unsaved(t, l)' = IF i.line = l THEN i.quantity ELSE 0
      BY <2>1, <2>3 DEF Unsaved
    <3> QED
      BY <1>4, <2>2, <2>3, <2>4, <3>1
  <2>6. \A u \in Txs \ {t} : Exact(u)'
    BY <1>3, <2>1, <2>3 DEF Exact, Unsaved, Receiving
  <2>7. \A u \in Txs : LeavesLines(u)'
    BY <1>3, <2>1, <2>3 DEF LeavesLines, Orphans
  <2>8. \A u, w \in Txs : Receiving(u)' /\ Receiving(w)' => u = w
    BY <1>3, <2>1, <2>3 DEF Receiving
  <2> QED
    BY <1>3, <2>1, <2>5, <2>6, <2>7, <2>8
<1>11. CASE SaveLine(t)
  <2> DEFINE i == Head(req[t].items)
  <2>1. UNCHANGED <<received, stock, receipts, goods>>
    BY <1>11 DEF SaveLine
  <2>2. /\ i.line \in Lines /\ i.quantity \in Nat
        /\ pc[t] = "saveLine" /\ pc'[t] = "item" /\ req'[t].op = req[t].op
        /\ po'[t].received = [po[t].received EXCEPT ![i.line] = @ + i.quantity]
        /\ dirty'[t] = dirty[t] \cup {i.line}
        /\ \A u \in Txs \ {t} : /\ pc'[u] = pc[u] /\ req'[u] = req[u] /\ po'[u] = po[u]
                                /\ dirty'[u] = dirty[u]
    BY <1>11, SaveLineEffect DEF NothingLost
  <2>3. req[t].op = "RECEIVE" /\ Receiving(t)
    BY <1>1, <2>2 DEF Control, Receiving
  <2>4. Exact(t)'
    <3> SUFFICES ASSUME NEW l \in Lines
                 PROVE  /\ po'[t].received[l] + Unsaved(t, l)' = stock[l] + goods[t][l]
                        /\ l \notin dirty'[t] => goods[t][l] = Unsaved(t, l)'
      BY <2>1 DEF Exact
    <3>1. Unsaved(t, l)' = 0 /\ Unsaved(t, l) = IF i.line = l THEN i.quantity ELSE 0
      BY <2>2 DEF Unsaved
    <3>2. po'[t].received[l] = IF i.line = l THEN po[t].received[l] + i.quantity ELSE po[t].received[l]
      BY <1>1, <2>2 DEF TypeOK
    <3>3. /\ po[t].received[l] + Unsaved(t, l) = stock[l] + goods[t][l]
          /\ l \notin dirty[t] => goods[t][l] = Unsaved(t, l)
      BY <1>3, <2>3 DEF Exact
    <3> QED
      BY <1>4, <2>2, <3>1, <3>2, <3>3
  <2>5. \A u \in Txs \ {t} : Exact(u)' /\ LeavesLines(u)'
    BY <1>3, <2>1, <2>2 DEF Exact, Unsaved, Receiving, LeavesLines, Orphans
  <2>6. LeavesLines(t)'
    BY <2>2, <2>3 DEF LeavesLines
  <2>7. \A u, w \in Txs : Receiving(u)' /\ Receiving(w)' => u = w
    BY <1>3, <2>2 DEF Receiving
  <2> QED
    BY <1>3, <2>1, <2>4, <2>5, <2>6, <2>7
<1>12. CASE SetStatus(t)
  <2>1. UNCHANGED <<received, stock, receipts, req, goods>> /\ pc[t] = "item"
    BY <1>12 DEF SetStatus
  <2>2. /\ pc'[t] = "write" /\ req[t].op = "RECEIVE"
        /\ po'[t].received = po[t].received
        /\ \A l \in Lines : l \in dirty'[t] <=> l \in dirty[t]
        /\ \A u \in Txs \ {t} : pc'[u] = pc[u] /\ po'[u] = po[u] /\ dirty'[u] = dirty[u]
    BY <1>1, <1>12 DEF SetStatus, Goto, TypeOK, Control
  <2>3. Exact(t)'
    BY <1>3, <2>1, <2>2 DEF Exact, Unsaved, Receiving
  <2>4. LeavesLines(t)'
    BY <2>1, <2>2 DEF LeavesLines
  <2>5. \A u \in Txs \ {t} : Exact(u)' /\ LeavesLines(u)'
    BY <1>3, <2>1, <2>2 DEF Exact, Unsaved, Receiving, LeavesLines, Orphans
  <2>6. \A u, w \in Txs : Receiving(u)' /\ Receiving(w)' => u = w
    BY <1>3, <2>1, <2>2 DEF Receiving
  <2> QED
    BY <1>3, <2>1, <2>3, <2>4, <2>5, <2>6
<1>13. CASE Commit(t)
  <2>1. UNCHANGED <<req, po, dirty, goods>> /\ pc[t] = "commit"
    BY <1>13 DEF Commit
  <2>2. pc'[t] = "done" /\ \A u \in Txs \ {t} : pc'[u] = pc[u]
    BY <1>1, <1>13 DEF Commit, Goto, TypeOK
  <2>3. /\ stock' = [l \in Lines |-> stock[l] + goods[t][l]]
        /\ received' = [l \in Lines |-> IF l \in dirty[t] THEN po[t].received[l] ELSE received[l]]
    BY <1>13 DEF Commit
  <2>4. \A u, w \in Txs : Receiving(u)' /\ Receiving(w)' => u = w
    BY <1>3, <2>1, <2>2 DEF Receiving
  <2>5. Exact(t)' /\ LeavesLines(t)'
    BY <2>2 DEF Exact, Receiving, LeavesLines
  <2>6. CASE req[t].op = "RECEIVE"
    <3>1. Receiving(t)
      BY <2>1, <2>6 DEF Receiving
    <3>2. \A l \in Lines : /\ po[t].received[l] + 0 = stock[l] + goods[t][l]
                           /\ l \notin dirty[t] => goods[t][l] = 0
      BY <1>3, <2>1, <3>1 DEF Exact, Unsaved
    <3>3. received' = stock'
      BY <1>3, <1>4, <2>3, <3>2
    <3>4. \A u \in Txs \ {t} : ~Receiving(u)
      BY <1>3, <3>1
    <3>5. \A u \in Txs \ {t} : Exact(u)'
      BY <2>1, <2>2, <3>4 DEF Exact, Receiving
    <3>6. receipts' = receipts \cup {t} /\ t \notin receipts
      BY <1>1, <1>13, <2>6 DEF Commit, Control
    <3>7. \A u \in Txs \ {t} : LeavesLines(u)'
      BY <1>1, <1>3, <2>1, <2>2, <3>6 DEF LeavesLines, Orphans, Control
    <3> QED
      BY <2>4, <2>5, <3>3, <3>5, <3>7
  <2>7. CASE req[t].op # "RECEIVE"
    <3>1. dirty[t] \cap Lines = {} /\ goods[t] = None
      BY <1>1, <1>3, <2>1, <2>7 DEF LeavesLines, Control
    <3>2. stock' = stock
      BY <1>1, <1>4, <2>3, <3>1 DEF None, TypeOK
    <3>3. received' = received /\ receipts' = receipts
      BY <1>1, <1>13, <2>3, <2>7, <3>1 DEF TypeOK, Commit
    <3>4. \A u \in Txs \ {t} : Exact(u)' /\ LeavesLines(u)'
      BY <1>3, <2>1, <2>2, <3>2, <3>3 DEF Exact, Unsaved, Receiving, LeavesLines, Orphans
    <3> QED
      BY <1>3, <2>4, <2>5, <3>2, <3>3, <3>4
  <2> QED
    BY <2>6, <2>7
<1>14. CASE Fail(t)
  <2>1. UNCHANGED <<received, stock, receipts, req, po, dirty, goods>>
    BY <1>14 DEF Fail
  <2>2. pc'[t] = "failed" /\ \A u \in Txs \ {t} : pc'[u] = pc[u]
    BY <1>1, <1>14 DEF Fail, Goto, TypeOK
  <2> QED
    BY <1>3, <2>1, <2>2 DEF Receiving, Exact, Unsaved, LeavesLines, Orphans
<1> QED
  BY <1>5, <1>6, <1>7, <1>8, <1>9, <1>10, <1>11, <1>12, <1>13, <1>14 DEF Step

LEMMA StepNothingLost == NothingLost /\ [Next]_vars => NothingLost'
<1> SUFFICES ASSUME NothingLost, [Next]_vars PROVE NothingLost'
  OBVIOUS
<1>1. ASSUME NEW t \in Txs, Step(t) PROVE NothingLost'
  <2>1. NeverAhead'
    BY <1>1, StepNeverAhead DEF NothingLost
  <2>2. (status = "NONE" => stock = None)' /\ \A u \in Txs : Control(u)'
    BY <1>1, <2>1, StepControl DEF NeverAhead, LinesNeverAhead
  <2>3. Apart'
    BY <1>1, <2>1, StepApart
  <2> QED
    BY <2>1, <2>2, <2>3 DEF NothingLost
<1>2. CASE UNCHANGED vars
  BY <1>2 DEF vars, NothingLost, NeverAhead, LinesNeverAhead, TypeOK, InMemory, ItemIsAhead,
              Control, Apart, Exact, LeavesLines, Receiving, Unsaved, Orphans
<1> QED
  BY <1>1, <1>2 DEF Next, Finished

\* As long as no two receipts of the order overlap, its lines say what the stock got:
\* an approval or a cancellation that loaded the order before a receipt and saves it
\* afterwards fails on the receipt it does not know, and otherwise holds current lines.
THEOREM NothingReceivedIsForgotten == Spec => []LinesMatchStock
<1>1. Init => NothingLost
  BY InitNothingLost
<1>2. NothingLost /\ [Next]_vars => NothingLost'
  BY StepNothingLost
<1>3. NothingLost => LinesMatchStock
  BY DEF NothingLost, Apart, LinesMatchStock
<1> QED
  BY <1>1, <1>2, <1>3, PTL DEF Spec

-----------------------------------------------------------------------------
(* The status of the order says whether its lines are complete. *)

Complete == \A l \in Lines : received[l] = Ordered[l]
ReceiptStatuses == {"RECEIVED", "PARTIALLY_RECEIVED"}

\* What t is about to make of the status: a receipt writes what its lines say, unless the
\* table said so already and has since been left alone or been approved or cancelled.
Tells(t) ==
  pc[t] \in {"save", "write", "commit"} =>
    IF req[t].op = "RECEIVE"
    THEN /\ po[t].status = StatusAfter(t)
         /\ OrderKey \notin dirty[t] => status = po[t].status \/ status \notin ReceiptStatuses
    ELSE po[t].status \in {"APPROVED", "CANCELLED"}

StatusTells == StatusFollowsLines /\ (~raced => \A t \in Txs : Tells(t))

LEMMA InitStatusTells == Init => StatusTells
BY DEF Init, StatusTells, StatusFollowsLines, Tells

\* When a receipt commits, its lines become those of the order.
LEMMA ReceiptIsComplete ==
  ASSUME NothingLost, ~raced, NEW t \in Txs, Commit(t), req[t].op = "RECEIVE"
  PROVE  Full(t) <=> Complete'
<1>1. /\ pc[t] = "commit" /\ Receiving(t)
      /\ received' = [l \in Lines |-> IF l \in dirty[t] THEN po[t].received[l] ELSE received[l]]
  BY DEF Commit, Receiving
<1>2. TypeOK /\ InMemory(t) /\ received = stock /\ Exact(t)
  BY DEF NothingLost, NeverAhead, LinesNeverAhead, Apart
<1>3. ASSUME NEW l \in Lines PROVE received'[l] = po[t].received[l]
  <2>1. /\ po[t].received[l] + 0 = stock[l] + goods[t][l]
        /\ l \notin dirty[t] => goods[t][l] = 0
    BY <1>1, <1>2 DEF Exact, Unsaved
  <2>2. stock[l] \in Nat /\ goods[t][l] \in Nat /\ po[t].received[l] \in Nat
    BY <1>2 DEF TypeOK
  <2> QED
    BY <1>1, <1>2, <2>1, <2>2
<1>4. ASSUME NEW l \in Lines PROVE po[t].received[l] >= Ordered[l] <=> po[t].received[l] = Ordered[l]
  <2>1. po[t].received[l] \in Nat
    BY <1>2 DEF TypeOK
  <2>2. po[t].received[l] <= Ordered[l] /\ Ordered[l] \in Nat
    BY <1>2, OrderAssumption DEF InMemory
  <2> QED
    BY <2>1, <2>2
<1> QED
  BY <1>3, <1>4 DEF Full, Complete

LEMMA StepStatusTells ==
  ASSUME NothingLost, StatusTells, NEW t \in Txs, Step(t)
  PROVE  StatusTells'
<1> SUFFICES ASSUME ~raced'
             PROVE  /\ status' = "RECEIVED" => Complete'
                    /\ status' = "PARTIALLY_RECEIVED" => ~Complete'
                    /\ \A u \in Txs : Tells(u)'
  BY DEF StatusTells, StatusFollowsLines, Complete
<1>1. TypeOK /\ (\A u \in Txs : Control(u))
  BY DEF NothingLost, NeverAhead, LinesNeverAhead
<1>2. ~raced
  BY <1>1 DEF Step, CreatePurchaseOrder, Begin, FindOrder, ReloadOrder, WriteOrder, ReceiveItem,
              SaveLine, SetStatus, Commit, Fail
<1>3. /\ status = "RECEIVED" => Complete
      /\ status = "PARTIALLY_RECEIVED" => ~Complete
      /\ \A u \in Txs : Tells(u)
      /\ \A u, w \in Txs : Receiving(u) /\ Receiving(w) => u = w
      /\ LeavesLines(t)
  BY <1>2 DEF StatusTells, StatusFollowsLines, Complete, NothingLost, Apart
<1>4. CASE CreatePurchaseOrder(t)
  <2>1. status' = "DRAFT" /\ \A u \in Txs : pc'[u] \in {"idle", "done"}
    BY <1>1, <1>4 DEF CreatePurchaseOrder, Control, Goto, TypeOK
  <2> QED
    BY <2>1 DEF Tells
<1>5. CASE Begin(t) \/ Fail(t)
  <2>1. UNCHANGED <<status, received, req, po, dirty>>
    BY <1>5 DEF Begin, Fail
  <2>2. pc'[t] \in {"start", "failed"} /\ \A u \in Txs \ {t} : pc'[u] = pc[u]
    BY <1>1, <1>5 DEF Begin, Fail, Goto, TypeOK
  <2> QED
    BY <1>3, <2>1, <2>2 DEF Tells, Complete, StatusAfter, Full
<1>6. CASE FindOrder(t)
  <2>1. UNCHANGED <<status, received, req, dirty>>
    BY <1>6 DEF FindOrder
  <2>2. /\ pc'[t] = IF req[t].op = "RECEIVE" THEN "item" ELSE "save"
        /\ req[t].op # "RECEIVE" => po'[t].status \in {"APPROVED", "CANCELLED"}
        /\ \A u \in Txs \ {t} : po'[u] = po[u] /\ pc'[u] = pc[u]
    BY <1>1, <1>6 DEF FindOrder, Loaded, Goto, Accepts, TypeOK
  <2>3. Tells(t)'
    BY <2>1, <2>2 DEF Tells
  <2>4. \A u \in Txs \ {t} : Tells(u)'
    BY <1>3, <2>1, <2>2 DEF Tells, StatusAfter, Full
  <2> QED
    BY <1>3, <2>1, <2>3, <2>4 DEF Complete
<1>7. CASE ReloadOrder(t)
  <2>1. UNCHANGED <<status, received, req, po>> /\ pc[t] = "save" /\ req[t].op # "RECEIVE"
    BY <1>1, <1>7 DEF ReloadOrder, Control
  <2>2. \A u \in Txs \ {t} : pc'[u] = pc[u] /\ dirty'[u] = dirty[u]
    BY <1>1, <1>7 DEF ReloadOrder, Goto, TypeOK
  <2>3. Tells(t)'
    BY <1>3, <2>1 DEF Tells
  <2>4. \A u \in Txs \ {t} : Tells(u)'
    BY <1>3, <2>1, <2>2 DEF Tells, StatusAfter, Full
  <2> QED
    BY <1>3, <2>1, <2>3, <2>4 DEF Complete
<1>8. CASE WriteOrder(t)
  <2>1. UNCHANGED <<status, received, req, po, dirty>> /\ pc[t] = "write"
    BY <1>8 DEF WriteOrder
  <2>2. \A u \in Txs \ {t} : pc'[u] = pc[u]
    BY <1>1, <1>8 DEF WriteOrder, Goto, TypeOK
  <2> QED
    BY <1>3, <2>1, <2>2 DEF Tells, Complete, StatusAfter, Full
<1>9. CASE ReceiveItem(t)
  <2>1. UNCHANGED <<status, received, req, po, dirty>>
    BY <1>9 DEF ReceiveItem
  <2>2. pc'[t] = "saveLine" /\ \A u \in Txs \ {t} : pc'[u] = pc[u]
    BY <1>1, <1>9 DEF ReceiveItem, Goto, TypeOK
  <2> QED
    BY <1>3, <2>1, <2>2 DEF Tells, Complete, StatusAfter, Full
<1>10. CASE SaveLine(t)
  <2>1. UNCHANGED <<status, received>>
    BY <1>10 DEF SaveLine
  <2>2. /\ pc'[t] = "item"
        /\ \A u \in Txs \ {t} : /\ pc'[u] = pc[u] /\ req'[u] = req[u] /\ po'[u] = po[u]
                                /\ dirty'[u] = dirty[u]
    BY <1>10, SaveLineEffect DEF NothingLost
  <2> QED
    BY <1>3, <2>1, <2>2 DEF Tells, Complete, StatusAfter, Full
<1>11. CASE SetStatus(t)
  <2>1. UNCHANGED <<status, received, req>> /\ req[t].op = "RECEIVE"
    BY <1>1, <1>11 DEF SetStatus, Control
  <2>2. /\ po'[t].status = StatusAfter(t) /\ po'[t].received = po[t].received
        /\ OrderKey \notin dirty'[t] => status = StatusAfter(t)
        /\ \A u \in Txs \ {t} : pc'[u] = pc[u] /\ po'[u] = po[u] /\ dirty'[u] = dirty[u]
    BY <1>1, <1>11 DEF SetStatus, Goto, TypeOK
  <2>3. StatusAfter(t)' = StatusAfter(t)
    BY <2>2 DEF StatusAfter, Full
  <2>4. Tells(t)'
    BY <2>1, <2>2, <2>3 DEF Tells
  <2>5. \A u \in Txs \ {t} : Tells(u)'
    BY <1>3, <2>1, <2>2 DEF Tells, StatusAfter, Full
  <2> QED
    BY <1>3, <2>1, <2>4, <2>5 DEF Complete
<1>12. CASE Commit(t)
  <2>1. /\ UNCHANGED <<req, po, dirty>> /\ pc[t] = "commit"
        /\ status' = IF OrderKey \in dirty[t] THEN po[t].status ELSE status
    BY <1>12 DEF Commit
  <2>2. pc'[t] = "done" /\ \A u \in Txs \ {t} : pc'[u] = pc[u]
    BY <1>1, <1>12 DEF Commit, Goto, TypeOK
  <2>3. Tells(t)'
    BY <2>2 DEF Tells
  <2>4. CASE req[t].op = "RECEIVE"
    <3>1. Full(t) <=> Complete'
      BY <1>2, <1>12, <2>4, ReceiptIsComplete
    <3>2. status' = StatusAfter(t) \/ status' \notin ReceiptStatuses
      BY <1>3, <2>1, <2>4 DEF Tells
    <3>3. \A u \in Txs \ {t} : pc[u] \in {"save", "write", "commit"} => req[u].op # "RECEIVE"
      BY <1>1, <1>3, <2>1, <2>4 DEF Receiving, Control
    <3>4. \A u \in Txs \ {t} : Tells(u)'
      BY <1>3, <2>1, <2>2, <3>3 DEF Tells
    <3> QED
      BY <2>3, <3>1, <3>2, <3>4 DEF StatusAfter, ReceiptStatuses
  <2>5. CASE req[t].op # "RECEIVE"
    <3>1. dirty[t] \cap Lines = {}
      BY <1>3, <2>1, <2>5 DEF LeavesLines
    <3>2. received' = received
      BY <1>1, <1>12, <3>1 DEF TypeOK, Commit
    <3>3. status' = status \/ status' \in {"APPROVED", "CANCELLED"}
      BY <1>3, <2>1, <2>5 DEF Tells
    <3>4. \A u \in Txs \ {t} : Tells(u)'
      BY <1>3, <2>1, <2>2, <3>3 DEF Tells, StatusAfter, Full, ReceiptStatuses
    <3> QED
      BY <1>3, <2>3, <3>2, <3>3, <3>4 DEF Complete
  <2> QED
    BY <2>4, <2>5
<1> QED
  BY <1>4, <1>5, <1>6, <1>7, <1>8, <1>9, <1>10, <1>11, <1>12 DEF Step

\* As long as no two receipts of the order overlap, an order is RECEIVED only when each of its
\* lines is complete, and PARTIALLY_RECEIVED only when one is not: createGoodsReceipt decides
\* from lines that no overlapping approval or cancellation can make stale.
THEOREM StatusIsRight == Spec => []StatusFollowsLines
<1>1. Init => StatusTells
  BY InitStatusTells
<1>2. NothingLost /\ StatusTells /\ [Next]_vars => StatusTells'
  <2> SUFFICES ASSUME NothingLost, StatusTells, [Next]_vars PROVE StatusTells'
    OBVIOUS
  <2>1. CASE \E t \in Txs : Step(t)
    BY <2>1, StepStatusTells
  <2>2. CASE UNCHANGED vars
    BY <2>2 DEF vars, StatusTells, StatusFollowsLines, Tells, StatusAfter, Full
  <2> QED
    BY <2>1, <2>2 DEF Next, Finished
<1>3. StatusTells => StatusFollowsLines
  BY DEF StatusTells
<1>4. Spec => []NothingLost
  BY InitNothingLost, StepNothingLost, PTL DEF Spec
<1> QED
  BY <1>1, <1>2, <1>3, <1>4, PTL DEF Spec
=============================================================================
