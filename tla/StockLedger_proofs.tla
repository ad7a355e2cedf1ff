------------------------ MODULE StockLedger_proofs ------------------------
(***************************************************************************)
(* Proofs about StockLedger, for every set of stores, variants,            *)
(* transactions and requests that meets ConstantsAssumption.               *)
(***************************************************************************)
EXTENDS StockLedger, SequenceTheorems, FiniteSetTheorems, WellFoundedInduction,
        TLAPS

-----------------------------------------------------------------------------
(* Typing. *)

\* A rollback, whoever causes it, keeps the types.
LEMMA RollbackType ==
  ASSUME TypeOK, NEW t \in Txs, Rollback(t)
  PROVE  TypeOK'
<1> USE DEF TypeOK, Rollback, Goto, db
<1>1. lock' \in [Rows -> Txs \cup {NoTx}] /\ cur' \in [Rows -> Summary]
  OBVIOUS
<1>2. pc' \in [Txs -> PCs] /\ moves' \in [Txs -> Seq(Movement)]
  BY DEF PCs
<1>3. moved' \in [Txs -> [Rows -> Int]] /\ saves' \in [Txs -> SUBSET Save]
  OBVIOUS
<1> QED BY <1>1, <1>2, <1>3

\* The item at hand is an item.
LEMMA ItemType ==
  ASSUME TypeOK, NEW t \in Txs, pos[t] <= Len(req[t])
  PROVE  Item(t) \in Items
BY DEF TypeOK, Item

\* A transaction sees a summary in every row.
LEMMA ViewType ==
  ASSUME TypeOK, NEW t \in Txs, NEW r \in Rows
  PROVE  View(t, r) \in Summary
BY DEF TypeOK, View

\* The movement at hand is a movement, and movements remain behind it.
LEMMA HeadType ==
  ASSUME TypeOK, NEW t \in Txs, moves[t] # <<>>
  PROVE  Head(moves[t]) \in Movement /\ Tail(moves[t]) \in Seq(Movement)
BY DEF TypeOK

\* The record operations the actions write with.
LEMMA RecordTypes ==
  /\ \A s \in Summary, q \in Int : [s EXCEPT !.qty = q] \in Summary
  /\ \A q \in Int, b, c \in BOOLEAN : [qty |-> q, link |-> b, act |-> c] \in Summary
  /\ \A r \in Rows, q \in Int : [row |-> r, qty |-> q] \in Movement
  /\ \A s, v \in Summary, cols \in SUBSET Columns :
       [c \in Columns |-> IF c \in cols THEN s[c] ELSE v[c]] \in Summary
<1>1. \A s, v \in Summary, cols \in SUBSET Columns :
       [c \in Columns |-> IF c \in cols THEN s[c] ELSE v[c]] \in Summary
  BY DEF Summary, Columns
<1> QED BY <1>1 DEF Summary, Movement

\* Writing a row keeps the types of the lock table and of the working copies.
LEMMA WriteType ==
  ASSUME TypeOK, NEW t \in Txs, NEW r \in Rows, NEW s \in Summary, Write(t, r, s)
  PROVE  lock' \in [Rows -> Txs \cup {NoTx}] /\ cur' \in [Rows -> Summary]
BY DEF TypeOK, Write

\* Deciding on movements, or on none, keeps the types of pc and moves.
LEMMA PlanType ==
  ASSUME TypeOK, NEW t \in Txs, NEW ms \in Seq(Movement), Plan(t, ms)
  PROVE  pc' \in [Txs -> PCs] /\ moves' \in [Txs -> Seq(Movement)]
BY DEF TypeOK, Plan, Goto, PCs

\* Going on to the next item keeps the types of pc and pos.
LEMMA NextItemType ==
  ASSUME TypeOK, NEW t \in Txs, NextItem(t)
  PROVE  pc' \in [Txs -> PCs] /\ pos' \in [Txs -> Nat \ {0}]
BY DEF TypeOK, NextItem, Goto, PCs

\* Leaving the scope step keeps the types of pc and moves.
LEMMA AfterScopeType ==
  ASSUME TypeOK, NEW t \in Txs, pos[t] <= Len(req[t]), AfterScope(t)
  PROVE  pc' \in [Txs -> PCs] /\ moves' \in [Txs -> Seq(Movement)]
<1>1. Item(t).row \in Rows /\ Item(t).qty \in Int
  BY ItemType DEF Items
<1>2. <<[row |-> Item(t).row, qty |-> Item(t).qty]>> \in Seq(Movement)
  BY <1>1 DEF Movement
<1>3. CASE Item(t).op = "RECEIVE"
  BY <1>2, <1>3, PlanType DEF AfterScope
<1>4. CASE Item(t).op # "RECEIVE"
  BY <1>4 DEF AfterScope, TypeOK, Goto, PCs
<1> QED BY <1>3, <1>4

\* So does what a passed stock check decides.
LEMMA OutgoingType ==
  ASSUME TypeOK, NEW t \in Txs, pos[t] <= Len(req[t]), NEW have \in Int, Outgoing(t, have)
  PROVE  pc' \in [Txs -> PCs] /\ moves' \in [Txs -> Seq(Movement)]
         /\ pos' \in [Txs -> Nat \ {0}]
<1> DEFINE i   == Item(t)
           out == IF i.op = "TRANSFER_ALL" THEN have ELSE i.qty
           sell == <<[row |-> i.row, qty |-> -out]>>
           move == <<[row |-> i.row, qty |-> -out], [row |-> i.to, qty |-> out]>>
<1>1. i.row \in Rows /\ i.to \in Rows /\ i.qty \in Int
  BY ItemType DEF Items
<1>2. sell \in Seq(Movement) /\ move \in Seq(Movement)
  BY <1>1 DEF Movement
<1>3. \/ NextItem(t) /\ UNCHANGED moves
      \/ Plan(t, sell) /\ UNCHANGED pos
      \/ Plan(t, move) /\ UNCHANGED pos
  BY DEF Outgoing
<1> QED BY <1>2, <1>3, PlanType, NextItemType DEF TypeOK

\* So does the end of a movement.
LEMMA AppliedType ==
  ASSUME TypeOK, NEW t \in Txs, moves[t] # <<>>, Applied(t)
  PROVE  pc' \in [Txs -> PCs] /\ moves' \in [Txs -> Seq(Movement)]
         /\ pos' \in [Txs -> Nat \ {0}]
<1>1. moves' \in [Txs -> Seq(Movement)]
  BY HeadType DEF TypeOK, Applied
<1>2. CASE NextItem(t)
  BY <1>1, <1>2, NextItemType
<1>3. CASE Goto(t, "insert") /\ UNCHANGED pos
  BY <1>1, <1>3 DEF TypeOK, Goto, PCs
<1> QED BY <1>2, <1>3 DEF Applied

\* Every action of a transaction keeps the types.
LEMMA StepType ==
  ASSUME TypeOK, ControlOK, NEW t \in Txs, Begin(t) \/ Step(t) \/ Fail(t)
  PROVE  TypeOK'
<1> USE DEF db
<1>0. ASSUME Rollback(t) PROVE TypeOK'
  BY <1>0, RollbackType
<1>1. CASE Begin(t)
  BY <1>1, ConstantsAssumption DEF Begin, TypeOK, Goto, PCs
<1>2. CASE LastItemDone(t)
  BY <1>2 DEF LastItemDone, TypeOK, Goto, PCs
<1>3. CASE RejectQuantity(t)
  BY <1>3, <1>0 DEF RejectQuantity
<1>4. CASE Commit(t)
  <2>1. row' \in [Rows -> Summary] /\ exists' \in [Rows -> BOOLEAN]
    BY <1>4, ViewType DEF Commit, TypeOK
  <2>2. ledger' \in [Rows -> Int] /\ lock' \in [Rows -> Txs \cup {NoTx}]
    BY <1>4 DEF Commit, TypeOK
  <2>3. moved' \in [Txs -> [Rows -> Int]] /\ pc' \in [Txs -> PCs]
    BY <1>4 DEF Commit, TypeOK, Goto, PCs
  <2> QED BY <1>4, <2>1, <2>2, <2>3 DEF Commit, TypeOK
<1>5. CASE ScopeFind(t)
  <2>1. pos[t] <= Len(req[t])
    BY <1>5 DEF ScopeFind, At
  <2>2. Item(t).row \in Rows
    BY <2>1, ItemType DEF Items
  <2>3. ASSUME NEW s \in Rows
        PROVE  [row |-> s, new |-> ~Visible(t, s), val |-> Scoped(t, Item(t).row, s),
                cols |-> Columns] \in Save
    <3>1. Scoped(t, Item(t).row, s) \in Summary
      BY ViewType DEF Scoped, Summary
    <3> QED BY <3>1 DEF Save
  <2>4. ToSave(t, Item(t).row) \subseteq Rows
    BY DEF ToSave, Siblings
  <2>5. CASE AfterScope(t) /\ UNCHANGED saves
    BY <1>5, <2>1, <2>5, AfterScopeType DEF ScopeFind, TypeOK
  <2>6. CASE ~(AfterScope(t) /\ UNCHANGED saves)
    <3> DEFINE S == {[row |-> s, new |-> ~Visible(t, s), val |-> Scoped(t, Item(t).row, s),
                      cols |-> Columns] : s \in ToSave(t, Item(t).row)}
    <3>1. S \in SUBSET Save
      BY <2>3, <2>4
    <3>2. saves' = [saves EXCEPT ![t] = S] /\ Goto(t, "reload") /\ UNCHANGED moves
      BY <1>5, <2>6 DEF ScopeFind
    <3>3. saves' \in [Txs -> SUBSET Save]
      BY <3>1, <3>2 DEF TypeOK
    <3>4. pc' \in [Txs -> PCs]
      BY <3>2 DEF TypeOK, Goto, PCs
    <3>5. UNCHANGED <<exists, row, ledger, lock, cur, req, pos, moved, moves>>
      BY <1>5, <3>2 DEF ScopeFind
    <3> HIDE DEF S
    <3> QED BY <3>3, <3>4, <3>5 DEF TypeOK
  <2> QED BY <2>5, <2>6
<1>6. CASE ScopeReload(t)
  <2>1. \A s \in Save : Reloaded(t, s) \in Save
    BY DEF Reloaded, Save
  <2>2. saves' \in [Txs -> SUBSET Save]
    BY <1>6, <2>1 DEF ScopeReload, TypeOK
  <2> QED BY <1>6, <2>2 DEF ScopeReload, TypeOK, Goto, PCs
<1>7. CASE ScopeInsert(t)
  <2>1. PICK s \in saves[t] : Write(t, s.row, s.val) /\ Saved(t, s)
    BY <1>7 DEF ScopeInsert
  <2>2. s.row \in Rows /\ s.val \in Summary
    BY DEF TypeOK, Save
  <2>3. saves' \in [Txs -> SUBSET Save]
    BY <2>1 DEF Saved, TypeOK
  <2> QED BY <1>7, <2>1, <2>2, <2>3, WriteType DEF ScopeInsert, TypeOK
<1>8. CASE ScopeUpdate(t)
  <2>1. PICK s \in saves[t] :
          /\ \/ UNCHANGED <<lock, cur>>
             \/ Write(t, s.row, [c \in Columns |-> IF c \in s.cols THEN s.val[c]
                                                   ELSE View(t, s.row)[c]])
          /\ Saved(t, s)
    BY <1>8 DEF ScopeUpdate
  <2>2. s.row \in Rows /\ s.val \in Summary /\ s.cols \in SUBSET Columns
    BY DEF TypeOK, Save
  <2>3. [c \in Columns |-> IF c \in s.cols THEN s.val[c] ELSE View(t, s.row)[c]]
          \in Summary
    BY <2>2, ViewType, RecordTypes
  <2>4. saves' \in [Txs -> SUBSET Save]
    BY <2>1 DEF Saved, TypeOK
  <2>5. lock' \in [Rows -> Txs \cup {NoTx}] /\ cur' \in [Rows -> Summary]
    BY <2>1, <2>2, <2>3, WriteType DEF TypeOK
  <2> QED BY <1>8, <2>4, <2>5 DEF ScopeUpdate, TypeOK
<1>9. CASE ScopeDone(t)
  BY <1>9, AfterScopeType DEF ScopeDone, TypeOK, ControlOK, ControlOf
<1>10. CASE ReturnStock(t)
  <2>1. <<[row |-> Item(t).row, qty |-> Item(t).qty]>> \in Seq(Movement)
    BY <1>10, ItemType DEF ReturnStock, At, Items, Movement
  <2> QED BY <1>10, <2>1, PlanType DEF ReturnStock, TypeOK
<1>11. CASE CountAdjustment(t)
  <2>1. <<[row |-> Item(t).row, qty |-> Item(t).qty]>> \in Seq(Movement)
    BY <1>11, ItemType DEF CountAdjustment, At, Items, Movement
  <2> QED BY <1>11, <2>1, PlanType, NextItemType DEF CountAdjustment, TypeOK
<1>12. CASE AdjustRead(t)
  <2>1. Item(t).row \in Rows /\ Item(t).qty \in Int
    BY <1>12, ItemType DEF AdjustRead, ControlOK, ControlOf, Items
  <2>2. Item(t).qty - View(t, Item(t).row).qty \in Int
    BY <2>1, ViewType DEF Summary
  <2>3. <<[row |-> Item(t).row, qty |-> Item(t).qty - View(t, Item(t).row).qty]>>
          \in Seq(Movement)
    BY <2>1, <2>2 DEF Movement
  <2> QED BY <1>12, <2>3, PlanType, NextItemType DEF AdjustRead, TypeOK
<1>13. CASE CheckStock(t)
  <2>1. pos[t] <= Len(req[t])
    BY <1>13 DEF CheckStock, AtStockCheck, At
  <2>2. Item(t).row \in Rows /\ View(t, Item(t).row) \in Summary
    BY <2>1, ItemType, ViewType DEF Items
  <2>3. View(t, Item(t).row).qty \in Int
    BY <2>2 DEF Summary
  <2> QED BY <1>13, <2>1, <2>2, <2>3, WriteType, OutgoingType DEF CheckStock, TypeOK
<1>14. CASE RejectStock(t)
  BY <1>14, <1>0 DEF RejectStock
<1>15. CASE CheckMiss(t)
  BY <1>15 DEF CheckMiss, TypeOK, Goto, PCs
<1>16. CASE CheckCreate(t)
  <2> DEFINE r == Item(t).row
             sum == ledger[r] + moved[t][r]
  <2>1. pos[t] <= Len(req[t]) /\ r \in Rows
    BY <1>16, ItemType DEF CheckCreate, ControlOK, ControlOf, Items
  <2>2. sum \in Int
    BY <2>1 DEF TypeOK
  <2>3. [qty |-> sum, link |-> TRUE, act |-> TRUE] \in Summary
    BY <2>2 DEF Summary
  <2>4. CASE Rollback(t)
    BY <2>4, <1>0
  <2>5. CASE ~Rollback(t)
    BY <1>16, <2>1, <2>2, <2>3, <2>5, WriteType, OutgoingType DEF CheckCreate, TypeOK
  <2> QED BY <2>4, <2>5
<1>17. CASE InsertMovement(t)
  <2>1. Head(moves[t]).row \in Rows /\ Head(moves[t]).qty \in Int
    BY <1>17, HeadType DEF InsertMovement, ControlOK, ControlOf, Movement
  <2>2. moved' \in [Txs -> [Rows -> Int]]
    BY <1>17, <2>1 DEF InsertMovement, TypeOK
  <2> QED BY <1>17, <2>2 DEF InsertMovement, TypeOK, Goto, PCs
<1>18. CASE ApplyMovement(t)
  <2> DEFINE m == Head(moves[t])
             s == [View(t, m.row) EXCEPT !.qty = @ + m.qty]
  <2>1. moves[t] # <<>> /\ m.row \in Rows /\ m.qty \in Int
    BY <1>18, HeadType DEF ApplyMovement, ControlOK, ControlOf, Movement
  <2>2. s \in Summary
    BY <2>1, ViewType DEF Summary
  <2>3. CASE Rollback(t)
    BY <2>3, <1>0
  <2>4. CASE ~Rollback(t)
    <3>1. Write(t, m.row, s) /\ Applied(t) /\ UNCHANGED <<db, req, moved, saves>>
      BY <1>18, <2>4 DEF ApplyMovement
    <3> QED BY <2>1, <2>2, <3>1, WriteType, AppliedType DEF TypeOK
  <2> QED BY <2>3, <2>4
<1>19. CASE ApplyMiss(t)
  BY <1>19 DEF ApplyMiss, TypeOK, Goto, PCs
<1>20. CASE ApplyCreate(t)
  <2> DEFINE m == Head(moves[t])
             s == [qty |-> m.qty, link |-> TRUE, act |-> TRUE]
  <2>1. moves[t] # <<>> /\ m.row \in Rows /\ m.qty \in Int
    BY <1>20, HeadType DEF ApplyCreate, ControlOK, ControlOf, Movement
  <2>2. s \in Summary
    BY <2>1 DEF Summary
  <2>3. CASE Rollback(t)
    BY <2>3, <1>0
  <2>4. CASE ~Rollback(t)
    <3>1. Write(t, m.row, s) /\ Applied(t) /\ UNCHANGED <<db, req, moved, saves>>
      BY <1>20, <2>4 DEF ApplyCreate
    <3> QED BY <2>1, <2>2, <3>1, WriteType, AppliedType DEF TypeOK
  <2> QED BY <2>3, <2>4
<1>21. CASE UniqueViolation(t)
  BY <1>21, <1>0 DEF UniqueViolation
<1>22. CASE DeadlockAbort(t)
  BY <1>22, <1>0 DEF DeadlockAbort
<1>23. CASE Fail(t)
  BY <1>23, <1>0 DEF Fail
<1> QED BY <1>1, <1>2, <1>3, <1>4, <1>5, <1>6, <1>7, <1>8, <1>9, <1>10, <1>11,
           <1>12, <1>13, <1>14, <1>15, <1>16, <1>17, <1>18, <1>19, <1>20, <1>21,
           <1>22, <1>23 DEF Step

-----------------------------------------------------------------------------
(* What a transaction may not touch. *)

\* A step of t leaves the private state of every other transaction alone.
LEMMA StepFrame ==
  ASSUME TypeOK, NEW t \in Txs, Begin(t) \/ Step(t) \/ Fail(t), NEW u \in Txs, u # t
  PROVE  /\ pc'[u] = pc[u] /\ req'[u] = req[u] /\ pos'[u] = pos[u]
         /\ moves'[u] = moves[u] /\ moved'[u] = moved[u] /\ saves'[u] = saves[u]
<1> USE DEF TypeOK, Goto, NextItem, Plan, AfterScope, Applied, Outgoing, Saved
<1>1. ASSUME Rollback(t) PROVE /\ pc'[u] = pc[u] /\ req'[u] = req[u] /\ pos'[u] = pos[u]
         /\ moves'[u] = moves[u] /\ moved'[u] = moved[u] /\ saves'[u] = saves[u]
  BY <1>1 DEF Rollback
<1>2. CASE Begin(t) \/ LastItemDone(t) \/ Commit(t) \/ InsertMovement(t)
  BY <1>2 DEF Begin, LastItemDone, Commit, InsertMovement
<1>3. CASE ScopeFind(t) \/ ScopeReload(t) \/ ScopeInsert(t) \/ ScopeUpdate(t) \/ ScopeDone(t)
  BY <1>3 DEF ScopeFind, ScopeReload, ScopeInsert, ScopeUpdate, ScopeDone
<1>4. CASE ReturnStock(t) \/ CountAdjustment(t) \/ AdjustRead(t)
  BY <1>4 DEF ReturnStock, CountAdjustment, AdjustRead
<1>5. CASE CheckStock(t) \/ CheckMiss(t) \/ CheckCreate(t)
  BY <1>5, <1>1 DEF CheckStock, CheckMiss, CheckCreate
<1>6. CASE ApplyMovement(t) \/ ApplyMiss(t) \/ ApplyCreate(t)
  BY <1>6, <1>1 DEF ApplyMovement, ApplyMiss, ApplyCreate
<1>7. CASE RejectQuantity(t) \/ RejectStock(t) \/ UniqueViolation(t) \/ DeadlockAbort(t)
           \/ Fail(t)
  BY <1>7, <1>1 DEF RejectQuantity, RejectStock, UniqueViolation, DeadlockAbort, Fail
<1> QED BY <1>2, <1>3, <1>4, <1>5, <1>6, <1>7 DEF Step

\* A step of t neither takes, nor releases, nor writes under, another's row lock.
LEMMA StepRespectsLocks ==
  ASSUME TypeOK, ControlOK, NEW t \in Txs, Begin(t) \/ Step(t) \/ Fail(t),
         NEW u \in Txs, u # t, NEW r \in Rows
  PROVE  /\ lock[r] = u => lock'[r] = u /\ cur'[r] = cur[r]
         /\ lock[r] # u => lock'[r] # u
<1> USE ConstantsAssumption DEF TypeOK
<1> DEFINE Respects == /\ lock[r] = u => lock'[r] = u /\ cur'[r] = cur[r]
                       /\ lock[r] # u => lock'[r] # u
<1>1. ASSUME Rollback(t) PROVE Respects
  BY <1>1 DEF Rollback
<1>2. ASSUME NEW q \in Rows, NEW s, Free(t, q), Write(t, q, s) PROVE Respects
  BY <1>2 DEF Free, Write
<1>3. ASSUME UNCHANGED <<lock, cur>> PROVE Respects
  BY <1>3
<1>4. CASE Begin(t) \/ LastItemDone(t) \/ InsertMovement(t) \/ ScopeFind(t)
           \/ ScopeReload(t) \/ ScopeDone(t)
  BY <1>4, <1>3
     DEF Begin, LastItemDone, InsertMovement, ScopeFind, ScopeReload, ScopeDone
<1>5. CASE ReturnStock(t) \/ CountAdjustment(t) \/ AdjustRead(t) \/ CheckMiss(t)
           \/ ApplyMiss(t)
  BY <1>5, <1>3 DEF ReturnStock, CountAdjustment, AdjustRead, CheckMiss, ApplyMiss
<1>6. CASE Commit(t)
  BY <1>6 DEF Commit
<1>7. CASE ScopeInsert(t)
  <2>1. PICK s \in saves[t] : lock[s.row] = NoTx /\ Write(t, s.row, s.val)
    BY <1>7 DEF ScopeInsert
  <2>2. s.row \in Rows
    BY DEF Save
  <2> QED BY <2>1, <2>2, <1>2 DEF Free
<1>8. CASE ScopeUpdate(t)
  <2>1. PICK s \in saves[t] :
          \/ UNCHANGED <<lock, cur>>
          \/ /\ Free(t, s.row)
             /\ Write(t, s.row, [c \in Columns |-> IF c \in s.cols THEN s.val[c]
                                                   ELSE View(t, s.row)[c]])
    BY <1>8 DEF ScopeUpdate
  <2>2. s.row \in Rows
    BY DEF Save
  <2> QED BY <2>1, <2>2, <1>2, <1>3
<1>9. CASE CheckStock(t) \/ CheckCreate(t)
  <2>1. Item(t).row \in Rows
    BY <1>9, ItemType DEF CheckStock, AtStockCheck, At, CheckCreate, ControlOK, ControlOf, Items
  <2>2. PICK s : \/ Rollback(t)
                 \/ Free(t, Item(t).row) /\ Write(t, Item(t).row, s)
    BY <1>9 DEF CheckStock, CheckCreate, Free
  <2> QED BY <2>1, <2>2, <1>1, <1>2
<1>10. CASE ApplyMovement(t) \/ ApplyCreate(t)
  <2>1. Head(moves[t]).row \in Rows
    BY <1>10, HeadType DEF ApplyMovement, ApplyCreate, ControlOK, ControlOf, Movement
  <2>2. PICK s : \/ Rollback(t)
                 \/ Free(t, Head(moves[t]).row) /\ Write(t, Head(moves[t]).row, s)
    BY <1>10 DEF ApplyMovement, ApplyCreate, Free
  <2> QED BY <2>1, <2>2, <1>1, <1>2
<1>11. CASE RejectQuantity(t) \/ RejectStock(t) \/ UniqueViolation(t) \/ DeadlockAbort(t)
           \/ Fail(t)
  BY <1>11, <1>1 DEF RejectQuantity, RejectStock, UniqueViolation, DeadlockAbort, Fail
<1> QED BY <1>4, <1>5, <1>6, <1>7, <1>8, <1>9, <1>10, <1>11 DEF Step

-----------------------------------------------------------------------------
(* Control. *)

\* Once its scope step is over, an item either has its one movement or is read.
LEMMA AfterScopeControl ==
  ASSUME TypeOK, NEW t \in Txs, ControlOf(t), pos[t] <= Len(req[t]),
         Item(t).op \in {"RECEIVE", "ADJUST"}, AfterScope(t), UNCHANGED <<req, pos>>
  PROVE  ControlOf(t)'
<1> USE DEF TypeOK, Goto, Plan, ControlOf, Item, Outgoings
<1>1. CASE Item(t).op = "RECEIVE"
  <2>1. pc'[t] = "insert" /\ moves'[t] = <<[row |-> Item(t).row, qty |-> Item(t).qty]>>
    BY <1>1 DEF AfterScope
  <2> QED BY <2>1, <1>1
<1>2. CASE Item(t).op # "RECEIVE"
  BY <1>2 DEF AfterScope
<1> QED BY <1>1, <1>2

\* A transfer's second movement goes to another row than its first.
LEMMA OutgoingControl ==
  ASSUME TypeOK, NEW t \in Txs, ControlOf(t), pos[t] <= Len(req[t]),
         Item(t).op \in Outgoings, NEW have \in Int, Outgoing(t, have), UNCHANGED req
  PROVE  ControlOf(t)'
<1> USE DEF TypeOK, Item
<1> DEFINE out == IF Item(t).op = "TRANSFER_ALL" THEN have ELSE Item(t).qty
           leg1 == [row |-> Item(t).row, qty |-> -out]
           leg2 == [row |-> Item(t).to, qty |-> out]
           ms == IF Item(t).op = "SELL" THEN <<leg1>> ELSE <<leg1, leg2>>
<1>1. CASE NextItem(t) /\ UNCHANGED moves
  BY <1>1 DEF NextItem, Goto, ControlOf
<1>2. CASE Plan(t, ms) /\ UNCHANGED pos
  <2>1. pc'[t] = "insert" /\ moves'[t] = ms /\ pos'[t] = pos[t] /\ req'[t] = req[t]
    BY <1>2 DEF Plan, Goto
  <2>2. ms # <<>> /\ Len(ms) \in {1, 2} /\ (Len(ms) = 2 => ms[2] = leg2)
    OBVIOUS
  <2>3. Len(ms) = 2 => Item(t).to # Item(t).row
    <3>1. Len(ms) = 2 => Item(t).op \in {"TRANSFER", "TRANSFER_ALL"}
      BY DEF Outgoings
    <3>2. pos[t] \in 1..Len(req[t])
      OBVIOUS
    <3> QED BY <3>1, <3>2 DEF ControlOf
  <2>4. \A i \in 2..Len(ms) : ms[i].row # Item(t).row
    BY <2>2, <2>3
  <2> HIDE DEF ms
  <2> QED BY <2>1, <2>2, <2>4 DEF ControlOf
<1> QED BY <1>1, <1>2 DEF Outgoing

\* The end of a movement leaves control at a movement or at the next item.
LEMMA AppliedControl ==
  ASSUME TypeOK, NEW t \in Txs, ControlOf(t), pc[t] \in {"apply", "create"},
         Applied(t), UNCHANGED req
  PROVE  ControlOf(t)'
<1> USE DEF TypeOK, Item
<1>1. CASE Tail(moves[t]) = <<>>
  BY <1>1 DEF Applied, NextItem, Goto, ControlOf
<1>2. CASE Tail(moves[t]) # <<>>
  <2>1. pc'[t] = "insert" /\ moves'[t] = Tail(moves[t]) /\ pos'[t] = pos[t]
        /\ req'[t] = req[t]
    BY <1>2 DEF Applied, Goto
  <2>2. moves[t] # <<>> /\ moves[t] \in Seq(Movement)
    BY DEF ControlOf
  <2>3. /\ Len(Tail(moves[t])) = Len(moves[t]) - 1
        /\ \A i \in 1..Len(Tail(moves[t])) : Tail(moves[t])[i] = moves[t][i + 1]
    BY <2>2
  <2>4. Item(t).op \in Outgoings =>
          \A i \in 2..Len(Tail(moves[t])) : Tail(moves[t])[i].row # Item(t).row
    BY <2>2, <2>3 DEF ControlOf
  <2> QED BY <1>2, <2>1, <2>4 DEF ControlOf
<1> QED BY <1>1, <1>2

\* Every action of a transaction keeps its control consistent.
LEMMA StepControl ==
  ASSUME TypeOK, ControlOK, NEW t \in Txs, Begin(t) \/ Step(t) \/ Fail(t)
  PROVE  ControlOK'
<1> SUFFICES ControlOf(t)'
  <2>1. ASSUME NEW u \in Txs \ {t} PROVE ControlOf(u)'
    <3>1. ControlOf(u)
      BY DEF ControlOK
    <3>2. /\ req'[u] = req[u] /\ pos'[u] = pos[u]
          /\ pc'[u] = pc[u] /\ moves'[u] = moves[u]
      BY StepFrame
    <3> QED BY <3>1, <3>2 DEF ControlOf, Item
  <2> QED BY <2>1 DEF ControlOK
<1> USE DEF TypeOK
<1>0. ControlOf(t)
  BY DEF ControlOK
<1>1. ASSUME Rollback(t) PROVE ControlOf(t)'
  BY <1>0, <1>1 DEF Rollback, Goto, ControlOf, Item
<1>2. CASE Begin(t)
  BY <1>2, ConstantsAssumption DEF Begin, Goto, ControlOf
<1>3. CASE LastItemDone(t) \/ Commit(t) \/ CheckMiss(t)
  BY <1>0, <1>3 DEF LastItemDone, Commit, CheckMiss, AtStockCheck, At, Goto, ControlOf, Item
<1>4. CASE ScopeReload(t) \/ ScopeInsert(t) \/ ScopeUpdate(t)
  BY <1>0, <1>4 DEF ScopeReload, ScopeInsert, ScopeUpdate, Goto, ControlOf, Item
<1>5. CASE ScopeFind(t)
  <2>1. pos[t] <= Len(req[t]) /\ Item(t).op \in {"RECEIVE", "ADJUST"}
    BY <1>5 DEF ScopeFind, At
  <2>2. CASE AfterScope(t)
    BY <1>0, <1>5, <2>1, <2>2, AfterScopeControl DEF ScopeFind
  <2>3. CASE ~AfterScope(t)
    BY <1>0, <1>5, <2>1, <2>3 DEF ScopeFind, Goto, ControlOf, Item
  <2> QED BY <2>2, <2>3
<1>6. CASE ScopeDone(t)
  BY <1>0, <1>6, AfterScopeControl DEF ScopeDone, ControlOf
<1>7. CASE ReturnStock(t)
  <2>1. pc'[t] = "insert" /\ moves'[t] = <<[row |-> Item(t).row, qty |-> Item(t).qty]>>
        /\ pos[t] <= Len(req[t]) /\ Item(t).op = "RETURN"
        /\ pos'[t] = pos[t] /\ req'[t] = req[t]
    BY <1>7 DEF ReturnStock, Plan, Goto, At
  <2> QED BY <1>0, <2>1 DEF ControlOf, Item, Outgoings
<1>8. CASE CountAdjustment(t)
  <2>1. CASE Item(t).qty = 0
    BY <1>0, <1>8, <2>1 DEF CountAdjustment, NextItem, Goto, ControlOf
  <2>2. CASE Item(t).qty # 0
    <3>1. pc'[t] = "insert" /\ moves'[t] = <<[row |-> Item(t).row, qty |-> Item(t).qty]>>
          /\ pos[t] <= Len(req[t]) /\ Item(t).op = "COUNT"
          /\ pos'[t] = pos[t] /\ req'[t] = req[t]
      BY <1>8, <2>2 DEF CountAdjustment, Plan, Goto, At
    <3> QED BY <1>0, <3>1 DEF ControlOf, Item, Outgoings
  <2> QED BY <2>1, <2>2
<1>9. CASE AdjustRead(t)
  <2>1. CASE NextItem(t)
    BY <1>0, <1>9, <2>1 DEF AdjustRead, NextItem, Goto, ControlOf, Item
  <2>2. CASE ~NextItem(t)
    <3> DEFINE d == Item(t).qty - View(t, Item(t).row).qty
    <3>1. pc'[t] = "insert" /\ moves'[t] = <<[row |-> Item(t).row, qty |-> d]>>
          /\ pos[t] <= Len(req[t]) /\ Item(t).op \in {"RECEIVE", "ADJUST"}
          /\ pos'[t] = pos[t] /\ req'[t] = req[t]
      BY <1>0, <1>9, <2>2 DEF AdjustRead, Plan, Goto, ControlOf
    <3> HIDE DEF d
    <3> QED BY <1>0, <3>1 DEF ControlOf, Item, Outgoings
  <2> QED BY <2>1, <2>2
<1>10. CASE CheckStock(t)
  <2>1. pos[t] <= Len(req[t]) /\ Item(t).op \in Outgoings
    BY <1>10 DEF CheckStock, AtStockCheck, At
  <2>2. View(t, Item(t).row).qty \in Int
    BY <2>1, ItemType, ViewType DEF Items, Summary
  <2> QED BY <1>0, <1>10, <2>1, <2>2, OutgoingControl DEF CheckStock
<1>11. CASE CheckCreate(t)
  <2>1. pos[t] <= Len(req[t]) /\ Item(t).op \in Outgoings
    BY <1>0, <1>11 DEF CheckCreate, ControlOf
  <2>2. Item(t).row \in Rows
    BY <2>1, ItemType DEF Items
  <2>3. ledger[Item(t).row] + moved[t][Item(t).row] \in Int
    BY <2>2
  <2> QED BY <1>0, <1>1, <1>11, <2>1, <2>3, OutgoingControl DEF CheckCreate
<1>12. CASE InsertMovement(t) \/ ApplyMiss(t)
  BY <1>0, <1>12 DEF InsertMovement, ApplyMiss, Goto, ControlOf, Item
<1>13. CASE ApplyMovement(t) \/ ApplyCreate(t)
  BY <1>0, <1>1, <1>13, AppliedControl DEF ApplyMovement, ApplyCreate
<1>14. CASE RejectQuantity(t) \/ RejectStock(t) \/ UniqueViolation(t) \/ DeadlockAbort(t)
           \/ Fail(t)
  BY <1>14, <1>1 DEF RejectQuantity, RejectStock, UniqueViolation, DeadlockAbort, Fail
<1> QED BY <1>2, <1>3, <1>4, <1>5, <1>6, <1>7, <1>8, <1>9, <1>10, <1>11, <1>12,
           <1>13, <1>14 DEF Step

\* Types and control hold at the start.
LEMMA InitTypeControl == Init => TypeOK /\ ControlOK
<1> SUFFICES ASSUME Init PROVE TypeOK /\ ControlOK
  OBVIOUS
<1>1. exists \in [Rows -> BOOLEAN] /\ row \in [Rows -> Summary]
  BY ConstantsAssumption DEF Init
<1>2. ledger \in [Rows -> Int]
  BY <1>1 DEF Init, Summary
<1>3. TypeOK
  BY <1>1, <1>2 DEF Init, TypeOK, PCs
<1>4. ControlOK
  BY DEF Init, ControlOK, ControlOf
<1> QED BY <1>3, <1>4

\* Types and control are inductive together.
LEMMA NextTypeControl == TypeOK /\ ControlOK /\ [Next]_vars => (TypeOK /\ ControlOK)'
<1> SUFFICES ASSUME TypeOK, ControlOK, [Next]_vars PROVE (TypeOK /\ ControlOK)'
  OBVIOUS
<1>1. ASSUME NEW t \in Txs, Begin(t) \/ Step(t) \/ Fail(t) PROVE (TypeOK /\ ControlOK)'
  BY <1>1, StepType, StepControl
<1>2. ASSUME UNCHANGED vars PROVE (TypeOK /\ ControlOK)'
  BY <1>2 DEF vars, TypeOK, ControlOK, ControlOf, Item
<1> QED BY <1>1, <1>2 DEF Next, Finished

\* Every variable stays in its type, and each transaction's program counter
\* agrees with its item and its movements.
THEOREM TypeCorrect == Spec => [](TypeOK /\ ControlOK)
BY InitTypeControl, NextTypeControl, PTL DEF Spec

-----------------------------------------------------------------------------
(* The locked stock check. *)

\* What a sale or a transfer plans after the check fits the quantity it read.
LEMMA OutgoingReserved ==
  ASSUME TypeOK, NEW t \in Txs, pos[t] <= Len(req[t]), NEW have \in Int,
         Outgoing(t, have), Enough(t, have), UNCHANGED req,
         lock'[Item(t).row] = t, cur'[Item(t).row].qty = have
  PROVE  Reserved(t)'
<1> USE DEF TypeOK, Item
<1> DEFINE out == IF Item(t).op = "TRANSFER_ALL" THEN have ELSE Item(t).qty
           leg1 == [row |-> Item(t).row, qty |-> -out]
           leg2 == [row |-> Item(t).to, qty |-> out]
           ms == IF Item(t).op = "SELL" THEN <<leg1>> ELSE <<leg1, leg2>>
<1>1. CASE NextItem(t) /\ UNCHANGED moves
  BY <1>1 DEF NextItem, Goto, Reserved
<1>2. CASE Plan(t, ms) /\ UNCHANGED pos
  <2>1. moves'[t] = ms /\ pos'[t] = pos[t] /\ req'[t] = req[t]
    BY <1>2 DEF Plan
  <2>2. Head(ms) = leg1
    OBVIOUS
  <2>3. Item(t).qty \in Int
    BY ItemType DEF Items
  <2>4. have + leg1.qty >= 0
    BY <2>3 DEF Enough
  <2> HIDE DEF ms, leg1
  <2> QED BY <2>1, <2>2, <2>4 DEF Reserved
<1> QED BY <1>1, <1>2 DEF Outgoing

\* Every action keeps the stock that some transaction has checked.
LEMMA StepReserved ==
  ASSUME TypeOK, ControlOK, CheckedStockStaysAvailable,
         NEW t \in Txs, Begin(t) \/ Step(t) \/ Fail(t)
  PROVE  CheckedStockStaysAvailable'
<1>1. ASSUME NEW u \in Txs, u # t PROVE Reserved(u)'
  <2>1. /\ pc'[u] = pc[u] /\ Item(u)' = Item(u) /\ moves'[u] = moves[u]
    BY <1>1, StepFrame DEF Item
  <2>2. pc[u] \in {"insert", "apply"} => Item(u).row \in Rows
    BY ItemType DEF ControlOK, ControlOf, Items
  <2>3. pc[u] \in {"insert", "apply"} /\ lock[Item(u).row] = u
        => lock'[Item(u).row] = u /\ cur'[Item(u).row] = cur[Item(u).row]
    BY <1>1, <2>2, StepRespectsLocks
  <2>4. Reserved(u)
    BY DEF CheckedStockStaysAvailable
  <2> QED BY <2>1, <2>3, <2>4 DEF Reserved
<1> SUFFICES Reserved(t)'
  BY <1>1 DEF CheckedStockStaysAvailable
<1> USE DEF TypeOK
<1>2. Reserved(t) /\ ControlOf(t)
  BY DEF CheckedStockStaysAvailable, ControlOK
<1>3. ASSUME pc'[t] \notin {"insert", "apply"} PROVE Reserved(t)'
  BY <1>3 DEF Reserved
<1>4. ASSUME pos'[t] = pos[t], req'[t] = req[t], Item(t).op \notin Outgoings
      PROVE  Reserved(t)'
  BY <1>4 DEF Reserved, Item
<1>5. ASSUME Rollback(t) PROVE Reserved(t)'
  BY <1>3, <1>5 DEF Rollback, Goto
<1>6. CASE Begin(t) \/ LastItemDone(t) \/ Commit(t) \/ CheckMiss(t) \/ ApplyMiss(t)
           \/ ScopeReload(t) \/ ScopeInsert(t) \/ ScopeUpdate(t)
  BY <1>3, <1>6 DEF Begin, LastItemDone, Commit, CheckMiss, ApplyMiss, ScopeReload,
                    ScopeInsert, ScopeUpdate, Goto
<1>7. CASE ScopeFind(t) \/ ScopeDone(t)
  BY <1>2, <1>4, <1>7 DEF ScopeFind, ScopeDone, At, ControlOf, Outgoings
<1>8. CASE ReturnStock(t)
  BY <1>4, <1>8 DEF ReturnStock, At, Outgoings
<1>9. CASE CountAdjustment(t) \/ AdjustRead(t)
  <2>1. Item(t).op \notin Outgoings /\ UNCHANGED req
    BY <1>2, <1>9 DEF CountAdjustment, AdjustRead, At, ControlOf, Outgoings
  <2>2. NextItem(t) \/ UNCHANGED pos
    BY <1>9 DEF CountAdjustment, AdjustRead
  <2> QED BY <1>3, <1>4, <2>1, <2>2 DEF NextItem, Goto
<1>10. CASE CheckStock(t)
  <2> DEFINE r == Item(t).row
  <2>1. pos[t] <= Len(req[t])
    BY <1>10 DEF CheckStock, AtStockCheck, At
  <2>2. r \in Rows /\ View(t, r) \in Summary
    BY <2>1, ItemType, ViewType DEF Items
  <2>3. lock'[r] = t /\ cur'[r] = View(t, r) /\ View(t, r).qty \in Int
    BY <1>10, <2>2 DEF CheckStock, Write, Summary
  <2> QED BY <1>10, <2>1, <2>3, OutgoingReserved DEF CheckStock
<1>11. CASE CheckCreate(t)
  <2> DEFINE r == Item(t).row
             sum == ledger[r] + moved[t][r]
  <2>1. pos[t] <= Len(req[t])
    BY <1>2, <1>11 DEF CheckCreate, ControlOf
  <2>2. r \in Rows
    BY <2>1, ItemType DEF Items
  <2>3. sum \in Int
    BY <2>2
  <2>4. CASE ~Rollback(t)
    <3>1. lock'[r] = t /\ cur'[r].qty = sum /\ Enough(t, sum) /\ Outgoing(t, sum)
          /\ UNCHANGED req
      BY <1>11, <2>2, <2>4 DEF CheckCreate, Write
    <3> QED BY <2>1, <2>3, <3>1, OutgoingReserved
  <2> QED BY <1>5, <2>4
<1>12. CASE InsertMovement(t)
  BY <1>2, <1>12 DEF InsertMovement, Goto, Reserved, Item
<1>13. CASE ApplyMovement(t) \/ ApplyCreate(t)
  <2>1. CASE Rollback(t)
    BY <1>5, <2>1
  <2>2. CASE ~Rollback(t)
    <3>1. Applied(t) /\ UNCHANGED req
      BY <1>13, <2>2 DEF ApplyMovement, ApplyCreate
    <3>2. pc[t] \in {"apply", "create"}
      BY <1>13 DEF ApplyMovement, ApplyCreate
    <3>3. CASE Tail(moves[t]) = <<>>
      BY <1>3, <3>1, <3>3 DEF Applied, NextItem, Goto
    <3>4. CASE Tail(moves[t]) # <<>>
      <4>1. moves[t] # <<>> /\ moves[t] \in Seq(Movement)
        BY <1>2, <3>2 DEF ControlOf
      <4>2. moves'[t] = Tail(moves[t]) /\ Item(t)' = Item(t)
        BY <3>1, <3>4 DEF Applied, Item
      <4>3. Len(moves[t]) >= 2 /\ Head(Tail(moves[t])) = moves[t][2]
        BY <3>4, <4>1
      <4>4. Item(t).op \in Outgoings => Head(Tail(moves[t])).row # Item(t).row
        BY <1>2, <3>2, <4>3 DEF ControlOf
      <4> QED BY <4>2, <4>4 DEF Reserved
    <3> QED BY <3>3, <3>4
  <2> QED BY <2>1, <2>2
<1>14. CASE RejectQuantity(t) \/ RejectStock(t) \/ UniqueViolation(t) \/ DeadlockAbort(t)
           \/ Fail(t)
  BY <1>14, <1>5 DEF RejectQuantity, RejectStock, UniqueViolation, DeadlockAbort, Fail
<1> QED BY <1>6, <1>7, <1>8, <1>9, <1>10, <1>11, <1>12, <1>13, <1>14 DEF Step

\* The stock a sale or transfer has checked under the row lock is still there
\* when its OUT movement is applied: concurrent sales cannot oversell a row.
THEOREM StockIsReserved == Spec => []CheckedStockStaysAvailable
<1>1. Init => CheckedStockStaysAvailable
  BY DEF Init, CheckedStockStaysAvailable, Reserved
<1>2. TypeOK /\ ControlOK /\ CheckedStockStaysAvailable /\ [Next]_vars
      => CheckedStockStaysAvailable'
  <2> SUFFICES ASSUME TypeOK, ControlOK, CheckedStockStaysAvailable, [Next]_vars
               PROVE  CheckedStockStaysAvailable'
    OBVIOUS
  <2>1. ASSUME NEW t \in Txs, Begin(t) \/ Step(t) \/ Fail(t)
        PROVE  CheckedStockStaysAvailable'
    BY <2>1, StepReserved
  <2>2. ASSUME UNCHANGED vars PROVE CheckedStockStaysAvailable'
    BY <2>2 DEF vars, CheckedStockStaysAvailable, Reserved, Item
  <2> QED BY <2>1, <2>2 DEF Next, Finished
<1> QED BY <1>1, <1>2, TypeCorrect, PTL DEF Spec

-----------------------------------------------------------------------------
(* The settled catalogue: the summary is the sum of the ledger. *)

\* Writing an active row under a free lock keeps every row active.
LEMMA WriteActive ==
  ASSUME TypeOK, AllActive, NEW t \in Txs, NEW q \in Rows, NEW s, Active(s),
         Write(t, q, s), UNCHANGED <<exists, row>>
  PROVE  AllActive'
BY DEF TypeOK, AllActive, Write, Active

\* What a transaction sees of a row it can see is active.
LEMMA ViewActive ==
  ASSUME TypeOK, AllActive, NEW t \in Txs, NEW r \in Rows, Visible(t, r)
  PROVE  Active(View(t, r))
BY ConstantsAssumption DEF TypeOK, AllActive, Visible, View

\* A rollback keeps the catalogue active.
LEMMA RollbackActive ==
  ASSUME TypeOK, AllActive, NoStaleSave, NEW t \in Txs, Rollback(t)
  PROVE  AllActive' /\ NoStaleSave'
<1>1. AllActive'
  BY ConstantsAssumption DEF TypeOK, AllActive, Rollback, db, Active
<1>2. NoStaleSave'
  BY DEF TypeOK, NoStaleSave, Rollback
<1> QED BY <1>1, <1>2

\* The scope step of a settled catalogue finds at most the target row missing.
LEMMA ScopeSettled ==
  ASSUME Settled, TypeOK, AllActive, NEW t \in Txs, NEW r \in Rows
  PROVE  \A s \in ToSave(t, r) : ~Visible(t, s) /\ Scoped(t, r, s) = FirstRow
<1> SUFFICES ASSUME NEW s \in ToSave(t, r)
             PROVE  ~Visible(t, s) /\ Scoped(t, r, s) = FirstRow
  OBVIOUS
<1>1. s \in Rows /\ s \in Siblings(r)
  BY DEF ToSave, Siblings
<1>2. ASSUME Visible(t, s) PROVE FALSE
  <2>1. Active(View(t, s)) /\ View(t, s) \in Summary
    BY <1>1, <1>2, ViewActive, ViewType
  <2>2. Scoped(t, r, s) = [qty |-> View(t, s).qty, link |-> TRUE, act |-> TRUE]
    <3>1. \E u \in Siblings(r) : Visible(t, u) /\ View(t, u).link
      BY <1>1, <1>2, <2>1 DEF Active
    <3> QED BY <1>2, <2>1, <3>1 DEF Scoped, Active
  <2>3. Scoped(t, r, s) = View(t, s)
    BY <2>1, <2>2 DEF Active, Summary
  <2> QED BY <1>2, <2>3 DEF ToSave
<1>3. CASE \A v, w \in Variants : ProductOf[v] = ProductOf[w] => v = w
  <2>1. s = r
    BY <1>1, <1>3 DEF Siblings, Rows
  <2> QED BY <1>2, <2>1 DEF Scoped, FirstRow
<1>4. CASE \A c \in InitialRows : c.exists
  <2>1. exists[s]
    BY <1>1, <1>4 DEF AllActive
  <2> QED BY <1>2, <2>1 DEF Visible
<1> QED BY <1>3, <1>4 DEF Settled

\* In a settled catalogue every action keeps all rows active and saves no old row.
LEMMA StepActive ==
  ASSUME Settled, TypeOK, ControlOK, Bookkeeping, AllActive, NoStaleSave,
         NEW t \in Txs, Begin(t) \/ Step(t) \/ Fail(t)
  PROVE  AllActive' /\ NoStaleSave'
<1> USE DEF db
<1>1. ASSUME Rollback(t) PROVE AllActive' /\ NoStaleSave'
  BY <1>1, RollbackActive
<1>2. ASSUME UNCHANGED <<exists, row, lock, cur, saves>> PROVE AllActive' /\ NoStaleSave'
  BY <1>2 DEF AllActive, NoStaleSave
<1>3. ASSUME NEW q \in Rows, NEW s, Active(s), Write(t, q, s), UNCHANGED <<exists, row, saves>>
      PROVE  AllActive' /\ NoStaleSave'
  BY <1>3, WriteActive DEF NoStaleSave
<1>4. CASE Begin(t) \/ LastItemDone(t) \/ InsertMovement(t) \/ ScopeDone(t)
           \/ ReturnStock(t) \/ CountAdjustment(t) \/ AdjustRead(t) \/ CheckMiss(t)
           \/ ApplyMiss(t)
  BY <1>2, <1>4 DEF Begin, LastItemDone, InsertMovement, ScopeDone, ReturnStock,
                    CountAdjustment, AdjustRead, CheckMiss, ApplyMiss
<1>5. CASE Commit(t)
  <2>1. \A r \in Rows : lock[r] = t => Active(View(t, r)) /\ exists'[r]
    BY <1>5, ViewActive DEF Commit, Visible, TypeOK
  <2>2. AllActive'
    BY <1>5, <2>1 DEF Commit, AllActive, TypeOK, View
  <2> QED BY <1>5, <2>2 DEF Commit, NoStaleSave
<1>6. CASE ScopeFind(t)
  <2>1. AllActive'
    BY <1>6 DEF ScopeFind, AllActive
  <2> DEFINE S == {[row |-> s, new |-> ~Visible(t, s), val |-> Scoped(t, Item(t).row, s),
                    cols |-> Columns] : s \in ToSave(t, Item(t).row)}
  <2>2. Item(t).row \in Rows
    BY <1>6, ItemType DEF ScopeFind, At, Items
  <2>3. ASSUME NEW x \in S PROVE x.new /\ x.val = FirstRow
    <3>1. PICK s \in ToSave(t, Item(t).row) :
            x = [row |-> s, new |-> ~Visible(t, s), val |-> Scoped(t, Item(t).row, s),
                 cols |-> Columns]
      OBVIOUS
    <3>2. ~Visible(t, s) /\ Scoped(t, Item(t).row, s) = FirstRow
      BY <2>2, ScopeSettled
    <3>3. x.new = ~Visible(t, s) /\ x.val = Scoped(t, Item(t).row, s)
      BY <3>1
    <3> QED BY <3>2, <3>3
  <2>4. UNCHANGED saves \/ saves' = [saves EXCEPT ![t] = S]
    BY <1>6 DEF ScopeFind
  <2> HIDE DEF S
  <2>5. NoStaleSave'
    BY <2>3, <2>4 DEF NoStaleSave, TypeOK
  <2> QED BY <2>1, <2>5
<1>7. CASE ScopeReload(t)
  <2>1. AllActive'
    BY <1>7 DEF ScopeReload, AllActive
  <2>2. \A s \in Save : Reloaded(t, s).new = s.new /\ Reloaded(t, s).val = s.val
    BY DEF Reloaded, Save
  <2>3. saves[t] \subseteq Save /\ saves' = [saves EXCEPT ![t] = {Reloaded(t, s) : s \in saves[t]}]
    BY <1>7 DEF ScopeReload, TypeOK
  <2>4. ASSUME NEW u \in Txs, NEW x \in saves'[u] PROVE x.new /\ x.val = FirstRow
    <3>1. CASE u = t
      <4>1. PICK s \in saves[t] : x = Reloaded(t, s)
        BY <2>3, <2>4, <3>1 DEF TypeOK
      <4> QED BY <2>2, <2>3, <4>1 DEF NoStaleSave
    <3>2. CASE u # t
      BY <2>3, <2>4, <3>2 DEF NoStaleSave, TypeOK
    <3> QED BY <3>1, <3>2
  <2>5. NoStaleSave'
    BY <2>4 DEF NoStaleSave
  <2> QED BY <2>1, <2>5
<1>8. CASE ScopeInsert(t)
  <2>1. PICK s \in saves[t] : Write(t, s.row, s.val) /\ Saved(t, s)
    BY <1>8 DEF ScopeInsert
  <2>2. s.row \in Rows /\ Active(s.val)
    BY DEF TypeOK, Save, NoStaleSave, FirstRow, Active
  <2>3. AllActive'
    BY <1>8, <2>1, <2>2, WriteActive DEF ScopeInsert
  <2>4. NoStaleSave'
    BY <2>1 DEF Saved, NoStaleSave, TypeOK
  <2> QED BY <2>3, <2>4
<1>9. CASE ScopeUpdate(t)
  BY <1>9 DEF ScopeUpdate, NoStaleSave
<1>10. CASE CheckStock(t)
  <2> DEFINE r == Item(t).row
  <2>1. r \in Rows
    BY <1>10, ItemType DEF CheckStock, AtStockCheck, At, Items
  <2>2. Active(View(t, r))
    BY <1>10, <2>1, ViewActive DEF CheckStock
  <2> QED BY <1>10, <2>1, <2>2, <1>3 DEF CheckStock
<1>11. CASE CheckCreate(t)
  <2> DEFINE r == Item(t).row
             sum == ledger[r] + moved[t][r]
  <2>1. r \in Rows
    BY <1>11, ItemType DEF CheckCreate, ControlOK, ControlOf, Items
  <2>2. CASE ~Rollback(t)
    <3>1. sum >= 0 /\ Write(t, r, [qty |-> sum, link |-> TRUE, act |-> TRUE])
          /\ UNCHANGED <<exists, row, saves>>
      BY <1>11, <2>2 DEF CheckCreate
    <3>2. Active([qty |-> sum, link |-> TRUE, act |-> TRUE])
      BY <3>1 DEF Active
    <3> QED BY <2>1, <3>1, <3>2, <1>3
  <2> QED BY <1>1, <2>2
<1>12. CASE ApplyMovement(t)
  <2> DEFINE m == Head(moves[t])
             s == [View(t, m.row) EXCEPT !.qty = @ + m.qty]
  <2>1. m.row \in Rows /\ m.qty \in Int
    BY <1>12, HeadType DEF ApplyMovement, ControlOK, ControlOf, Movement
  <2>2. CASE ~Rollback(t)
    <3>1. s.qty >= 0 /\ Write(t, m.row, s) /\ UNCHANGED <<exists, row, saves>>
      BY <1>12, <2>2 DEF ApplyMovement
    <3>2. Active(View(t, m.row)) /\ View(t, m.row) \in Summary
      BY <1>12, <2>1, ViewActive, ViewType DEF ApplyMovement
    <3>3. Active(s)
      BY <3>1, <3>2 DEF Active, Summary
    <3> HIDE DEF s
    <3> QED BY <2>1, <3>1, <3>3, <1>3
  <2> QED BY <1>1, <2>2
<1>13. CASE ApplyCreate(t)
  <2> DEFINE m == Head(moves[t])
             s == [qty |-> m.qty, link |-> TRUE, act |-> TRUE]
  <2>1. m.row \in Rows /\ m.qty \in Int
    BY <1>13, HeadType DEF ApplyCreate, ControlOK, ControlOf, Movement
  <2>2. CASE ~Rollback(t)
    <3>1. m.qty >= 0 /\ Write(t, m.row, s) /\ UNCHANGED <<exists, row, saves>>
      BY <1>13, <2>2 DEF ApplyCreate
    <3>2. Active(s)
      BY <3>1 DEF Active
    <3> HIDE DEF s
    <3> QED BY <2>1, <3>1, <3>2, <1>3
  <2> QED BY <1>1, <2>2
<1>14. CASE RejectQuantity(t) \/ RejectStock(t) \/ UniqueViolation(t) \/ DeadlockAbort(t)
           \/ Fail(t)
  BY <1>14, <1>1 DEF RejectQuantity, RejectStock, UniqueViolation, DeadlockAbort, Fail
<1> QED BY <1>4, <1>5, <1>6, <1>7, <1>8, <1>9, <1>10, <1>11, <1>12, <1>13, <1>14 DEF Step

\* The books of another transaction are kept by a step of t.
LEMMA OthersBooks ==
  ASSUME TypeOK, ControlOK, Bookkeeping, NEW t \in Txs, Begin(t) \/ Step(t) \/ Fail(t),
         NEW u \in Txs, u # t, NEW r \in Rows,
         lock[r] = u => ledger'[r] = ledger[r]
  PROVE  BookOf(r, u)'
<1>1. moved'[u] = moved[u] /\ Unapplied(u, r)' = Unapplied(u, r)
  BY StepFrame DEF Unapplied
<1>2. BookOf(r, u)
  BY DEF Bookkeeping
<1>3. CASE lock[r] = u
  BY <1>1, <1>2, <1>3, StepRespectsLocks DEF BookOf
<1>4. CASE lock[r] # u
  BY <1>1, <1>2, <1>4, StepRespectsLocks DEF BookOf
<1> QED BY <1>3, <1>4

\* A row that t writes under its lock, once the movement at hand is in it.
LEMMA WriteBooks ==
  ASSUME TypeOK, Bookkeeping, NEW t \in Txs, NEW q \in Rows, NEW s, Write(t, q, s),
         UNCHANGED <<ledger, moved>>,
         s.qty = ledger[q] + moved[t][q],
         \A r \in Rows : r # q => Unapplied(t, r) = 0,
         \A r \in Rows : Unapplied(t, r)' = 0,
         NEW r \in Rows
  PROVE  BookOf(r, t)'
<1>1. CASE r = q
  BY <1>1 DEF BookOf, Write, TypeOK
<1>2. CASE r # q
  BY <1>2 DEF Bookkeeping, BookOf, Write, TypeOK
<1> QED BY <1>1, <1>2

\* After a movement nothing is left unapplied.
LEMMA AppliedDone ==
  ASSUME TypeOK, NEW t \in Txs, Applied(t)
  PROVE  pc'[t] \in {"insert", "item"}
BY DEF TypeOK, Applied, NextItem, Goto

\* Nor is anything after a passed stock check.
LEMMA OutgoingDone ==
  ASSUME TypeOK, NEW t \in Txs, NEW have, Outgoing(t, have)
  PROVE  pc'[t] \in {"insert", "item"}
BY DEF TypeOK, Outgoing, NextItem, Plan, Goto

\* Every action keeps the books.
LEMMA StepBooks ==
  ASSUME TypeOK, ControlOK, Bookkeeping, AllActive, NoStaleSave,
         NEW t \in Txs, Begin(t) \/ Step(t) \/ Fail(t)
  PROVE  Bookkeeping'
<1> USE DEF TypeOK, db
<1> DEFINE Books == /\ \A r \in Rows : row'[r].qty = ledger'[r]
                    /\ \A r \in Rows : BookOf(r, t)'
                    /\ \A r \in Rows : lock[r] # t => ledger'[r] = ledger[r]
<1> SUFFICES Books
  <2>1. ASSUME Books, NEW r \in Rows, NEW u \in Txs, u # t PROVE BookOf(r, u)'
    BY <2>1, OthersBooks
  <2> QED BY <2>1 DEF Bookkeeping
<1>0. \A r \in Rows : row[r].qty = ledger[r] /\ BookOf(r, t)
  BY DEF Bookkeeping
<1>1. ASSUME Rollback(t) PROVE Books
  <2>1. \A r \in Rows : Unapplied(t, r)' = 0
    BY <1>1 DEF Rollback, Goto, Unapplied
  <2> QED BY <1>0, <1>1, <2>1, ConstantsAssumption DEF Rollback, BookOf
<1>2. ASSUME UNCHANGED <<row, ledger, lock, cur, moved>>,
             \A r \in Rows : Unapplied(t, r)' = Unapplied(t, r)
      PROVE  Books
  BY <1>0, <1>2 DEF BookOf
<1>3. ASSUME NEW q \in Rows, NEW s, Write(t, q, s), UNCHANGED <<row, ledger, moved>>,
             s.qty = ledger[q] + moved[t][q],
             \A r \in Rows : r # q => Unapplied(t, r) = 0,
             \A r \in Rows : Unapplied(t, r)' = 0
      PROVE  Books
  BY <1>0, <1>3, WriteBooks
<1>4. CASE Begin(t) \/ LastItemDone(t) \/ CheckMiss(t) \/ ScopeReload(t)
  BY <1>2, <1>4 DEF Begin, LastItemDone, CheckMiss, ScopeReload, AtStockCheck, At, Goto,
                    Unapplied
<1>5. CASE ScopeFind(t) \/ ScopeDone(t)
  BY <1>2, <1>5 DEF ScopeFind, ScopeDone, At, AfterScope, Plan, Goto, Unapplied
<1>6. CASE ReturnStock(t) \/ CountAdjustment(t) \/ AdjustRead(t)
  BY <1>2, <1>6 DEF ReturnStock, CountAdjustment, AdjustRead, At, Plan, NextItem, Goto,
                    Unapplied
<1>7. CASE ApplyMiss(t)
  BY <1>2, <1>7 DEF ApplyMiss, Goto, Unapplied
<1>8. CASE InsertMovement(t)
  <2> DEFINE m == Head(moves[t])
  <2>1. m.row \in Rows /\ m.qty \in Int
    BY <1>8, HeadType DEF InsertMovement, ControlOK, ControlOf, Movement
  <2>2. \A r \in Rows : /\ Unapplied(t, r) = 0
                        /\ Unapplied(t, r)' = IF m.row = r THEN m.qty ELSE 0
    BY <1>8 DEF InsertMovement, Goto, Unapplied
  <2>3. \A r \in Rows : moved'[t][r] = moved[t][r] + (IF m.row = r THEN m.qty ELSE 0)
    BY <1>8, <2>1 DEF InsertMovement
  <2> HIDE DEF m
  <2>4. \A r \in Rows : BookOf(r, t)'
    BY <1>0, <1>8, <2>1, <2>2, <2>3 DEF InsertMovement, BookOf
  <2> QED BY <1>0, <1>8, <2>4 DEF InsertMovement
<1>9. CASE Commit(t)
  <2>1. \A r \in Rows : Unapplied(t, r) = 0 /\ Unapplied(t, r)' = 0
    BY <1>9 DEF Commit, Goto, Unapplied
  <2>2. \A r \in Rows : ledger'[r] = ledger[r] + moved[t][r]
    BY <1>9 DEF Commit
  <2>3. \A r \in Rows : lock[r] # t => moved[t][r] = 0
    BY <1>0, <2>1 DEF BookOf
  <2>4. \A r \in Rows : row'[r].qty = ledger'[r]
    BY <1>0, <1>9, <2>1, <2>2, <2>3 DEF Commit, View, BookOf
  <2>5. \A r \in Rows : BookOf(r, t)'
    BY <1>9, <2>1, ConstantsAssumption DEF Commit, BookOf
  <2> QED BY <2>2, <2>3, <2>4, <2>5
<1>10. CASE ScopeInsert(t)
  <2>1. PICK s \in saves[t] : /\ ~exists[s.row] /\ lock[s.row] = NoTx
                              /\ Write(t, s.row, s.val)
    BY <1>10 DEF ScopeInsert
  <2>2. s.row \in Rows /\ s.val = FirstRow
    BY DEF Save, NoStaleSave
  <2>3. \A r \in Rows : Unapplied(t, r) = 0 /\ Unapplied(t, r)' = 0
    BY <1>10 DEF ScopeInsert, Unapplied
  <2>4. ledger[s.row] = 0
    BY <1>0, <2>1, <2>2 DEF AllActive, NoSummary
  <2>5. moved[t][s.row] = 0
    BY <1>0, <2>1, <2>2, <2>3, ConstantsAssumption DEF BookOf
  <2>6. s.val.qty = ledger[s.row] + moved[t][s.row]
    BY <2>2, <2>4, <2>5 DEF FirstRow
  <2> QED BY <1>3, <1>10, <2>1, <2>2, <2>3, <2>6 DEF ScopeInsert
<1>11. CASE ScopeUpdate(t)
  BY <1>11 DEF ScopeUpdate, NoStaleSave
<1>12. CASE CheckStock(t)
  <2> DEFINE q == Item(t).row
             s == View(t, q)
  <2>1. q \in Rows
    BY <1>12, ItemType DEF CheckStock, AtStockCheck, At, Items
  <2>2. \A r \in Rows : Unapplied(t, r) = 0
    BY <1>12 DEF CheckStock, AtStockCheck, At, Unapplied
  <2>3. \A r \in Rows : Unapplied(t, r)' = 0
    BY <1>12, OutgoingDone DEF CheckStock, Unapplied
  <2>4. s.qty = ledger[q] + moved[t][q]
    BY <1>0, <2>1, <2>2 DEF BookOf, View
  <2> QED BY <1>3, <1>12, <2>1, <2>2, <2>3, <2>4 DEF CheckStock
<1>13. CASE CheckCreate(t)
  <2> DEFINE q == Item(t).row
             sum == ledger[q] + moved[t][q]
             s == [qty |-> sum, link |-> TRUE, act |-> TRUE]
  <2>1. q \in Rows
    BY <1>13, ItemType DEF CheckCreate, ControlOK, ControlOf, Items
  <2>2. CASE ~Rollback(t)
    <3>1. Write(t, q, s) /\ Outgoing(t, sum) /\ UNCHANGED <<row, ledger, moved>>
      BY <1>13, <2>2 DEF CheckCreate
    <3>2. \A r \in Rows : Unapplied(t, r) = 0
      BY <1>13 DEF CheckCreate, Unapplied
    <3>3. \A r \in Rows : Unapplied(t, r)' = 0
      BY <3>1, OutgoingDone DEF Unapplied
    <3>4. s.qty = ledger[q] + moved[t][q]
      OBVIOUS
    <3> HIDE DEF q, s
    <3> QED BY <1>3, <2>1, <3>1, <3>2, <3>3, <3>4
  <2> QED BY <1>1, <2>2
<1>14. CASE ApplyMovement(t) \/ ApplyCreate(t)
  <2> DEFINE m == Head(moves[t])
             q == m.row
  <2>1. q \in Rows /\ m.qty \in Int
    BY <1>14, HeadType DEF ApplyMovement, ApplyCreate, ControlOK, ControlOf, Movement
  <2>2. \A r \in Rows : Unapplied(t, r) = IF r = q THEN m.qty ELSE 0
    BY <1>14 DEF ApplyMovement, ApplyCreate, Unapplied
  <2>3. CASE ~Rollback(t)
    <3>1. Applied(t) /\ UNCHANGED <<row, ledger, moved>>
      BY <1>14, <2>3 DEF ApplyMovement, ApplyCreate
    <3>2. \A r \in Rows : Unapplied(t, r)' = 0
      BY <3>1, AppliedDone DEF Unapplied
    <3>3. PICK s : Write(t, q, s) /\ s.qty = ledger[q] + moved[t][q]
      <4>1. CASE ApplyMovement(t)
        <5> DEFINE s == [View(t, q) EXCEPT !.qty = @ + m.qty]
        <5>1. Write(t, q, s)
          BY <4>1, <2>3 DEF ApplyMovement
        <5>2. View(t, q) \in Summary
          BY <2>1, ViewType
        <5>3. s.qty = View(t, q).qty + m.qty
          BY <5>2 DEF Summary
        <5>4. View(t, q).qty + m.qty = ledger[q] + moved[t][q]
          BY <1>0, <2>1, <2>2 DEF BookOf, View
        <5> HIDE DEF s
        <5> QED BY <5>1, <5>3, <5>4
      <4>2. CASE ApplyCreate(t)
        <5> DEFINE s == [qty |-> m.qty, link |-> TRUE, act |-> TRUE]
        <5>1. Write(t, q, s) /\ ~exists[q] /\ lock[q] = NoTx
          BY <4>2, <2>3 DEF ApplyCreate
        <5>2. ledger[q] = 0
          BY <1>0, <2>1, <5>1 DEF AllActive, NoSummary
        <5>3. moved[t][q] = m.qty
          BY <1>0, <2>1, <2>2, <5>1, ConstantsAssumption DEF BookOf
        <5>4. s.qty = ledger[q] + moved[t][q]
          BY <2>1, <5>2, <5>3
        <5> HIDE DEF s
        <5> QED BY <5>1, <5>4
      <4> QED BY <1>14, <4>1, <4>2
    <3> HIDE DEF m, q
    <3> QED BY <1>3, <2>1, <2>2, <3>1, <3>2, <3>3
  <2> QED BY <1>1, <2>3
<1>15. CASE RejectQuantity(t) \/ RejectStock(t) \/ UniqueViolation(t) \/ DeadlockAbort(t)
           \/ Fail(t)
  BY <1>15, <1>1 DEF RejectQuantity, RejectStock, UniqueViolation, DeadlockAbort, Fail
<1> QED BY <1>4, <1>5, <1>6, <1>7, <1>8, <1>9, <1>10, <1>11, <1>12, <1>13, <1>14,
           <1>15 DEF Step

-----------------------------------------------------------------------------
(* The theorems about a settled catalogue. *)

\* The database starts with a ledger that agrees with the summary.
LEMMA InitSettled ==
  ASSUME Settled, Init
  PROVE  SettledInv
<1>1. PICK f \in [Rows -> InitialRows] :
        /\ exists = [r \in Rows |-> f[r].exists]
        /\ row = [r \in Rows |-> f[r].row]
  BY DEF Init
<1>2. \A r \in Rows : /\ f[r] \in InitialRows
                      /\ f[r].row.qty >= 0
                      /\ ~f[r].exists => f[r].row = NoSummary
                      /\ f[r].exists => Active(f[r].row)
  BY ConstantsAssumption DEF Settled, Active
<1>3. AllActive
  BY <1>1, <1>2 DEF Init, AllActive
<1>4. Bookkeeping
  BY <1>1, ConstantsAssumption DEF Init, Bookkeeping, BookOf, Unapplied
<1>5. NoStaleSave
  BY DEF Init, NoStaleSave
<1> QED BY <1>3, <1>4, <1>5, InitTypeControl DEF SettledInv

\* Every step keeps the books of a settled catalogue.
LEMMA NextSettled ==
  ASSUME Settled, SettledInv, [Next]_vars
  PROVE  SettledInv'
<1> USE DEF SettledInv
<1>1. CASE UNCHANGED vars
  BY <1>1 DEF vars, TypeOK, ControlOK, ControlOf, Item, Bookkeeping, BookOf, Unapplied,
              AllActive, NoStaleSave
<1>2. ASSUME NEW t \in Txs, Begin(t) \/ Step(t) \/ Fail(t)
      PROVE  SettledInv'
  BY <1>2, StepType, StepControl, StepBooks, StepActive
<1> QED BY <1>1, <1>2 DEF Next, Finished

\* In a settled catalogue every reachable state keeps the books.
THEOREM BooksAreKept ==
  ASSUME Settled
  PROVE  Spec => []SettledInv
<1>1. Init => SettledInv
  BY InitSettled
<1>2. SettledInv /\ [Next]_vars => SettledInv'
  BY NextSettled
<1> QED BY <1>1, <1>2, PTL DEF Spec

\* store_variant_stock is the sum of inventory_movements for every number of
\* stores, variants, transactions and items, as long as the catalogue is settled
\* (a scope step that links or activates a row can lose a movement).
THEOREM LedgerIsSummary ==
  ASSUME Settled
  PROVE  Spec => []LedgerMatchesSummary
<1>1. SettledInv => LedgerMatchesSummary
  BY DEF SettledInv, Bookkeeping, LedgerMatchesSummary
<1> QED BY <1>1, BooksAreKept, PTL

-----------------------------------------------------------------------------
(* The refinement: every commit is one atomic request. *)

\* A set of naturals has a least element.
LEMMA LeastOf ==
  ASSUME NEW S \in SUBSET Nat, S # {}
  PROVE  \E m \in S : \A n \in S : m <= n
<1>1. PICK m \in S : \A n \in S : <<n, m>> \notin OpToRel(<, Nat)
  BY NatLessThanWellFounded, WFMin, Zenon
<1>2. \A n \in S : <<n, m>> \in OpToRel(<, Nat) <=> (n \in Nat /\ m \in Nat /\ n < m)
  BY Zenon DEF OpToRel
<1>3. \A n \in S : ~ (n < m)
  BY <1>1, <1>2, Zenon
<1> QED BY <1>3

Stock == [r \in Rows |-> row[r].qty]
Quantities == [Rows -> Int]
AdjustedRows(q) == {q[i].row : i \in {j \in 1..Len(q) : q[j].op = "ADJUST"}}
Running(t) == pc[t] \notin {"idle", "committed", "aborted"}
Moving(t) == pc[t] \in {"insert", "apply", "create"}

\* The movements of the item at hand that are not in the ledger yet, and what
\* they will add to row r.
ToInsert(t) == IF pc[t] = "insert" THEN moves[t]
               ELSE IF pc[t] \in {"apply", "create"} THEN Tail(moves[t]) ELSE <<>>
Part(m, r) == IF m.row = r THEN m.qty ELSE 0
Sum2(ms, r) == (IF Len(ms) >= 1 /\ ms[1].row = r THEN ms[1].qty ELSE 0)
               + (IF Len(ms) >= 2 /\ ms[2].row = r THEN ms[2].qty ELSE 0)

\* g[n] is the stock after the first n items of q on stock f.
Chain(g, q, f, n) ==
  /\ g \in [0..n -> Quantities] /\ g[0] = f
  /\ \A i \in 1..n : g[i] = Abstract!After(g[i - 1], q[i])

\* A request's movements so far, and those to come, are those of its items on
\* the stock of this instant, one after the other.
Serialised(t) ==
  \E g : /\ Chain(g, req[t], Stock, pos[t] - 1)
         /\ \A r \in Rows :
              (IF Moving(t) THEN Abstract!After(g[pos[t] - 1], Item(t)) ELSE g[pos[t] - 1])[r]
                = Stock[r] + moved[t][r] + Sum2(ToInsert(t), r)

\* The stock that a transfer of everything has found is locked.
HoldsAll(t) ==
  \A n \in 1..Len(req[t]) :
    /\ req[t][n].op = "TRANSFER_ALL"
    /\ n < pos[t] \/ (n = pos[t] /\ Moving(t))
    => lock[req[t][n].row] = t

\* An adjustment moves nothing but its rows.
OnlyAdjusts(t) ==
  /\ \A r \in Rows \ AdjustedRows(req[t]) : moved[t][r] = 0
  /\ \A i \in 1..Len(moves[t]) : moves[t][i].row \in AdjustedRows(req[t])

FrameOf(t) ==
  /\ pc[t] = "idle" => pos[t] = 1 /\ moves[t] = <<>> /\ \A r \in Rows : moved[t][r] = 0
  /\ pc[t] # "idle" => req[t] \in Requests
  /\ Running(t) => pos[t] <= Len(req[t]) + 1
  /\ pc[t] = "commit" => pos[t] = Len(req[t]) + 1
  /\ Moving(t) => Len(moves[t]) <= 2

AtomicOf(t) ==
  /\ FrameOf(t)
  /\ Running(t) => IF AdjustedRows(req[t]) = {} THEN HoldsAll(t) /\ Serialised(t)
                                                ELSE OnlyAdjusts(t)

AtomicInv == \A t \in Txs : AtomicOf(t)

\* The abstract effect of an item is a stock.
LEMMA AfterType ==
  ASSUME NEW f \in Quantities, NEW i \in Items
  PROVE  Abstract!After(f, i) \in Quantities
<1>1. i.row \in Rows /\ i.to \in Rows /\ i.qty \in Int /\ f[i.row] \in Int
  BY DEF Items, Quantities
<1> QED BY <1>1 DEF Abstract!After, Quantities

\* An item that adjusts nothing, and empties no row that two stocks differ in,
\* does the same to both.
LEMMA AfterShift ==
  ASSUME NEW f \in Quantities, NEW h \in Quantities, NEW i \in Items,
         i.op \in {"TRANSFER", "TRANSFER_ALL"} => i.to # i.row,
         i.op = "TRANSFER_ALL" => f[i.row] = h[i.row],
         i.op # "ADJUST", NEW r \in Rows
  PROVE  Abstract!After(h, i)[r] - h[r] = Abstract!After(f, i)[r] - f[r]
<1>1. i.row \in Rows /\ i.to \in Rows /\ i.qty \in Int /\ i.op \in Ops
  BY DEF Items
<1>2. f[i.row] \in Int /\ h[i.row] \in Int /\ f[i.to] \in Int /\ h[i.to] \in Int
      /\ f[r] \in Int /\ h[r] \in Int
  BY <1>1 DEF Quantities
<1>3. CASE i.op \in {"RECEIVE", "RETURN", "COUNT"}
  BY <1>1, <1>2, <1>3 DEF Abstract!After, Quantities
<1>4. CASE i.op = "SELL"
  BY <1>1, <1>2, <1>4 DEF Abstract!After, Quantities
<1>5. CASE i.op = "TRANSFER"
  BY <1>1, <1>2, <1>5 DEF Abstract!After, Quantities
<1>6. CASE i.op = "TRANSFER_ALL"
  BY <1>1, <1>2, <1>6 DEF Abstract!After, Quantities
<1> QED BY <1>1, <1>3, <1>4, <1>5, <1>6 DEF Ops

\* A chain is extended by the next item ...
LEMMA ExtendChain ==
  ASSUME NEW q \in Seq(Items), NEW f \in Quantities, NEW n \in Nat, n + 1 <= Len(q),
         NEW g, Chain(g, q, f, n)
  PROVE  \E h : Chain(h, q, f, n + 1) /\ h[n + 1] = Abstract!After(g[n], q[n + 1])
<1> DEFINE h == [i \in 0..n + 1 |-> IF i = n + 1 THEN Abstract!After(g[n], q[n + 1]) ELSE g[i]]
<1>1. g[n] \in Quantities /\ q[n + 1] \in Items
  BY DEF Chain
<1>2. Abstract!After(g[n], q[n + 1]) \in Quantities
  BY <1>1, AfterType
<1>3. h \in [0..n + 1 -> Quantities] /\ h[0] = f
  BY <1>2 DEF Chain
<1>4. ASSUME NEW i \in 1..n + 1 PROVE h[i] = Abstract!After(h[i - 1], q[i])
  <2>1. CASE i = n + 1
    BY <2>1
  <2>2. CASE i # n + 1
    <3>1. i \in 1..n /\ h[i] = g[i] /\ h[i - 1] = g[i - 1]
      BY <2>2
    <3> QED BY <3>1 DEF Chain
  <2> QED BY <2>1, <2>2
<1>5. h[n + 1] = Abstract!After(g[n], q[n + 1])
  OBVIOUS
<1> HIDE DEF h
<1>6. Chain(h, q, f, n + 1)
  BY <1>3, <1>4 DEF Chain
<1> QED BY <1>5, <1>6

\* ... and carries over to another stock that agrees on the rows it empties.
Agrees(i, f, h) == /\ i.op # "ADJUST"
                   /\ i.op \in {"TRANSFER", "TRANSFER_ALL"} => i.to # i.row
                   /\ i.op = "TRANSFER_ALL" => f[i.row] = h[i.row]

Shifted(k, g, q, f, h, n) ==
  Chain(k, q, h, n) /\ \A i \in 0..n, r \in Rows : k[i][r] = g[i][r] + h[r] - f[r]

\* A chain moves along with the stock it starts from.
LEMMA ShiftChain ==
  ASSUME NEW q \in Seq(Items), NEW f \in Quantities, NEW h \in Quantities,
         NEW n \in Nat, n <= Len(q), NEW g, Chain(g, q, f, n),
         \A i \in 1..n : Agrees(q[i], f, h)
  PROVE  \E k : Shifted(k, g, q, f, h, n)
<1> DEFINE k == [i \in 0..n |-> [r \in Rows |-> g[i][r] + h[r] - f[r]]]
<1>1. \A i \in 0..n : g[i] \in Quantities
  BY DEF Chain
<1>2. k \in [0..n -> Quantities]
  BY <1>1 DEF Quantities
<1>3. \A i \in 0..n, r \in Rows : k[i][r] = g[i][r] + h[r] - f[r]
  OBVIOUS
<1>4. k[0] = h
  <2>1. \A r \in Rows : k[0][r] = h[r]
    BY <1>3 DEF Chain, Quantities
  <2> HIDE DEF k
  <2>2. k[0] \in Quantities
    BY <1>2
  <2> QED BY <2>1, <2>2 DEF Quantities
<1> HIDE DEF k
<1>5. ASSUME NEW i \in 1..n PROVE k[i] = Abstract!After(k[i - 1], q[i])
  <2>1. i - 1 \in 0..n /\ i \in 0..n /\ q[i] \in Items /\ q[i].row \in Rows
    <3>1. i \in 1..Len(q)
      OBVIOUS
    <3>2. q[i] \in Items
      BY <3>1
    <3> QED BY <3>2 DEF Items
  <2>2. /\ g[i - 1] \in Quantities /\ k[i - 1] \in Quantities /\ k[i] \in Quantities
        /\ Abstract!After(k[i - 1], q[i]) \in Quantities
    BY <1>1, <1>2, <2>1, AfterType
  <2>3. q[i].op = "TRANSFER_ALL" => g[i - 1][q[i].row] = k[i - 1][q[i].row]
    BY <1>3, <2>1, <2>2 DEF Quantities, Agrees
  <2>4. ASSUME NEW r \in Rows PROVE k[i][r] = Abstract!After(k[i - 1], q[i])[r]
    <3>1. Abstract!After(k[i - 1], q[i])[r] - k[i - 1][r]
            = Abstract!After(g[i - 1], q[i])[r] - g[i - 1][r]
      BY <2>1, <2>2, <2>3, AfterShift DEF Agrees
    <3>2. Abstract!After(g[i - 1], q[i]) = g[i]
      BY DEF Chain
    <3>3. /\ k[i - 1][r] = g[i - 1][r] + h[r] - f[r]
          /\ k[i][r] = g[i][r] + h[r] - f[r]
      BY <1>3, <2>1
    <3>4. /\ g[i][r] \in Int /\ g[i - 1][r] \in Int /\ h[r] \in Int /\ f[r] \in Int
          /\ Abstract!After(k[i - 1], q[i])[r] \in Int
      BY <1>1, <2>1, <2>2 DEF Quantities
    <3> QED BY <3>1, <3>2, <3>3, <3>4
  <2> QED BY <2>2, <2>4 DEF Quantities
<1>6. Shifted(k, g, q, f, h, n)
  BY <1>2, <1>3, <1>4, <1>5 DEF Chain, Shifted
<1> QED BY <1>6

\* The end of a chain over a whole request is what the request does at once.
LEMMA ChainIsSerial ==
  ASSUME NEW q \in Seq(Items), Stock \in Quantities, NEW g, Chain(g, q, Stock, Len(q))
  PROVE  Abstract!Serial(q) = g[Len(q)]
<1> DEFINE IsRun(R) == R = [n \in 0..Len(q) |->
                             IF n = 0 THEN Stock ELSE Abstract!After(R[n - 1], q[n])]
           Run == CHOOSE R : IsRun(R)
<1>1. Abstract!Serial(q) = Run[Len(q)]
  BY Zenon DEF Abstract!Serial, Stock
<1>2. IsRun(g)
  <2>1. g = [n \in 0..Len(q) |-> g[n]]
    BY DEF Chain
  <2>2. \A n \in 0..Len(q) :
          g[n] = IF n = 0 THEN Stock ELSE Abstract!After(g[n - 1], q[n])
    BY DEF Chain
  <2> QED BY <2>1, <2>2
<1>3. IsRun(Run)
  BY <1>2
<1> HIDE DEF Run
<1>4. ASSUME NEW n \in 0..Len(q), Run[n] # g[n] PROVE FALSE
  <2> DEFINE S == {i \in 0..Len(q) : Run[i] # g[i]}
  <2>1. PICK m \in S : \A i \in S : m <= i
    <3>1. n \in S /\ S \in SUBSET Nat
      BY <1>4
    <3> HIDE DEF S
    <3> QED BY <3>1, LeastOf
  <2>2. m # 0
    BY <1>2, <1>3, <2>1
  <2>3. m - 1 \in 0..Len(q) /\ m - 1 \notin S
    BY <2>1, <2>2
  <2>4. Run[m - 1] = g[m - 1]
    BY <2>3
  <2>5. Run[m] = Abstract!After(Run[m - 1], q[m]) /\ g[m] = Abstract!After(g[m - 1], q[m])
    BY <1>2, <1>3, <2>1, <2>2
  <2> QED BY <2>1, <2>4, <2>5
<1> QED BY <1>1, <1>4

\* What the movements an item decides on do to the stock is what the item does.
LEMMA AddEffect ==
  ASSUME NEW f \in Quantities, NEW i \in Items, i.op \in {"RECEIVE", "RETURN", "COUNT"},
         NEW r \in Rows
  PROVE  Abstract!After(f, i)[r] = f[r] + Sum2(<<[row |-> i.row, qty |-> i.qty]>>, r)
<1>1. i.row \in Rows /\ i.qty \in Int /\ f[i.row] \in Int /\ f[r] \in Int
  BY DEF Items, Quantities
<1>2. Abstract!After(f, i)[r] = IF r = i.row THEN f[r] + i.qty ELSE f[r]
  BY <1>1 DEF Abstract!After, Quantities
<1> QED BY <1>1, <1>2 DEF Sum2

\* The effect of an item on the stock, as its movements.
LEMMA OutEffect ==
  ASSUME NEW f \in Quantities, NEW i \in Items, i.op \in Outgoings,
         i.op # "SELL" => i.to # i.row, NEW have, i.op = "TRANSFER_ALL" => f[i.row] = have,
         NEW out, out = IF i.op = "TRANSFER_ALL" THEN have ELSE i.qty,
         NEW r \in Rows
  PROVE  Abstract!After(f, i)[r]
           = f[r] + Sum2(IF i.op = "SELL" THEN <<[row |-> i.row, qty |-> -out]>>
                         ELSE <<[row |-> i.row, qty |-> -out], [row |-> i.to, qty |-> out]>>, r)
<1>1. /\ i.row \in Rows /\ i.to \in Rows /\ i.qty \in Int
      /\ f[i.row] \in Int /\ f[i.to] \in Int /\ f[r] \in Int
  BY DEF Items, Quantities
<1>2. out \in Int
  BY <1>1
<1>3. CASE i.op = "SELL"
  <2>1. Abstract!After(f, i)[r] = IF r = i.row THEN f[r] - i.qty ELSE f[r]
    BY <1>1, <1>3 DEF Abstract!After, Quantities
  <2> QED BY <1>1, <1>2, <1>3, <2>1 DEF Sum2
<1>4. CASE i.op # "SELL"
  <2>1. Abstract!After(f, i)[r] = IF r = i.row THEN f[r] - out
                                  ELSE IF r = i.to THEN f[r] + out ELSE f[r]
    BY <1>1, <1>2, <1>4 DEF Abstract!After, Quantities, Outgoings
  <2>2. Sum2(<<[row |-> i.row, qty |-> -out], [row |-> i.to, qty |-> out]>>, r)
          = IF r = i.row THEN -out ELSE IF r = i.to THEN out ELSE 0
    BY <1>1, <1>2, <1>4 DEF Sum2
  <2> QED BY <1>1, <1>2, <1>4, <2>1, <2>2
<1> QED BY <1>3, <1>4

\* A count of no difference, or a transfer of all of nothing, does nothing.
LEMMA NoEffect ==
  ASSUME NEW f \in Quantities, NEW i \in Items,
         \/ i.op = "COUNT" /\ i.qty = 0
         \/ i.op = "TRANSFER_ALL" /\ f[i.row] = 0 /\ i.to # i.row,
         NEW r \in Rows
  PROVE  Abstract!After(f, i)[r] = f[r]
<1>1. i.row \in Rows /\ i.to \in Rows /\ f[i.row] \in Int /\ f[i.to] \in Int /\ f[r] \in Int
  BY DEF Items, Quantities
<1> QED BY <1>1 DEF Abstract!After, Quantities

\* The stock has a quantity in every row.
LEMMA StockType ==
  ASSUME TypeOK
  PROVE  Stock \in Quantities
BY DEF TypeOK, Stock, Quantities, Summary

\* Every stock of a chain is one.
LEMMA ChainType ==
  ASSUME NEW g, NEW q, NEW f, NEW n \in Nat, Chain(g, q, f, n), NEW i \in 0..n
  PROVE  g[i] \in Quantities
BY DEF Chain

\* Movements add up to an integer.
LEMMA Sum2Type ==
  ASSUME NEW ms \in Seq(Movement), NEW r
  PROVE  Sum2(ms, r) \in Int
<1>1. ASSUME NEW i \in 1..Len(ms) PROVE ms[i].qty \in Int
  <2>1. ms[i] \in Movement
    OBVIOUS
  <2> QED BY <2>1 DEF Movement
<1>2. Len(ms) \in Nat
  OBVIOUS
<1> QED BY <1>1, <1>2 DEF Sum2

\* The first movement and the others.
LEMMA SumHead ==
  ASSUME NEW ms \in Seq(Movement), ms # <<>>, Len(ms) <= 2, NEW r \in Rows
  PROVE  Sum2(ms, r) = Part(Head(ms), r) + Sum2(Tail(ms), r)
<1>1. /\ Len(ms) \in Nat \ {0} /\ Head(ms) = ms[1]
      /\ \A i \in 1..Len(ms) : ms[i] \in Movement
  OBVIOUS
<1>2. PICK tl : tl = Tail(ms)
  OBVIOUS
<1>3. Len(tl) = Len(ms) - 1 /\ \A i \in 1..Len(ms) - 1 : tl[i] = ms[i + 1]
  BY <1>2
<1>4. \A i \in 1..Len(ms) : ms[i].qty \in Int
  BY <1>1 DEF Movement
<1>5. CASE Len(ms) = 1
  <2>1. Sum2(Tail(ms), r) = 0
    BY <1>2, <1>3, <1>5 DEF Sum2
  <2>2. Sum2(ms, r) = Part(ms[1], r) /\ Part(ms[1], r) \in Int
    BY <1>4, <1>5 DEF Sum2, Part
  <2> QED BY <1>1, <2>1, <2>2
<1>6. CASE Len(ms) = 2
  <2>1. tl[1] = ms[2] /\ Len(tl) = 1
    BY <1>3, <1>6
  <2>2. Sum2(tl, r) = Part(ms[2], r) /\ Part(ms[2], r) \in Int
    BY <1>4, <1>6, <2>1 DEF Sum2, Part
  <2>3. Sum2(ms, r) = Part(ms[1], r) + Part(ms[2], r)
    BY <1>6 DEF Sum2, Part
  <2>4. Sum2(Tail(ms), r) = Part(ms[2], r)
    BY <1>2, <2>2, Zenon
  <2>5. Part(Head(ms), r) = Part(ms[1], r)
    BY <1>1, Zenon
  <2> QED BY <2>3, <2>4, <2>5, Zenon
<1>7. Len(ms) = 1 \/ Len(ms) = 2
  <2>1. Len(ms) \in Nat /\ Len(ms) # 0
    OBVIOUS
  <2>2. \A n \in Nat : n # 0 /\ n <= 2 => n = 1 \/ n = 2
    OBVIOUS
  <2> QED BY <2>1, <2>2, Zenon
<1> QED BY <1>5, <1>6, <1>7

\* What is still to be inserted is movements.
LEMMA ToInsertType ==
  ASSUME TypeOK, NEW t \in Txs, ControlOf(t)
  PROVE  ToInsert(t) \in Seq(Movement)
BY DEF TypeOK, ToInsert, ControlOf

\* A request adjusts everywhere or nowhere.
LEMMA AdjustsOrNot ==
  ASSUME NEW q \in Requests
  PROVE  /\ AdjustedRows(q) = {} => \A i \in 1..Len(q) : q[i].op # "ADJUST"
         /\ AdjustedRows(q) # {} => \A i \in 1..Len(q) : /\ q[i].op = "ADJUST"
                                                         /\ q[i].row \in AdjustedRows(q)
<1>1. CASE \E j \in 1..Len(q) : q[j].op = "ADJUST"
  <2>1. \A i \in 1..Len(q) : q[i].op = "ADJUST"
    BY <1>1, ConstantsAssumption
  <2>2. \A i \in 1..Len(q) : q[i].row \in AdjustedRows(q)
    BY <2>1 DEF AdjustedRows
  <2> QED BY <1>1, <2>1, <2>2
<1>2. CASE \A j \in 1..Len(q) : q[j].op # "ADJUST"
  BY <1>2 DEF AdjustedRows
<1> QED BY <1>1, <1>2

\* A transaction with no movement in flight sees what it will have committed.
LEMMA SeenStock ==
  ASSUME TypeOK, Bookkeeping, NEW t \in Txs, NEW r \in Rows, Unapplied(t, r) = 0
  PROVE  /\ View(t, r).qty = Stock[r] + moved[t][r]
         /\ ledger[r] + moved[t][r] = Stock[r] + moved[t][r]
         /\ Stock[r] + moved[t][r] \in Int
BY DEF TypeOK, Bookkeeping, BookOf, View, Stock, Summary

\* Neither the locks it needs nor the rows it may move are lost while t goes on.
LEMMA OwnFrame ==
  ASSUME TypeOK, NEW t \in Txs, AtomicOf(t), Running(t), pc'[t] # "idle",
         UNCHANGED <<row, req>>,
         pos'[t] <= Len(req[t]) + 1, pc'[t] = "commit" => pos'[t] = Len(req[t]) + 1,
         Moving(t)' => Len(moves'[t]) <= 2
  PROVE  FrameOf(t)'
BY DEF TypeOK, AtomicOf, FrameOf, Running

\* t stays at its item and in its movement, if it has one.
LEMMA OwnKeep ==
  ASSUME TypeOK, NEW t \in Txs, AtomicOf(t), Running(t),
         UNCHANGED <<row, req, pos, moved, moves>>,
         pc'[t] \notin {"idle", "insert"}, pc'[t] = "commit" => pos[t] = Len(req[t]) + 1,
         pc[t] # "insert", Moving(t) <=> pc'[t] \in {"apply", "create"},
         \A r \in Rows : lock[r] = t => lock'[r] = t
  PROVE  AtomicOf(t)'
<1>1. FrameOf(t)'
  <2>1. Moving(t)' => Moving(t)
    BY DEF Moving
  <2>2. FrameOf(t)
    BY DEF AtomicOf
  <2> QED BY <2>1, <2>2, OwnFrame DEF FrameOf
<1>2. AdjustedRows(req[t])' = AdjustedRows(req[t])
  OBVIOUS
<1>3. ASSUME AdjustedRows(req[t]) = {} PROVE HoldsAll(t)' /\ Serialised(t)'
  <2>1. HoldsAll(t) /\ Serialised(t)
    BY <1>3 DEF AtomicOf
  <2>2. /\ Moving(t)' = Moving(t) /\ ToInsert(t)' = ToInsert(t) /\ Item(t)' = Item(t)
        /\ Stock' = Stock
    BY DEF Moving, ToInsert, Item, Stock
  <2>3. \A n \in 1..Len(req[t]) : req[t][n].row \in Rows
    <3>1. \A n \in 1..Len(req[t]) : req[t][n] \in Items
      BY DEF TypeOK
    <3> QED BY <3>1 DEF Items
  <2>4. HoldsAll(t)'
    BY <2>1, <2>2, <2>3 DEF HoldsAll
  <2>5. Serialised(t)'
    BY <2>1, <2>2 DEF Serialised
  <2> QED BY <2>4, <2>5
<1>4. ASSUME AdjustedRows(req[t]) # {} PROVE OnlyAdjusts(t)'
  <2>1. OnlyAdjusts(t)
    BY <1>4 DEF AtomicOf
  <2> QED BY <2>1, <1>2 DEF OnlyAdjusts
<1> QED BY <1>1, <1>2, <1>3, <1>4 DEF AtomicOf

\* The rows of the items at and before n that empty a row.
LEMMA HoldsNext ==
  ASSUME TypeOK, NEW t \in Txs, HoldsAll(t), UNCHANGED req, pos[t] <= Len(req[t]),
         \/ pos'[t] = pos[t] + 1 /\ ~Moving(t)'
         \/ pos'[t] = pos[t],
         Item(t).op = "TRANSFER_ALL" => lock'[Item(t).row] = t,
         \A r \in Rows : lock[r] = t => lock'[r] = t
  PROVE  HoldsAll(t)'
<1>1. ASSUME NEW n \in 1..Len(req[t]), req[t][n].op = "TRANSFER_ALL", n <= pos[t]
      PROVE  lock'[req[t][n].row] = t
  <2>1. CASE n = pos[t]
    BY <1>1, <2>1 DEF Item
  <2>2. CASE n < pos[t]
    <3>1. req[t][n] \in Items
      BY DEF TypeOK
    <3> QED BY <1>1, <2>2, <3>1 DEF HoldsAll, Items
  <2> QED BY <1>1, <2>1, <2>2 DEF TypeOK
<1>2. pos[t] \in Nat
  BY DEF TypeOK
<1> QED BY <1>1, <1>2 DEF HoldsAll

\* The item decides on movements that do what the item does.
LEMMA OwnPlan ==
  ASSUME TypeOK, NEW t \in Txs, AtomicOf(t), Running(t), ~Moving(t), pos[t] <= Len(req[t]),
         NEW ms \in Seq(Movement), Len(ms) <= 2, Plan(t, ms),
         UNCHANGED <<row, req, pos, moved>>,
         Item(t).op = "TRANSFER_ALL" => lock'[Item(t).row] = t,
         \A r \in Rows : lock[r] = t => lock'[r] = t,
         Item(t).op = "ADJUST" => \A i \in 1..Len(ms) : ms[i].row = Item(t).row,
         Item(t).op # "ADJUST" =>
           \A f \in Quantities :
             f[Item(t).row] = Stock[Item(t).row] + moved[t][Item(t).row]
             => \A r \in Rows : Abstract!After(f, Item(t))[r] = f[r] + Sum2(ms, r)
  PROVE  AtomicOf(t)'
<1>1. pc'[t] = "insert" /\ moves'[t] = ms
  BY DEF TypeOK, Plan, Goto
<1>2. FrameOf(t)'
  <2>1. pos'[t] = pos[t] /\ pos[t] \in Nat /\ Len(req[t]) \in Nat
    BY DEF TypeOK
  <2>2. pos'[t] <= Len(req[t]) + 1
    BY <2>1
  <2> QED BY <1>1, <2>2, OwnFrame
<1>3. AdjustedRows(req[t])' = AdjustedRows(req[t]) /\ Item(t)' = Item(t)
  BY DEF Item
<1>4. req[t] \in Requests /\ pos[t] \in 1..Len(req[t])
  BY DEF AtomicOf, FrameOf, Running, TypeOK
<1>5. ASSUME AdjustedRows(req[t]) = {} PROVE HoldsAll(t)' /\ Serialised(t)'
  <2>1. HoldsAll(t) /\ Serialised(t) /\ Item(t).op # "ADJUST"
    BY <1>4, <1>5, AdjustsOrNot DEF AtomicOf, Item
  <2>2. HoldsAll(t)'
    BY <2>1, HoldsNext
  <2>3. PICK g : /\ Chain(g, req[t], Stock, pos[t] - 1)
                 /\ \A r \in Rows : g[pos[t] - 1][r] = Stock[r] + moved[t][r] + Sum2(<<>>, r)
    BY <2>1 DEF Serialised, ToInsert, Moving
  <2>4. g[pos[t] - 1] \in Quantities
    BY <1>4, <2>3, ChainType
  <2>5. \A r \in Rows : Stock[r] \in Int /\ moved[t][r] \in Int
    BY StockType DEF Quantities, TypeOK
  <2>6. \A r \in Rows : g[pos[t] - 1][r] = Stock[r] + moved[t][r]
    BY <2>3, <2>5 DEF Sum2
  <2>7. Item(t).row \in Rows
    BY ItemType DEF Items
  <2>8. \A r \in Rows : Abstract!After(g[pos[t] - 1], Item(t))[r]
                          = Stock[r] + moved[t][r] + Sum2(ms, r)
    BY <2>1, <2>4, <2>6, <2>7
  <2>9. Moving(t)' /\ ToInsert(t)' = ms /\ Stock' = Stock
    BY <1>1 DEF Moving, ToInsert, Stock
  <2> QED BY <1>3, <2>2, <2>3, <2>8, <2>9 DEF Serialised
<1>6. ASSUME AdjustedRows(req[t]) # {} PROVE OnlyAdjusts(t)'
  <2>1. OnlyAdjusts(t) /\ Item(t).op = "ADJUST" /\ Item(t).row \in AdjustedRows(req[t])
    BY <1>4, <1>6, AdjustsOrNot DEF AtomicOf, Item
  <2> QED BY <1>1, <1>3, <2>1 DEF OnlyAdjusts
<1> QED BY <1>2, <1>3, <1>5, <1>6 DEF AtomicOf

\* The item is over: what it was to do is in the ledger, or was nothing.
LEMMA OwnNext ==
  ASSUME TypeOK, NEW t \in Txs, AtomicOf(t), Running(t), pos[t] <= Len(req[t]),
         NextItem(t), UNCHANGED <<row, req, moved>>,
         moves'[t] = moves[t] \/ moves'[t] = <<>>,
         Item(t).op = "TRANSFER_ALL" => lock'[Item(t).row] = t,
         \A r \in Rows : lock[r] = t => lock'[r] = t,
         ToInsert(t) = <<>>,
         \/ Moving(t)
         \/ Item(t).op = "ADJUST"
         \/ \A f \in Quantities :
              f[Item(t).row] = Stock[Item(t).row] + moved[t][Item(t).row]
              => \A r \in Rows : Abstract!After(f, Item(t))[r] = f[r]
  PROVE  AtomicOf(t)'
<1>1. pc'[t] = "item" /\ pos'[t] = pos[t] + 1 /\ pos[t] \in Nat
  BY DEF TypeOK, NextItem, Goto
<1>2. FrameOf(t)'
  <2>1. Len(req[t]) \in Nat /\ ~Moving(t)'
    BY <1>1 DEF TypeOK, Moving
  <2>2. pos'[t] <= Len(req[t]) + 1
    BY <1>1, <2>1
  <2> QED BY <1>1, <2>1, <2>2, OwnFrame
<1>3. AdjustedRows(req[t])' = AdjustedRows(req[t]) /\ Stock' = Stock
  BY DEF Stock
<1>4. req[t] \in Requests /\ pos[t] \in 1..Len(req[t])
  BY DEF AtomicOf, FrameOf, Running, TypeOK
<1>5. ASSUME AdjustedRows(req[t]) = {} PROVE HoldsAll(t)' /\ Serialised(t)'
  <2>1. HoldsAll(t) /\ Serialised(t) /\ Item(t).op # "ADJUST"
    BY <1>4, <1>5, AdjustsOrNot DEF AtomicOf, Item
  <2>2. ~Moving(t)' /\ ToInsert(t)' = <<>>
    BY <1>1 DEF Moving, ToInsert
  <2>3. HoldsAll(t)'
    BY <1>1, <2>1, <2>2, HoldsNext
  <2>4. PICK g : /\ Chain(g, req[t], Stock, pos[t] - 1)
                 /\ \A r \in Rows :
                      (IF Moving(t) THEN Abstract!After(g[pos[t] - 1], Item(t))
                       ELSE g[pos[t] - 1])[r] = Stock[r] + moved[t][r] + Sum2(<<>>, r)
    BY <2>1 DEF Serialised
  <2>5. g[pos[t] - 1] \in Quantities
    BY <1>4, <2>4, ChainType
  <2>6. \A r \in Rows : Stock[r] \in Int /\ moved[t][r] \in Int /\ Sum2(<<>>, r) = 0
    BY StockType DEF Quantities, TypeOK, Sum2
  <2>7. Item(t).row \in Rows
    BY ItemType DEF Items
  <2>8. \A r \in Rows : Abstract!After(g[pos[t] - 1], Item(t))[r]
                          = Stock[r] + moved[t][r] + Sum2(<<>>, r)
    <3>1. CASE Moving(t)
      BY <2>4, <3>1
    <3>2. CASE ~Moving(t)
      <4>1. \A r \in Rows : g[pos[t] - 1][r] = Stock[r] + moved[t][r]
        BY <2>4, <2>6, <3>2
      <4> QED BY <2>1, <2>5, <2>6, <2>7, <3>2, <4>1
    <3> QED BY <3>1, <3>2
  <2>9. PICK h : Chain(h, req[t], Stock, pos[t])
                 /\ h[pos[t]] = Abstract!After(g[pos[t] - 1], req[t][pos[t]])
    <3>1. pos[t] - 1 \in Nat /\ pos[t] - 1 + 1 = pos[t] /\ req[t] \in Seq(Items)
      BY <1>4 DEF TypeOK
    <3>2. pos[t] - 1 + 1 <= Len(req[t])
      BY <1>4, <3>1
    <3>3. \E h : Chain(h, req[t], Stock, pos[t] - 1 + 1)
                 /\ h[pos[t] - 1 + 1] = Abstract!After(g[pos[t] - 1], req[t][pos[t] - 1 + 1])
      BY <2>4, <3>1, <3>2, StockType, ExtendChain
    <3> QED BY <3>1, <3>3
  <2>10. pos'[t] - 1 = pos[t]
    BY <1>1
  <2> QED BY <1>3, <2>2, <2>3, <2>8, <2>9, <2>10 DEF Serialised, Item
<1>6. ASSUME AdjustedRows(req[t]) # {} PROVE OnlyAdjusts(t)'
  <2>1. OnlyAdjusts(t)
    BY <1>6 DEF AtomicOf
  <2> QED BY <1>3, <2>1 DEF OnlyAdjusts
<1> QED BY <1>2, <1>3, <1>5, <1>6 DEF AtomicOf

\* Inserting a movement puts in the ledger what the item still had to add to it.
LEMMA OwnInsert ==
  ASSUME TypeOK, ControlOK, NEW t \in Txs, AtomicOf(t), InsertMovement(t)
  PROVE  AtomicOf(t)'
<1> DEFINE m == Head(moves[t])
<1>1. /\ pc[t] = "insert" /\ pc'[t] = "apply"
      /\ UNCHANGED <<row, lock, req, pos, moves>>
      /\ moves[t] # <<>> /\ moves[t] \in Seq(Movement)
  BY DEF InsertMovement, Goto, db, ControlOK, ControlOf, TypeOK
<1>2. m.row \in Rows /\ m.qty \in Int /\ m = moves[t][1]
  BY <1>1, HeadType DEF Movement
<1>3. \A r \in Rows : moved'[t][r] = moved[t][r] + (IF m.row = r THEN m.qty ELSE 0)
  BY <1>2 DEF InsertMovement, TypeOK
<1> HIDE DEF m
<1>4. FrameOf(t) /\ Len(moves[t]) <= 2 /\ Running(t) /\ Moving(t)
  BY <1>1 DEF AtomicOf, FrameOf, Moving, Running
<1>5. FrameOf(t)'
  BY <1>1, <1>4 DEF FrameOf, Running, Moving
<1>6. AdjustedRows(req[t])' = AdjustedRows(req[t]) /\ Stock' = Stock /\ Item(t)' = Item(t)
  BY <1>1 DEF Stock, Item
<1>7. ASSUME AdjustedRows(req[t]) = {} PROVE HoldsAll(t)' /\ Serialised(t)'
  <2>1. HoldsAll(t) /\ Serialised(t)
    BY <1>4, <1>7 DEF AtomicOf
  <2>2. Moving(t)' /\ ToInsert(t) = moves[t] /\ ToInsert(t)' = Tail(moves[t])
    BY <1>1 DEF Moving, ToInsert
  <2>3. HoldsAll(t)'
    BY <1>1, <1>4, <2>1, <2>2 DEF HoldsAll
  <2>4. ASSUME NEW r \in Rows
        PROVE  moved'[t][r] + Sum2(Tail(moves[t]), r) = moved[t][r] + Sum2(moves[t], r)
    <3>1. Sum2(moves[t], r) = (IF m.row = r THEN m.qty ELSE 0) + Sum2(Tail(moves[t]), r)
      BY <1>1, <1>4, SumHead DEF m, Part
    <3>2. moved[t][r] \in Int /\ Sum2(Tail(moves[t]), r) \in Int
      BY <1>1, HeadType, Sum2Type DEF TypeOK
    <3> QED BY <1>2, <1>3, <3>1, <3>2
  <2>5. \A r \in Rows : /\ Stock[r] \in Int /\ moved[t][r] \in Int /\ moved'[t][r] \in Int
                        /\ Sum2(moves[t], r) \in Int /\ Sum2(Tail(moves[t]), r) \in Int
    <3>1. \A r \in Rows : Sum2(moves[t], r) \in Int /\ Sum2(Tail(moves[t]), r) \in Int
      BY <1>1, HeadType, Sum2Type
    <3>2. \A r \in Rows : Stock[r] \in Int /\ moved[t][r] \in Int
      BY StockType DEF Quantities, TypeOK
    <3> QED BY <1>2, <1>3, <3>1, <3>2
  <2>6. \A r \in Rows : Stock[r] + moved'[t][r] + Sum2(Tail(moves[t]), r)
                          = Stock[r] + moved[t][r] + Sum2(moves[t], r)
    BY <2>4, <2>5
  <2> QED BY <1>1, <1>4, <1>6, <2>1, <2>2, <2>3, <2>6 DEF Serialised
<1>8. ASSUME AdjustedRows(req[t]) # {} PROVE OnlyAdjusts(t)'
  <2>1. OnlyAdjusts(t)
    BY <1>4, <1>8 DEF AtomicOf
  <2>2. m.row \in AdjustedRows(req[t])
    BY <1>1, <1>2, <2>1 DEF OnlyAdjusts
  <2>3. \A r \in Rows \ AdjustedRows(req[t]) : moved'[t][r] = 0
    BY <1>3, <2>1, <2>2 DEF OnlyAdjusts
  <2> QED BY <1>1, <1>6, <2>1, <2>3 DEF OnlyAdjusts
<1> QED BY <1>5, <1>6, <1>7, <1>8 DEF AtomicOf

\* Once the movement is in the summary the next one follows, or the next item.
LEMMA OwnApplied ==
  ASSUME TypeOK, ControlOK, NEW t \in Txs, AtomicOf(t), pc[t] \in {"apply", "create"},
         Applied(t), UNCHANGED <<row, req, moved>>,
         \A r \in Rows : lock[r] = t => lock'[r] = t
  PROVE  AtomicOf(t)'
<1>1. /\ moves[t] # <<>> /\ moves[t] \in Seq(Movement) /\ moves'[t] = Tail(moves[t])
      /\ pos[t] <= Len(req[t]) /\ pos[t] \in Nat \ {0} /\ Len(req[t]) \in Nat
  BY DEF Applied, ControlOK, ControlOf, TypeOK
<1>2. /\ Len(moves'[t]) = Len(moves[t]) - 1 /\ Len(moves[t]) \in Nat
      /\ \A i \in 1..Len(moves'[t]) : moves'[t][i] = moves[t][i + 1]
  BY <1>1
<1>3. FrameOf(t) /\ Len(moves[t]) <= 2 /\ Running(t) /\ Moving(t) /\ ToInsert(t) = moves'[t]
  BY <1>1 DEF AtomicOf, FrameOf, Moving, Running, ToInsert
<1>4. CASE moves'[t] # <<>>
  <2>1. pc'[t] = "insert" /\ UNCHANGED pos
    BY <1>1, <1>4 DEF Applied, Goto, TypeOK
  <2>2. FrameOf(t)'
    <3>1. pos'[t] <= Len(req[t]) + 1 /\ Len(moves'[t]) <= 2
      BY <1>1, <1>2, <1>3, <2>1
    <3> QED BY <1>3, <2>1, <3>1, OwnFrame
  <2>3. AdjustedRows(req[t])' = AdjustedRows(req[t]) /\ Stock' = Stock /\ Item(t)' = Item(t)
    BY <2>1 DEF Stock, Item
  <2>4. ASSUME AdjustedRows(req[t]) = {} PROVE HoldsAll(t)' /\ Serialised(t)'
    <3>1. HoldsAll(t) /\ Serialised(t)
      BY <1>3, <2>4 DEF AtomicOf
    <3>2. Moving(t)' /\ ToInsert(t)' = ToInsert(t)
      BY <1>3, <2>1 DEF Moving, ToInsert
    <3>3. req[t] \in Seq(Items) /\ Item(t) \in Items
      BY <1>1, ItemType DEF TypeOK
    <3>4. Item(t).op = "TRANSFER_ALL" => lock[Item(t).row] = t
      BY <1>1, <1>3, <3>1 DEF HoldsAll, Item
    <3>5. HoldsAll(t)'
      BY <1>1, <2>1, <3>1, <3>3, <3>4, HoldsNext DEF Items
    <3> QED BY <1>3, <2>1, <2>3, <3>1, <3>2, <3>5 DEF Serialised
  <2>5. ASSUME AdjustedRows(req[t]) # {} PROVE OnlyAdjusts(t)'
    <3>1. OnlyAdjusts(t)
      BY <1>3, <2>5 DEF AtomicOf
    <3>2. \A i \in 1..Len(moves'[t]) : i + 1 \in 1..Len(moves[t])
      BY <1>2
    <3> QED BY <1>2, <2>3, <3>1, <3>2 DEF OnlyAdjusts
  <2> QED BY <2>2, <2>3, <2>4, <2>5 DEF AtomicOf
<1>5. CASE moves'[t] = <<>>
  <2>1. NextItem(t)
    BY <1>1, <1>5 DEF Applied
  <2>2. CASE AdjustedRows(req[t]) = {}
    <3>1. HoldsAll(t) /\ Item(t) \in Items
      BY <1>1, <1>3, <2>2, ItemType DEF AtomicOf
    <3>2. Item(t).op = "TRANSFER_ALL" => lock[Item(t).row] = t
      BY <1>1, <1>3, <3>1 DEF HoldsAll, Item
    <3>3. Item(t).op = "TRANSFER_ALL" => lock'[Item(t).row] = t
      BY <3>1, <3>2 DEF Items
    <3> QED BY <1>1, <1>3, <1>5, <2>1, <3>3, OwnNext
  <2>3. CASE AdjustedRows(req[t]) # {}
    <3>1. Item(t).op = "ADJUST"
      BY <1>1, <1>3, <2>3, AdjustsOrNot DEF FrameOf, Running, Item
    <3> QED BY <1>1, <1>3, <1>5, <2>1, <3>1, OwnNext
  <2> QED BY <2>2, <2>3
<1> QED BY <1>4, <1>5

\* A transaction that has ended owes nothing.
LEMMA OwnEnd ==
  ASSUME TypeOK, NEW t \in Txs, AtomicOf(t), pc[t] # "idle",
         pc'[t] \in {"committed", "aborted"}, UNCHANGED req
  PROVE  AtomicOf(t)'
BY DEF AtomicOf, FrameOf, Running, Moving

\* Only a transaction that has begun can be rolled back.
LEMMA EndsAfterBegin ==
  ASSUME NEW t \in Txs,
         RejectQuantity(t) \/ RejectStock(t) \/ UniqueViolation(t) \/ DeadlockAbort(t) \/ Fail(t)
  PROVE  pc[t] # "idle" /\ Rollback(t)
<1>1. Needs(t) # {} => pc[t] # "idle"
  BY DEF Needs, AtStockCheck, At
<1>2. CASE RejectQuantity(t) \/ RejectStock(t) \/ Fail(t)
  BY <1>2 DEF RejectQuantity, RejectStock, Fail, AtStockCheck, At
<1>3. CASE UniqueViolation(t)
  BY <1>3 DEF UniqueViolation, Inserting
<1>4. CASE DeadlockAbort(t)
  <2>1. Needs(t) # {}
    BY <1>4 DEF DeadlockAbort, WaitsFor
  <2> QED BY <1>1, <1>4, <2>1 DEF DeadlockAbort
<1> QED BY <1>2, <1>3, <1>4

\* What the locked stock check makes of the quantity it found.
LEMMA OwnOutgoing ==
  ASSUME TypeOK, ControlOK, NEW t \in Txs, AtomicOf(t), Running(t), ~Moving(t),
         pos[t] <= Len(req[t]), Item(t).op \in Outgoings,
         NEW have, have = Stock[Item(t).row] + moved[t][Item(t).row], have \in Nat,
         Outgoing(t, have), UNCHANGED <<row, req, moved>>,
         lock'[Item(t).row] = t, \A r \in Rows : lock[r] = t => lock'[r] = t
  PROVE  AtomicOf(t)'
<1> DEFINE i == Item(t)
           out == IF i.op = "TRANSFER_ALL" THEN have ELSE i.qty
           leg1 == [row |-> i.row, qty |-> -out]
           leg2 == [row |-> i.to, qty |-> out]
           ms == IF i.op = "SELL" THEN <<leg1>> ELSE <<leg1, leg2>>
<1>1. i \in Items /\ i.row \in Rows /\ i.to \in Rows /\ i.qty \in Int
  BY ItemType DEF Items
<1>2. i.op # "SELL" => i.to # i.row
  BY DEF ControlOK, ControlOf, Item, TypeOK, Outgoings
<1>3. CASE i.op = "TRANSFER_ALL" /\ have <= 0
  <2>1. NextItem(t) /\ UNCHANGED moves
    BY <1>3 DEF Outgoing
  <2>2. have = 0
    BY <1>3
  <2>3. \A f \in Quantities : f[i.row] = have
                              => \A r \in Rows : Abstract!After(f, i)[r] = f[r]
    BY <1>1, <1>2, <1>3, <2>2, NoEffect
  <2>4. ToInsert(t) = <<>>
    BY DEF Moving, ToInsert
  <2> QED BY <2>1, <2>3, <2>4, OwnNext
<1>4. CASE ~(i.op = "TRANSFER_ALL" /\ have <= 0)
  <2>1. Plan(t, ms) /\ UNCHANGED pos
    BY <1>4 DEF Outgoing
  <2>2. out \in Int
    BY <1>1
  <2>3. leg1 \in Movement /\ leg2 \in Movement
    BY <1>1, <2>2 DEF Movement
  <2>4. \A f \in Quantities :
          f[i.row] = have
          => \A r \in Rows : Abstract!After(f, i)[r] = f[r] + Sum2(ms, r)
    <3>1. out = IF i.op = "TRANSFER_ALL" THEN have ELSE i.qty
      OBVIOUS
    <3>2. i.op \in Outgoings
      OBVIOUS
    <3> HIDE DEF i, out
    <3> SUFFICES ASSUME NEW f \in Quantities, f[i.row] = have, NEW r \in Rows
                 PROVE  Abstract!After(f, i)[r] = f[r] + Sum2(ms, r)
      OBVIOUS
    <3> QED BY <1>1, <1>2, <3>1, <3>2, OutEffect
  <2> HIDE DEF leg1, leg2
  <2>5. ms \in Seq(Movement) /\ Len(ms) <= 2
    BY <2>3
  <2> HIDE DEF ms, out
  <2>6. i.op # "ADJUST"
    BY DEF Outgoings
  <2> QED BY <2>1, <2>4, <2>5, <2>6, OwnPlan
<1> QED BY <1>3, <1>4

\* Writing a row under a free lock takes a lock and gives none up.
LEMMA WriteHolds ==
  ASSUME TypeOK, NEW t \in Txs, NEW q \in Rows, NEW s, Write(t, q, s)
  PROVE  lock'[q] = t /\ \A r \in Rows : lock[r] = t => lock'[r] = t
BY DEF TypeOK, Write

\* The receipt of a scope step, once that step is over, or the read of an adjustment.
LEMMA OwnAfterScope ==
  ASSUME TypeOK, ControlOK, NEW t \in Txs, AtomicOf(t), Running(t), ~Moving(t),
         pos[t] <= Len(req[t]), Item(t).op \in {"RECEIVE", "ADJUST"},
         AfterScope(t), UNCHANGED <<row, lock, req, pos, moved>>
  PROVE  AtomicOf(t)'
<1>1. Item(t) \in Items /\ Item(t).row \in Rows /\ Item(t).qty \in Int
  BY ItemType DEF Items
<1>2. CASE Item(t).op = "RECEIVE"
  <2> DEFINE ms == <<[row |-> Item(t).row, qty |-> Item(t).qty]>>
  <2>1. Plan(t, ms)
    BY <1>2 DEF AfterScope
  <2>2. ms \in Seq(Movement) /\ Len(ms) <= 2
    BY <1>1 DEF Movement
  <2>3. \A f \in Quantities : \A r \in Rows :
          Abstract!After(f, Item(t))[r] = f[r] + Sum2(ms, r)
    BY <1>1, <1>2, AddEffect
  <2> HIDE DEF ms
  <2> QED BY <1>1, <1>2, <2>1, <2>2, <2>3, OwnPlan
<1>3. CASE Item(t).op = "ADJUST"
  <2>1. Goto(t, "read") /\ UNCHANGED moves
    BY <1>3 DEF AfterScope
  <2>2. pc'[t] = "read" /\ pc[t] # "insert"
    BY <2>1 DEF Goto, TypeOK, Moving
  <2> QED BY <2>1, <2>2, OwnKeep DEF Moving
<1> QED BY <1>2, <1>3

\* Every step of t itself keeps what t is to commit that of an atomic request.
LEMMA OwnStep ==
  ASSUME Settled, SettledInv, NEW t \in Txs, AtomicOf(t), Begin(t) \/ Step(t) \/ Fail(t)
  PROVE  AtomicOf(t)'
<1> USE DEF SettledInv, db
<1>0. /\ pos[t] \in Nat \ {0} /\ Len(req[t]) \in Nat
      /\ pc[t] # "idle" => req[t] \in Requests
      /\ Running(t) => pos[t] <= Len(req[t]) + 1
  BY DEF TypeOK, AtomicOf, FrameOf
<1>1. ASSUME Rollback(t), pc[t] # "idle" PROVE AtomicOf(t)'
  <2>1. pc'[t] = "aborted"
    BY <1>1 DEF Rollback, Goto, TypeOK
  <2> QED BY <1>1, <2>1, OwnEnd DEF Rollback
<1>2. CASE Begin(t)
  <2>1. PICK q \in Requests : req' = [req EXCEPT ![t] = q]
    BY <1>2 DEF Begin
  <2>2. /\ pc[t] = "idle" /\ pc'[t] = "item" /\ req'[t] = q /\ q \in Requests
        /\ UNCHANGED <<row, pos, moved, moves>>
    BY <1>2, <2>1 DEF Begin, Goto, TypeOK
  <2>3. pos[t] = 1 /\ moves[t] = <<>> /\ \A r \in Rows : moved[t][r] = 0
    BY <2>2 DEF AtomicOf, FrameOf
  <2>4. q \in Seq(Items) /\ Len(q) \in Nat
    BY <2>2, ConstantsAssumption
  <2>5. FrameOf(t)'
    BY <2>2, <2>3, <2>4 DEF FrameOf, Running, Moving
  <2>6. ~Moving(t)' /\ ToInsert(t)' = <<>> /\ Stock' = Stock
    BY <2>2 DEF Moving, ToInsert, Stock
  <2>7. HoldsAll(t)'
    BY <2>2, <2>3, <2>4, <2>6 DEF HoldsAll
  <2>8. Serialised(t)'
    <3> DEFINE g == [n \in 0..0 |-> Stock]
    <3>1. Chain(g, q, Stock, 0)
      BY StockType DEF Chain
    <3>2. \A r \in Rows : g[0][r] = Stock[r] + moved'[t][r] + Sum2(<<>>, r)
      BY <2>2, <2>3, StockType DEF Quantities, Sum2
    <3> HIDE DEF g
    <3>3. pos'[t] - 1 = 0
      BY <2>2, <2>3
    <3> QED BY <2>2, <2>6, <3>1, <3>2, <3>3 DEF Serialised
  <2>9. OnlyAdjusts(t)'
    BY <2>2, <2>3 DEF OnlyAdjusts
  <2> QED BY <2>5, <2>7, <2>8, <2>9 DEF AtomicOf
<1>3. CASE LastItemDone(t)
  <2>1. /\ pc[t] = "item" /\ pc'[t] = "commit" /\ pos[t] > Len(req[t])
        /\ UNCHANGED <<row, lock, req, pos, moved, moves>>
    BY <1>3 DEF LastItemDone, Goto, TypeOK
  <2>2. Running(t) /\ pos[t] = Len(req[t]) + 1
    BY <1>0, <2>1 DEF Running
  <2> QED BY <2>1, <2>2, OwnKeep DEF Moving
<1>4. CASE Commit(t)
  BY <1>4, OwnEnd DEF Commit, Goto, TypeOK
<1>5. CASE RejectQuantity(t) \/ RejectStock(t) \/ UniqueViolation(t) \/ DeadlockAbort(t)
           \/ Fail(t)
  BY <1>1, <1>5, EndsAfterBegin
<1>6. CASE ScopeFind(t)
  <2>1. /\ pc[t] = "item" /\ pos[t] <= Len(req[t]) /\ Item(t).op \in {"RECEIVE", "ADJUST"}
        /\ UNCHANGED <<row, lock, req, pos, moved>>
    BY <1>6 DEF ScopeFind, At
  <2>2. Running(t) /\ ~Moving(t)
    BY <2>1 DEF Running, Moving
  <2>3. CASE AfterScope(t)
    BY <2>1, <2>2, <2>3, OwnAfterScope
  <2>4. CASE Goto(t, "reload") /\ UNCHANGED moves
    <3>1. pc'[t] = "reload"
      BY <2>4 DEF Goto, TypeOK
    <3> QED BY <2>1, <2>2, <2>4, <3>1, OwnKeep DEF Moving
  <2> QED BY <1>6, <2>3, <2>4 DEF ScopeFind
<1>7. CASE ScopeReload(t)
  <2>1. /\ pc[t] = "reload" /\ pc'[t] = "save"
        /\ UNCHANGED <<row, lock, req, pos, moved, moves>>
    BY <1>7 DEF ScopeReload, Goto, TypeOK
  <2> QED BY <2>1, OwnKeep DEF Moving, Running
<1>8. CASE ScopeInsert(t)
  <2>1. pc[t] = "save" /\ UNCHANGED <<pc, row, req, pos, moved, moves>>
    BY <1>8 DEF ScopeInsert
  <2>2. PICK s \in saves[t] : Write(t, s.row, s.val)
    BY <1>8 DEF ScopeInsert
  <2>3. s.row \in Rows
    BY DEF TypeOK, Save
  <2>4. \A r \in Rows : lock[r] = t => lock'[r] = t
    BY <2>2, <2>3, WriteHolds
  <2> QED BY <2>1, <2>4, OwnKeep DEF Moving, Running
<1>9. CASE ScopeUpdate(t)
  <2>1. pc[t] = "save" /\ UNCHANGED <<pc, row, req, pos, moved, moves>>
    BY <1>9 DEF ScopeUpdate
  <2>2. PICK s \in saves[t] :
          \/ UNCHANGED lock
          \/ Write(t, s.row, [c \in Columns |-> IF c \in s.cols THEN s.val[c]
                                                ELSE View(t, s.row)[c]])
    BY <1>9 DEF ScopeUpdate
  <2>3. s.row \in Rows
    BY DEF TypeOK, Save
  <2>4. \A r \in Rows : lock[r] = t => lock'[r] = t
    BY <2>2, <2>3, WriteHolds
  <2> QED BY <2>1, <2>4, OwnKeep DEF Moving, Running
<1>10. CASE ScopeDone(t)
  <2>1. /\ pc[t] = "save" /\ AfterScope(t) /\ UNCHANGED <<row, lock, req, pos, moved>>
        /\ pos[t] <= Len(req[t]) /\ Item(t).op \in {"RECEIVE", "ADJUST"}
    BY <1>10 DEF ScopeDone, ControlOK, ControlOf
  <2> QED BY <2>1, OwnAfterScope DEF Running, Moving
<1>11. CASE ReturnStock(t) \/ (CountAdjustment(t) /\ Item(t).qty # 0)
  <2> DEFINE ms == <<[row |-> Item(t).row, qty |-> Item(t).qty]>>
  <2>1. /\ pc[t] = "item" /\ pos[t] <= Len(req[t]) /\ Item(t).op \in {"RETURN", "COUNT"}
        /\ Plan(t, ms) /\ UNCHANGED <<row, lock, req, pos, moved>>
    BY <1>11 DEF ReturnStock, CountAdjustment, At
  <2>2. Item(t) \in Items /\ Item(t).row \in Rows /\ Item(t).qty \in Int
    BY <2>1, ItemType DEF Items
  <2>3. ms \in Seq(Movement) /\ Len(ms) <= 2
    BY <2>2 DEF Movement
  <2>4. \A f \in Quantities : \A r \in Rows :
          Abstract!After(f, Item(t))[r] = f[r] + Sum2(ms, r)
    BY <2>1, <2>2, AddEffect
  <2>5. Running(t) /\ ~Moving(t)
    BY <2>1 DEF Running, Moving
  <2> HIDE DEF ms
  <2> QED BY <2>1, <2>3, <2>4, <2>5, OwnPlan
<1>12. CASE CountAdjustment(t) /\ Item(t).qty = 0
  <2>1. /\ pc[t] = "item" /\ pos[t] <= Len(req[t]) /\ Item(t).op = "COUNT"
        /\ NextItem(t) /\ UNCHANGED <<row, lock, req, moves, moved>>
    BY <1>12 DEF CountAdjustment, At
  <2>2. Item(t) \in Items
    BY <2>1, ItemType
  <2>3. \A f \in Quantities : \A r \in Rows : Abstract!After(f, Item(t))[r] = f[r]
    BY <1>12, <2>1, <2>2, NoEffect
  <2>4. Running(t) /\ ~Moving(t) /\ ToInsert(t) = <<>>
    BY <2>1 DEF Running, Moving, ToInsert
  <2> QED BY <2>1, <2>3, <2>4, OwnNext
<1>13. CASE AdjustRead(t)
  <2>1. /\ pc[t] = "read" /\ pos[t] <= Len(req[t]) /\ Item(t).op \in {"RECEIVE", "ADJUST"}
        /\ UNCHANGED <<row, lock, req, moved>>
    BY <1>13 DEF AdjustRead, ControlOK, ControlOf
  <2> DEFINE diff == Item(t).qty - View(t, Item(t).row).qty
             ms == <<[row |-> Item(t).row, qty |-> diff]>>
  <2>2. Item(t).row \in Rows /\ diff \in Int
    <3>1. Item(t).row \in Rows /\ Item(t).qty \in Int
      BY <2>1, ItemType DEF Items
    <3>2. View(t, Item(t).row).qty \in Int
      BY <3>1, ViewType DEF Summary
    <3> QED BY <3>1, <3>2
  <2>3. Running(t) /\ ~Moving(t) /\ ToInsert(t) = <<>>
    BY <2>1 DEF Running, Moving, ToInsert
  <2>4. Item(t).op = "ADJUST"
    BY <2>1 DEF ControlOK, ControlOf
  <2>5. CASE diff = 0
    <3>1. NextItem(t) /\ UNCHANGED moves
      BY <1>13, <2>5 DEF AdjustRead
    <3> QED BY <2>1, <2>3, <2>4, <3>1, OwnNext
  <2>6. CASE diff # 0
    <3>1. Plan(t, ms) /\ UNCHANGED pos
      BY <1>13, <2>6 DEF AdjustRead
    <3> HIDE DEF diff
    <3>2. ms \in Seq(Movement) /\ Len(ms) <= 2 /\ \A i \in 1..Len(ms) : ms[i].row = Item(t).row
      BY <2>2 DEF Movement
    <3> HIDE DEF ms
    <3> QED BY <2>1, <2>3, <2>4, <3>1, <3>2, OwnPlan
  <2> QED BY <2>5, <2>6
<1>14. CASE CheckStock(t)
  <2> DEFINE r == Item(t).row
  <2>1. /\ pc[t] = "item" /\ pos[t] <= Len(req[t]) /\ Item(t).op \in Outgoings
        /\ Visible(t, r) /\ Write(t, r, View(t, r)) /\ Outgoing(t, View(t, r).qty)
        /\ UNCHANGED <<row, req, moved>>
    BY <1>14 DEF CheckStock, AtStockCheck, At
  <2>2. r \in Rows
    BY <2>1, ItemType DEF Items
  <2>3. Running(t) /\ ~Moving(t) /\ Unapplied(t, r) = 0
    BY <2>1 DEF Running, Moving, Unapplied
  <2>4. View(t, r).qty \in Nat
    BY <2>1, <2>2, ViewActive, ViewType DEF Active, Summary
  <2>5. View(t, r).qty = Stock[r] + moved[t][r]
    BY <2>2, <2>3, SeenStock
  <2>6. lock'[r] = t /\ \A q \in Rows : lock[q] = t => lock'[q] = t
    BY <2>1, <2>2, WriteHolds
  <2> QED BY <2>1, <2>3, <2>4, <2>5, <2>6, OwnOutgoing
<1>15. CASE CheckCreate(t)
  <2> DEFINE r == Item(t).row
             sum == ledger[r] + moved[t][r]
  <2>1. CASE Rollback(t)
    BY <1>1, <1>15, <2>1 DEF CheckCreate
  <2>2. CASE ~Rollback(t)
    <3>1. /\ pc[t] = "checkCreate" /\ sum >= 0
          /\ Write(t, r, [qty |-> sum, link |-> TRUE, act |-> TRUE])
          /\ Outgoing(t, sum) /\ UNCHANGED <<row, req, moved>>
      BY <1>15, <2>2 DEF CheckCreate
    <3>2. pos[t] <= Len(req[t]) /\ Item(t).op \in Outgoings
      BY <3>1 DEF ControlOK, ControlOf
    <3>3. r \in Rows
      BY <3>2, ItemType DEF Items
    <3>4. Running(t) /\ ~Moving(t) /\ Unapplied(t, r) = 0
      BY <3>1 DEF Running, Moving, Unapplied
    <3>5. sum = Stock[r] + moved[t][r] /\ sum \in Nat
      BY <3>1, <3>3, <3>4, SeenStock
    <3>6. lock'[r] = t /\ \A q \in Rows : lock[q] = t => lock'[q] = t
      BY <3>1, <3>3, WriteHolds
    <3> HIDE DEF sum
    <3> QED BY <3>1, <3>2, <3>4, <3>5, <3>6, OwnOutgoing
  <2> QED BY <2>1, <2>2
<1>16. CASE CheckMiss(t)
  <2>1. /\ pc[t] = "item" /\ pc'[t] = "checkCreate"
        /\ UNCHANGED <<row, lock, req, pos, moved, moves>>
    BY <1>16 DEF CheckMiss, AtStockCheck, At, Goto, TypeOK
  <2> QED BY <2>1, OwnKeep DEF Moving, Running
<1>17. CASE InsertMovement(t)
  BY <1>17, OwnInsert
<1>18. CASE ApplyMiss(t)
  <2>1. /\ pc[t] = "apply" /\ pc'[t] = "create"
        /\ UNCHANGED <<row, lock, req, pos, moved, moves>>
    BY <1>18 DEF ApplyMiss, Goto, TypeOK
  <2> QED BY <2>1, OwnKeep DEF Moving, Running
<1>19. CASE ApplyMovement(t) \/ ApplyCreate(t)
  <2>1. CASE Rollback(t)
    BY <1>1, <1>19, <2>1 DEF ApplyMovement, ApplyCreate
  <2>2. CASE ~Rollback(t)
    <3>1. /\ pc[t] \in {"apply", "create"} /\ Applied(t) /\ UNCHANGED <<row, req, moved>>
          /\ \E s : Write(t, Head(moves[t]).row, s)
      BY <1>19, <2>2 DEF ApplyMovement, ApplyCreate
    <3>2. Head(moves[t]).row \in Rows
      BY <3>1, HeadType DEF ControlOK, ControlOf, Movement
    <3>3. \A q \in Rows : lock[q] = t => lock'[q] = t
      BY <3>1, <3>2, WriteHolds
    <3> QED BY <3>1, <3>3, OwnApplied
  <2> QED BY <2>1, <2>2
<1>20. CASE ReturnStock(t) \/ CountAdjustment(t)
  BY <1>11, <1>12, <1>20
<1> HIDE DEF SettledInv, db
<1>21. CASE Begin(t)
  BY <1>2, <1>21
<1>22. CASE Fail(t)
  BY <1>5, <1>22
<1>23. CASE Step(t)
  BY <1>3, <1>4, <1>5, <1>6, <1>7, <1>8, <1>9, <1>10, <1>13, <1>14, <1>15, <1>16, <1>17,
     <1>18, <1>19, <1>20, <1>23 DEF Step
<1> QED BY <1>21, <1>22, <1>23

\* Only a commit changes what readers see, and only in the rows it has locked.
LEMMA StepRows ==
  ASSUME TypeOK, NEW t \in Txs, Begin(t) \/ Step(t) \/ Fail(t), ~Commit(t)
  PROVE  UNCHANGED <<exists, row, ledger>>
<1> USE DEF db
<1>1. ASSUME Rollback(t) PROVE UNCHANGED <<exists, row, ledger>>
  BY <1>1 DEF Rollback
<1>2. CASE Begin(t) \/ LastItemDone(t) \/ InsertMovement(t) \/ ReturnStock(t)
           \/ CountAdjustment(t) \/ AdjustRead(t)
  BY <1>2 DEF Begin, LastItemDone, InsertMovement, ReturnStock, CountAdjustment, AdjustRead
<1>3. CASE ScopeFind(t) \/ ScopeReload(t) \/ ScopeInsert(t) \/ ScopeUpdate(t) \/ ScopeDone(t)
  BY <1>3 DEF ScopeFind, ScopeReload, ScopeInsert, ScopeUpdate, ScopeDone
<1>4. CASE CheckStock(t) \/ CheckMiss(t) \/ CheckCreate(t)
  BY <1>1, <1>4 DEF CheckStock, CheckMiss, CheckCreate
<1>5. CASE ApplyMovement(t) \/ ApplyMiss(t) \/ ApplyCreate(t)
  BY <1>1, <1>5 DEF ApplyMovement, ApplyMiss, ApplyCreate
<1>6. CASE RejectQuantity(t) \/ RejectStock(t) \/ UniqueViolation(t) \/ DeadlockAbort(t)
           \/ Fail(t)
  BY <1>1, <1>6, EndsAfterBegin
<1> QED BY <1>2, <1>3, <1>4, <1>5, <1>6 DEF Step

\* A row that t has not locked keeps its stock.
LEMMA StepStock ==
  ASSUME TypeOK, NEW t \in Txs, Begin(t) \/ Step(t) \/ Fail(t), NEW r \in Rows, lock[r] # t
  PROVE  Stock'[r] = Stock[r]
<1>1. CASE Commit(t)
  BY <1>1 DEF Commit, View, Stock
<1>2. CASE ~Commit(t)
  BY <1>2, StepRows DEF Stock
<1> QED BY <1>1, <1>2

\* Another transaction's step changes the stock of this instant, and the rows that t
\* has emptied are not among those it changes: t's request has the same effect on it.
LEMMA OtherSerial ==
  ASSUME TypeOK, TypeOK', ControlOK, NEW u \in Txs, FrameOf(u), Running(u),
         AdjustedRows(req[u]) = {}, HoldsAll(u), Serialised(u),
         \A r \in Rows : lock[r] = u => Stock'[r] = Stock[r],
         Moving(u)' = Moving(u), ToInsert(u)' = ToInsert(u), Item(u)' = Item(u),
         req'[u] = req[u], pos'[u] = pos[u], moved'[u] = moved[u]
  PROVE  Serialised(u)'
<1>1. /\ req[u] \in Requests /\ req[u] \in Seq(Items) /\ pos[u] \in Nat \ {0}
      /\ pos[u] <= Len(req[u]) + 1 /\ Len(req[u]) \in Nat
  BY DEF TypeOK, FrameOf, Running
<1>2. PICK n \in Nat : n = pos[u] - 1 /\ n <= Len(req[u])
  BY <1>1
<1>3. Moving(u) => pos[u] <= Len(req[u])
  BY DEF Moving, ControlOK, ControlOf
<1>4. PICK f, h : f = Stock /\ h = Stock'
  OBVIOUS
<1>5. f \in Quantities /\ h \in Quantities
  BY <1>4 DEF TypeOK, Stock, Quantities, Summary
<1>6. ASSUME NEW i \in 1..Len(req[u]), i <= n \/ (i = pos[u] /\ Moving(u))
      PROVE  req[u][i] \in Items /\ Agrees(req[u][i], f, h)
  <2>1. req[u][i] \in Items /\ req[u][i].row \in Rows
    <3>1. req[u][i] \in Items
      BY <1>1
    <3> QED BY <3>1 DEF Items
  <2>2. i < pos[u] \/ (i = pos[u] /\ Moving(u))
    BY <1>1, <1>2, <1>6
  <2> QED BY <1>1, <1>4, <2>1, <2>2, AdjustsOrNot, ConstantsAssumption
         DEF HoldsAll, Agrees
<1>7. PICK g : /\ Chain(g, req[u], f, n)
               /\ \A r \in Rows :
                    (IF Moving(u) THEN Abstract!After(g[n], Item(u)) ELSE g[n])[r]
                      = f[r] + moved[u][r] + Sum2(ToInsert(u), r)
  BY <1>2, <1>4 DEF Serialised
<1>8. PICK k : Shifted(k, g, req[u], f, h, n)
  <2>1. \A i \in 1..n : i \in 1..Len(req[u]) /\ i <= n
    BY <1>1, <1>2
  <2>2. \A i \in 1..n : Agrees(req[u][i], f, h)
    BY <1>6, <2>1
  <2>3. Chain(g, req[u], f, n)
    BY <1>7
  <2>4. req[u] \in Seq(Items)
    BY <1>1
  <2> QED BY <1>2, <1>5, <2>2, <2>3, <2>4, ShiftChain
<1>9. g[n] \in Quantities /\ k[n] \in Quantities
  <2> QED BY <1>2, <1>7, <1>8, ChainType DEF Shifted
<1>10. ASSUME NEW r \in Rows
       PROVE  (IF Moving(u) THEN Abstract!After(k[n], Item(u)) ELSE k[n])[r]
                = h[r] + moved[u][r] + Sum2(ToInsert(u), r)
  <2>1. k[n][r] = g[n][r] + h[r] - f[r]
    <3> QED BY <1>2, <1>8 DEF Shifted
  <2>2. /\ k[n][r] \in Int /\ g[n][r] \in Int /\ h[r] \in Int /\ f[r] \in Int
        /\ moved[u][r] \in Int /\ Sum2(ToInsert(u), r) \in Int
    BY <1>5, <1>9, ToInsertType, Sum2Type DEF Quantities, TypeOK, ControlOK
  <2>3. CASE Moving(u)
    <3>1. pos[u] \in 1..Len(req[u]) /\ Item(u) = req[u][pos[u]]
      BY <1>1, <1>3, <2>3 DEF Item
    <3>2. /\ Item(u) \in Items /\ Item(u).op # "ADJUST"
          /\ Item(u).op \in {"TRANSFER", "TRANSFER_ALL"} => Item(u).to # Item(u).row
          /\ Item(u).op = "TRANSFER_ALL" => f[Item(u).row] = h[Item(u).row]
      BY <1>6, <2>3, <3>1 DEF Agrees
    <3>3. Item(u).row \in Rows /\ \A q \in Rows : f[q] \in Int /\ h[q] \in Int /\ g[n][q] \in Int
      BY <1>5, <1>9, <3>2 DEF Quantities, Items
    <3>4. Item(u).op = "TRANSFER_ALL" => g[n][Item(u).row] = k[n][Item(u).row]
      <4>1. k[n][Item(u).row] = g[n][Item(u).row] + h[Item(u).row] - f[Item(u).row]
        <5>1. n \in 0..n
          BY <1>2
        <5> QED BY <1>8, <3>3, <5>1 DEF Shifted
      <4> QED BY <3>2, <3>3, <4>1
    <3>5. Abstract!After(k[n], Item(u))[r] - k[n][r] = Abstract!After(g[n], Item(u))[r] - g[n][r]
      <4> QED BY <1>9, <3>2, <3>4, AfterShift
    <3>6. Abstract!After(k[n], Item(u))[r] \in Int /\ Abstract!After(g[n], Item(u))[r] \in Int
      BY <1>9, <3>2, AfterType DEF Quantities
    <3>7. Abstract!After(g[n], Item(u))[r] = f[r] + moved[u][r] + Sum2(ToInsert(u), r)
      BY <1>7, <2>3
    <3>8. Abstract!After(k[n], Item(u))[r] = h[r] + moved[u][r] + Sum2(ToInsert(u), r)
      <4> QED BY <2>1, <2>2, <3>5, <3>6, <3>7
    <3> QED BY <2>3, <3>8
  <2>4. CASE ~Moving(u)
    <3>1. g[n][r] = f[r] + moved[u][r] + Sum2(ToInsert(u), r)
      BY <1>7, <2>4
    <3> QED BY <2>1, <2>2, <2>4, <3>1
  <2> QED BY <2>3, <2>4
<1> QED BY <1>2, <1>4, <1>8, <1>10 DEF Serialised, Shifted

\* A step of t keeps the serial run of another transaction.
LEMMA OtherStep ==
  ASSUME SettledInv, TypeOK', NEW t \in Txs, Begin(t) \/ Step(t) \/ Fail(t),
         NEW u \in Txs, u # t, AtomicOf(u)
  PROVE  AtomicOf(u)'
<1> USE DEF SettledInv
<1>1. /\ pc'[u] = pc[u] /\ req'[u] = req[u] /\ pos'[u] = pos[u]
      /\ moves'[u] = moves[u] /\ moved'[u] = moved[u]
  BY StepFrame
<1>2. \A r \in Rows : lock[r] = u => lock'[r] = u /\ Stock'[r] = Stock[r]
  BY StepRespectsLocks, StepStock
<1>3. FrameOf(u)' /\ AdjustedRows(req[u])' = AdjustedRows(req[u]) /\ Running(u)' = Running(u)
  BY <1>1 DEF AtomicOf, FrameOf, Running, Moving, AdjustedRows
<1>4. ASSUME Running(u), AdjustedRows(req[u]) = {} PROVE HoldsAll(u)' /\ Serialised(u)'
  <2>1. FrameOf(u) /\ HoldsAll(u) /\ Serialised(u)
    BY <1>4 DEF AtomicOf
  <2>2. Moving(u)' = Moving(u) /\ ToInsert(u)' = ToInsert(u) /\ Item(u)' = Item(u)
    BY <1>1 DEF Moving, ToInsert, Item
  <2>3. \A n \in 1..Len(req[u]) : req[u][n].row \in Rows
    <3>1. \A n \in 1..Len(req[u]) : req[u][n] \in Items
      BY DEF TypeOK
    <3> QED BY <3>1 DEF Items
  <2>4. HoldsAll(u)'
    BY <1>1, <1>2, <2>1, <2>2, <2>3 DEF HoldsAll
  <2>5. Serialised(u)'
    BY <1>1, <1>2, <1>4, <2>1, <2>2, OtherSerial
  <2> QED BY <2>4, <2>5
<1>5. ASSUME Running(u), AdjustedRows(req[u]) # {} PROVE OnlyAdjusts(u)'
  <2>1. OnlyAdjusts(u)
    BY <1>5 DEF AtomicOf
  <2> QED BY <1>1, <2>1 DEF OnlyAdjusts, AdjustedRows
<1> QED BY <1>3, <1>4, <1>5 DEF AtomicOf

\* A commit is one step of the atomic stock.
LEMMA CommitServes ==
  ASSUME SettledInv, SettledInv', NEW t \in Txs, AtomicOf(t), Commit(t)
  PROVE  Abstract!Serve
<1> USE DEF SettledInv
<1>1. /\ pc[t] = "commit" /\ req[t] \in Requests /\ req[t] \in Seq(Items)
      /\ pos[t] = Len(req[t]) + 1 /\ Len(req[t]) \in Nat /\ Running(t) /\ ~Moving(t)
  BY DEF Commit, AtomicOf, FrameOf, TypeOK, Running, Moving
<1>2. Stock \in Quantities /\ Stock' \in Quantities
  BY DEF TypeOK, Stock, Quantities, Summary
<1>3. \A r \in Rows : /\ Stock[r] = ledger[r] /\ Stock'[r] = ledger'[r]
                      /\ ledger'[r] = ledger[r] + moved[t][r]
                      /\ Stock[r] \in Int /\ moved[t][r] \in Int
  BY DEF Commit, Bookkeeping, Stock, TypeOK, Summary
<1>4. \A r \in Rows : Stock'[r] = Stock[r] + moved[t][r]
  BY <1>3
<1>5. \A r \in Rows : Stock'[r] >= 0
  BY DEF AllActive, Active, NoSummary, Stock
<1>6. AdjustedRows(req[t]) = Abstract!Adjusted(req[t])
  BY DEF AdjustedRows, Abstract!Adjusted
<1>9. PICK q \in Requests : q = req[t]
  BY <1>1
<1>10. ASSUME Abstract!Effect(q) PROVE Abstract!Serve
  <2>1. \A r \in Rows : Stock'[r] - Stock[r] = ledger'[r] - ledger[r] /\ Stock'[r] >= 0
    BY <1>3, <1>5
  <2>2. \A r \in Rows : /\ [s \in Rows |-> row[s].qty]'[r] - [s \in Rows |-> row[s].qty][r]
                             = ledger'[r] - ledger[r]
                        /\ [s \in Rows |-> row[s].qty]'[r] >= 0
    BY <2>1, Zenon DEF Stock
  <2> QED BY <1>10, <2>2, Zenon DEF Abstract!Serve
<1>7. CASE AdjustedRows(req[t]) = {}
  <2>1. PICK g : /\ Chain(g, req[t], Stock, Len(req[t]))
                 /\ \A r \in Rows : g[Len(req[t])][r] = Stock[r] + moved[t][r] + Sum2(<<>>, r)
    <3>1. Serialised(t) /\ ToInsert(t) = <<>> /\ pos[t] - 1 = Len(req[t])
      BY <1>1, <1>7 DEF AtomicOf, ToInsert
    <3> QED BY <1>1, <3>1 DEF Serialised
  <2>2. \A r \in Rows : Sum2(<<>>, r) = 0
    BY DEF Sum2
  <2>3. \A r \in Rows : g[Len(req[t])][r] = Stock'[r]
    BY <1>3, <1>4, <2>1, <2>2
  <2>4. g[Len(req[t])] \in Quantities
    BY <1>1, <2>1, ChainType
  <2>5. g[Len(req[t])] = Stock'
    BY <1>2, <2>3, <2>4 DEF Quantities
  <2>6. Abstract!Serial(req[t]) = Stock'
    BY <1>1, <1>2, <2>1, <2>5, ChainIsSerial
  <2>7. Abstract!Effect(q)
    BY <1>6, <1>7, <1>9, <2>6 DEF Abstract!Effect, Stock
  <2> QED BY <1>10, <2>7
<1>8. CASE AdjustedRows(req[t]) # {}
  <2>1. \A r \in Rows \ AdjustedRows(req[t]) : moved[t][r] = 0
    BY <1>1, <1>8 DEF AtomicOf, OnlyAdjusts
  <2>2. \A r \in Rows \ AdjustedRows(req[t]) : Stock'[r] = Stock[r]
    BY <1>3, <1>4, <2>1
  <2>3. Abstract!Effect(q)
    BY <1>6, <1>8, <1>9, <2>2 DEF Abstract!Effect, Stock
  <2> QED BY <1>10, <2>3
<1> QED BY <1>7, <1>8

\* The invariant of the refinement holds at the start ...
LEMMA InitAtomic ==
  ASSUME Init
  PROVE  AtomicInv
BY DEF Init, AtomicInv, AtomicOf, FrameOf, Running, Moving

\* ... and is kept by every step.
LEMMA NextAtomic ==
  ASSUME Settled, SettledInv, AtomicInv, [Next]_vars
  PROVE  AtomicInv'
<1>1. CASE UNCHANGED vars
  <2> SUFFICES ASSUME NEW u \in Txs PROVE AtomicOf(u)'
    BY DEF AtomicInv
  <2>1. UNCHANGED <<row, lock, pc, req, pos, moves, moved>> /\ AtomicOf(u)
    BY <1>1 DEF vars, AtomicInv
  <2>2. /\ Stock' = Stock /\ Item(u)' = Item(u) /\ ToInsert(u)' = ToInsert(u)
        /\ Moving(u)' = Moving(u) /\ Running(u)' = Running(u)
        /\ AdjustedRows(req[u])' = AdjustedRows(req[u])
    BY <2>1 DEF Stock, Item, ToInsert, Moving, Running
  <2>3. FrameOf(u)' = FrameOf(u) /\ HoldsAll(u)' = HoldsAll(u) /\ OnlyAdjusts(u)' = OnlyAdjusts(u)
    BY <2>1, <2>2 DEF FrameOf, HoldsAll, OnlyAdjusts
  <2>4. Serialised(u)' = Serialised(u)
    BY <2>1, <2>2 DEF Serialised
  <2> QED BY <2>1, <2>2, <2>3, <2>4 DEF AtomicOf
<1>2. ASSUME NEW t \in Txs, Begin(t) \/ Step(t) \/ Fail(t), NEW u \in Txs
      PROVE  AtomicOf(u)'
  <2>1. TypeOK' /\ AtomicOf(u)
    BY <1>2, StepType DEF AtomicInv, SettledInv
  <2>2. CASE u = t
    BY <1>2, <2>1, <2>2, OwnStep
  <2>3. CASE u # t
    BY <1>2, <2>1, <2>3, OtherStep
  <2> QED BY <2>2, <2>3
<1> QED BY <1>1, <1>2 DEF Next, Finished, AtomicInv

\* Concurrent READ COMMITTED requests on a settled catalogue behave as the atomic
\* stock: each one that commits takes effect at that instant, with the effect of its
\* items one after the other on the stock of that instant (an adjustment sets its rows
\* to a quantity of its own), the ledger grows by the same amounts, and no quantity
\* is ever negative.
THEOREM StockIsAtomic ==
  ASSUME Settled
  PROVE  Spec => RefinesAtomicStock
<1>1. Init => SettledInv /\ AtomicInv
  BY InitSettled, InitAtomic
<1>2. SettledInv /\ AtomicInv /\ [Next]_vars => (SettledInv /\ AtomicInv)'
  BY NextSettled, NextAtomic
<1>3. Init => Abstract!Init
  <2> SUFFICES ASSUME Init PROVE Abstract!Init
    OBVIOUS
  <2>1. SettledInv
    BY InitSettled
  <2>2. \A r \in Rows : row[r].qty \in Nat
    BY <2>1 DEF SettledInv, TypeOK, Summary, AllActive, Active, NoSummary
  <2> QED BY <2>2 DEF Abstract!Init, Init
<1>4. SettledInv /\ AtomicInv /\ (SettledInv /\ AtomicInv)' /\ [Next]_vars
      => [Abstract!Serve]_<<[r \in Rows |-> row[r].qty], ledger>>
  <2> SUFFICES ASSUME SettledInv, AtomicInv, SettledInv', [Next]_vars
               PROVE  [Abstract!Serve]_<<[r \in Rows |-> row[r].qty], ledger>>
    OBVIOUS
  <2>1. CASE UNCHANGED vars
    BY <2>1 DEF vars
  <2>2. ASSUME NEW t \in Txs, Begin(t) \/ Step(t) \/ Fail(t)
        PROVE  [Abstract!Serve]_<<[r \in Rows |-> row[r].qty], ledger>>
    <3>1. CASE Commit(t)
      BY <3>1, CommitServes DEF AtomicInv
    <3>2. CASE ~Commit(t)
      BY <2>2, <3>2, StepRows DEF SettledInv
    <3> QED BY <3>1, <3>2
  <2> QED BY <2>1, <2>2 DEF Next, Finished
<1> QED BY <1>1, <1>2, <1>3, <1>4, PTL DEF Spec, RefinesAtomicStock, Abstract!Spec

-----------------------------------------------------------------------------
(* The totals of a variant. *)

\* Of a set of sets of stores, one has no other of them inside it.
LEMMA LeastStores ==
  ASSUME IsFiniteSet(Stores), NEW T \in SUBSET (SUBSET Stores), T # {}
  PROVE  \E m \in T : \A n \in T : n \subseteq m => n = m
<1>1. T \subseteq FiniteSubsetsOf(Stores)
  BY FS_FiniteSubsetsOfFinite, Zenon
<1>2. PICK m \in T : \A n \in T : <<n, m>> \notin StrictSubsetOrdering(Stores)
  BY <1>1, FS_StrictSubsetOrderingWellFounded, WFMin, Zenon
<1> QED BY <1>2, Zenon DEF StrictSubsetOrdering

\* F gives the totals of variant v of stock f over the subsets of D.
FirstOf(S) == CHOOSE x \in S : TRUE
IsSum(F, v, f, D) ==
  F = [S \in SUBSET D |->
         IF S = {} THEN 0 ELSE f[<<FirstOf(S), v>>].qty + F[S \ {FirstOf(S)}]]

\* What the equation of a sum says of one set.
LEMMA SumStep ==
  ASSUME NEW v, NEW f, NEW D, NEW F, IsSum(F, v, f, D), NEW S \in SUBSET D
  PROVE  /\ S = {} => F[S] = 0
         /\ S # {} => /\ FirstOf(S) \in S
                      /\ S \ {FirstOf(S)} \in SUBSET D
                      /\ F[S] = f[<<FirstOf(S), v>>].qty + F[S \ {FirstOf(S)}]
<1>1. S # {} => FirstOf(S) \in S
  BY DEF FirstOf
<1>2. F[S] = [R \in SUBSET D |->
               IF R = {} THEN 0 ELSE f[<<FirstOf(R), v>>].qty + F[R \ {FirstOf(R)}]][S]
  BY Zenon DEF IsSum
<1>3. F[S] = IF S = {} THEN 0 ELSE f[<<FirstOf(S), v>>].qty + F[S \ {FirstOf(S)}]
  BY <1>2, Zenon
<1> QED BY <1>1, <1>3, Zenon

\* There is at most one sum ...
LEMMA SumUnique ==
  ASSUME NEW v, NEW f, NEW D \in SUBSET Stores, IsFiniteSet(Stores),
         NEW F, IsSum(F, v, f, D), NEW G, IsSum(G, v, f, D), NEW S \in SUBSET D
  PROVE  F[S] = G[S]
<1> DEFINE Bad == {R \in SUBSET D : F[R] # G[R]}
<1> SUFFICES ASSUME F[S] # G[S] PROVE FALSE
  OBVIOUS
<1>1. Bad # {} /\ Bad \in SUBSET (SUBSET Stores)
  OBVIOUS
<1>2. PICK m \in Bad : \A n \in Bad : n \subseteq m => n = m
  <2> HIDE DEF Bad
  <2> QED BY <1>1, LeastStores
<1>3. m \in SUBSET D /\ F[m] # G[m]
  OBVIOUS
<1> DEFINE p == m \ {FirstOf(m)}
<1>4. /\ m = {} => F[m] = 0
      /\ m # {} => /\ FirstOf(m) \in m
                   /\ p \in SUBSET D
                   /\ F[m] = f[<<FirstOf(m), v>>].qty + F[p]
  <2> HIDE DEF Bad
  <2> QED BY <1>3, SumStep
<1>5. /\ m = {} => G[m] = 0
      /\ m # {} => G[m] = f[<<FirstOf(m), v>>].qty + G[p]
  <2> HIDE DEF Bad
  <2> QED BY <1>3, SumStep
<1>6. m # {}
  BY <1>3, <1>4, <1>5
<1>7. p \notin Bad
  <2> HIDE DEF Bad
  <2> QED BY <1>2, <1>4, <1>6
<1>8. F[p] = G[p]
  BY <1>4, <1>6, <1>7
<1> QED BY <1>3, <1>4, <1>5, <1>6, <1>8, Zenon

\* ... it is a sum of every part of what it sums ...
LEMMA SumRestrict ==
  ASSUME NEW v, NEW f, NEW D, NEW C \in SUBSET D, NEW F, IsSum(F, v, f, D)
  PROVE  IsSum([S \in SUBSET C |-> F[S]], v, f, C)
<1> DEFINE G == [S \in SUBSET C |-> F[S]]
<1>1. ASSUME NEW S \in SUBSET C
      PROVE  G[S] = IF S = {} THEN 0 ELSE f[<<FirstOf(S), v>>].qty + G[S \ {FirstOf(S)}]
  <2>1. S \in SUBSET D /\ S \ {FirstOf(S)} \in SUBSET C
    OBVIOUS
  <2>2. G[S] = F[S] /\ G[S \ {FirstOf(S)}] = F[S \ {FirstOf(S)}]
    BY <2>1
  <2> HIDE DEF G
  <2> QED BY <2>1, <2>2, SumStep
<1>2. G = [S \in SUBSET C |->
            IF S = {} THEN 0 ELSE f[<<FirstOf(S), v>>].qty + G[S \ {FirstOf(S)}]]
  <2>1. G = [S \in SUBSET C |-> G[S]]
    OBVIOUS
  <2> HIDE DEF G
  <2> QED BY <1>1, <2>1, Zenon
<1> QED BY <1>2, Zenon DEF IsSum

\* ... and there is one.
LEMMA SumExists ==
  ASSUME NEW v, NEW f, IsFiniteSet(Stores), NEW D \in SUBSET Stores
  PROVE  \E F : IsSum(F, v, f, D)
<1> DEFINE Good(C) == \E F : IsSum(F, v, f, C)
           Bad == {C \in SUBSET Stores : ~Good(C)}
<1> SUFFICES ASSUME ~Good(D) PROVE FALSE
  OBVIOUS
<1>1. Bad # {} /\ Bad \in SUBSET (SUBSET Stores)
  OBVIOUS
<1>2. PICK m \in Bad : \A n \in Bad : n \subseteq m => n = m
  <2> HIDE DEF Bad
  <2> QED BY <1>1, LeastStores
<1>3. m \in SUBSET Stores /\ ~Good(m)
  OBVIOUS
<1>4. \A C \in SUBSET m : C # m => Good(C)
  <2> SUFFICES ASSUME NEW C \in SUBSET m, C # m, ~Good(C) PROVE FALSE
    OBVIOUS
  <2>1. C \in Bad
    BY <1>3
  <2> HIDE DEF Bad
  <2> QED BY <1>2, <2>1
<1> HIDE DEF Good, Bad
<1> DEFINE SumOf(C) == CHOOSE F : IsSum(F, v, f, C)
           T(C) == SumOf(C)[C]
           Of(S) == f[<<FirstOf(S), v>>].qty
           F == [S \in SUBSET m |->
                  IF S = {} THEN 0 ELSE Of(S) + T(S \ {FirstOf(S)})]
<1>5. \A C \in SUBSET m : C # m => IsSum(SumOf(C), v, f, C)
  BY <1>4, Zenon DEF Good
<1>6. ASSUME NEW S \in SUBSET m, S # m, S # {} PROVE T(S) = Of(S) + T(S \ {FirstOf(S)})
  <2> DEFINE P == S \ {FirstOf(S)}
  <2>1. FirstOf(S) \in S
    BY <1>6 DEF FirstOf
  <2>2. P \in SUBSET S /\ P \in SUBSET m /\ P # m /\ P \in SUBSET Stores
    BY <1>3, <1>6, <2>1
  <2>3. IsSum(SumOf(S), v, f, S) /\ IsSum(SumOf(P), v, f, P)
    BY <1>5, <1>6, <2>2, Zenon
  <2> HIDE DEF SumOf, P
  <2>4. IsSum([R \in SUBSET P |-> SumOf(S)[R]], v, f, P)
    BY <2>2, <2>3, SumRestrict, Zenon
  <2>5. P \in SUBSET P /\ S \in SUBSET S
    OBVIOUS
  <2>6. SumOf(P)[P] = [R \in SUBSET P |-> SumOf(S)[R]][P]
    BY <2>2, <2>3, <2>4, <2>5, SumUnique
  <2>7. SumOf(P)[P] = SumOf(S)[P]
    BY <2>5, <2>6, Zenon
  <2>8. SumOf(S)[S] = Of(S) + SumOf(S)[P]
    BY <1>6, <2>3, <2>5, SumStep DEF P
  <2> QED BY <2>7, <2>8, Zenon DEF P
<1>7. T({}) = 0 \/ m = {}
  <2> SUFFICES ASSUME m # {} PROVE T({}) = 0
    OBVIOUS
  <2>1. PICK E \in SUBSET m : E = {}
    OBVIOUS
  <2>2. IsSum(SumOf(E), v, f, E)
    BY <1>5, <2>1
  <2>3. PICK G : G = SumOf(E)
    OBVIOUS
  <2> HIDE DEF SumOf
  <2>4. IsSum(G, v, f, E) /\ E \in SUBSET E
    BY <2>2, <2>3
  <2>5. G[E] = 0
    BY <2>1, <2>4, SumStep
  <2> QED BY <2>1, <2>3, <2>5
<1>8. ASSUME NEW S \in SUBSET m
      PROVE  F[S] = IF S = {} THEN 0 ELSE Of(S) + F[S \ {FirstOf(S)}]
  <2> DEFINE P == S \ {FirstOf(S)}
  <2> HIDE DEF T, Of
  <2>1. CASE S = {}
    BY <2>1
  <2>2. CASE S # {}
    <3>1. FirstOf(S) \in S
      BY <2>2 DEF FirstOf
    <3>2. P \in SUBSET m /\ P # m /\ m # {}
      BY <3>1
    <3>3. F[S] = Of(S) + T(P)
      BY <2>2
    <3> HIDE DEF P
    <3>4. CASE P = {}
      <4>1. T(P) = 0 /\ F[P] = 0
        BY <1>7, <3>2, <3>4
      <4> HIDE DEF F
      <4> QED BY <2>2, <3>3, <4>1 DEF P
    <3>5. CASE P # {}
      <4>1. F[P] = Of(P) + T(P \ {FirstOf(P)})
        BY <3>2, <3>5
      <4>2. T(P) = Of(P) + T(P \ {FirstOf(P)})
        BY <1>6, <3>2, <3>5
      <4> HIDE DEF F
      <4> QED BY <2>2, <3>3, <4>1, <4>2 DEF P
    <3> QED BY <3>4, <3>5
  <2> QED BY <2>1, <2>2
<1>9. IsSum(F, v, f, m)
  <2>1. F = [S \in SUBSET m |-> F[S]]
    OBVIOUS
  <2> HIDE DEF F
  <2>2. F = [S \in SUBSET m |->
              IF S = {} THEN 0 ELSE f[<<FirstOf(S), v>>].qty + F[S \ {FirstOf(S)}]]
    BY <1>8, <2>1, Zenon
  <2> QED BY <2>2, Zenon DEF IsSum
<1> QED BY <1>3, <1>9, Zenon DEF Good

\* TotalOf is the sum over all stores.
LEMMA TotalIsSum ==
  ASSUME IsFiniteSet(Stores), NEW v, NEW f
  PROVE  \E F : IsSum(F, v, f, Stores) /\ TotalOf(v, f) = F[Stores]
<1>1. PICK F : IsSum(F, v, f, Stores)
  BY SumExists
<1> DEFINE Sum == CHOOSE G : IsSum(G, v, f, Stores)
<1>2. IsSum(Sum, v, f, Stores)
  BY <1>1, Zenon
<1>3. TotalOf(v, f) = Sum[Stores]
  BY Zenon DEF TotalOf, IsSum, FirstOf
<1> QED BY <1>2, <1>3, Zenon

\* A sum of integers is one.
LEMMA SumType ==
  ASSUME NEW v, NEW f, IsFiniteSet(Stores), \A s \in Stores : f[<<s, v>>].qty \in Int,
         NEW F, IsSum(F, v, f, Stores), NEW S \in SUBSET Stores
  PROVE  F[S] \in Int
<1> DEFINE Bad == {R \in SUBSET Stores : F[R] \notin Int}
<1> SUFFICES ASSUME F[S] \notin Int PROVE FALSE
  OBVIOUS
<1>1. Bad # {} /\ Bad \in SUBSET (SUBSET Stores)
  OBVIOUS
<1>2. PICK m \in Bad : \A n \in Bad : n \subseteq m => n = m
  <2> HIDE DEF Bad
  <2> QED BY <1>1, LeastStores
<1>3. m \in SUBSET Stores /\ F[m] \notin Int
  OBVIOUS
<1> DEFINE p == m \ {FirstOf(m)}
<1>4. /\ m = {} => F[m] = 0
      /\ m # {} => /\ FirstOf(m) \in m
                   /\ p \in SUBSET Stores
                   /\ F[m] = f[<<FirstOf(m), v>>].qty + F[p]
  <2> HIDE DEF Bad
  <2> QED BY <1>3, SumStep
<1>5. m # {}
  BY <1>3, <1>4
<1>6. p \notin Bad
  <2> HIDE DEF Bad
  <2> QED BY <1>2, <1>4, <1>5
<1>7. F[p] \in Int /\ f[<<FirstOf(m), v>>].qty \in Int
  BY <1>3, <1>4, <1>5, <1>6
<1> HIDE DEF p, Bad
<1> QED BY <1>3, <1>4, <1>5, <1>7

\* Stock f of variant v is g and h together.
AddsUp(v, f, g, h) ==
  \A s \in Stores : /\ g[<<s, v>>].qty \in Int /\ h[<<s, v>>].qty \in Int
                    /\ f[<<s, v>>].qty = g[<<s, v>>].qty + h[<<s, v>>].qty

\* The sum of two stocks is the sum of their sums.
LEMMA SumAdd ==
  ASSUME NEW v, NEW f, NEW g, NEW h, IsFiniteSet(Stores), AddsUp(v, f, g, h),
         NEW F, IsSum(F, v, f, Stores), NEW G, IsSum(G, v, g, Stores),
         NEW H, IsSum(H, v, h, Stores), NEW S \in SUBSET Stores
  PROVE  F[S] = G[S] + H[S]
<1> USE DEF AddsUp
<1> DEFINE Bad == {R \in SUBSET Stores : F[R] # G[R] + H[R]}
<1> SUFFICES ASSUME F[S] # G[S] + H[S] PROVE FALSE
  OBVIOUS
<1>1. Bad # {} /\ Bad \in SUBSET (SUBSET Stores)
  OBVIOUS
<1>2. PICK m \in Bad : \A n \in Bad : n \subseteq m => n = m
  <2> HIDE DEF Bad
  <2> QED BY <1>1, LeastStores
<1>3. m \in SUBSET Stores /\ F[m] # G[m] + H[m]
  OBVIOUS
<1> DEFINE p == m \ {FirstOf(m)}
<1>4. /\ m = {} => F[m] = 0
      /\ m # {} => /\ FirstOf(m) \in m
                   /\ p \in SUBSET Stores
                   /\ F[m] = f[<<FirstOf(m), v>>].qty + F[p]
  <2> HIDE DEF Bad
  <2> QED BY <1>3, SumStep
<1>5. /\ m = {} => G[m] = 0 /\ H[m] = 0
      /\ m # {} => /\ G[m] = g[<<FirstOf(m), v>>].qty + G[p]
                   /\ H[m] = h[<<FirstOf(m), v>>].qty + H[p]
  <2> HIDE DEF Bad
  <2>1. /\ m = {} => G[m] = 0
        /\ m # {} => G[m] = g[<<FirstOf(m), v>>].qty + G[p]
    BY <1>3, SumStep
  <2>2. /\ m = {} => H[m] = 0
        /\ m # {} => H[m] = h[<<FirstOf(m), v>>].qty + H[p]
    BY <1>3, SumStep
  <2> QED BY <2>1, <2>2
<1>6. m # {}
  BY <1>3, <1>4, <1>5
<1>7. p \notin Bad
  <2> HIDE DEF Bad
  <2> QED BY <1>2, <1>4, <1>6
<1>8. F[p] = G[p] + H[p]
  BY <1>4, <1>6, <1>7
<1>9. G[p] \in Int /\ H[p] \in Int
  <2> HIDE DEF p, Bad
  <2>1. G[p] \in Int
    BY <1>4, <1>6, SumType
  <2>2. H[p] \in Int
    BY <1>4, <1>6, SumType
  <2> QED BY <2>1, <2>2
<1>10. PICK s \in Stores : s = FirstOf(m)
  BY <1>3, <1>4, <1>6
<1> HIDE DEF p, Bad
<1> QED BY <1>3, <1>4, <1>5, <1>6, <1>8, <1>9, <1>10

\* Of stock f of variant v, store a has x and no other store has any.
OnlyAt(v, f, a, x) ==
  \A s \in Stores : f[<<s, v>>].qty = IF s = a THEN x ELSE 0

\* The sum of a stock that one store has.
LEMMA SumPoint ==
  ASSUME NEW v, NEW f, IsFiniteSet(Stores), NEW a \in Stores, NEW x \in Int,
         OnlyAt(v, f, a, x),
         NEW F, IsSum(F, v, f, Stores), NEW S \in SUBSET Stores
  PROVE  F[S] = IF a \in S THEN x ELSE 0
<1> USE DEF OnlyAt
<1> DEFINE Val(R) == IF a \in R THEN x ELSE 0
           Bad == {R \in SUBSET Stores : F[R] # Val(R)}
<1> SUFFICES ASSUME F[S] # Val(S) PROVE FALSE
  OBVIOUS
<1>1. Bad # {} /\ Bad \in SUBSET (SUBSET Stores)
  OBVIOUS
<1>2. PICK m \in Bad : \A n \in Bad : n \subseteq m => n = m
  <2> HIDE DEF Bad
  <2> QED BY <1>1, LeastStores
<1>3. m \in SUBSET Stores /\ F[m] # Val(m)
  OBVIOUS
<1> DEFINE p == m \ {FirstOf(m)}
<1>4. /\ m = {} => F[m] = 0
      /\ m # {} => /\ FirstOf(m) \in m
                   /\ p \in SUBSET Stores
                   /\ F[m] = f[<<FirstOf(m), v>>].qty + F[p]
  <2> HIDE DEF Bad
  <2> QED BY <1>3, SumStep
<1>5. m # {}
  BY <1>3, <1>4
<1>6. p \notin Bad
  <2> HIDE DEF Bad
  <2> QED BY <1>2, <1>4, <1>5
<1>7. F[p] = Val(p)
  BY <1>4, <1>5, <1>6
<1>8. PICK s \in Stores : s = FirstOf(m)
  BY <1>3, <1>4, <1>5
<1>9. p = m \ {s} /\ s \in m /\ F[m] = f[<<s, v>>].qty + Val(p)
  <2> HIDE DEF Bad, Val
  <2> QED BY <1>4, <1>5, <1>7, <1>8
<1> HIDE DEF p, Bad
<1>10. CASE s = a
  BY <1>3, <1>9, <1>10
<1>11. CASE s # a
  BY <1>3, <1>9, <1>11
<1> QED BY <1>10, <1>11

\* The same facts of totals.
LEMMA TotalAdd ==
  ASSUME NEW v, NEW f, NEW g, NEW h, IsFiniteSet(Stores), AddsUp(v, f, g, h)
  PROVE  /\ TotalOf(v, f) = TotalOf(v, g) + TotalOf(v, h)
         /\ TotalOf(v, g) \in Int /\ TotalOf(v, h) \in Int
<1>1. PICK F : IsSum(F, v, f, Stores) /\ TotalOf(v, f) = F[Stores]
  BY TotalIsSum
<1>2. PICK G : IsSum(G, v, g, Stores) /\ TotalOf(v, g) = G[Stores]
  BY TotalIsSum
<1>3. PICK H : IsSum(H, v, h, Stores) /\ TotalOf(v, h) = H[Stores]
  BY TotalIsSum
<1>4. Stores \in SUBSET Stores
  OBVIOUS
<1>5. G[Stores] \in Int
  <2>1. \A s \in Stores : g[<<s, v>>].qty \in Int
    BY DEF AddsUp
  <2> QED BY <1>2, <1>4, <2>1, SumType
<1>6. H[Stores] \in Int
  <2>1. \A s \in Stores : h[<<s, v>>].qty \in Int
    BY DEF AddsUp
  <2> QED BY <1>3, <1>4, <2>1, SumType
<1>7. F[Stores] = G[Stores] + H[Stores]
  BY <1>1, <1>2, <1>3, <1>4, SumAdd
<1> QED BY <1>1, <1>2, <1>3, <1>5, <1>6, <1>7

\* The total of a stock that one store has.
LEMMA TotalPoint ==
  ASSUME NEW v, NEW f, IsFiniteSet(Stores), NEW a \in Stores, NEW x \in Int,
         OnlyAt(v, f, a, x)
  PROVE  TotalOf(v, f) = x
<1>1. PICK F : IsSum(F, v, f, Stores) /\ TotalOf(v, f) = F[Stores]
  BY TotalIsSum
<1>2. Stores \in SUBSET Stores
  OBVIOUS
<1>3. F[Stores] = IF a \in Stores THEN x ELSE 0
  BY <1>1, <1>2, SumPoint
<1> QED BY <1>1, <1>3

\* The sum over no stores.
LEMMA SumEmpty ==
  ASSUME NEW v, NEW f, NEW D, NEW F, IsSum(F, v, f, D), D = {}
  PROVE  F[D] = 0
<1>1. D \in SUBSET D
  OBVIOUS
<1> QED BY <1>1, SumStep

\* No store has any.
LEMMA TotalZero ==
  ASSUME NEW v, NEW f, \A s \in Stores : f[<<s, v>>].qty = 0
  PROVE  TotalOf(v, f) = 0
<1>1. CASE Stores = {}
  <2>1. PICK F : IsSum(F, v, f, Stores) /\ TotalOf(v, f) = F[Stores]
    BY StoresAssumption, TotalIsSum
  <2>2. PICK E : E = Stores
    OBVIOUS
  <2>3. IsSum(F, v, f, E) /\ E \in SUBSET E /\ E = {}
    BY <1>1, <2>1, <2>2
  <2>4. F[E] = 0
    BY <2>3, SumEmpty, Zenon
  <2> QED BY <2>1, <2>2, <2>4
<1>2. CASE Stores # {}
  <2>1. PICK a \in Stores : TRUE
    BY <1>2
  <2>2. OnlyAt(v, f, a, 0)
    BY DEF OnlyAt
  <2> QED BY <2>2, StoresAssumption, TotalPoint
<1> QED BY <1>1, <1>2

\* Stock f of variant v is g once x of variant w has gone from store a to store b.
MovedFrom(v, f, g, a, b, x, w) ==
  \A s \in Stores :
    /\ g[<<s, v>>].qty \in Int
    /\ f[<<s, v>>].qty = g[<<s, v>>].qty
                          + (IF s = a /\ v = w THEN -x ELSE IF s = b /\ v = w THEN x ELSE 0)

\* What leaves one store and reaches another leaves the total as it was.
LEMMA TotalMove ==
  ASSUME NEW v \in Variants, NEW f, NEW g, NEW a \in Stores, NEW b \in Stores, a # b,
         NEW x \in Int, NEW w, MovedFrom(v, f, g, a, b, x, w)
  PROVE  TotalOf(v, f) = TotalOf(v, g)
<1> USE StoresAssumption DEF MovedFrom
<1> DEFINE At2(s) == IF s = a /\ v = w THEN -x ELSE IF s = b /\ v = w THEN x ELSE 0
<1>1. PICK h : h = [r \in Rows |-> [qty |-> At2(r[1])]]
  OBVIOUS
<1>2. \A s \in Stores : h[<<s, v>>].qty = At2(s)
  BY <1>1 DEF Rows
<1>3. AddsUp(v, f, g, h)
  BY <1>2 DEF AddsUp
<1>4. TotalOf(v, h) = 0
  <2>1. CASE v # w
    BY <1>2, <2>1, TotalZero
  <2>2. CASE v = w
    <3>1. PICK out : out = [r \in Rows |-> [qty |-> IF r[1] = a THEN -x ELSE 0]]
      OBVIOUS
    <3>2. PICK in : in = [r \in Rows |-> [qty |-> IF r[1] = b THEN x ELSE 0]]
      OBVIOUS
    <3>3. OnlyAt(v, out, a, -x) /\ -x \in Int
      BY <3>1 DEF OnlyAt, Rows
    <3>4. OnlyAt(v, in, b, x)
      BY <3>2 DEF OnlyAt, Rows
    <3>5. AddsUp(v, h, out, in)
      BY <1>2, <2>2, <3>3, <3>4 DEF AddsUp, OnlyAt
    <3>6. TotalOf(v, h) = TotalOf(v, out) + TotalOf(v, in)
      BY <3>5, TotalAdd
    <3>7. PICK y \in Int : y = -x
      BY <3>3
    <3>8. TotalOf(v, out) = y
      BY <3>3, <3>7, TotalPoint
    <3>9. TotalOf(v, in) = x
      BY <3>4, TotalPoint
    <3> QED BY <3>6, <3>7, <3>8, <3>9
  <2> QED BY <2>1, <2>2
<1>5. TotalOf(v, f) = TotalOf(v, g) + TotalOf(v, h) /\ TotalOf(v, g) \in Int
  BY <1>3, TotalAdd
<1> QED BY <1>4, <1>5

-----------------------------------------------------------------------------
(* Transfers, in any catalogue. *)

\* Without t's lock on a row, t has not touched its summary; under the lock, a
\* transfer's copy of the row is the committed one and t's own movements.
Share(r, t) ==
  IF lock[r] = t
  THEN IsTransfer(t) => cur[r].qty = row[r].qty + moved[t][r] - Unapplied(t, r)
  ELSE moved[t][r] = Unapplied(t, r)

\* What t has moved and what the item at hand will still move.
InFlight(t) == [r \in Rows |-> [qty |-> moved[t][r] + Sum2(ToInsert(t), r)]]

\* The movements of a transfer come in pairs.
BalanceOf(t) ==
  /\ pc[t] = "idle" => \A r \in Rows : lock[r] # t
  /\ IsTransfer(t) => /\ Moving(t) => Len(moves[t]) <= 2
                      /\ \A v \in Variants : TotalOf(v, InFlight(t)) = 0

NoStock(r) == ~exists[r] => row[r].qty = 0 /\ ledger[r] = 0

TransferInv ==
  /\ \A r \in Rows : NoStock(r)
  /\ \A t \in Txs : BalanceOf(t) /\ \A r \in Rows : Share(r, t)

\* A transfer neither scopes the catalogue nor reads a quantity to adjust.
LEMMA TransferControl ==
  ASSUME TypeOK, ControlOK, NEW t \in Txs, IsTransfer(t)
  PROVE  /\ pc[t] \notin {"reload", "save", "read"}
         /\ pos[t] <= Len(req[t]) => /\ Item(t).op \in {"TRANSFER", "TRANSFER_ALL"}
                                     /\ Item(t).to # Item(t).row
                                     /\ Item(t).to[2] = Item(t).row[2]
<1>1. pos[t] <= Len(req[t]) => pos[t] \in 1..Len(req[t])
  BY DEF TypeOK
<1> QED BY <1>1 DEF ControlOK, ControlOf, IsTransfer, Item

\* The share of another transaction is kept by a step of t.
LEMMA OthersShare ==
  ASSUME TypeOK, ControlOK, NEW t \in Txs, Begin(t) \/ Step(t) \/ Fail(t),
         NEW u \in Txs, u # t, NEW r \in Rows, Share(r, u)
  PROVE  Share(r, u)'
<1>1. /\ moved'[u] = moved[u] /\ Unapplied(u, r)' = Unapplied(u, r)
      /\ IsTransfer(u)' = IsTransfer(u)
  BY StepFrame DEF Unapplied, IsTransfer
<1>2. lock[r] = u => row'[r] = row[r]
  <2>1. CASE Commit(t)
    BY <2>1 DEF Commit, View
  <2>2. CASE ~Commit(t)
    BY <2>2, StepRows
  <2> QED BY <2>1, <2>2
<1>3. CASE lock[r] = u
  BY <1>1, <1>2, <1>3, StepRespectsLocks DEF Share
<1>4. CASE lock[r] # u
  BY <1>1, <1>4, StepRespectsLocks DEF Share
<1> QED BY <1>3, <1>4

\* A row that t writes under its lock, once the movement at hand is in it.
LEMMA WriteShare ==
  ASSUME TypeOK, NEW t \in Txs, NEW q \in Rows, NEW s, Write(t, q, s),
         UNCHANGED <<row, moved, req>>,
         IsTransfer(t) => s.qty = row[q].qty + moved[t][q],
         \A r \in Rows : r # q => Unapplied(t, r) = 0,
         \A r \in Rows : Unapplied(t, r)' = 0,
         NEW r \in Rows, Share(r, t)
  PROVE  Share(r, t)'
<1>1. IsTransfer(t)' = IsTransfer(t)
  BY DEF IsTransfer
<1>2. row[q].qty \in Int /\ moved[t][q] \in Int
  BY DEF TypeOK, Summary
<1>3. CASE r = q
  BY <1>1, <1>2, <1>3 DEF Share, Write, TypeOK
<1>4. CASE r # q
  BY <1>1, <1>4 DEF Share, Write, TypeOK
<1> QED BY <1>3, <1>4

\* Every action keeps the shares.
LEMMA StepShare ==
  ASSUME TypeOK, ControlOK, TransferInv, NEW t \in Txs, Begin(t) \/ Step(t) \/ Fail(t),
         NEW r \in Rows
  PROVE  Share(r, t)'
<1> USE DEF TypeOK, db
<1>0. \A x \in Rows : Share(x, t) /\ NoStock(x)
  BY DEF TransferInv
<1>1. ASSUME Rollback(t) PROVE Share(r, t)'
  <2>1. Unapplied(t, r)' = 0
    BY <1>1 DEF Rollback, Goto, Unapplied
  <2> QED BY <1>0, <1>1, <2>1, ConstantsAssumption DEF Rollback, Share
<1>2. ASSUME UNCHANGED <<row, lock, cur, req, moved>>, Unapplied(t, r)' = Unapplied(t, r)
      PROVE  Share(r, t)'
  BY <1>0, <1>2 DEF Share, IsTransfer
<1>3. ASSUME NEW q \in Rows, NEW s, Write(t, q, s), UNCHANGED <<row, req, moved>>,
             IsTransfer(t) => s.qty = row[q].qty + moved[t][q],
             \A x \in Rows : x # q => Unapplied(t, x) = 0,
             \A x \in Rows : Unapplied(t, x)' = 0
      PROVE  Share(r, t)'
  BY <1>0, <1>3, WriteShare
<1>4. CASE Begin(t)
  <2>1. lock[r] # t /\ lock'[r] # t
    BY <1>4 DEF Begin, TransferInv, BalanceOf
  <2>2. Unapplied(t, r) = 0 /\ Unapplied(t, r)' = 0 /\ moved'[t] = moved[t]
    BY <1>4 DEF Begin, Goto, Unapplied
  <2> QED BY <1>0, <2>1, <2>2 DEF Share
<1>5. CASE LastItemDone(t) \/ CheckMiss(t) \/ ScopeReload(t)
  BY <1>2, <1>5 DEF LastItemDone, CheckMiss, ScopeReload, AtStockCheck, At, Goto, Unapplied
<1>6. CASE ScopeFind(t) \/ ScopeDone(t)
  BY <1>2, <1>6 DEF ScopeFind, ScopeDone, At, AfterScope, Plan, Goto, Unapplied
<1>7. CASE ReturnStock(t) \/ CountAdjustment(t) \/ AdjustRead(t)
  BY <1>2, <1>7 DEF ReturnStock, CountAdjustment, AdjustRead, At, Plan, NextItem, Goto,
                    Unapplied
<1>8. CASE ApplyMiss(t)
  BY <1>2, <1>8 DEF ApplyMiss, Goto, Unapplied
<1>9. CASE InsertMovement(t)
  <2> DEFINE m == Head(moves[t])
  <2>1. m.row \in Rows /\ m.qty \in Int
    BY <1>9, HeadType DEF InsertMovement, ControlOK, ControlOf, Movement
  <2>2. /\ Unapplied(t, r) = 0
        /\ Unapplied(t, r)' = IF m.row = r THEN m.qty ELSE 0
    BY <1>9 DEF InsertMovement, Goto, Unapplied
  <2>3. moved'[t][r] = moved[t][r] + (IF m.row = r THEN m.qty ELSE 0)
    BY <1>9, <2>1 DEF InsertMovement
  <2>4. IsTransfer(t)' = IsTransfer(t)
    BY <1>9 DEF InsertMovement, IsTransfer
  <2>5. row[r].qty \in Int /\ moved[t][r] \in Int
    BY DEF Summary
  <2> HIDE DEF m
  <2> QED BY <1>0, <1>9, <2>1, <2>2, <2>3, <2>4, <2>5 DEF InsertMovement, Share
<1>10. CASE Commit(t)
  <2>1. Unapplied(t, r)' = 0 /\ lock'[r] # t /\ moved'[t][r] = 0
    BY <1>10, ConstantsAssumption DEF Commit, Goto, Unapplied
  <2> QED BY <2>1 DEF Share
<1>11. CASE ScopeInsert(t) \/ ScopeUpdate(t)
  <2>1. ~IsTransfer(t) /\ ~IsTransfer(t)'
    <3>1. ~IsTransfer(t)
      BY <1>11, TransferControl DEF ScopeInsert, ScopeUpdate
    <3> QED BY <1>11, <3>1 DEF IsTransfer, ScopeInsert, ScopeUpdate
  <2>2. Unapplied(t, r) = 0 /\ Unapplied(t, r)' = 0
    BY <1>11 DEF ScopeInsert, ScopeUpdate, Unapplied
  <2>3. lock[r] = t => lock'[r] = t
    <3>1. PICK s \in saves[t] : \/ UNCHANGED <<lock, cur>>
                                \/ \E x : Write(t, s.row, x)
      BY <1>11, Zenon DEF ScopeInsert, ScopeUpdate
    <3>2. s.row \in Rows
      BY DEF Save
    <3> QED BY <3>1, <3>2 DEF Write
  <2>4. moved'[t] = moved[t]
    BY <1>11 DEF ScopeInsert, ScopeUpdate
  <2> QED BY <1>0, <2>1, <2>2, <2>3, <2>4 DEF Share
<1>12. CASE CheckStock(t)
  <2> DEFINE q == Item(t).row
             s == View(t, q)
  <2>1. q \in Rows
    BY <1>12, ItemType DEF CheckStock, AtStockCheck, At, Items
  <2>2. \A x \in Rows : Unapplied(t, x) = 0
    BY <1>12 DEF CheckStock, AtStockCheck, At, Unapplied
  <2>3. \A x \in Rows : Unapplied(t, x)' = 0
    BY <1>12, OutgoingDone DEF CheckStock, Unapplied
  <2>4. IsTransfer(t) => s.qty = row[q].qty + moved[t][q]
    <3>1. row[q].qty \in Int /\ moved[t][q] \in Int
      BY <2>1 DEF Summary
    <3> QED BY <1>0, <2>1, <2>2, <3>1 DEF Share, View
  <2> QED BY <1>3, <1>12, <2>1, <2>2, <2>3, <2>4 DEF CheckStock
<1>13. CASE CheckCreate(t)
  <2> DEFINE q == Item(t).row
             sum == ledger[q] + moved[t][q]
             s == [qty |-> sum, link |-> TRUE, act |-> TRUE]
  <2>1. q \in Rows
    BY <1>13, ItemType DEF CheckCreate, ControlOK, ControlOf, Items
  <2>2. CASE ~Rollback(t)
    <3>1. Write(t, q, s) /\ Outgoing(t, sum) /\ UNCHANGED <<row, req, moved>>
      BY <1>13, <2>2 DEF CheckCreate
    <3>2. \A x \in Rows : Unapplied(t, x) = 0
      BY <1>13 DEF CheckCreate, Unapplied
    <3>3. \A x \in Rows : Unapplied(t, x)' = 0
      BY <3>1, OutgoingDone DEF Unapplied
    <3>4. s.qty = row[q].qty + moved[t][q]
      <4>1. row[q].qty = 0 /\ ledger[q] = 0
        BY <1>0, <1>13, <2>1 DEF CheckCreate, NoStock
      <4> QED BY <4>1
    <3> HIDE DEF q, s
    <3> QED BY <1>3, <2>1, <3>1, <3>2, <3>3, <3>4
  <2> QED BY <1>1, <2>2
<1>14. CASE ApplyMovement(t) \/ ApplyCreate(t)
  <2> DEFINE m == Head(moves[t])
             q == m.row
  <2>1. q \in Rows /\ m.qty \in Int
    BY <1>14, HeadType DEF ApplyMovement, ApplyCreate, ControlOK, ControlOf, Movement
  <2>2. \A x \in Rows : Unapplied(t, x) = IF x = q THEN m.qty ELSE 0
    BY <1>14 DEF ApplyMovement, ApplyCreate, Unapplied
  <2>3. CASE ~Rollback(t)
    <3>1. Applied(t) /\ UNCHANGED <<row, req, moved>>
      BY <1>14, <2>3 DEF ApplyMovement, ApplyCreate
    <3>2. \A x \in Rows : Unapplied(t, x)' = 0
      BY <3>1, AppliedDone DEF Unapplied
    <3>3. PICK s : Write(t, q, s) /\ (IsTransfer(t) => s.qty = row[q].qty + moved[t][q])
      <4>0. row[q].qty \in Int /\ moved[t][q] \in Int
        BY <2>1 DEF Summary
      <4>1. CASE ApplyMovement(t)
        <5> DEFINE s == [View(t, q) EXCEPT !.qty = @ + m.qty]
        <5>1. Write(t, q, s)
          BY <4>1, <2>3 DEF ApplyMovement
        <5>2. View(t, q) \in Summary
          BY <2>1, ViewType
        <5>3. s.qty = View(t, q).qty + m.qty
          BY <5>2 DEF Summary
        <5>4. IsTransfer(t) => View(t, q).qty + m.qty = row[q].qty + moved[t][q]
          BY <1>0, <2>1, <2>2, <4>0 DEF Share, View
        <5> HIDE DEF s
        <5> QED BY <5>1, <5>3, <5>4
      <4>2. CASE ApplyCreate(t)
        <5> DEFINE s == [qty |-> m.qty, link |-> TRUE, act |-> TRUE]
        <5>1. Write(t, q, s) /\ ~exists[q] /\ lock[q] = NoTx
          BY <4>2, <2>3 DEF ApplyCreate
        <5>2. row[q].qty = 0
          BY <1>0, <2>1, <5>1 DEF NoStock
        <5>3. moved[t][q] = m.qty
          BY <1>0, <2>1, <2>2, <5>1, ConstantsAssumption DEF Share
        <5>4. s.qty = row[q].qty + moved[t][q]
          BY <2>1, <5>2, <5>3
        <5> HIDE DEF s
        <5> QED BY <5>1, <5>4
      <4> QED BY <1>14, <4>1, <4>2
    <3> HIDE DEF m, q
    <3> QED BY <1>3, <2>1, <2>2, <3>1, <3>2, <3>3
  <2> QED BY <1>1, <2>3
<1>15. CASE RejectQuantity(t) \/ RejectStock(t) \/ UniqueViolation(t) \/ DeadlockAbort(t)
           \/ Fail(t)
  BY <1>15, <1>1 DEF RejectQuantity, RejectStock, UniqueViolation, DeadlockAbort, Fail
<1> QED BY <1>4, <1>5, <1>6, <1>7, <1>8, <1>9, <1>10, <1>11, <1>12, <1>13, <1>14,
           <1>15 DEF Step

\* A transfer that has checked its stock is to move as much in as it moves out.
LEMMA OutgoingBalance ==
  ASSUME TypeOK, ControlOK, NEW t \in Txs, BalanceOf(t), IsTransfer(t), NEW have \in Int,
         pc[t] \in {"item", "checkCreate"}, pos[t] <= Len(req[t]),
         Outgoing(t, have), UNCHANGED <<req, moved>>
  PROVE  BalanceOf(t)'
<1> DEFINE i   == Item(t)
           out == IF i.op = "TRANSFER_ALL" THEN have ELSE i.qty
           leg1 == [row |-> i.row, qty |-> -out]
           leg2 == [row |-> i.to, qty |-> out]
<1>1. i \in Items /\ i.op \in {"TRANSFER", "TRANSFER_ALL"} /\ i.to # i.row /\ i.to[2] = i.row[2]
  BY ItemType, TransferControl
<1>2. i.row \in Rows /\ i.to \in Rows /\ out \in Int
  BY <1>1 DEF Items
<1>3. PICK a \in Stores, b \in Stores, w \in Variants : i.row = <<a, w>> /\ i.to = <<b, w>> /\ a # b
  <2>1. PICK a \in Stores, w \in Variants : i.row = <<a, w>>
    BY <1>2 DEF Rows
  <2>2. PICK b \in Stores, z \in Variants : i.to = <<b, z>>
    BY <1>2 DEF Rows
  <2>3. z = w /\ a # b
    BY <1>1, <2>1, <2>2
  <2> QED BY <2>1, <2>2, <2>3
<1>4. ToInsert(t) = <<>> /\ \A r : Sum2(<<>>, r) = 0
  BY DEF ToInsert, Sum2
<1>5. \A v \in Variants : TotalOf(v, InFlight(t)) = 0
  BY DEF BalanceOf
<1>6. CASE NextItem(t) /\ UNCHANGED moves
  <2>1. pc'[t] = "item"
    BY <1>6 DEF NextItem, Goto, TypeOK
  <2>2. ToInsert(t)' = <<>>
    BY <2>1 DEF ToInsert
  <2>3. InFlight(t)' = InFlight(t)
    BY <1>4, <2>2 DEF InFlight
  <2> QED BY <1>5, <2>1, <2>3 DEF BalanceOf, Moving
<1>7. CASE Plan(t, <<leg1, leg2>>)
  <2>1. pc'[t] = "insert" /\ moves'[t] = <<leg1, leg2>>
    BY <1>7 DEF Plan, Goto, TypeOK
  <2>2. ToInsert(t)' = <<leg1, leg2>> /\ Len(<<leg1, leg2>>) = 2
    BY <2>1 DEF ToInsert
  <2>3. \A r : Sum2(<<leg1, leg2>>, r) = (IF i.row = r THEN -out ELSE 0)
                                         + (IF i.to = r THEN out ELSE 0)
    <3> HIDE DEF i, out
    <3> QED BY DEF Sum2
  <2>4. PICK f : f = InFlight(t)'
    OBVIOUS
  <2>5. f = [r \in Rows |-> [qty |-> moved[t][r] + Sum2(<<leg1, leg2>>, r)]]
    BY <2>2, <2>4 DEF InFlight
  <2>6. PICK g : g = InFlight(t)
    OBVIOUS
  <2>7. g = [r \in Rows |-> [qty |-> moved[t][r] + Sum2(<<>>, r)]]
    BY <1>4, <2>6 DEF InFlight
  <2> HIDE DEF i, out, leg1, leg2
  <2>8. ASSUME NEW v \in Variants PROVE TotalOf(v, f) = TotalOf(v, g)
    <3> DEFINE D(s) == IF s = a /\ v = w THEN -out ELSE IF s = b /\ v = w THEN out ELSE 0
    <3>1. ASSUME NEW s \in Stores
          PROVE  /\ g[<<s, v>>].qty \in Int
                 /\ f[<<s, v>>].qty = g[<<s, v>>].qty + D(s)
      <4>1. <<s, v>> \in Rows /\ moved[t][<<s, v>>] \in Int
        BY DEF Rows, TypeOK
      <4>2. g[<<s, v>>].qty = moved[t][<<s, v>>] + 0
        BY <1>4, <2>7, <4>1
      <4>3. f[<<s, v>>].qty = moved[t][<<s, v>>] + Sum2(<<leg1, leg2>>, <<s, v>>)
        BY <2>5, <4>1
      <4>4. Sum2(<<leg1, leg2>>, <<s, v>>) = D(s)
        <5>1. /\ i.row = <<s, v>> <=> s = a /\ v = w
              /\ i.to = <<s, v>> <=> s = b /\ v = w
          BY <1>3
        <5>2. Sum2(<<leg1, leg2>>, <<s, v>>) = (IF i.row = <<s, v>> THEN -out ELSE 0)
                                               + (IF i.to = <<s, v>> THEN out ELSE 0)
          BY <2>3
        <5> QED BY <1>2, <1>3, <5>1, <5>2
      <4> QED BY <4>1, <4>2, <4>3, <4>4
    <3>2. PICK x \in Int : x = out
      BY <1>2
    <3>3. MovedFrom(v, f, g, a, b, x, w)
      BY <3>1, <3>2 DEF MovedFrom
    <3> QED BY <1>3, <3>3, TotalMove
  <2>9. \A v \in Variants : TotalOf(v, InFlight(t)') = 0
    BY <1>5, <2>4, <2>6, <2>8
  <2> QED BY <2>1, <2>2, <2>9 DEF BalanceOf
<1> QED BY <1>1, <1>6, <1>7 DEF Outgoing

\* Every action keeps the balance of a transfer.
LEMMA StepBalance ==
  ASSUME TypeOK, ControlOK, TransferInv, NEW t \in Txs, Begin(t) \/ Step(t) \/ Fail(t)
  PROVE  BalanceOf(t)'
<1> USE DEF db
<1>0. BalanceOf(t) /\ \A r \in Rows : Share(r, t)
  BY DEF TransferInv
<1>1. ASSUME pc'[t] \in {"item", "committed", "aborted"}, \A r \in Rows : moved'[t][r] = 0
      PROVE  BalanceOf(t)'
  <2>1. \A r : Sum2(ToInsert(t)', r) = 0
    BY <1>1 DEF ToInsert, Sum2
  <2>2. PICK f : f = InFlight(t)'
    OBVIOUS
  <2>3. f = [r \in Rows |-> [qty |-> 0]]
    BY <1>1, <2>1, <2>2 DEF InFlight
  <2>4. ASSUME NEW v \in Variants PROVE TotalOf(v, f) = 0
    BY <2>3, TotalZero DEF Rows
  <2> QED BY <1>1, <2>2, <2>4 DEF BalanceOf, Moving
<1>2. ASSUME Rollback(t) PROVE BalanceOf(t)'
  BY <1>1, <1>2 DEF Rollback, Goto, TypeOK
<1>3. ASSUME IsTransfer(t), UNCHANGED req, pc'[t] # "idle", Moving(t)' => Len(moves'[t]) <= 2,
             \A r \in Rows : moved'[t][r] + Sum2(ToInsert(t)', r)
                               = moved[t][r] + Sum2(ToInsert(t), r)
      PROVE  BalanceOf(t)'
  <2>1. InFlight(t)' = InFlight(t)
    BY <1>3 DEF InFlight
  <2> QED BY <1>0, <1>3, <2>1 DEF BalanceOf
<1>4. ASSUME ~IsTransfer(t), UNCHANGED req, pc'[t] # "idle"
      PROVE  BalanceOf(t)'
  BY <1>4 DEF BalanceOf, IsTransfer
<1>5. CASE Begin(t)
  <2>1. pc'[t] = "item" /\ moved' = moved /\ pc[t] = "idle"
    BY <1>5 DEF Begin, Goto, TypeOK
  <2>2. \A r \in Rows : moved[t][r] = 0
    BY <1>0, <2>1 DEF BalanceOf, Share, Unapplied
  <2> QED BY <1>1, <2>1, <2>2
<1>6. CASE Commit(t)
  BY <1>1, <1>6 DEF Commit, Goto, TypeOK
<1>7. CASE LastItemDone(t) \/ CheckMiss(t)
  <2>1. pc'[t] \in {"commit", "checkCreate"} /\ pc[t] = "item" /\ UNCHANGED <<req, moved>>
    BY <1>7 DEF LastItemDone, CheckMiss, AtStockCheck, At, Goto, TypeOK
  <2>2. ToInsert(t)' = ToInsert(t) /\ ~Moving(t)'
    BY <2>1 DEF ToInsert, Moving
  <2> QED BY <1>3, <1>4, <2>1, <2>2
<1>8. CASE ScopeFind(t) \/ ScopeReload(t) \/ ScopeInsert(t) \/ ScopeUpdate(t) \/ ScopeDone(t)
           \/ ReturnStock(t) \/ CountAdjustment(t) \/ AdjustRead(t)
  <2>1. ~IsTransfer(t)
    BY <1>8, TransferControl
       DEF ScopeFind, ScopeReload, ScopeInsert, ScopeUpdate, ScopeDone, ReturnStock,
           CountAdjustment, AdjustRead, At
  <2>2. UNCHANGED req /\ pc'[t] # "idle"
    BY <1>8 DEF ScopeFind, ScopeReload, ScopeInsert, ScopeUpdate, ScopeDone, ReturnStock,
           CountAdjustment, AdjustRead, At, AfterScope, Plan, NextItem, Goto, TypeOK
  <2> QED BY <1>4, <2>1, <2>2
<1>9. CASE CheckStock(t)
  <2>1. pc[t] = "item" /\ pos[t] <= Len(req[t]) /\ UNCHANGED <<req, moved>>
        /\ Outgoing(t, View(t, Item(t).row).qty)
    BY <1>9 DEF CheckStock, AtStockCheck, At
  <2>2. View(t, Item(t).row).qty \in Int
    BY <2>1, ItemType, ViewType DEF Items, Summary
  <2>3. CASE IsTransfer(t)
    BY <1>0, <2>1, <2>2, <2>3, OutgoingBalance
  <2>4. CASE ~IsTransfer(t)
    BY <1>4, <2>1, <2>4, OutgoingDone
  <2> QED BY <2>3, <2>4
<1>10. CASE CheckCreate(t)
  <2> DEFINE have == ledger[Item(t).row] + moved[t][Item(t).row]
  <2>1. pc[t] = "checkCreate" /\ pos[t] <= Len(req[t]) /\ Item(t).row \in Rows
    BY <1>10, ItemType DEF CheckCreate, ControlOK, ControlOf, Items
  <2>2. have \in Int
    BY <2>1 DEF TypeOK
  <2>3. CASE ~Rollback(t)
    <3>1. UNCHANGED <<req, moved>> /\ Outgoing(t, have)
      BY <1>10, <2>3 DEF CheckCreate
    <3>2. CASE IsTransfer(t)
      BY <1>0, <2>1, <2>2, <3>1, <3>2, OutgoingBalance
    <3>3. CASE ~IsTransfer(t)
      BY <1>4, <3>1, <3>3, OutgoingDone
    <3> QED BY <3>2, <3>3
  <2> QED BY <1>2, <2>3
<1>11. CASE InsertMovement(t)
  <2> DEFINE m == Head(moves[t])
  <2>1. /\ moves[t] \in Seq(Movement) /\ moves[t] # <<>> /\ m.row \in Rows /\ m.qty \in Int
    BY <1>11, HeadType DEF InsertMovement, ControlOK, ControlOf, Movement, TypeOK
  <2>2. pc[t] = "insert" /\ pc'[t] = "apply" /\ moves' = moves /\ req' = req
    BY <1>11 DEF InsertMovement, Goto, TypeOK
  <2>3. \A r \in Rows : moved'[t][r] = moved[t][r] + Part(m, r) /\ moved[t][r] \in Int
    BY <1>11, <2>1 DEF InsertMovement, TypeOK, Part
  <2>4. ToInsert(t) = moves[t] /\ ToInsert(t)' = Tail(moves[t])
    BY <2>2 DEF ToInsert
  <2>5. CASE IsTransfer(t)
    <3>1. Len(moves[t]) <= 2
      BY <1>0, <2>2, <2>5 DEF BalanceOf, Moving
    <3>2. ASSUME NEW r \in Rows
          PROVE  moved'[t][r] + Sum2(ToInsert(t)', r) = moved[t][r] + Sum2(ToInsert(t), r)
      <4>1. Sum2(moves[t], r) = Part(m, r) + Sum2(Tail(moves[t]), r)
        BY <2>1, <3>1, SumHead
      <4>2. Sum2(Tail(moves[t]), r) \in Int
        BY <2>1, HeadType, Sum2Type
      <4>3. Part(m, r) \in Int
        BY <2>1 DEF Part
      <4> HIDE DEF m
      <4> QED BY <2>3, <2>4, <4>1, <4>2, <4>3
    <3> QED BY <1>3, <2>2, <2>5, <3>1, <3>2
  <2>6. CASE ~IsTransfer(t)
    BY <1>4, <2>2, <2>6
  <2> QED BY <2>5, <2>6
<1>12. CASE ApplyMovement(t) \/ ApplyCreate(t)
  <2>1. CASE ~Rollback(t)
    <3>1. Applied(t) /\ UNCHANGED <<moved, req>> /\ pc[t] \in {"apply", "create"}
      BY <1>12, <2>1 DEF ApplyMovement, ApplyCreate
    <3>2. pc'[t] \in {"insert", "item"} /\ moves'[t] = Tail(moves[t])
          /\ (pc'[t] = "item" => Tail(moves[t]) = <<>>)
      BY <3>1 DEF Applied, NextItem, Goto, TypeOK
    <3>3. ToInsert(t)' = ToInsert(t)
      BY <3>1, <3>2 DEF ToInsert
    <3>4. CASE IsTransfer(t)
      <4>1. Len(moves[t]) <= 2 /\ moves[t] \in Seq(Movement) /\ moves[t] # <<>>
        BY <1>0, <3>1, <3>4 DEF BalanceOf, Moving, ControlOK, ControlOf, TypeOK
      <4>2. Len(moves'[t]) <= 2
        BY <3>2, <4>1
      <4> QED BY <1>3, <3>1, <3>2, <3>3, <3>4, <4>2
    <3>5. CASE ~IsTransfer(t)
      BY <1>4, <3>1, <3>2, <3>5
    <3> QED BY <3>4, <3>5
  <2> QED BY <1>2, <2>1
<1>13. CASE ApplyMiss(t)
  <2>1. pc[t] = "apply" /\ pc'[t] = "create" /\ UNCHANGED <<moved, moves, req>>
    BY <1>13 DEF ApplyMiss, Goto, TypeOK
  <2>2. ToInsert(t)' = ToInsert(t)
    BY <2>1 DEF ToInsert
  <2>3. IsTransfer(t) => Len(moves'[t]) <= 2
    BY <1>0, <2>1 DEF BalanceOf, Moving
  <2> QED BY <1>3, <1>4, <2>1, <2>2, <2>3
<1>14. CASE RejectQuantity(t) \/ RejectStock(t) \/ UniqueViolation(t) \/ DeadlockAbort(t)
           \/ Fail(t)
  BY <1>14, <1>2 DEF RejectQuantity, RejectStock, UniqueViolation, DeadlockAbort, Fail
<1> QED BY <1>5, <1>6, <1>7, <1>8, <1>9, <1>10, <1>11, <1>12, <1>13, <1>14 DEF Step

\* A row that is not there has no stock, and one comes to be with its stock.
LEMMA StepNoStock ==
  ASSUME TypeOK, TransferInv, NEW t \in Txs, Begin(t) \/ Step(t) \/ Fail(t), NEW r \in Rows
  PROVE  NoStock(r)'
<1>1. NoStock(r) /\ Share(r, t)
  BY DEF TransferInv
<1>2. CASE Commit(t)
  <2>1. lock[r] # t => moved[t][r] = 0
    BY <1>1, <1>2 DEF Commit, Share, Unapplied
  <2>2. exists'[r] <=> exists[r] \/ lock[r] = t
    BY <1>2, Zenon DEF Commit
  <2>3. lock[r] # t => row'[r] = row[r]
    BY <1>2 DEF Commit, View
  <2>4. lock[r] # t => ledger'[r] = ledger[r]
    BY <1>2, <2>1 DEF Commit, TypeOK
  <2> QED BY <1>1, <2>2, <2>3, <2>4, Zenon DEF NoStock
<1>3. CASE ~Commit(t)
  BY <1>1, <1>3, StepRows DEF NoStock
<1> QED BY <1>2, <1>3

\* The invariant of the transfers holds at the start ...
LEMMA InitTransfer ==
  ASSUME Init
  PROVE  TransferInv
<1>1. \A r \in Rows : NoStock(r)
  <2>1. PICK f \in [Rows -> InitialRows] :
          /\ exists = [r \in Rows |-> f[r].exists]
          /\ row = [r \in Rows |-> f[r].row]
    BY DEF Init
  <2> QED BY <2>1, ConstantsAssumption DEF Init, NoStock, NoSummary
<1>2. ASSUME NEW t \in Txs PROVE BalanceOf(t) /\ \A r \in Rows : Share(r, t)
  <2>1. \A r \in Rows : lock[r] # t /\ moved[t][r] = 0 /\ Unapplied(t, r) = 0
    BY ConstantsAssumption DEF Init, Unapplied
  <2>2. pc[t] = "idle" /\ \A r : Sum2(ToInsert(t), r) = 0
    BY DEF Init, ToInsert, Sum2
  <2>3. InFlight(t) = [r \in Rows |-> [qty |-> 0]]
    BY <2>1, <2>2 DEF InFlight
  <2>4. \A v \in Variants : TotalOf(v, InFlight(t)) = 0
    <3> SUFFICES ASSUME NEW v \in Variants PROVE TotalOf(v, InFlight(t)) = 0
      OBVIOUS
    <3>1. PICK f : f = InFlight(t)
      OBVIOUS
    <3>2. \A s \in Stores : f[<<s, v>>].qty = 0
      BY <2>3, <3>1 DEF Rows
    <3> QED BY <3>1, <3>2, TotalZero
  <2> QED BY <2>1, <2>2, <2>4 DEF BalanceOf, Share, Moving
<1> QED BY <1>1, <1>2 DEF TransferInv

\* ... and is kept by every step.
LEMMA NextTransfer ==
  ASSUME TypeOK, ControlOK, TransferInv, [Next]_vars
  PROVE  TransferInv'
<1>1. CASE UNCHANGED vars
  BY <1>1 DEF vars, TransferInv, BalanceOf, Share, NoStock, IsTransfer, InFlight, ToInsert,
              Unapplied, Moving
<1>2. ASSUME NEW t \in Txs, Begin(t) \/ Step(t) \/ Fail(t)
      PROVE  TransferInv'
  <2>1. \A r \in Rows : NoStock(r)'
    BY <1>2, StepNoStock
  <2>2. ASSUME NEW u \in Txs PROVE BalanceOf(u)' /\ \A r \in Rows : Share(r, u)'
    <3>1. CASE u = t
      BY <1>2, <3>1, StepBalance, StepShare
    <3>2. CASE u # t
      <4>1. BalanceOf(u) /\ \A r \in Rows : Share(r, u)
        BY DEF TransferInv
      <4>2. \A r \in Rows : Share(r, u)'
        BY <1>2, <3>2, <4>1, OthersShare
      <4>3. /\ pc'[u] = pc[u] /\ req'[u] = req[u] /\ moves'[u] = moves[u]
            /\ moved'[u] = moved[u]
        BY <1>2, <3>2, StepFrame
      <4>4. /\ ToInsert(u)' = ToInsert(u) /\ Moving(u)' = Moving(u)
            /\ IsTransfer(u)' = IsTransfer(u)
        BY <4>3 DEF ToInsert, Moving, IsTransfer
      <4>5. InFlight(u)' = InFlight(u)
        BY <4>3, <4>4 DEF InFlight
      <4>6. pc'[u] = "idle" => \A r \in Rows : lock'[r] # u
        BY <1>2, <3>2, <4>1, <4>3, StepRespectsLocks DEF BalanceOf
      <4> QED BY <4>1, <4>2, <4>3, <4>4, <4>5, <4>6 DEF BalanceOf
    <3> QED BY <3>1, <3>2
  <2> QED BY <2>1, <2>2 DEF TransferInv
<1> QED BY <1>1, <1>2 DEF Next, Finished

\* A transaction ends as committed only by its commit.
LEMMA EndsByCommit ==
  ASSUME TypeOK, NEW t \in Txs, pc[t] = "commit", pc'[t] = "committed",
         NEW u \in Txs, Begin(u) \/ Step(u) \/ Fail(u)
  PROVE  Commit(t)
<1>1. u = t
  BY StepFrame
<1>2. ~Rollback(t)
  BY DEF Rollback, Goto, TypeOK
<1> QED BY <1>1, <1>2 DEF TypeOK, Begin, Step, Fail, LastItemDone, RejectQuantity, ScopeFind,
        ScopeReload, ScopeInsert, ScopeUpdate, ScopeDone, ReturnStock, CountAdjustment,
        AdjustRead, CheckStock, RejectStock, CheckMiss, CheckCreate, InsertMovement,
        ApplyMovement, ApplyMiss, ApplyCreate, UniqueViolation, DeadlockAbort, AtStockCheck, At

\* A transaction that only transfers leaves the tenant's total of every variant as it
\* was, in any catalogue and for any number of stores, requests and transactions.
THEOREM TransfersConserve == Spec => TransferConserves
<1>1. Init => TypeOK /\ ControlOK /\ TransferInv
  BY InitTypeControl, InitTransfer
<1>2. TypeOK /\ ControlOK /\ TransferInv /\ [Next]_vars => (TypeOK /\ ControlOK /\ TransferInv)'
  BY NextTypeControl, NextTransfer
<1>3. TypeOK /\ ControlOK /\ TransferInv /\ [Next]_vars
      => [\A t \in Txs :
            pc[t] = "commit" /\ pc'[t] = "committed" /\ IsTransfer(t)
            => \A v \in Variants : TotalOf(v, row') = TotalOf(v, row)]_vars
  <2> SUFFICES ASSUME TypeOK, ControlOK, TransferInv, Next, NEW t \in Txs,
                      pc[t] = "commit", pc'[t] = "committed", IsTransfer(t), NEW v \in Variants
               PROVE  TotalOf(v, row') = TotalOf(v, row)
    OBVIOUS
  <2>1. Commit(t)
    BY EndsByCommit DEF Next, Finished
  <2>2. ASSUME NEW r \in Rows PROVE row'[r].qty = row[r].qty + moved[t][r]
    <3>1. Share(r, t) /\ Unapplied(t, r) = 0 /\ row[r].qty \in Int /\ moved[t][r] \in Int
      BY DEF TransferInv, Unapplied, TypeOK, Summary
    <3> QED BY <2>1, <3>1 DEF Commit, View, Share
  <2>3. PICK f, g, h : f = row' /\ g = row /\ h = InFlight(t)
    OBVIOUS
  <2>4. \A r \in Rows : h[r].qty = moved[t][r] /\ moved[t][r] \in Int
    BY <2>3 DEF InFlight, ToInsert, Sum2, TypeOK
  <2>5. AddsUp(v, f, g, h)
    BY <2>2, <2>3, <2>4 DEF AddsUp, Rows, TypeOK, Summary
  <2>6. TotalOf(v, f) = TotalOf(v, g) + TotalOf(v, h) /\ TotalOf(v, g) \in Int
    BY <2>5, StoresAssumption, TotalAdd
  <2>7. TotalOf(v, h) = 0
    BY <2>3 DEF TransferInv, BalanceOf
  <2> QED BY <2>3, <2>6, <2>7
<1> QED BY <1>1, <1>2, <1>3, PTL DEF Spec, TransferConserves
=============================================================================
