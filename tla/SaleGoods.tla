----------------------------- MODULE SaleGoods -----------------------------
(***************************************************************************)
(* The goods of one sale: its header status, its lines, its returns and    *)
(* the stock movements recorded under each line, while clerks edit lines,  *)
(* take goods back and cancel the sale at the same time.                   *)
(*                                                                         *)
(* Each request of SalesService is one READ COMMITTED transaction.  Only   *)
(* createSaleReturn locks what it reads; the others read the sale, decide, *)
(* and save the entity they hold, which writes every column (and, through  *)
(* the cascade of Sale.lines, every line) that differs from the stored row *)
(* by then.  StockLedger models the stock rows behind the movements.       *)
(***************************************************************************)
EXTENDS Integers, Sequences, FiniteSets, FiniteSetsExt, Functions

CONSTANTS
  Lines,     \* ids of the lines the sale has or may get
  Packages,  \* those that sell a product package
  Variants,  \* product variants
  Recipe,    \* Recipe[l][v]: units of v in one unit of line l
  StartQty,  \* quantities of the lines the sale starts with
  Txs,       \* database transactions; each serves one request
  Requests,  \* requests clients may send
  Exclusive, \* operations after whose overlap with another request the goods are not compared
  MaxOverlap, \* bound: requests of a behaviour in which one of them overlaps
  Header,    \* lock key of the sales row
  NoTx       \* owner of an unlocked row

\* Mod B (PARTS) names variants of a package and how many of each come back.
Ops == {"CANCEL", "RETURN", "PARTS", "UPDATE", "ADD", "REMOVE", "META"}
Request == [op : Ops, line : Lines, qty : Nat, parts : Seq([variant : Variants, qty : Nat])]

Row == [in : BOOLEAN, qty : Nat]
Gone == [in |-> FALSE, qty |-> 0]

ASSUME SaleAssumption ==
  /\ Lines # {} /\ Packages \subseteq Lines
  /\ Recipe \in [Lines -> [Variants -> Nat]]
  /\ DOMAIN StartQty \subseteq Lines /\ StartQty \in [DOMAIN StartQty -> Nat \ {0}]
  /\ NoTx \notin Txs /\ Header \notin Lines
  /\ Requests \subseteq Request /\ Exclusive \subseteq Ops /\ MaxOverlap \in Nat

VARIABLES
  status,   \* sales.status
  line,     \* line[l]: the sale_lines row as the sale sees it
  parts,    \* parts[l][v]: sum of packageVariantReturns
  returned, \* lines with a sale_return_lines record
  out,      \* out[l][v]: units of v that have left the stock under line l
  lock,     \* lock[k]: transaction that holds the row lock of k
  pc, req,
  seen,     \* seen[t]: the lines of the entity t holds in memory
  plan,     \* plan[t]: the columns t has decided to write
  moved,    \* moved[t]: the lines' movements t has recorded, not committed
  overlapped  \* an exclusive request and another have run at once (history)

vars == <<status, line, parts, returned, out, lock, pc, req, seen, plan, moved,
          overlapped>>
stored == <<status, line, parts, returned, out>>

Keys == Lines \cup {Header}

NoPlan == [lines |-> [l \in {} |-> Gone], insert |-> {}, status |-> "same"]
NoMoves == [l \in Lines |-> [v \in Variants |-> 0]]

Init ==
  /\ status = "CONFIRMED"
  /\ line = [l \in Lines |-> IF l \in DOMAIN StartQty
                             THEN [in |-> TRUE, qty |-> StartQty[l]] ELSE Gone]
  /\ parts = [l \in Lines |-> [v \in Variants |-> 0]]
  /\ returned = {}
  /\ out = [l \in Lines |-> [v \in Variants |-> line[l].qty * Recipe[l][v]]]
  /\ lock = [k \in Keys |-> NoTx]
  /\ pc = [t \in Txs |-> "idle"]
  /\ req = [t \in Txs |-> [op |-> "META", line |-> CHOOSE l \in Lines : TRUE,
                           qty |-> 0, parts |-> <<>>]]
  /\ seen = [t \in Txs |-> [l \in Lines |-> Gone]]
  /\ plan = [t \in Txs |-> NoPlan]
  /\ moved = [t \in Txs |-> NoMoves]
  /\ overlapped = FALSE

-----------------------------------------------------------------------------
(* Transactions. *)

Active(t) == pc[t] \notin {"idle", "committed", "aborted"}
Goto(t, label) == pc' = [pc EXCEPT ![t] = label]
Free(t, k) == lock[k] \in {NoTx, t}
Take(t, K) == lock' = [k \in Keys |-> IF k \in K THEN t ELSE lock[k]]
Release(t) == lock' = [k \in Keys |-> IF lock[k] = t THEN NoTx ELSE lock[k]]
At(t, label, ops) == pc[t] = label /\ req[t].op \in ops

Abort(t) == /\ Goto(t, "aborted")
            /\ Release(t)
            /\ plan' = [plan EXCEPT ![t] = NoPlan]
            /\ moved' = [moved EXCEPT ![t] = NoMoves]
            /\ UNCHANGED <<stored, req, seen>>

\* A new line has an id of its own.
Begin(t) ==
  LET running == {req[u].op : u \in {w \in Txs : Active(w)}} IN
  /\ pc[t] = "idle"
  /\ \E q \in Requests :
       /\ overlapped' = (overlapped \/ (running # {} /\ ({q.op} \cup running) \cap Exclusive # {}))
       /\ overlapped' => Cardinality({u \in Txs : pc[u] # "idle"}) < MaxOverlap
       /\ q.op = "ADD" => /\ q.line \notin DOMAIN StartQty
                          /\ \A u \in Txs : req[u].op = "ADD" => req[u].line # q.line
       /\ req' = [req EXCEPT ![t] = q]
  /\ Goto(t, "start")
  /\ UNCHANGED <<stored, lock, seen, plan, moved>>

PartSum(q, v) ==
  MapThenSumSet(LAMBDA i : q.parts[i].qty,
                {i \in DOMAIN q.parts : q.parts[i].variant = v})

Commit(t) ==
  LET q == req[t] IN
  /\ pc[t] = "commit"
  /\ status' = IF plan[t].status = "same" THEN status ELSE plan[t].status
  /\ line' = [l \in Lines |-> IF l \in DOMAIN plan[t].lines
                              THEN plan[t].lines[l] ELSE line[l]]
  /\ out' = [l \in Lines |-> [v \in Variants |-> out[l][v] + moved[t][l][v]]]
  /\ returned' = IF q.op \in {"RETURN", "PARTS"} THEN returned \cup {q.line}
                                                 ELSE returned
  /\ parts' = IF q.op = "PARTS"
              THEN [parts EXCEPT ![q.line] = [v \in Variants |-> @[v] + PartSum(q, v)]]
              ELSE parts
  /\ Release(t)
  /\ plan' = [plan EXCEPT ![t] = NoPlan]
  /\ moved' = [moved EXCEPT ![t] = NoMoves]
  /\ Goto(t, "committed")
  /\ UNCHANGED <<req, seen>>

-----------------------------------------------------------------------------
(* Reading the sale. *)

\* findOne without a lock: everyone but a return.
ReadSale(t) ==
  LET op == req[t].op IN
  /\ At(t, "start", {"CANCEL", "UPDATE", "ADD", "REMOVE", "META"})
  /\ IF status = "CANCELLED"
     THEN Abort(t)
     ELSE /\ seen' = [seen EXCEPT ![t] = line]
          /\ Goto(t, IF op = "META" THEN "reload"
                     ELSE IF op \in {"CANCEL", "ADD"} THEN "move" ELSE "read")
          /\ UNCHANGED <<stored, lock, req, plan, moved>>

\* MUTANT of LockSale: sale and lines are loaded by one findOne, without locks.
ReadSaleUnlocked(t) ==
  /\ At(t, "start", {"RETURN", "PARTS"})
  /\ IF status = "CANCELLED"
     THEN Abort(t)
     ELSE /\ seen' = [seen EXCEPT ![t] = line]
          /\ Goto(t, "move")
          /\ UNCHANGED <<stored, lock, req, plan, moved>>

\* createSaleReturn: SELECT ... FOR UPDATE on the sale.
LockSale(t) ==
  /\ At(t, "start", {"RETURN", "PARTS"})
  /\ Free(t, Header)
  /\ IF status = "CANCELLED"
     THEN Abort(t)
     ELSE /\ Take(t, {Header})
          /\ Goto(t, "lockLines")
          /\ UNCHANGED <<stored, req, seen, plan, moved>>

\* ... and on all its lines.
LockLines(t) ==
  LET present == {l \in Lines : line[l].in} IN
  /\ pc[t] = "lockLines"
  /\ \A l \in present : Free(t, l)
  /\ Take(t, present)
  /\ seen' = [seen EXCEPT ![t] = line]
  /\ Goto(t, "move")
  /\ UNCHANGED <<stored, req, plan, moved>>

ReadLine(t) ==
  LET l == req[t].line IN
  /\ pc[t] = "read"
  /\ IF ~line[l].in
     THEN Abort(t)
     ELSE /\ seen' = [seen EXCEPT ![t][l] = line[l]]
          /\ Goto(t, "move")
          /\ UNCHANGED <<stored, lock, req, plan, moved>>

-----------------------------------------------------------------------------
(* The movements each request records, and the line it will write. *)

Units(l, n) == [v \in Variants |-> n * Recipe[l][v]]
Back(f) == [v \in Variants |-> -f[v]]

\* MUTANT of Restore: package parts that are back already come back again.
RestoreAll(l, qty) == [v \in Variants |-> qty * Recipe[l][v]]

\* returnLineStock: what Mod B has already taken back stays back.
Restore(l, qty) ==
  [v \in Variants |->
     LET net == qty * Recipe[l][v] - (IF l \in Packages THEN parts[l][v] ELSE 0)
     IN  IF net > 0 THEN net ELSE 0]

\* createReturnMovementForSaleLine refuses a quantity of zero.
Unreturnable(l, qty) == l \notin Packages /\ qty = 0

Record(t, l, f) == moved' = [moved EXCEPT ![t][l] = f]
Will(t, l, r) == plan' = [plan EXCEPT ![t].lines = [k \in {l} |-> r]]

CancelMove(t) ==
  LET S == {l \in Lines : seen[t][l].in} IN
  /\ At(t, "move", {"CANCEL"})
  /\ IF \E l \in S : Unreturnable(l, seen[t][l].qty)
     THEN Abort(t)
     ELSE /\ moved' = [moved EXCEPT ![t] =
                [l \in Lines |-> IF l \in S THEN Back(Restore(l, seen[t][l].qty)) ELSE @[l]]]
          /\ Goto(t, "reload")
          /\ UNCHANGED <<stored, lock, req, seen, plan>>

\* A retail line, or whole packages (Mod A).  The locks are held, so saving
\* the line and the header changes nothing but the quantity.
ReturnMove(t) ==
  LET l == req[t].line
      n == req[t].qty
  IN
  /\ At(t, "move", {"RETURN"})
  /\ IF seen[t][l].in /\ n <= seen[t][l].qty
     THEN /\ Record(t, l, Back(Units(l, n)))
          /\ Will(t, l, [seen[t][l] EXCEPT !.qty = @ - n])
          /\ Goto(t, "commit")
          /\ UNCHANGED <<stored, lock, req, seen>>
     ELSE Abort(t)

\* Mod B: each part is compared with what was back before this request.
PartsMove(t) ==
  LET q == req[t]
      l == q.line
      Fits(i) == /\ Recipe[l][q.parts[i].variant] > 0
                 /\ q.parts[i].qty <= seen[t][l].qty * Recipe[l][q.parts[i].variant]
                                      - parts[l][q.parts[i].variant]
  IN
  /\ At(t, "move", {"PARTS"})
  /\ IF seen[t][l].in /\ \A i \in DOMAIN q.parts : Fits(i)
     THEN /\ Record(t, l, [v \in Variants |-> -PartSum(q, v)])
          /\ Goto(t, "commit")
          /\ UNCHANGED <<stored, lock, req, seen, plan>>
     ELSE Abort(t)

\* updateSaleLine: the difference goes out or comes back.
UpdateMove(t) ==
  LET l   == req[t].line
      old == seen[t][l].qty
  IN
  /\ At(t, "move", {"UPDATE"})
  /\ IF req[t].qty < old /\ l \in returned
     THEN Abort(t)
     ELSE /\ Record(t, l, Units(l, req[t].qty - old))
          /\ Goto(t, "reloadLine")
          /\ UNCHANGED <<stored, lock, req, seen, plan>>

AddMove(t) ==
  LET l == req[t].line IN
  /\ At(t, "move", {"ADD"})
  /\ Record(t, l, Units(l, req[t].qty))
  /\ Will(t, l, [in |-> TRUE, qty |-> req[t].qty])
  /\ Goto(t, "reload")
  /\ UNCHANGED <<stored, lock, req, seen>>

\* removeSaleLine: not the last line, not one with a return record.
RemoveMove(t) ==
  LET l == req[t].line IN
  /\ At(t, "move", {"REMOVE"})
  /\ IF \/ Cardinality({k \in Lines : line[k].in}) <= 1
        \/ l \in returned
        \/ Unreturnable(l, seen[t][l].qty)
     THEN Abort(t)
     ELSE /\ Record(t, l, Back(Restore(l, seen[t][l].qty)))
          /\ Will(t, l, Gone)
          /\ Goto(t, "writeLine")
          /\ UNCHANGED <<stored, lock, req, seen>>

-----------------------------------------------------------------------------
(* Saving. *)

\* save(line) reads the row again to see what it has to write.
ReloadLine(t) ==
  LET l == req[t].line IN
  /\ pc[t] = "reloadLine"
  /\ IF line[l].in /\ line[l].qty # req[t].qty
     THEN Will(t, l, [in |-> TRUE, qty |-> req[t].qty]) /\ Goto(t, "writeLine")
     ELSE UNCHANGED plan /\ Goto(t, "reload")
  /\ UNCHANGED <<stored, lock, req, seen, moved>>

\* UPDATE or DELETE of the line; a return record forbids the DELETE (RESTRICT).
WriteLine(t) ==
  LET l == req[t].line IN
  /\ pc[t] = "writeLine"
  /\ Free(t, l)
  /\ IF req[t].op = "REMOVE" /\ l \in returned
     THEN Abort(t)
     ELSE /\ Take(t, {l})
          /\ plan' = IF line[l].in THEN plan ELSE [plan EXCEPT ![t] = NoPlan]
          /\ Goto(t, "reload")
          /\ UNCHANGED <<stored, req, seen, moved>>

\* save(sale) reads the header again and, for a cancellation, the lines: a
\* changed line is written back, a new one detached, a deleted one re-inserted.
ReloadSale(t) ==
  LET target == IF req[t].op = "CANCEL" THEN "CANCELLED" ELSE "CONFIRMED"
      differ == {l \in Lines : line[l] # seen[t][l]}
  IN
  /\ pc[t] = "reload"
  /\ plan' = [plan EXCEPT
       ![t].status = IF status = target THEN "same" ELSE target,
       ![t].lines  = IF req[t].op = "CANCEL" THEN [l \in differ |-> seen[t][l]] ELSE @,
       ![t].insert = IF req[t].op = "CANCEL" THEN {l \in differ : ~line[l].in} ELSE @]
  /\ Goto(t, "writeSale")
  /\ UNCHANGED <<stored, lock, req, seen, moved>>

SaleKeys(t) ==
  {Header} \cup (IF req[t].op = "CANCEL" THEN DOMAIN plan[t].lines ELSE {})

\* An UPDATE of a line that is deleted by now finds no row.
WriteSale(t) ==
  LET found == {l \in DOMAIN plan[t].lines :
                  req[t].op # "CANCEL" \/ line[l].in \/ l \in plan[t].insert}
  IN
  /\ pc[t] = "writeSale"
  /\ \A k \in SaleKeys(t) : Free(t, k)
  /\ Take(t, SaleKeys(t))
  /\ plan' = [plan EXCEPT ![t].lines = Restrict(@, found)]
  /\ Goto(t, "commit")
  /\ UNCHANGED <<stored, req, seen, moved>>

-----------------------------------------------------------------------------
(* The database and the environment. *)

Needs(t) ==
  CASE At(t, "start", {"RETURN", "PARTS"}) -> {Header}
    [] pc[t] = "lockLines" -> {l \in Lines : line[l].in}
    [] pc[t] = "writeLine" -> {req[t].line}
    [] pc[t] = "writeSale" -> SaleKeys(t)
    [] OTHER -> {}

WaitsFor(t, u) == t # u /\ \E k \in Needs(t) : lock[k] = u

\* MUTANT of DeadlockAbort: a transaction in a cycle waits for ever.
DeadlockIgnored(t) == WaitsFor(t, t) /\ Abort(t)

\* PostgreSQL aborts a transaction of every cycle of waits.
DeadlockAbort(t) ==
  /\ \E C \in SUBSET Txs :
       /\ t \in C
       /\ \A u \in C : /\ \E w \in C : WaitsFor(u, w)
                       /\ \E w \in C : WaitsFor(w, u)
  /\ Abort(t)

\* Not enough stock for a line, a lost connection or a crash.
Fail(t) == Active(t) /\ Abort(t) /\ UNCHANGED overlapped

Step(t) ==
  /\ \/ Commit(t) \/ ReadSale(t) \/ LockSale(t) \/ LockLines(t) \/ ReadLine(t)
     \/ CancelMove(t) \/ ReturnMove(t) \/ PartsMove(t) \/ UpdateMove(t)
     \/ AddMove(t) \/ RemoveMove(t)
     \/ ReloadLine(t) \/ WriteLine(t) \/ ReloadSale(t) \/ WriteSale(t)
     \/ DeadlockAbort(t)
  /\ UNCHANGED overlapped

Finished == (\A t \in Txs : ~Active(t)) /\ UNCHANGED vars

Next == (\E t \in Txs : Begin(t) \/ Step(t) \/ Fail(t)) \/ Finished

Spec == Init /\ [][Next]_vars

FairSpec == Spec /\ \A t \in Txs : WF_vars(Step(t))

-----------------------------------------------------------------------------
(* Properties. *)

TypeOK ==
  /\ status \in {"CONFIRMED", "CANCELLED"}
  /\ line \in [Lines -> Row]
  /\ parts \in [Lines -> [Variants -> Nat]]
  /\ returned \subseteq Lines
  /\ out \in [Lines -> [Variants -> Int]]
  /\ lock \in [Keys -> Txs \cup {NoTx}]
  /\ pc \in [Txs -> {"idle", "start", "read", "lockLines", "move", "reloadLine",
                     "writeLine", "reload", "writeSale", "commit", "committed",
                     "aborted"}]
  /\ req \in [Txs -> Request]
  /\ seen \in [Txs -> [Lines -> Row]]
  /\ \A t \in Txs : /\ DOMAIN plan[t].lines \subseteq Lines
                    /\ plan[t].lines \in [DOMAIN plan[t].lines -> Row]
                    /\ plan[t].insert \subseteq Lines
                    /\ plan[t].status \in {"same", "CONFIRMED", "CANCELLED"}
  /\ moved \in [Txs -> [Lines -> [Variants -> Int]]]
  /\ overlapped \in BOOLEAN

\* Unless requests that do not lock the sale have overlapped, the goods that are
\* out of the stock under a line are those the sale shows: its quantity less the
\* package parts taken back, and nothing once the sale is cancelled or the line
\* removed.
GoodsMatchSale ==
  /\ TypeOK
  /\ ~overlapped =>
       \A l \in Lines, v \in Variants :
         out[l][v] = IF status = "CONFIRMED" /\ line[l].in
                     THEN line[l].qty * Recipe[l][v] - parts[l][v] ELSE 0

\* Whatever else runs - edits, removals, a cancellation - a return that commits
\* does so on an open sale, lowers the stored quantity by exactly what came back,
\* and never takes back a package part that is not there.
ReturnsAreExact ==
  [][\A t \in Txs :
       LET l == req[t].line IN
       pc[t] = "commit" /\ pc'[t] = "committed" =>
         /\ req[t].op = "RETURN" =>
              /\ status = "CONFIRMED"
              /\ line'[l].qty = line[l].qty - req[t].qty
         /\ req[t].op = "PARTS" =>
              /\ status = "CONFIRMED"
              /\ \A v \in Variants : parts'[l][v] > parts[l][v] =>
                                      parts'[l][v] <= line[l].qty * Recipe[l][v]]_vars

\* Every request that has begun ends, although returns lock the sale before
\* its lines and line edits lock a line before the sale.
EveryRequestEnds ==
  \A t \in Txs : pc[t] = "start" ~> pc[t] \in {"committed", "aborted"}
=============================================================================
