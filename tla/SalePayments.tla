---------------------------- MODULE SalePayments ----------------------------
(***************************************************************************)
(* The money of one sale: its payments, the totals on its header, and the  *)
(* amounts of its lines, while payments are taken, corrected and withdrawn *)
(* and lines are edited, returned or the sale cancelled.                   *)
(*                                                                         *)
(* Payment requests run without a transaction: every statement commits by  *)
(* itself.  Line edits, returns and the cancellation are transactions, but *)
(* sum the payments on another connection.  All of them save the header    *)
(* they read at the start, which writes every column that differs from the *)
(* stored row when it is read again.                                       *)
(***************************************************************************)
EXTENDS Integers, FiniteSets

CONSTANTS
  Lines,     \* sale lines
  Payments,  \* ids of payments
  Clerks,    \* request handlers; each serves one request
  Requests,  \* requests clients may send
  LinePrice, \* LinePrice[l]: amount of line l at creation
  Initial,   \* Initial[p]: amounts of the initial payments
  Header,    \* lock key of the sales row
  Nobody     \* owner of an unlocked row

InTx == {"CANCEL", "LINE", "RETURN"}
Paying == {"ADD", "EDIT", "DELETE"}

Request == [op : InTx \cup Paying, line : Lines, payment : Payments, amount : Nat]

ASSUME PaymentsAssumption ==
  /\ LinePrice \in [Lines -> Nat]
  /\ DOMAIN Initial \subseteq Payments /\ Initial \in [DOMAIN Initial -> Nat]
  /\ Requests \subseteq Request /\ Requests # {}
  /\ IsFiniteSet(Lines) /\ IsFiniteSet(Payments)
  /\ Header \notin Lines /\ Nobody \notin Clerks

VARIABLES
  sale,    \* the sales row: status, total (lineTotal), paid, pay (paymentStatus)
  amount,  \* amount[l]: sale_lines.lineTotal
  payment, \* payment[p]: status and amount
  lock,    \* lock[k]: transaction that holds the row lock of k
  pc, req,
  entity,  \* entity[c]: the sale as c holds it in memory
  plan,    \* plan[c]: the columns of the sale c will write
  new,     \* new[c]: the line amounts c has written, not committed
  alone    \* alone[c]: no other request ran while c did (history)

paymentsVars == <<sale, amount, payment, lock, pc, req, entity, plan, new, alone>>

Keys == Lines \cup {Header}
Columns == {"status", "total", "paid", "pay"}

-----------------------------------------------------------------------------
(* Amounts. *)

SumOf(f, S) ==
  LET sum[T \in SUBSET S] ==
        IF T = {} THEN 0 ELSE LET x == CHOOSE x \in T : TRUE IN f[x] + sum[T \ {x}]
  IN  sum[S]

Total(f) == SumOf(f, Lines)

\* recalcPaidAmountsBySaleIds.
Counted == {"ACTIVE", "UPDATED"}

Live == {p \in Payments : payment[p].status \in Counted}
LiveSum == SumOf([p \in Payments |-> payment[p].amount], Live)

PayStatus(paid, total) ==
  IF paid = 0 THEN "UNPAID" ELSE IF paid >= total THEN "PAID" ELSE "PARTIAL"

NoPayment == [status |-> "NONE", amount |-> 0]
FirstPaid == SumOf(Initial, DOMAIN Initial)

PaymentsInit ==
  /\ sale = [status |-> "CONFIRMED", total |-> Total(LinePrice), paid |-> FirstPaid,
             pay |-> PayStatus(FirstPaid, Total(LinePrice))]
  /\ amount = LinePrice
  /\ payment = [p \in Payments |->
                  IF p \in DOMAIN Initial
                  THEN [status |-> "ACTIVE", amount |-> Initial[p]] ELSE NoPayment]
  /\ lock = [k \in Keys |-> Nobody]
  /\ pc = [c \in Clerks |-> "idle"]
  /\ req = [c \in Clerks |-> CHOOSE q \in Requests : TRUE]
  /\ entity = [c \in Clerks |-> sale]
  /\ plan = [c \in Clerks |-> <<>>]
  /\ new = [c \in Clerks |-> <<>>]
  /\ alone = [c \in Clerks |-> TRUE]

-----------------------------------------------------------------------------
(* Requests and the database. *)

Active(c) == pc[c] \notin {"idle", "done", "failed"}
Goto(c, label) == pc' = [pc EXCEPT ![c] = label]
At(c, label, ops) == pc[c] = label /\ req[c].op \in ops
Free(c, k) == lock[k] \in {Nobody, c}
Take(c, K) == lock' = [k \in Keys |-> IF k \in K THEN c ELSE lock[k]]
Release(c) == lock' = [k \in Keys |-> IF lock[k] = c THEN Nobody ELSE lock[k]]

\* A row once the columns are written that have a value in cols.
Written(cols, row) == [k \in DOMAIN row |-> IF k \in DOMAIN cols THEN cols[k] ELSE row[k]]

Begin(c) ==
  LET others == {d \in Clerks \ {c} : Active(d)} IN
  /\ pc[c] = "idle"
  /\ \E q \in Requests : req' = [req EXCEPT ![c] = q]
  /\ Goto(c, "start")
  /\ alone' = [d \in Clerks |-> IF d = c THEN others = {}
                                ELSE alone[d] /\ ~Active(d)]
  /\ UNCHANGED <<sale, amount, payment, lock, entity, plan, new>>

\* A refusal, an error, a lost connection or a crash: a transaction is rolled back, what
\* a payment request has written stays.
Fail(c) ==
  /\ Active(c)
  /\ Goto(c, "failed")
  /\ Release(c)
  /\ new' = [new EXCEPT ![c] = <<>>]
  /\ plan' = [plan EXCEPT ![c] = <<>>]
  /\ UNCHANGED <<sale, amount, payment, req, entity, alone>>

-----------------------------------------------------------------------------
(* Reading the sale: payment requests accept one in any status. *)

ReadSale(c) ==
  LET op == req[c].op IN
  /\ At(c, "start", Paying \cup {"CANCEL", "LINE"})
  /\ op \in Paying \/ sale.status # "CANCELLED"
  /\ entity' = [entity EXCEPT ![c] = sale]
  /\ Goto(c, CASE op = "ADD" -> "insert" [] op \in {"EDIT", "DELETE"} -> "find"
               [] op = "LINE" -> "line" [] op = "CANCEL" -> "recalc")
  /\ UNCHANGED <<sale, amount, payment, lock, req, plan, new, alone>>

LockSale(c) ==
  /\ At(c, "start", {"RETURN"})
  /\ Free(c, Header)
  /\ sale.status = "CONFIRMED"
  /\ Take(c, {Header})
  /\ entity' = [entity EXCEPT ![c] = sale]
  /\ Goto(c, "lockLines")
  /\ UNCHANGED <<sale, amount, payment, req, plan, new, alone>>

LockLines(c) ==
  /\ pc[c] = "lockLines"
  /\ \A l \in Lines : Free(c, l)
  /\ Take(c, Lines)
  /\ Goto(c, "line")
  /\ UNCHANGED <<sale, amount, payment, req, entity, plan, new, alone>>

-----------------------------------------------------------------------------
(* Payments. *)

\* Only a payment that was never corrected can be corrected or withdrawn.
FindPayment(c) ==
  /\ pc[c] = "find"
  /\ payment[req[c].payment].status = "ACTIVE"
  /\ Goto(c, "void")
  /\ UNCHANGED <<sale, amount, payment, lock, req, entity, plan, new, alone>>

VoidPayment(c) ==
  /\ pc[c] = "void"
  /\ payment' = [payment EXCEPT ![req[c].payment].status = "CANCELLED"]
  /\ Goto(c, IF req[c].op = "EDIT" THEN "insert" ELSE "recalc")
  /\ UNCHANGED <<sale, amount, lock, req, entity, plan, new, alone>>

InsertPayment(c) ==
  /\ pc[c] = "insert"
  /\ \E p \in Payments :
       /\ payment[p].status = "NONE"
       /\ payment' = [payment EXCEPT ![p] =
            [status |-> IF req[c].op = "ADD" THEN "ACTIVE" ELSE "UPDATED",
             amount |-> req[c].amount]]
  /\ Goto(c, "recalc")
  /\ UNCHANGED <<sale, amount, lock, req, entity, plan, new, alone>>

-----------------------------------------------------------------------------
(* Lines: an edit or a return gives one line a new amount; a return lowers it. *)

WriteLine(c) ==
  LET l == req[c].line IN
  /\ pc[c] = "line"
  /\ Free(c, l)
  /\ req[c].op = "RETURN" => req[c].amount <= amount[l]
  /\ Take(c, {l})
  /\ new' = [new EXCEPT ![c] = [k \in {l} |-> req[c].amount]]
  /\ Goto(c, "sum")
  /\ UNCHANGED <<sale, amount, payment, req, entity, plan, alone>>

\* MUTANT of SumLines: the total is adjusted by the amount of the request.
SubtractLine(c) ==
  /\ pc[c] = "sum"
  /\ entity' = [entity EXCEPT ![c].total = @ - req[c].amount]
  /\ Goto(c, "recalc")
  /\ UNCHANGED <<sale, amount, payment, lock, req, plan, new, alone>>

SumLines(c) ==
  /\ pc[c] = "sum"
  /\ entity' = [entity EXCEPT ![c].total = Total(Written(new[c], amount))]
  /\ Goto(c, "recalc")
  /\ UNCHANGED <<sale, amount, payment, lock, req, plan, new, alone>>

-----------------------------------------------------------------------------
(* The header. *)

\* MUTANT of Recalc: the payments are summed up, the status is left alone.
RecalcAmount(c) ==
  LET e == entity[c] IN
  /\ pc[c] = "recalc"
  /\ entity' = [entity EXCEPT ![c] =
       IF req[c].op = "CANCEL"
       THEN [e EXCEPT !.status = "CANCELLED", !.paid = e.total, !.pay = "CANCELLED"]
       ELSE [e EXCEPT !.paid = LiveSum]]
  /\ Goto(c, "reload")
  /\ UNCHANGED <<sale, amount, payment, lock, req, plan, new, alone>>

\* recalcPaidAmount and computePaymentStatus; a cancellation leaves no balance.
Recalc(c) ==
  LET e == entity[c] IN
  /\ pc[c] = "recalc"
  /\ entity' = [entity EXCEPT ![c] =
       IF req[c].op = "CANCEL"
       THEN [e EXCEPT !.status = "CANCELLED", !.paid = e.total, !.pay = "CANCELLED"]
       ELSE [e EXCEPT !.paid = LiveSum, !.pay = PayStatus(LiveSum, e.total)]]
  /\ Goto(c, "reload")
  /\ UNCHANGED <<sale, amount, payment, lock, req, plan, new, alone>>

\* save(sale) reads the row again to see which columns it has to write.
Reload(c) ==
  LET differ == {k \in Columns : sale[k] # entity[c][k]} IN
  /\ pc[c] = "reload"
  /\ plan' = [plan EXCEPT ![c] = [k \in differ |-> entity[c][k]]]
  /\ Goto(c, "write")
  /\ UNCHANGED <<sale, amount, payment, lock, req, entity, new, alone>>

\* A payment request commits with the UPDATE.
WriteAndCommit(c) ==
  /\ At(c, "write", Paying)
  /\ plan[c] # <<>> => Free(c, Header)
  /\ sale' = Written(plan[c], sale)
  /\ plan' = [plan EXCEPT ![c] = <<>>]
  /\ Goto(c, "done")
  /\ UNCHANGED <<amount, payment, lock, req, entity, new, alone>>

WriteSale(c) ==
  /\ At(c, "write", InTx)
  /\ IF plan[c] = <<>> THEN UNCHANGED lock
                       ELSE Free(c, Header) /\ Take(c, {Header})
  /\ Goto(c, "commit")
  /\ UNCHANGED <<sale, amount, payment, req, entity, plan, new, alone>>

Commit(c) ==
  /\ pc[c] = "commit"
  /\ sale' = Written(plan[c], sale)
  /\ amount' = Written(new[c], amount)
  /\ Release(c)
  /\ plan' = [plan EXCEPT ![c] = <<>>]
  /\ new' = [new EXCEPT ![c] = <<>>]
  /\ Goto(c, "done")
  /\ UNCHANGED <<payment, req, entity, alone>>

Step(c) ==
  \/ ReadSale(c) \/ LockSale(c) \/ LockLines(c)
  \/ FindPayment(c) \/ VoidPayment(c) \/ InsertPayment(c)
  \/ WriteLine(c) \/ SumLines(c)
  \/ Recalc(c) \/ Reload(c) \/ WriteAndCommit(c) \/ WriteSale(c) \/ Commit(c)

Finished == (\A c \in Clerks : pc[c] \in {"done", "failed"}) /\ UNCHANGED paymentsVars

PaymentsNext == (\E c \in Clerks : Begin(c) \/ Step(c) \/ Fail(c)) \/ Finished

PaymentsSpec == PaymentsInit /\ [][PaymentsNext]_paymentsVars

-----------------------------------------------------------------------------
(* Properties. *)

Sale == [status : {"CONFIRMED", "CANCELLED"}, total : Nat, paid : Nat,
         pay : {"UNPAID", "PARTIAL", "PAID", "CANCELLED"}]

TypeOK ==
  /\ sale \in Sale
  /\ amount \in [Lines -> Nat]
  /\ payment \in [Payments -> [status : {"NONE", "ACTIVE", "UPDATED", "CANCELLED"},
                               amount : Nat]]
  /\ lock \in [Keys -> Clerks \cup {Nobody}]
  /\ pc \in [Clerks -> {"idle", "start", "find", "void", "insert", "lockLines", "line",
                        "sum", "recalc", "reload", "write", "commit", "done", "failed"}]
  /\ req \in [Clerks -> Request]
  /\ entity \in [Clerks -> Sale]
  /\ \A c \in Clerks : /\ DOMAIN plan[c] \subseteq Columns
                       /\ DOMAIN new[c] \subseteq Lines
  /\ alone \in [Clerks -> BOOLEAN]

\* The header as a request that ends has to leave it: the paid amount is the sum of
\* the payments that count, the payment status follows from it, and a request that
\* touched lines leaves their total; a cancellation leaves no balance.
EndsBalanced(c) ==
  pc[c] # "done" /\ pc'[c] = "done" =>
    IF req[c].op = "CANCEL"
    THEN sale'.status = "CANCELLED" /\ sale'.paid >= sale'.total
    ELSE /\ sale'.paid = LiveSum'
         /\ sale'.pay = PayStatus(sale'.paid, sale'.total)
         /\ req[c].op \in InTx => sale'.total = Total(amount')

\* Whatever overlapping or failed requests have left behind, a request that runs
\* with no other beside it ends with the header right.
SoloRequestBalances == [][\A c \in Clerks : alone[c] => EndsBalanced(c)]_paymentsVars
=============================================================================
