---------------------------- MODULE StorePrices ----------------------------
(***************************************************************************)
(* PriceService: the prices that stores set for one variant over its       *)
(* default.  A handler reads the store's row (findOne), changes it, and    *)
(* saves it: TypeORM reads the row a second time and updates the columns   *)
(* in which the entity differs from it.  A change for several stores runs  *)
(* in one transaction; the others commit each statement.  Nothing is       *)
(* locked but the rows a transaction has written.                          *)
(*                                                                         *)
(* A store has at most one row (unique tenant, store, variant).            *)
(***************************************************************************)
EXTENDS Integers, Sequences, FiniteSets

CONSTANTS
  Stores,    \* the stores of the tenant
  Product,   \* stands for the row of the variant's product
  Handlers,  \* ids of requests, one run each
  Jobs,      \* Jobs[h]: what handler h may be asked to do
  DefaultUnit, DefaultTax  \* default sale price and tax percent of the variant

Null == -1
Fields == {"unitPrice", "currency", "discountPercent", "discountAmount", "taxPercent",
           "taxAmount"}
Columns == Fields \cup {"lineTotal", "isActive"}

\* A job changes the fields in the domain of its patch in all its stores, each once and in
\* this order, or removes the override of its one store.  A change for a whole product begins with the
\* product's defaults, which have the same fields.
Rows == Stores \cup {Product}

ASSUME PriceAssumption ==
  /\ \A h \in Handlers : \A j \in Jobs[h] :
       /\ j.kind \in {"set", "multi", "clear"}
       /\ j.todo \in Seq(Rows) /\ j.todo # <<>>
       /\ \A i, k \in DOMAIN j.todo : j.todo[i] = j.todo[k] => i = k
       /\ j.kind # "multi" => Len(j.todo) = 1 /\ j.todo[1] \in Stores
       /\ DOMAIN j.patch \subseteq Fields /\ j.patch \in [DOMAIN j.patch -> Nat \cup {Null}]
  /\ Product \notin Stores
  /\ DefaultUnit \in Nat /\ DefaultTax \in Nat

VARIABLES
  row,       \* row[s]: the store's row, or NoRow; and the product's
  job,       \* job[h]: the job of h, where it is, its entity and the columns to update
  pending,   \* pending[h]: rows its transaction has written but not committed
  disturbed, \* rows that two handlers have worked on at once (history)
  writers    \* writers[s]: handlers that have saved the row, in order (history)

priceVars == <<row, job, pending, disturbed, writers>>

NoRow == [id |-> "none"]
NoJob == [kind |-> "none", todo |-> <<>>, patch |-> <<>>, at |-> "idle", copy |-> NoRow,
          cols |-> {}]
Blank == [f \in Columns |-> IF f = "isActive" THEN TRUE ELSE Null]

-----------------------------------------------------------------------------
(* Amounts of a line, in cents. *)

Or(v, default) == IF v = Null THEN default ELSE v

\* calculateLineAmounts for a quantity: an amount goes before its percentage, and tax is
\* taken of what the discount leaves.
LineTotal(p, quantity) ==
  LET net      == quantity * Or(p.unitPrice, 0)
      discount == Or(p.discountAmount, (net * Or(p.discountPercent, 0)) \div 100)
      base     == net - discount
  IN  base + Or(p.taxAmount, (base * Or(p.taxPercent, 0)) \div 100)

\* The fields of params that are given replace those of the row; the total and whether the
\* row counts follow from what results.
\* MUTANT of Patched: the total is computed before the fields are replaced.
PatchedLate(r, patch) ==
  LET p == [f \in Columns |-> IF f \in DOMAIN patch THEN patch[f] ELSE r[f]] IN
  [p EXCEPT !.lineTotal = LineTotal(r, 1), !.isActive = \E f \in Fields : p[f] # Null]

Patched(r, patch) ==
  LET p == [f \in Columns |-> IF f \in DOMAIN patch THEN patch[f] ELSE r[f]] IN
  [p EXCEPT !.lineTotal = LineTotal(p, 1), !.isActive = \E f \in Fields : p[f] # Null]

\* The product's row has no isActive; here it is always set.
ProductRow ==
  [id |-> "product", val |-> Patched(Blank, [unitPrice |-> DefaultUnit, taxPercent |-> DefaultTax])]

PriceInit ==
  /\ row = [s \in Rows |-> IF s = Product THEN ProductRow ELSE NoRow]
  /\ job = [h \in Handlers |-> NoJob]
  /\ pending = [h \in Handlers |-> <<>>]
  /\ disturbed = {}
  /\ writers = [s \in Rows |-> <<>>]

\* buildEffectivePrice: an active row goes before the variant's defaults, field by field.
Effective(s) ==
  LET r == IF row[s] # NoRow /\ row[s].val.isActive THEN row[s].val ELSE Blank IN
  [unitPrice |-> Or(r.unitPrice, DefaultUnit), taxPercent |-> Or(r.taxPercent, DefaultTax),
   lineTotal |-> r.lineTotal, isStoreOverride |-> r # Blank]

-----------------------------------------------------------------------------
(* A handler's way through a job. *)

Store(h) == Head(job[h].todo)
Working(h) == job[h].at \in {"find", "compare", "write", "commit"}
WorksOn(h, s) == Working(h) /\ s \in {job[h].todo[i] : i \in DOMAIN job[h].todo} \cup DOMAIN pending[h]

\* Another transaction has written the row and has not ended.
Locked(h, s) == \E g \in Handlers \ {h} : s \in DOMAIN pending[g]

StartJob(h, j) ==
  LET stores == {j.todo[i] : i \in DOMAIN j.todo} IN
  /\ job[h].at = "idle"
  /\ job' = [job EXCEPT ![h] = [NoJob EXCEPT !.kind = j.kind, !.todo = j.todo,
                                             !.patch = j.patch, !.at = "find"]]
  /\ disturbed' = disturbed \cup {s \in stores : \E g \in Handlers : WorksOn(g, s)}
  /\ UNCHANGED <<row, pending, writers>>

\* findOne, and the changes to the entity; a new one gets an id of its own.
Find(h) ==
  LET old == row[Store(h)]
      val == IF old = NoRow THEN Blank ELSE old.val IN
  /\ job[h].at = "find"
  /\ IF job[h].kind = "clear"
     THEN job' = [job EXCEPT ![h].at = IF old = NoRow THEN "done" ELSE "write", ![h].copy = old]
     ELSE job' = [job EXCEPT ![h].at = "compare",
                    ![h].copy = [id  |-> IF old = NoRow THEN h ELSE old.id,
                                 val |-> Patched(val, job[h].patch)]]
  /\ UNCHANGED <<row, pending, disturbed, writers>>

\* save, first half: the columns that differ from the row with the entity's id; all of them
\* if there is no such row, for then it is inserted.
Differing(copy, old) ==
  IF old = NoRow \/ old.id # copy.id THEN Columns
  ELSE {c \in Columns : copy.val[c] # old.val[c]}

Compare(h) ==
  /\ job[h].at = "compare"
  /\ job' = [job EXCEPT ![h].at = "write", ![h].cols = Differing(job[h].copy, row[Store(h)])]
  /\ UNCHANGED <<row, pending, disturbed, writers>>

\* What a save makes of a row; it inserts when it has compared with none.
Saved(old, copy, cols) ==
  IF old = NoRow \/ cols = Columns THEN copy
  ELSE [id |-> old.id, val |-> [c \in Columns |-> IF c \in cols THEN copy.val[c] ELSE old.val[c]]]

\* The insert meets a row with another id; the update meets no row and changes nothing.
Refused(h) ==
  LET old == row[Store(h)] IN
  job[h].cols = Columns /\ old # NoRow /\ old.id # job[h].copy.id
Nothing(h) ==
  LET old == row[Store(h)] IN
  job[h].cols # Columns /\ (old = NoRow \/ old.id # job[h].copy.id)

After(h) == IF Len(job[h].todo) > 1 THEN "find"
            ELSE IF job[h].kind = "multi" THEN "commit" ELSE "done"

\* MUTANT of InTransaction: the rows of a change for several stores are committed one by one.
InNone(h) == FALSE

InTransaction(h) == job[h].kind = "multi"

\* save, second half.
Write(h) ==
  LET s == Store(h)  new == Saved(row[s], job[h].copy, job[h].cols) IN
  /\ job[h].at = "write" /\ job[h].kind # "clear"
  /\ ~Locked(h, s) /\ ~Refused(h)
  /\ job' = [job EXCEPT ![h].at = After(h), ![h].todo = Tail(@)]
  /\ IF InTransaction(h)
     THEN /\ pending' = [pending EXCEPT ![h] =
               [r \in DOMAIN @ \cup {s} |-> IF r # s THEN @[r]
                                          ELSE IF Nothing(h) THEN row[s] ELSE new]]
          /\ UNCHANGED <<row, writers>>
     ELSE /\ row' = [row EXCEPT ![s] = IF Nothing(h) THEN @ ELSE new]
          /\ writers' = [writers EXCEPT ![s] = Append(@, h)]
          /\ UNCHANGED pending
  /\ UNCHANGED disturbed

\* clearStoreOverride: remove deletes the row it has found, if it is still there.
Remove(h) ==
  LET s == Store(h) IN
  /\ job[h].at = "write" /\ job[h].kind = "clear" /\ ~Locked(h, s)
  /\ row' = [row EXCEPT ![s] = IF @ # NoRow /\ @.id = job[h].copy.id THEN NoRow ELSE @]
  /\ job' = [job EXCEPT ![h].at = "done", ![h].todo = <<>>]
  /\ writers' = [writers EXCEPT ![s] = Append(@, h)]
  /\ UNCHANGED <<pending, disturbed>>

Commit(h) ==
  /\ job[h].at = "commit"
  /\ row' = [s \in Rows |-> IF s \in DOMAIN pending[h] THEN pending[h][s] ELSE row[s]]
  /\ writers' = [s \in Rows |-> IF s \in DOMAIN pending[h] THEN Append(writers[s], h)
                                  ELSE writers[s]]
  /\ pending' = [pending EXCEPT ![h] = <<>>]
  /\ job' = [job EXCEPT ![h].at = "done"]
  /\ UNCHANGED disturbed

\* The insert is refused, the handler is the victim of a deadlock, or the connection breaks:
\* an open transaction is rolled back.
FailJob(h) ==
  /\ Working(h)
  /\ job' = [job EXCEPT ![h].at = "failed", ![h].todo = <<>>]
  /\ pending' = [pending EXCEPT ![h] = <<>>]
  /\ UNCHANGED <<row, disturbed, writers>>

JobStep(h) == Find(h) \/ Compare(h) \/ Write(h) \/ Remove(h) \/ Commit(h) \/ FailJob(h)

-----------------------------------------------------------------------------
(* Properties. *)

\* A row that handlers have worked on one after another adds up: its total is the one of its
\* fields, and it counts exactly if it overrides something.  (Two saves at once mix columns.)
RowsAddUp ==
  \A s \in Rows \ disturbed :
    row[s] # NoRow =>
      LET r == row[s].val IN
      /\ r.lineTotal = LineTotal(r, 1)
      /\ r.isActive = (\E f \in Fields : r[f] # Null)

\* setStorePriceForVariantMulti: a change for several stores is in all of them or in none;
\* where it was the last one and alone, the store's effective price shows it.
AllStoresOrNone ==
  \A h \in Handlers : job[h].kind = "multi" =>
    LET j == job[h]
        has == {s \in Rows : \E i \in DOMAIN writers[s] : writers[s][i] = h} IN
    /\ j.at # "done" => has = {}
    /\ j.at = "done" => \E k \in Jobs[h] :
         /\ k.patch = j.patch /\ has = {k.todo[i] : i \in DOMAIN k.todo}
         /\ \A s \in (has \cap Stores) \ disturbed :
              /\ writers[s][Len(writers[s])] = h
              /\ "unitPrice" \in DOMAIN k.patch /\ k.patch.unitPrice # Null
              => Effective(s).unitPrice = k.patch.unitPrice

\* getStorePriceComparisonReport shows the rows, and neither the inactive ones apart nor the
\* effective prices.
StorePriceComparison ==
  [s \in {t \in Stores : row[t] # NoRow} |->
     LET own == row[s].val.unitPrice IN
     [storePrice |-> own, hasCustomPrice |-> own # Null,
      priceDifference |-> IF own # Null THEN own - DefaultUnit ELSE 0]]

\* Yet what it shows as a store's price is what the store charges: the default and the
\* difference make the effective price (getEffectivePricesForStore).
ComparisonIsCharged ==
  \A s \in DOMAIN StorePriceComparison \ disturbed :
    LET r == StorePriceComparison[s] IN
    /\ Effective(s).unitPrice = DefaultUnit + r.priceDifference
    /\ r.hasCustomPrice => Effective(s).isStoreOverride

\* PriceService: rows that add up, changed in all stores of a request or in none.
PricesHold == RowsAddUp /\ AllStoresOrNone /\ ComparisonIsCharged
=============================================================================
