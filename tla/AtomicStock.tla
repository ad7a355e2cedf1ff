---------------------------- MODULE AtomicStock ----------------------------
(***************************************************************************)
(* What the stock promises its callers: a request takes effect at once or  *)
(* not at all, with the effect its items have one after the other on the   *)
(* stock that is there at that instant; the ledger of movements grows by   *)
(* exactly the difference, and no quantity is ever negative.               *)
(***************************************************************************)
EXTENDS Integers, Sequences

CONSTANTS Rows,       \* one per store and variant
          Requests    \* sequences of items [op, row, to, qty]

VARIABLES
  stock,   \* stock[r]: quantity a reader sees in the summary
  ledger   \* ledger[r]: sum of the movements a reader sees

Init == /\ stock \in [Rows -> Nat]
        /\ ledger = stock

\* The stock after item i on stock f.
After(f, i) ==
  LET out == IF i.op = "TRANSFER_ALL" THEN f[i.row] ELSE i.qty IN
  CASE i.op \in {"RECEIVE", "RETURN", "COUNT"} -> [f EXCEPT ![i.row] = @ + i.qty]
    [] i.op = "SELL" -> [f EXCEPT ![i.row] = @ - i.qty]
    [] OTHER -> [f EXCEPT ![i.row] = @ - out, ![i.to] = @ + out]

\* The stock after the first n items of q.
Serial(q) ==
  LET Run[n \in 0..Len(q)] == IF n = 0 THEN stock ELSE After(Run[n - 1], q[n])
  IN  Run[Len(q)]

Adjusted(q) == {q[i].row : i \in {j \in 1..Len(q) : q[j].op = "ADJUST"}}

\* An adjustment sets its rows to a quantity of its own (it reads them without
\* a lock, so not always to its target); every other request runs as if alone.
Effect(q) ==
  IF Adjusted(q) = {}
  THEN stock' = Serial(q)
  ELSE \A r \in Rows \ Adjusted(q) : stock'[r] = stock[r]

Serve == /\ \E q \in Requests : Effect(q)
         /\ \A r \in Rows : /\ stock'[r] - stock[r] = ledger'[r] - ledger[r]
                            /\ stock'[r] >= 0

Spec == Init /\ [][Serve]_<<stock, ledger>>
=============================================================================
