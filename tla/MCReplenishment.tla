-------------------------- MODULE MCReplenishment --------------------------
(* Instances of Replenishment for TLC.                                      *)
EXTENDS Replenishment

CONSTANTS r1, r2, c1, c2

Row(a, m, t) == [active |-> a, min |-> m, target |-> t]

\* Also a target below the minimum, for which one piece is suggested.
AllSettings == {Row(TRUE, 1, 2), Row(TRUE, 2, 1), Row(FALSE, 1, 2)}

\* Either the shop has two rules, one of them unchanged and short of stock, and one clerk;
\* or it has one rule and two clerks.
MCInit ==
  /\ Init
  /\ setting[r2] \in {Row(TRUE, 1, 2), Row(FALSE, 1, 2)}
  /\ stock[r2] = 0
MCNext ==
  /\ Next
  /\ setting'[r2] = setting[r2]
  /\ setting[r2].active => pc'[c2] = "idle"
MCSpec == MCInit /\ [][MCNext]_vars /\ \A p \in Schedulers : WF_vars(Scan(p))
=============================================================================
