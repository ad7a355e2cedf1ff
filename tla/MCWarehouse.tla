---------------------------- MODULE MCWarehouse ----------------------------
(* Instances of Warehouse for TLC: two count lines, a putaway task, a wave   *)
(* and a picking task of 2 pieces created in it.                             *)
EXTENDS Warehouse

CONSTANTS l1, l2, put, pick, wave

Kinds == put :> "putaway" @@ pick :> "picking" @@ wave :> "wave"
Quantities == put :> 0 @@ pick :> 2 @@ wave :> 0
Waves == put :> Null @@ pick :> wave @@ wave :> Null

Line(op, l, e, n) == [op |-> op, line |-> l, expected |-> e, counted |-> n]
Task(op, t, n) == [op |-> op, task |-> t, picked |-> n]

\* A line with a difference, one without, one counted later.
CountRequests ==
  {Line("ADD", l1, 1, 2), Line("ADD", l1, 1, Null), Line("ADD", l2, 1, 0),
   Line("COUNT", l1, 0, 1), Line("COUNT", l1, 0, 3), Line("CLOSE", l1, 0, 0)}

TaskRequests ==
  {Task("CREATE", pick, 0), Task("ASSIGN", pick, 0), Task("COMPLETE", pick, 1),
        Task("COMPLETE", pick, 2), Task("CANCEL", pick, 0), Task("START", wave, 0),
        Task("COMPLETE", wave, 0), Task("COMPLETE", put, 0), Task("CANCEL", put, 0)}

\* Counts and tasks share no row; the picking task is created in every task workload.
AllWorkloads ==
  [Handlers -> CountRequests]
  \cup {w \in [Handlers -> TaskRequests] : \E h \in Handlers : w[h].op = "CREATE"}

HandlerSymmetry == Permutations(Handlers)
=============================================================================
