-------------------------- MODULE Warehouse_proofs --------------------------
(***************************************************************************)
(* Proofs about the warehouse, for every number of lines, tasks, waves and *)
(* handlers: its types, that rows of tasks make sense, that what is        *)
(* finished stays finished, and that a count line is adjusted once and a   *)
(* closed session booked, as long as requests about them do not overlap.   *)
(***************************************************************************)
EXTENDS Warehouse, TLAPS

SessionRow == [status : {"OPEN", "IN_PROGRESS", "CLOSED"}, closedAt : Handlers \cup {Null}]
LineRow == [exists : BOOLEAN, expected : Nat, counted : Nat \cup {Null}, adjusted : BOOLEAN]
Booking == [times : Nat, sum : Int]
Memory == [session : SessionRow, line : [Lines -> LineRow], task : TaskRow]
Columns == {"status", "assigned", "completedAt", "picked"}
Labels == {"idle", "findLine", "book", "save", "write", "insert", "saveLine", "commit",
           "saveTask", "writeTask", "done", "failed"}

TableTypes ==
  /\ session \in SessionRow
  /\ line \in [Lines -> LineRow]
  /\ booked \in [Lines -> Booking]
  /\ task \in [Tasks -> TaskRow]
  /\ lock \in [Lines \cup {Session} -> Handlers \cup {Null}]

HandlerTypes ==
  /\ pc \in [Handlers -> Labels]
  /\ req \in [Handlers -> Request]
  /\ loaded \in [Handlers -> Memory]
  /\ dirty \in [Handlers -> SUBSET (Lines \cup {Session} \cup Columns)]
  /\ todo \in [Handlers -> SUBSET Lines]
  /\ made \in [Handlers -> [Lines -> Booking]]

HistoryTypes == clash \in BOOLEAN /\ late \subseteq Lines /\ raced \subseteq Tasks

\* Where a handler may be with its request; the lines it has still to book are counted.
ControlOf(h) ==
  /\ pc[h] \in {"saveTask", "writeTask"} => req[h].op \in TaskOps
  /\ pc[h] = "saveTask" => req[h].op # "CREATE"
  /\ pc[h] \in {"findLine", "saveLine"} => req[h].op = "COUNT"
  /\ pc[h] = "insert" => req[h].op = "ADD"
  /\ pc[h] \in {"book", "commit"} => req[h].op = "CLOSE"
  /\ pc[h] \in {"save", "write"} => req[h].op \in {"ADD", "CLOSE"}
  /\ pc[h] = "book" => \A l \in todo[h] : loaded[h].line[l].counted \in Nat

Control == \A h \in Handlers : ControlOf(h)

Types == TableTypes /\ HandlerTypes /\ HistoryTypes /\ Control

-----------------------------------------------------------------------------
(* What a request and a row hold. *)

LEMMA RequestTypes ==
  ASSUME NEW h \in Handlers, req \in [Handlers -> Request]
  PROVE  /\ req[h].op \in CountOps => /\ req[h].line \in Lines /\ req[h].expected \in Nat
                                      /\ req[h].counted \in Nat \cup {Null}
         /\ req[h].op \in TaskOps => req[h].task \in Tasks /\ req[h].picked \in Nat
         /\ req[h].op \in CountOps \cup TaskOps
         /\ ~(req[h].op \in CountOps /\ req[h].op \in TaskOps)
<1>1. req[h] \in Request
  OBVIOUS
<1>2. CASE req[h] \in [op : CountOps, line : Lines, expected : Nat, counted : Nat \cup {Null}]
  BY <1>2 DEF CountOps, TaskOps
<1>3. CASE req[h] \in [op : TaskOps, task : Tasks, picked : Nat]
  BY <1>3 DEF CountOps, TaskOps
<1> QED
  BY <1>1, <1>2, <1>3 DEF Request

LEMMA NoTaskColumns == DOMAIN NoTask = Columns /\ NoTask \in TaskRow
BY DEF NoTask, Columns, TaskRow

\* A handler makes a row of the right type out of one.
LEMMA AfterType ==
  ASSUME NEW h \in Handlers, req \in [Handlers -> Request], req[h].op \in TaskOps,
         NEW x \in TaskRow
  PROVE  After(h, x) \in TaskRow
<1>1. req[h].picked \in Nat
  BY RequestTypes
<1>2. CASE req[h].op = "CREATE"
  BY <1>2 DEF After, NoTask, TaskRow
<1>3. CASE req[h].op = "START"
  BY <1>3 DEF After, TaskRow
<1>4. CASE req[h].op = "ASSIGN"
  BY <1>4 DEF After, TaskRow
<1>5. CASE req[h].op = "CANCEL"
  BY <1>5 DEF After, TaskRow
<1>6. CASE req[h].op = "COMPLETE"
  BY <1>1, <1>6 DEF After, TaskRow
<1> QED
  BY <1>2, <1>3, <1>4, <1>5, <1>6 DEF TaskOps

LEMMA DiffType ==
  ASSUME NEW x \in LineRow, x.counted \in Nat
  PROVE  Diff(x) \in Int /\ Marked(x) \in LineRow
<1>1. Diff(x) \in Int
  BY DEF Diff, LineRow
<1>2. [x EXCEPT !.adjusted = TRUE] \in LineRow
  BY Zenon DEF LineRow
<1> QED
  BY <1>1, <1>2 DEF Marked

-----------------------------------------------------------------------------
(* Types and control. *)

LEMMA InitTypes == Init => Types
<1> SUFFICES ASSUME Init PROVE Types
  OBVIOUS
<1> USE WarehouseAssumption
<1>1. NoLine \in LineRow /\ line \in [Lines -> LineRow]
  BY DEF Init, NoLine, LineRow
<1>2. session \in SessionRow
  BY DEF Init, SessionRow
<1>3. task \in [Tasks -> TaskRow]
  BY DEF Init, NoTask, TaskRow
<1>4. Nothing \in [Lines -> Booking]
  BY DEF Nothing, Booking
<1>5. TableTypes
  BY <1>1, <1>2, <1>3, <1>4 DEF Init, TableTypes
<1>6. HandlerTypes
  <2>1. loaded \in [Handlers -> Memory]
    BY <1>1, <1>2, NoTaskColumns DEF Init, Memory
  <2>2. req \in [Handlers -> Request]
    BY DEF Init, WarehouseAssumption
  <2> QED
    BY <2>1, <2>2, <1>4 DEF Init, HandlerTypes, Labels
<1>7. HistoryTypes /\ Control
  BY DEF Init, HistoryTypes, Control, ControlOf
<1> QED
  BY <1>5, <1>6, <1>7 DEF Types

LEMMA TypesStep ==
  ASSUME Types, NEW h \in Handlers, Step(h)
  PROVE  Types'
<1> USE DEF Types
<1>0. TableTypes /\ HandlerTypes /\ HistoryTypes /\ Control /\ ControlOf(h)
  BY DEF Control
<1>r. /\ req[h].op \in CountOps => /\ req[h].line \in Lines /\ req[h].expected \in Nat
                                   /\ req[h].counted \in Nat \cup {Null}
      /\ req[h].op \in TaskOps => req[h].task \in Tasks /\ req[h].picked \in Nat
      /\ req[h].op \in CountOps \cup TaskOps
      /\ ~(req[h].op \in CountOps /\ req[h].op \in TaskOps)
  BY <1>0, RequestTypes DEF HandlerTypes
<1>1. CASE FindSession(h)
  <2>1. loaded' \in [Handlers -> Memory]
    BY <1>0, <1>1 DEF FindSession, TableTypes, HandlerTypes, Memory
  <2>2. todo' \in [Handlers -> SUBSET Lines]
    BY <1>0, <1>1 DEF FindSession, HandlerTypes, ToBook, Existing
  <2>3. pc' \in [Handlers -> Labels]
    BY <1>0, <1>1 DEF FindSession, HandlerTypes, Goto, Labels
  <2>4. TableTypes' /\ HandlerTypes'
    BY <1>0, <1>1, <2>1, <2>2, <2>3 DEF FindSession, TableTypes, HandlerTypes
  <2>5. HistoryTypes'
    BY <1>0, <1>1 DEF FindSession, HistoryTypes
  <2>6. ControlOf(h)'
    <3>1. \A l \in todo'[h] : loaded'[h].line[l].counted \in Nat
      BY <1>0, <1>1 DEF FindSession, ToBook, Existing, TableTypes, HandlerTypes, LineRow, Memory
    <3>2. req[h].op \in {"ADD", "COUNT", "CLOSE"} /\ req' = req
      BY <1>1 DEF FindSession, At, CountOps
    <3>3. CASE req[h].op = "COUNT"
      <4>1. pc'[h] = "findLine"
        BY <1>0, <1>1, <3>3 DEF FindSession, Goto, HandlerTypes
      <4> QED
        BY <3>2, <3>3, <4>1 DEF ControlOf
    <3>4. CASE req[h].op = "CLOSE"
      <4>1. pc'[h] = "book"
        BY <1>0, <1>1, <3>4 DEF FindSession, Goto, HandlerTypes
      <4> QED
        BY <3>1, <3>2, <3>4, <4>1 DEF ControlOf
    <3>5. CASE req[h].op = "ADD"
      <4>1. pc'[h] \in {"save", "insert"}
        BY <1>0, <1>1, <3>5 DEF FindSession, Goto, HandlerTypes
      <4> QED
        BY <3>2, <3>5, <4>1 DEF ControlOf
    <3> QED
      BY <3>2, <3>3, <3>4, <3>5
  <2>7. ASSUME NEW g \in Handlers, g # h PROVE ControlOf(g)'
    BY <1>0, <1>1, <2>7 DEF FindSession, Goto, HandlerTypes, Control, ControlOf
  <2> QED
    BY <2>4, <2>5, <2>6, <2>7 DEF Control
<1>2. CASE ReloadSession(h)
  <2>1. dirty' \in [Handlers -> SUBSET (Lines \cup {Session} \cup Columns)]
    BY <1>0, <1>2 DEF ReloadSession, HandlerTypes, Existing
  <2>2. TableTypes' /\ HandlerTypes' /\ HistoryTypes'
    BY <1>0, <1>2, <2>1 DEF ReloadSession, Goto, TableTypes, HandlerTypes, HistoryTypes, Labels,
                            history
  <2>3. Control'
    BY <1>0, <1>2 DEF ReloadSession, Goto, HandlerTypes, Control, ControlOf
  <2> QED
    BY <2>2, <2>3
<1>3. CASE WriteSession(h)
  <2>1. CASE req[h].op = "CLOSE"
    <3>1. lock' \in [Lines \cup {Session} -> Handlers \cup {Null}]
      BY <1>0, <1>3, <2>1 DEF WriteSession, Take, TableTypes
    <3>2. TableTypes' /\ HandlerTypes' /\ HistoryTypes'
      BY <1>0, <1>3, <2>1, <3>1 DEF WriteSession, Goto, TableTypes, HandlerTypes, HistoryTypes,
                                    Labels, history
    <3>3. Control'
      BY <1>0, <1>3, <2>1 DEF WriteSession, Goto, HandlerTypes, Control, ControlOf
    <3> QED
      BY <3>2, <3>3
  <2>2. CASE req[h].op # "CLOSE"
    <3>1. session' \in SessionRow
      <4>1. loaded[h].session \in SessionRow
        BY <1>0 DEF HandlerTypes, Memory
      <4>2. Wanted(h) \in SessionRow
        BY <2>2, <4>1 DEF Wanted, SessionRow
      <4> QED
        BY <1>0, <1>3, <2>2, <4>2 DEF WriteSession, SessionOf, TableTypes
    <3>2. line' \in [Lines -> LineRow]
      BY <1>0, <1>3, <2>2 DEF WriteSession, LinesOf, TableTypes, HandlerTypes, Memory
    <3>3. TableTypes' /\ HandlerTypes' /\ HistoryTypes'
      BY <1>0, <1>3, <2>2, <3>1, <3>2 DEF WriteSession, Goto, TableTypes, HandlerTypes,
                                          HistoryTypes, Labels, history
    <3>4. Control'
      BY <1>0, <1>3, <2>2 DEF WriteSession, Goto, HandlerTypes, Control, ControlOf
    <3> QED
      BY <3>3, <3>4
  <2> QED
    BY <2>1, <2>2
<1>4. CASE InsertLine(h)
  <2>1. req[h].op = "ADD"
    BY <1>0, <1>4 DEF InsertLine, ControlOf
  <2>2. line' \in [Lines -> LineRow] /\ late' \subseteq Lines
    BY <1>0, <1>4, <2>1, <1>r DEF InsertLine, TableTypes, HistoryTypes, LineRow, CountOps
  <2>3. TableTypes' /\ HandlerTypes' /\ HistoryTypes'
    BY <1>0, <1>4, <2>2 DEF InsertLine, Goto, TableTypes, HandlerTypes, HistoryTypes, Labels
  <2>4. Control'
    BY <1>0, <1>4 DEF InsertLine, Goto, HandlerTypes, Control, ControlOf
  <2> QED
    BY <2>3, <2>4
<1>5. CASE FindLine(h)
  <2>1. req[h].op = "COUNT" /\ req[h].op \in CountOps
    BY <1>0, <1>5 DEF FindLine, ControlOf, CountOps
  <2>2. loaded' \in [Handlers -> Memory]
    <3> DEFINE l == req[h].line
               x == [line[l] EXCEPT !.counted = req[h].counted]
    <3>1. x \in LineRow /\ l \in Lines
      BY <1>0, <1>r, <2>1 DEF TableTypes, LineRow
    <3>2. loaded[h] \in Memory
      BY <1>0 DEF HandlerTypes
    <3>3. loaded' = [loaded EXCEPT ![h].line[l] = x]
      BY <1>5 DEF FindLine
    <3> HIDE DEF x, l
    <3>4. [loaded[h] EXCEPT !.line[l] = x] \in Memory
      BY <3>1, <3>2 DEF Memory
    <3> QED
      BY <1>0, <3>3, <3>4 DEF HandlerTypes
  <2>3. TableTypes' /\ HandlerTypes' /\ HistoryTypes'
    BY <1>0, <1>5, <2>2 DEF FindLine, Goto, TableTypes, HandlerTypes, HistoryTypes, Labels,
                            history
  <2>4. ControlOf(h)'
    BY <1>0, <1>5, <2>1 DEF FindLine, Goto, HandlerTypes, ControlOf
  <2>5. ASSUME NEW g \in Handlers, g # h PROVE ControlOf(g)'
    BY <1>0, <1>5, <2>5 DEF FindLine, Goto, HandlerTypes, Control, ControlOf
  <2> QED
    BY <2>3, <2>4, <2>5 DEF Control
<1>6. CASE UpdateLine(h)
  <2>1. req[h].op \in CountOps
    BY <1>6 DEF UpdateLine, At, CountOps
  <2>2. line' \in [Lines -> LineRow] /\ late' \subseteq Lines
    BY <1>0, <1>6, <2>1, <1>r DEF UpdateLine, TableTypes, HandlerTypes, HistoryTypes, Memory
  <2>3. TableTypes' /\ HandlerTypes' /\ HistoryTypes'
    BY <1>0, <1>6, <2>2 DEF UpdateLine, Goto, TableTypes, HandlerTypes, HistoryTypes, Labels
  <2>4. Control'
    BY <1>0, <1>6 DEF UpdateLine, Goto, HandlerTypes, Control, ControlOf
  <2> QED
    BY <2>3, <2>4
<1>7. CASE BookLine(h)
  <2>1. PICK l \in todo[h] :
          /\ Take(h, {l})
          /\ made' = IF Diff(loaded[h].line[l]) = 0 THEN made
                     ELSE [made EXCEPT ![h][l] = [times |-> 1, sum |-> Diff(loaded[h].line[l])]]
          /\ loaded' = [loaded EXCEPT ![h].line[l] = Marked(loaded[h].line[l])]
          /\ dirty' = [dirty EXCEPT ![h] = @ \cup {l}]
          /\ todo' = [todo EXCEPT ![h] = @ \ {l}]
    BY <1>7 DEF BookLine
  <2>2. /\ pc[h] = "book" /\ pc' = pc /\ req' = req
        /\ UNCHANGED <<session, line, booked, task, history>>
    BY <1>7 DEF BookLine
  <2>3. l \in Lines /\ loaded[h].line[l] \in LineRow /\ loaded[h].line[l].counted \in Nat
    BY <1>0, <2>2 DEF HandlerTypes, Memory, ControlOf
  <2> DEFINE x == Marked(loaded[h].line[l])
             d == Diff(loaded[h].line[l])
  <2>4. x \in LineRow /\ d \in Int /\ x.counted \in Nat
    BY <2>3, DiffType DEF Marked, LineRow
  <2>5. made' = (IF d = 0 THEN made ELSE [made EXCEPT ![h][l] = [times |-> 1, sum |-> d]])
    BY <2>1
  <2>6. loaded' = [loaded EXCEPT ![h].line[l] = x]
    BY <2>1
  <2> HIDE DEF x, d
  <2>7. made' \in [Handlers -> [Lines -> Booking]]
    BY <1>0, <2>3, <2>4, <2>5 DEF HandlerTypes, Booking
  <2>8. loaded' \in [Handlers -> Memory] /\ \A k \in Lines \ {l} :
          loaded'[h].line[k] = loaded[h].line[k]
    <3>1. loaded[h] \in Memory
      BY <1>0 DEF HandlerTypes
    <3>2. [loaded[h] EXCEPT !.line[l] = x] \in Memory
      BY <2>3, <2>4, <3>1 DEF Memory
    <3> QED
      BY <1>0, <2>6, <3>1, <3>2 DEF HandlerTypes, Memory
  <2>9. dirty' \in [Handlers -> SUBSET (Lines \cup {Session} \cup Columns)]
        /\ todo' \in [Handlers -> SUBSET Lines]
    BY <1>0, <2>1, <2>3 DEF HandlerTypes
  <2>10. lock' \in [Lines \cup {Session} -> Handlers \cup {Null}]
    BY <1>0, <2>1 DEF Take, TableTypes
  <2>11. TableTypes' /\ HandlerTypes' /\ HistoryTypes'
    BY <1>0, <2>2, <2>7, <2>8, <2>9, <2>10 DEF TableTypes, HandlerTypes, HistoryTypes, history
  <2>12. ControlOf(h)'
    BY <1>0, <2>1, <2>2, <2>8 DEF HandlerTypes, ControlOf
  <2>13. ASSUME NEW g \in Handlers, g # h PROVE ControlOf(g)'
    <3>1. loaded'[g] = loaded[g] /\ todo'[g] = todo[g]
      BY <1>0, <2>1, <2>6, <2>13 DEF HandlerTypes
    <3> QED
      BY <1>0, <2>2, <3>1 DEF Control, ControlOf
  <2> QED
    BY <2>11, <2>12, <2>13 DEF Control
<1>8. CASE AllBooked(h)
  <2>1. TableTypes' /\ HandlerTypes' /\ HistoryTypes'
    BY <1>0, <1>8 DEF AllBooked, Goto, TableTypes, HandlerTypes, HistoryTypes, Labels, history
  <2>2. Control'
    BY <1>0, <1>8 DEF AllBooked, Goto, HandlerTypes, Control, ControlOf
  <2> QED
    BY <2>1, <2>2
<1>9. CASE CommitClosing(h)
  <2>1. session' \in SessionRow
    <3>1. Wanted(h) \in SessionRow
      BY <1>0, <1>9 DEF CommitClosing, ControlOf, Wanted, SessionRow
    <3> QED
      BY <1>0, <1>9, <3>1 DEF CommitClosing, SessionOf, TableTypes
  <2>2. line' \in [Lines -> LineRow]
    BY <1>0, <1>9 DEF CommitClosing, LinesOf, TableTypes, HandlerTypes, Memory
  <2>3. booked' \in [Lines -> Booking]
    <3>1. \A l \in Lines : booked[l] \in Booking /\ made[h][l] \in Booking
      BY <1>0 DEF TableTypes, HandlerTypes
    <3> QED
      BY <1>9, <3>1 DEF CommitClosing, Booking
  <2>4. lock' \in [Lines \cup {Session} -> Handlers \cup {Null}]
    BY <1>0, <1>9 DEF CommitClosing, Release, TableTypes
  <2>5. TableTypes' /\ HandlerTypes' /\ HistoryTypes'
    BY <1>0, <1>9, <2>1, <2>2, <2>3, <2>4 DEF CommitClosing, Goto, TableTypes, HandlerTypes,
                                              HistoryTypes, Labels, history
  <2>6. Control'
    BY <1>0, <1>9 DEF CommitClosing, Goto, HandlerTypes, Control, ControlOf
  <2> QED
    BY <2>5, <2>6
<1>10. CASE FindTask(h)
  <2>1. req[h].op \in TaskOps
    BY <1>10 DEF FindTask, At
  <2>2. After(h, task[req[h].task]) \in TaskRow
    BY <1>0, <1>r, <2>1, AfterType DEF TableTypes, HandlerTypes
  <2>3. loaded' \in [Handlers -> Memory] /\ \A g \in Handlers : loaded'[g].line = loaded[g].line
    BY <1>0, <1>10, <2>2 DEF FindTask, HandlerTypes, Memory
  <2>4. dirty' \in [Handlers -> SUBSET (Lines \cup {Session} \cup Columns)]
    BY <1>0, <1>10, NoTaskColumns DEF FindTask, HandlerTypes
  <2>5. raced' \subseteq Tasks
    BY <1>0, <1>10, <1>r, <2>1, WarehouseAssumption
       DEF FindTask, HistoryTypes, Rows, WarehouseAssumption
  <2>6. TableTypes' /\ HandlerTypes' /\ HistoryTypes'
    BY <1>0, <1>10, <2>3, <2>4, <2>5 DEF FindTask, Goto, TableTypes, HandlerTypes, HistoryTypes,
                                         Labels
  <2>7. Control'
    BY <1>0, <1>10, <2>1, <2>3 DEF FindTask, Goto, HandlerTypes, Control, ControlOf
  <2> QED
    BY <2>6, <2>7
<1>11. CASE ReloadTask(h)
  <2>1. dirty' \in [Handlers -> SUBSET (Lines \cup {Session} \cup Columns)]
    BY <1>0, <1>11, NoTaskColumns DEF ReloadTask, HandlerTypes
  <2>2. TableTypes' /\ HandlerTypes' /\ HistoryTypes'
    BY <1>0, <1>11, <2>1 DEF ReloadTask, Goto, TableTypes, HandlerTypes, HistoryTypes, Labels,
                             history
  <2>3. Control'
    BY <1>0, <1>11 DEF ReloadTask, Goto, HandlerTypes, Control, ControlOf
  <2> QED
    BY <2>2, <2>3
<1>12. CASE WriteTask(h)
  <2>1. task' \in [Tasks -> TaskRow]
    <3> DEFINE t == req[h].task
               row == [k \in Columns |-> IF k \in dirty[h] THEN loaded[h].task[k] ELSE task[t][k]]
    <3>1. t \in Tasks /\ task[t] \in TaskRow /\ loaded[h].task \in TaskRow
      BY <1>0, <1>12, <1>r DEF WriteTask, ControlOf, TableTypes, HandlerTypes, Memory
    <3>2. row \in TaskRow
      <4> DEFINE col(k) == IF k \in dirty[h] THEN loaded[h].task[k] ELSE task[t][k]
      <4>1. row = [status |-> col("status"), assigned |-> col("assigned"),
                   completedAt |-> col("completedAt"), picked |-> col("picked")]
        BY DEF Columns
      <4> QED
        BY <3>1, <4>1 DEF TaskRow
    <3>3. task' = [task EXCEPT ![t] = row]
      BY <1>12, NoTaskColumns DEF WriteTask
    <3> QED
      BY <1>0, <3>1, <3>2, <3>3 DEF TableTypes
  <2>2. TableTypes' /\ HandlerTypes' /\ HistoryTypes'
    BY <1>0, <1>12, <2>1 DEF WriteTask, Goto, TableTypes, HandlerTypes, HistoryTypes, Labels,
                             history
  <2>3. Control'
    BY <1>0, <1>12 DEF WriteTask, Goto, HandlerTypes, Control, ControlOf
  <2> QED
    BY <2>2, <2>3
<1>13. CASE Fail(h)
  <2>1. lock' \in [Lines \cup {Session} -> Handlers \cup {Null}]
    BY <1>0, <1>13 DEF Fail, Release, TableTypes
  <2>2. TableTypes' /\ HandlerTypes' /\ HistoryTypes'
    BY <1>0, <1>13, <2>1 DEF Fail, Goto, TableTypes, HandlerTypes, HistoryTypes, Labels, history
  <2>3. Control'
    BY <1>0, <1>13 DEF Fail, Goto, HandlerTypes, Control, ControlOf
  <2> QED
    BY <2>2, <2>3
<1> QED
  BY <1>1, <1>2, <1>3, <1>4, <1>5, <1>6, <1>7, <1>8, <1>9, <1>10, <1>11, <1>12, <1>13 DEF Step
LEMMA StutterTypes == Types /\ UNCHANGED vars => Types'
BY DEF Types, TableTypes, HandlerTypes, HistoryTypes, Control, ControlOf, vars

-----------------------------------------------------------------------------
(* Tasks.  A handler that is about to save a row nobody else works on has  *)
(* in memory what it makes of the row as it still is.                      *)

Busy(h) == Active(h) /\ req[h].op \in TaskOps

\* The status in which FindTask lets a request about a task through.
Lets(op, s) ==
  CASE op = "CREATE" -> s = "NONE"
    [] op = "START" -> s = "OPEN"
    [] op = "CANCEL" -> s \notin {"NONE", "COMPLETED"}
    [] OTHER -> s \notin {"NONE", "COMPLETED", "CANCELLED"}

\* What FindTask has found is still so.
Fresh(h) ==
  LET t == req[h].task  w == InWave[t] IN
  t \notin raced =>
    /\ loaded[h].task = After(h, task[t])
    /\ Lets(req[h].op, task[t].status)
    /\ req[h].op = "CREATE" => Kind[t] = "picking"
    /\ req[h].op = "START" => Kind[t] = "wave"
    /\ req[h].op = "CREATE" /\ w # Null /\ w \notin raced => task[w].status # "COMPLETED"
    /\ pc[h] = "writeTask" =>
         dirty[h] = IF req[h].op = "CREATE" THEN Columns
                    ELSE {k \in Columns : loaded[h].task[k] # task[t][k]}

Apart == \A g, h \in Handlers : g # h /\ Busy(g) /\ Busy(h) => Rows(g) \cap Rows(h) \subseteq raced
AllFresh == \A h \in Handlers : pc[h] \in {"saveTask", "writeTask"} => Fresh(h)
LocksOfClosings == \A k \in DOMAIN lock : lock[k] # Null => Closing(lock[k])

Sound == Types /\ Apart /\ AllFresh /\ TasksMakeSense /\ LocksOfClosings

LEMMA InitSound == Init => Sound
<1> SUFFICES ASSUME Init PROVE Sound
  OBVIOUS
<1>1. Types
  BY InitTypes
<1>2. Apart /\ AllFresh
  BY DEF Init, Apart, AllFresh, Busy, Active
<1>3. TasksMakeSense
  BY DEF Init, TasksMakeSense, NoTask
<1>4. LocksOfClosings
  BY DEF Init, LocksOfClosings
<1> QED
  BY <1>1, <1>2, <1>3, <1>4 DEF Sound

\* A row that is written becomes what the handler has made of it.
LEMMA WrittenRow ==
  ASSUME Sound, NEW h \in Handlers, WriteTask(h), req[h].task \notin raced
  PROVE  task'[req[h].task] = After(h, task[req[h].task])
<1> DEFINE t == req[h].task
           new == After(h, task[t])
<1>1. /\ req[h].op \in TaskOps /\ t \in Tasks /\ task \in [Tasks -> TaskRow]
      /\ req \in [Handlers -> Request]
  BY RequestTypes DEF Sound, Types, TableTypes, HandlerTypes, Control, ControlOf, WriteTask
<1>2. Fresh(h) /\ pc[h] = "writeTask"
  BY DEF Sound, AllFresh, WriteTask
<1>3. loaded[h].task = new
  BY <1>2 DEF Fresh
<1>4. new \in TaskRow
  BY <1>1, AfterType
<1> HIDE DEF new
<1>5. task'[t] = [k \in Columns |-> IF k \in dirty[h] THEN new[k] ELSE task[t][k]]
  BY <1>1, <1>3, NoTaskColumns DEF WriteTask
<1>6. \A k \in Columns : (IF k \in dirty[h] THEN new[k] ELSE task[t][k]) = new[k]
  BY <1>2, <1>3 DEF Fresh
<1>7. new = [k \in Columns |-> new[k]]
  BY <1>4 DEF TaskRow, Columns
<1>8. task'[t] = [k \in Columns |-> new[k]]
  BY <1>5, <1>6
<1> QED
  BY <1>7, <1>8 DEF new

\* Every step but FindTask leaves what handlers of tasks are about as it is.
LEMMA BusyStep ==
  ASSUME Types, NEW h \in Handlers, Step(h), ~FindTask(h)
  PROVE  \A g \in Handlers : Busy(g)' => Busy(g)
<1>0. ControlOf(h) /\ pc \in [Handlers -> Labels] /\ req \in [Handlers -> Request]
  BY DEF Types, Control, HandlerTypes
<1>1. CASE FindSession(h)
  <2>1. req[h].op \in CountOps /\ req' = req
    BY <1>1 DEF FindSession, At
  <2>2. req[h].op \notin TaskOps
    BY <2>1 DEF CountOps, TaskOps
  <2> QED
    BY <1>0, <1>1, <2>1, <2>2 DEF FindSession, Goto, Busy, Active
<1>2. CASE ReloadSession(h)
  BY <1>0, <1>2 DEF ReloadSession, Goto, Busy, Active
<1>3. CASE WriteSession(h)
  BY <1>0, <1>3 DEF WriteSession, Goto, Busy, Active
<1>4. CASE InsertLine(h)
  BY <1>0, <1>4 DEF InsertLine, Goto, Busy, Active
<1>5. CASE FindLine(h)
  BY <1>0, <1>5 DEF FindLine, Goto, Busy, Active
<1>6. CASE UpdateLine(h)
  BY <1>0, <1>6 DEF UpdateLine, Goto, Busy, Active
<1>7. CASE BookLine(h)
  BY <1>0, <1>7 DEF BookLine, Busy, Active
<1>8. CASE AllBooked(h)
  BY <1>0, <1>8 DEF AllBooked, Goto, Busy, Active
<1>9. CASE CommitClosing(h)
  BY <1>0, <1>9 DEF CommitClosing, Goto, Busy, Active
<1>11. CASE ReloadTask(h)
  BY <1>0, <1>11 DEF ReloadTask, Goto, Busy, Active
<1>12. CASE WriteTask(h)
  BY <1>0, <1>12 DEF WriteTask, Goto, Busy, Active
<1>13. CASE Fail(h)
  BY <1>0, <1>13 DEF Fail, Goto, Busy, Active
<1> QED
  BY <1>1, <1>2, <1>3, <1>4, <1>5, <1>6, <1>7, <1>8, <1>9, <1>11, <1>12, <1>13 DEF Step

\* What is fresh stays so when nothing that it speaks of changes.
LEMMA FreshKept ==
  ASSUME NEW g \in Handlers, Fresh(g), task' = task, raced \subseteq raced', req' = req,
         loaded'[g] = loaded[g], dirty'[g] = dirty[g], pc'[g] = pc[g]
  PROVE  Fresh(g)'
<1>1. \A x : After(g, x)' = After(g, x)
  BY DEF After, Short
<1> QED
  BY <1>1 DEF Fresh

\* Rows of tasks.  Steps about counts leave everything about tasks alone.
LEMMA CountSteps ==
  ASSUME Types, NEW h \in Handlers, Step(h), ~FindTask(h), ~ReloadTask(h), ~WriteTask(h)
  PROVE  /\ task' = task /\ raced' = raced /\ req' = req
         /\ pc'[h] \notin {"saveTask", "writeTask"}
         /\ \A g \in Handlers \ {h} :
              pc'[g] = pc[g] /\ loaded'[g] = loaded[g] /\ dirty'[g] = dirty[g]
<1>0. HandlerTypes
  BY DEF Types
<1>1. CASE FindSession(h)
  <2>1. req[h].op \in {"ADD", "COUNT", "CLOSE"}
    BY <1>1 DEF FindSession, At, CountOps
  <2>2. req[h].op = "COUNT" => pc'[h] = "findLine"
    BY <1>0, <1>1 DEF FindSession, Goto, HandlerTypes
  <2>3. req[h].op = "CLOSE" => pc'[h] = "book"
    BY <1>0, <1>1 DEF FindSession, Goto, HandlerTypes
  <2>4. req[h].op = "ADD" => pc'[h] \in {"save", "insert"}
    BY <1>0, <1>1 DEF FindSession, Goto, HandlerTypes
  <2> QED
    BY <1>0, <1>1, <2>1, <2>2, <2>3, <2>4 DEF FindSession, Goto, HandlerTypes
<1>2. CASE ReloadSession(h)
  BY <1>0, <1>2 DEF ReloadSession, Goto, HandlerTypes, history
<1>3. CASE WriteSession(h)
  BY <1>0, <1>3 DEF WriteSession, Goto, HandlerTypes, history
<1>4. CASE InsertLine(h)
  BY <1>0, <1>4 DEF InsertLine, Goto, HandlerTypes
<1>5. CASE FindLine(h)
  BY <1>0, <1>5 DEF FindLine, Goto, HandlerTypes, history
<1>6. CASE UpdateLine(h)
  BY <1>0, <1>6 DEF UpdateLine, Goto, HandlerTypes
<1>7. CASE BookLine(h)
  BY <1>0, <1>7 DEF BookLine, HandlerTypes, history
<1>8. CASE AllBooked(h)
  BY <1>0, <1>8 DEF AllBooked, Goto, HandlerTypes, history
<1>9. CASE CommitClosing(h)
  BY <1>0, <1>9 DEF CommitClosing, Goto, HandlerTypes, history
<1>10. CASE Fail(h)
  BY <1>0, <1>10 DEF Fail, Goto, HandlerTypes, history
<1> QED
  BY <1>1, <1>2, <1>3, <1>4, <1>5, <1>6, <1>7, <1>8, <1>9, <1>10 DEF Step

LEMMA ApartStep ==
  ASSUME Types, Apart, NEW h \in Handlers, Step(h)
  PROVE  Apart'
<1>1. CASE FindTask(h)
  <2>0. HandlerTypes
    BY DEF Types
  <2>1. raced' = raced \cup {x \in Rows(h) : \E g \in Handlers \ {h} :
                               Active(g) /\ req[g].op \in TaskOps /\ x \in Rows(g)}
    BY <1>1 DEF FindTask
  <2>2. req' = req /\ \A g \in Handlers \ {h} : pc'[g] = pc[g]
    BY <2>0, <1>1 DEF FindTask, Goto, HandlerTypes
  <2>3. \A g \in Handlers : Rows(g)' = Rows(g)
    BY <2>2 DEF Rows
  <2>4. \A g \in Handlers \ {h} : Busy(g)' <=> Busy(g)
    BY <2>2 DEF Busy, Active
  <2>5. \A g \in Handlers \ {h} : Busy(g) => Rows(g) \cap Rows(h) \subseteq raced'
    BY <2>1 DEF Busy
  <2> QED
    BY <2>1, <2>3, <2>4, <2>5 DEF Apart
<1>2. CASE ~FindTask(h)
  <2>1. \A g \in Handlers : Busy(g)' => Busy(g)
    BY <1>2, BusyStep
  <2>2. raced' = raced /\ req' = req
    BY <1>2, CountSteps DEF ReloadTask, WriteTask, history
  <2>3. \A g \in Handlers : Rows(g)' = Rows(g)
    BY <2>2 DEF Rows
  <2> QED
    BY <2>1, <2>2, <2>3 DEF Apart
<1> QED
  BY <1>1, <1>2

LEMMA TasksStep ==
  ASSUME Sound, NEW h \in Handlers, Step(h)
  PROVE  AllFresh' /\ TasksMakeSense'
<1>0. Types /\ TableTypes /\ HandlerTypes /\ ControlOf(h)
  BY DEF Sound, Types, Control
<1>1. CASE FindTask(h)
  <2>1. /\ task' = task /\ raced \subseteq raced' /\ req' = req
        /\ \A g \in Handlers \ {h} :
             pc'[g] = pc[g] /\ loaded'[g] = loaded[g] /\ dirty'[g] = dirty[g]
    BY <1>0, <1>1 DEF FindTask, Goto, HandlerTypes
  <2>2. \A g \in Handlers \ {h} : pc'[g] \in {"saveTask", "writeTask"} => Fresh(g)'
    BY <2>1, FreshKept DEF Sound, AllFresh
  <2>3. Fresh(h)'
    <3>1. /\ loaded'[h].task = After(h, task[req[h].task])
          /\ pc'[h] = (IF req[h].op = "CREATE" THEN "writeTask" ELSE "saveTask")
          /\ req[h].op = "CREATE" => dirty'[h] = Columns
          /\ Allowed(h) /\ req[h].op \in TaskOps
      BY <1>0, <1>1, NoTaskColumns DEF FindTask, Goto, HandlerTypes, At, Memory
    <3>2. /\ Lets(req[h].op, task[req[h].task].status)
          /\ req[h].op = "CREATE" => Kind[req[h].task] = "picking"
          /\ req[h].op = "START" => Kind[req[h].task] = "wave"
          /\ req[h].op = "CREATE" /\ InWave[req[h].task] # Null =>
               task[InWave[req[h].task]].status # "COMPLETED"
      BY <3>1 DEF Allowed, Lets, TaskOps
    <3>3. After(h, task[req[h].task])' = After(h, task[req[h].task])
      BY <2>1 DEF After, Short
    <3> QED
      BY <2>1, <3>1, <3>2, <3>3 DEF Fresh
  <2>4. TasksMakeSense'
    BY <2>1 DEF Sound, TasksMakeSense
  <2> QED
    BY <2>2, <2>3, <2>4 DEF AllFresh
<1>2. CASE ReloadTask(h)
  <2>1. /\ task' = task /\ raced' = raced /\ req' = req /\ loaded' = loaded
        /\ \A g \in Handlers \ {h} : pc'[g] = pc[g] /\ dirty'[g] = dirty[g]
        /\ pc[h] = "saveTask" /\ pc'[h] = "writeTask"
        /\ dirty'[h] = {k \in Columns : loaded[h].task[k] # task[req[h].task][k]}
    BY <1>0, <1>2, NoTaskColumns DEF ReloadTask, Goto, HandlerTypes, history
  <2>2. \A g \in Handlers \ {h} : pc'[g] \in {"saveTask", "writeTask"} => Fresh(g)'
    BY <2>1, FreshKept DEF Sound, AllFresh
  <2>3. Fresh(h)'
    <3>1. Fresh(h) /\ req[h].op # "CREATE"
      BY <1>0, <2>1 DEF Sound, AllFresh, ControlOf
    <3>2. After(h, task[req[h].task])' = After(h, task[req[h].task])
      BY <2>1 DEF After, Short
    <3> QED
      BY <2>1, <3>1, <3>2 DEF Fresh
  <2>4. TasksMakeSense'
    BY <2>1 DEF Sound, TasksMakeSense
  <2> QED
    BY <2>2, <2>3, <2>4 DEF AllFresh
<1>3. CASE WriteTask(h)
  <2> DEFINE t == req[h].task
  <2>1. /\ raced' = raced /\ req' = req /\ loaded' = loaded /\ dirty' = dirty
        /\ pc[h] = "writeTask" /\ pc'[h] = "done" /\ \A g \in Handlers \ {h} : pc'[g] = pc[g]
        /\ req[h].op \in TaskOps /\ t \in Tasks
        /\ \A u \in Tasks \ {t} : task'[u] = task[u]
    BY <1>0, <1>3, RequestTypes
       DEF WriteTask, Goto, TableTypes, HandlerTypes, ControlOf, history
  <2>2. ASSUME NEW g \in Handlers, pc'[g] \in {"saveTask", "writeTask"} PROVE Fresh(g)'
    <3> DEFINE u == req[g].task
               w == InWave[u]
    <3>1. g # h /\ Fresh(g) /\ req[g].op \in TaskOps /\ u \in Tasks
      BY <1>0, <2>1, <2>2, RequestTypes
         DEF Sound, Types, Control, ControlOf, AllFresh, HandlerTypes
    <3>2. Rows(g) \cap Rows(h) \subseteq raced
      BY <2>1, <2>2, <3>1 DEF Sound, Apart, Busy, Active
    <3>3. u \notin raced => task'[u] = task[u]
      BY <2>1, <3>1, <3>2 DEF Rows
    <3>4. w # Null /\ w \notin raced => w \in Tasks /\ task'[w] = task[w]
      BY <2>1, <3>1, <3>2, WarehouseAssumption DEF Rows, WarehouseAssumption
    <3>5. \A x : After(g, x)' = After(g, x)
      BY <2>1 DEF After, Short
    <3> QED
      BY <2>1, <2>2, <3>1, <3>3, <3>4, <3>5 DEF Fresh
  <2>3. ASSUME NEW u \in Tasks \ raced PROVE
          LET x == task'[u] IN
          /\ x.status \in {"COMPLETED", "SHORT_PICK"} => x.completedAt # Null
          /\ Kind[u] = "picking" =>
               /\ x.status = "COMPLETED" => x.picked >= Asked[u]
               /\ x.status = "SHORT_PICK" => x.picked < Asked[u]
    <3>1. CASE u # t
      BY <2>1, <3>1 DEF Sound, TasksMakeSense
    <3>2. CASE u = t
      <4>1. task'[t] = After(h, task[t]) /\ task[t] \in TaskRow
        BY <1>0, <1>3, <2>1, <3>2, WrittenRow DEF TableTypes
      <4>2. /\ req[h].picked \in Nat /\ Asked[t] \in Nat /\ h # Null
            /\ req[h].op = "CREATE" => Kind[t] = "picking"
        BY <1>0, <2>1, <2>3, <3>2, RequestTypes, WarehouseAssumption
           DEF Sound, AllFresh, Fresh, HandlerTypes, WarehouseAssumption
      <4>3. CASE req[h].op = "COMPLETE"
        <5>1. /\ task'[t].status = (IF Short(h) THEN "SHORT_PICK" ELSE "COMPLETED")
              /\ task'[t].completedAt = h
              /\ Kind[t] = "picking" => task'[t].picked = req[h].picked
          BY <4>1, <4>3 DEF After, TaskRow
        <5>2. Short(h) <=> Kind[t] = "picking" /\ req[h].picked < Asked[t]
          BY DEF Short
        <5> HIDE DEF t
        <5> QED
          BY <3>2, <4>2, <5>1, <5>2
      <4>4. CASE req[h].op # "COMPLETE"
        <5>1. task'[t].status \notin {"COMPLETED", "SHORT_PICK"}
          BY <2>1, <4>1, <4>4 DEF After, TaskOps, NoTask, TaskRow
        <5> QED
          BY <3>2, <5>1
      <4> QED
        BY <4>3, <4>4
    <3> QED
      BY <3>1, <3>2
  <2> QED
    BY <2>1, <2>2, <2>3 DEF AllFresh, TasksMakeSense
<1>4. CASE ~FindTask(h) /\ ~ReloadTask(h) /\ ~WriteTask(h)
  <2>1. /\ task' = task /\ raced' = raced /\ req' = req
        /\ pc'[h] \notin {"saveTask", "writeTask"}
        /\ \A g \in Handlers \ {h} :
             pc'[g] = pc[g] /\ loaded'[g] = loaded[g] /\ dirty'[g] = dirty[g]
    BY <1>0, <1>4, CountSteps
  <2>2. AllFresh'
    BY <2>1, FreshKept DEF Sound, AllFresh
  <2>3. TasksMakeSense'
    BY <2>1 DEF Sound, TasksMakeSense
  <2> QED
    BY <2>2, <2>3
<1> QED
  BY <1>1, <1>2, <1>3, <1>4

LEMMA LocksStep ==
  ASSUME Types, LocksOfClosings, NEW h \in Handlers, Step(h)
  PROVE  LocksOfClosings'
<1>0. /\ TableTypes /\ HandlerTypes /\ ControlOf(h) /\ req \in [Handlers -> Request]
      /\ DOMAIN lock = Lines \cup {Session}
      /\ \A k \in DOMAIN lock : lock[k] \in Handlers \cup {Null}
  BY DEF Types, Control, TableTypes, HandlerTypes
<1>1. CASE FindSession(h)
  <2>1. ~Closing(h) /\ lock' = lock /\ req' = req
        /\ \A g \in Handlers \ {h} : pc'[g] = pc[g]
    BY <1>0, <1>1 DEF FindSession, At, Closing, Active, Goto, HandlerTypes
  <2> QED
    BY <1>0, <2>1 DEF LocksOfClosings, Closing, Active
<1>2. CASE ReloadSession(h)
  BY <1>0, <1>2 DEF ReloadSession, Goto, LocksOfClosings, Closing, Active, HandlerTypes
<1>3. CASE WriteSession(h)
  <2>1. CASE req[h].op = "CLOSE"
    BY <1>0, <1>3, <2>1
       DEF WriteSession, Take, Goto, LocksOfClosings, Closing, Active, HandlerTypes
  <2>2. CASE req[h].op # "CLOSE"
    BY <1>0, <1>3, <2>2 DEF WriteSession, Goto, LocksOfClosings, Closing, Active, HandlerTypes
  <2> QED
    BY <2>1, <2>2
<1>4. CASE InsertLine(h)
  <2>1. ~Closing(h) /\ lock' = lock /\ req' = req
        /\ \A g \in Handlers \ {h} : pc'[g] = pc[g]
    BY <1>0, <1>4 DEF InsertLine, ControlOf, Closing, Goto, HandlerTypes
  <2> QED
    BY <1>0, <2>1 DEF LocksOfClosings, Closing, Active
<1>5. CASE FindLine(h)
  BY <1>0, <1>5 DEF FindLine, Goto, LocksOfClosings, Closing, Active, HandlerTypes
<1>6. CASE UpdateLine(h)
  <2>1. ~Closing(h) /\ lock' = lock /\ req' = req
        /\ \A g \in Handlers \ {h} : pc'[g] = pc[g]
    BY <1>0, <1>6 DEF UpdateLine, At, Closing, Goto, HandlerTypes
  <2> QED
    BY <1>0, <2>1 DEF LocksOfClosings, Closing, Active
<1>7. CASE BookLine(h)
  <2>1. PICK l \in todo[h] : Take(h, {l})
    BY <1>7 DEF BookLine
  <2>2. pc' = pc /\ req' = req /\ Closing(h)
    BY <1>0, <1>7 DEF BookLine, Closing, Active, ControlOf
  <2> QED
    BY <1>0, <2>1, <2>2 DEF Take, LocksOfClosings, Closing, Active
<1>8. CASE AllBooked(h)
  BY <1>0, <1>8 DEF AllBooked, Goto, LocksOfClosings, Closing, Active, HandlerTypes
<1>9. CASE CommitClosing(h) \/ Fail(h)
  <2>1. /\ Release(h) /\ req' = req /\ \A g \in Handlers \ {h} : pc'[g] = pc[g]
    BY <1>0, <1>9 DEF CommitClosing, Fail, Goto, HandlerTypes
  <2>2. \A k \in DOMAIN lock' : lock'[k] # Null =>
          lock'[k] = lock[k] /\ lock[k] \in Handlers \ {h} /\ k \in DOMAIN lock
    BY <1>0, <2>1 DEF Release
  <2> QED
    BY <2>1, <2>2 DEF LocksOfClosings, Closing, Active
<1>10. CASE FindTask(h)
  <2>1. ~Closing(h) /\ lock' = lock /\ req' = req
        /\ \A g \in Handlers \ {h} : pc'[g] = pc[g]
    BY <1>0, <1>10 DEF FindTask, At, Closing, Active, Goto, HandlerTypes
  <2> QED
    BY <1>0, <2>1 DEF LocksOfClosings, Closing, Active
<1>11. CASE ReloadTask(h)
  BY <1>0, <1>11 DEF ReloadTask, Goto, LocksOfClosings, Closing, Active, HandlerTypes
<1>12. CASE WriteTask(h)
  <2>1. ~Closing(h) /\ lock' = lock /\ req' = req
        /\ \A g \in Handlers \ {h} : pc'[g] = pc[g]
    BY <1>0, <1>12 DEF WriteTask, ControlOf, TaskOps, Closing, Goto, HandlerTypes
  <2> QED
    BY <1>0, <2>1 DEF LocksOfClosings, Closing, Active
<1> QED
  BY <1>1, <1>2, <1>3, <1>4, <1>5, <1>6, <1>7, <1>8, <1>9, <1>10, <1>11, <1>12 DEF Step

LEMMA SoundStep == Sound /\ [Next]_vars => Sound'
<1> SUFFICES ASSUME Sound, [Next]_vars PROVE Sound'
  OBVIOUS
<1>1. ASSUME NEW h \in Handlers, Step(h) PROVE Sound'
  BY <1>1, TypesStep, ApartStep, TasksStep, LocksStep DEF Sound
<1>2. CASE UNCHANGED vars
  <2>1. \A g \in Handlers : Fresh(g) => Fresh(g)'
    BY <1>2, FreshKept DEF vars
  <2>2. Types'
    BY <1>2, StutterTypes DEF Sound
  <2>3. Apart' /\ AllFresh'
    BY <1>2, <2>1 DEF Sound, vars, Apart, AllFresh, Busy, Active, Rows
  <2>4. TasksMakeSense' /\ LocksOfClosings'
    BY <1>2 DEF Sound, vars, TasksMakeSense, LocksOfClosings, Closing, Active
  <2> QED
    BY <2>2, <2>3, <2>4 DEF Sound
<1> QED
  BY <1>1, <1>2 DEF Next, Finished

-----------------------------------------------------------------------------

\* Rows of sessions, lines, tasks and waves have their types, rows of tasks make sense when
\* requests about them did not overlap (completeTask, completePick), and only a closing
\* under way holds locks.
THEOREM WarehouseTypes == Spec => []TypeOK
<1>1. Init => Sound
  BY InitSound
<1>2. Sound /\ [Next]_vars => Sound'
  BY SoundStep
<1>3. Sound => TypeOK
  BY DEF Sound, Types, TableTypes, HistoryTypes, SessionRow, LineRow, Booking, TypeOK,
         LocksOfClosings
<1> QED
  BY <1>1, <1>2, <1>3, PTL DEF Spec

\* What FinishedStaysFinished says of one step.
Kept ==
  \A t \in Tasks : t \notin raced' =>
    /\ task[t].status \in {"COMPLETED", "CANCELLED"} => task'[t] = task[t]
    /\ task[t].status = "NONE" /\ task'[t] # task[t] /\ InWave[t] # Null
         /\ InWave[t] \notin raced' =>
         task[InWave[t]].status # "COMPLETED"

LEMMA FinishedStep == Sound /\ [Next]_vars => Kept
<1> SUFFICES ASSUME Sound, [Next]_vars, task' # task,
                    NEW t \in Tasks, t \notin raced'
             PROVE  /\ task[t].status \in {"COMPLETED", "CANCELLED"} => task'[t] = task[t]
                    /\ task[t].status = "NONE" /\ task'[t] # task[t] /\ InWave[t] # Null
                         /\ InWave[t] \notin raced' =>
                         task[InWave[t]].status # "COMPLETED"
  BY DEF Kept
<1>1. Types /\ TableTypes /\ HandlerTypes
  BY DEF Sound, Types
<1>2. PICK h \in Handlers : Step(h)
  BY DEF Next, Finished, vars
<1>3. WriteTask(h)
  BY <1>1, <1>2, CountSteps DEF FindTask, ReloadTask
<1>4. raced' = raced /\ pc[h] = "writeTask" /\ Fresh(h) /\ req[h].op \in TaskOps
  BY <1>1, <1>3 DEF WriteTask, history, Sound, AllFresh, Types, Control, ControlOf
<1>5. CASE t # req[h].task
  <2>1. task'[t] = task[t]
    BY <1>1, <1>3, <1>5 DEF WriteTask, TableTypes
  <2> QED
    BY <2>1
<1>6. CASE t = req[h].task
  <2>1. task'[t] = After(h, task[t]) /\ task[t] \in TaskRow
    BY <1>1, <1>3, <1>4, <1>6, WrittenRow DEF TableTypes
  <2>2. Lets(req[h].op, task[t].status)
    BY <1>4, <1>6 DEF Fresh
  <2>3. CASE task[t].status \in {"COMPLETED", "CANCELLED"}
    <3>1. req[h].op = "CANCEL" /\ task[t].status = "CANCELLED"
      BY <1>4, <2>2, <2>3 DEF Lets, TaskOps
    <3>2. After(h, task[t]) = [task[t] EXCEPT !.status = "CANCELLED"]
      BY <3>1 DEF After
    <3> QED
      BY <2>1, <3>1, <3>2 DEF TaskRow
  <2>4. CASE task[t].status = "NONE"
    <3>1. req[h].op = "CREATE"
      BY <1>4, <2>2, <2>4 DEF Lets, TaskOps
    <3> QED
      BY <1>4, <1>6, <2>4, <3>1 DEF Fresh
  <2> QED
    BY <2>3, <2>4
<1> QED
  BY <1>5, <1>6

\* A task or wave that is completed or cancelled never changes again, and a wave that is
\* completed gets no new picking task, as long as requests about it do not overlap
\* (completeTask, cancelTask, assignTask, createPickingTask of the warehouse).
THEOREM FinishedForGood == Spec => FinishedStaysFinished
<1>1. Init => Sound
  BY InitSound
<1>2. Sound /\ [Next]_vars => Sound'
  BY SoundStep
<1>3. Sound /\ [Next]_vars => Kept
  BY FinishedStep
<1> QED
  BY <1>1, <1>2, <1>3, PTL DEF Spec, FinishedStaysFinished, Kept

-----------------------------------------------------------------------------
(* Counts: what a closing holds of the lines, and what it has booked. *)

Untouched == [times |-> 0, sum |-> 0]
Adjustment(x) == IF Diff(x) = 0 THEN Untouched ELSE [times |-> 1, sum |-> Diff(x)]
Bookable(x) == x.exists /\ ~x.adjusted /\ x.counted # Null

\* A closing runs without another one and without new counts.
ClosesAlone ==
  /\ \A g, h \in Handlers : Closing(g) /\ Closing(h) => g = h
  /\ \A g, h \in Handlers : ~(Closing(g) /\ Counting(h))
  /\ session.status = "CLOSED" => \A h \in Handlers : ~Counting(h)

\* No line is there before its session is in progress; the first ADD saves the session alone.
Opens ==
  /\ session.status = "OPEN" => \A l \in Lines : ~line[l].exists
  /\ \A h \in Handlers :
       /\ pc[h] = "insert" => session.status # "OPEN"
       /\ pc[h] \in {"save", "write"} /\ req[h].op = "ADD" =>
            /\ \A l \in Lines : ~loaded[h].line[l].exists
            /\ dirty[h] \subseteq {Session}
            /\ pc[h] = "write" /\ Session \notin dirty[h] => session.status # "OPEN"

\* A closing has a line as it is in the table, or as it has booked it.
Books(h, l) ==
  LET x == loaded[h].line[l]  y == line[l] IN
  /\ ~x.exists => l \notin todo[h] \cup dirty[h] /\ made[h][l] = Untouched
  /\ x.exists =>
       /\ y.exists
       /\ l \in todo[h] => Bookable(y)
       /\ IF Bookable(y) /\ l \notin todo[h] THEN x = Marked(y) /\ made[h][l] = Adjustment(y)
          ELSE x = y /\ made[h][l] = Untouched
  /\ pc[h] \in {"write", "commit"} =>
       /\ x.exists /\ x # y => l \in dirty[h]
       /\ y.exists => x.exists \/ l \in late

ClosesLines(h) ==
  /\ pc[h] = "idle" => dirty[h] = {} /\ made[h] = Nothing
  /\ Closing(h) /\ pc[h] # "book" => todo[h] = {}
  /\ Closing(h) => \A l \in Lines : Books(h, l)

\* A new count changes nothing but the quantity.
CountsLine(h) ==
  pc[h] = "saveLine" =>
    LET l == req[h].line  x == loaded[h].line[l] IN
    line[l].exists /\ x.exists /\ x.adjusted = line[l].adjusted

\* A line is marked when it is adjusted, and what it was counted as is what was booked.
Adjusted(l) ==
  LET x == line[l] IN
  /\ ~x.exists => ~x.adjusted
  /\ booked[l].times = IF x.adjusted THEN 1 ELSE 0
  /\ ~x.adjusted => booked[l].sum = 0
  /\ x.adjusted /\ l \notin late => x.counted # Null /\ booked[l].sum = Diff(x)
  /\ session.status = "CLOSED" /\ l \notin late /\ Bookable(x) => Diff(x) = 0

Counted ==
  ~clash =>
    /\ ClosesAlone /\ Opens
    /\ \A h \in Handlers : ClosesLines(h) /\ CountsLine(h)
    /\ \A l \in Lines : Adjusted(l)

LEMMA InitCounted == Init => Counted
<1> SUFFICES ASSUME Init PROVE Counted
  OBVIOUS
<1>1. \A h \in Handlers : pc[h] = "idle" /\ dirty[h] = {} /\ made[h] = Nothing
  BY DEF Init
<1>2. \A l \in Lines : line[l].exists = FALSE /\ line[l].adjusted = FALSE
  BY DEF Init, NoLine
<1>3. \A l \in Lines : booked[l].times = 0 /\ booked[l].sum = 0
  BY DEF Init, Nothing
<1>4. session.status = "OPEN"
  BY DEF Init
<1>5. ClosesAlone
  BY <1>1, <1>4 DEF ClosesAlone, Closing, Counting, Active
<1>6. Opens
  BY <1>1, <1>2 DEF Opens
<1>7. \A h \in Handlers : ClosesLines(h) /\ CountsLine(h)
  BY <1>1 DEF ClosesLines, CountsLine, Closing, Active
<1>8. \A l \in Lines : Adjusted(l)
  BY <1>2, <1>3, <1>4 DEF Adjusted
<1> QED
  BY <1>5, <1>6, <1>7, <1>8 DEF Counted

\* A handler's step leaves the memory of the others alone.
Same(g) ==
  /\ pc'[g] = pc[g] /\ loaded'[g] = loaded[g] /\ dirty'[g] = dirty[g] /\ todo'[g] = todo[g]
  /\ made'[g] = made[g]

LEMMA OthersSame ==
  ASSUME Types, NEW h \in Handlers, Step(h)
  PROVE  req' = req /\ \A g \in Handlers \ {h} : Same(g)
<1>0. HandlerTypes
  BY DEF Types
<1>1. CASE FindSession(h) \/ FindTask(h)
  BY <1>0, <1>1 DEF FindSession, FindTask, Goto, Same, HandlerTypes
<1>2. CASE ReloadSession(h) \/ AllBooked(h) \/ ReloadTask(h) \/ WriteTask(h) \/ Fail(h)
  BY <1>0, <1>2 DEF ReloadSession, AllBooked, ReloadTask, WriteTask, Fail, Goto, Same, HandlerTypes
<1>3. CASE WriteSession(h)
  BY <1>0, <1>3 DEF WriteSession, Goto, Same, HandlerTypes
<1>4. CASE InsertLine(h) \/ UpdateLine(h) \/ CommitClosing(h)
  BY <1>0, <1>4 DEF InsertLine, UpdateLine, CommitClosing, Goto, Same, HandlerTypes
<1>5. CASE FindLine(h)
  BY <1>0, <1>5 DEF FindLine, Goto, Same, HandlerTypes
<1>6. CASE BookLine(h)
  BY <1>0, <1>6 DEF BookLine, Same, HandlerTypes
<1> QED
  BY <1>1, <1>2, <1>3, <1>4, <1>5, <1>6 DEF Step

\* A handler that serves a count has found its session before.
LEMMA GoesOn ==
  ASSUME Types, NEW h \in Handlers, Step(h), ~FindSession(h)
  PROVE  (Closing(h)' => Closing(h)) /\ (Counting(h)' => Counting(h))
<1>1. req' = req
  BY OthersSame
<1>2. FindTask(h) => ~(req[h].op \in {"CLOSE", "COUNT"})
  BY DEF FindTask, At, TaskOps
<1>3. ~FindTask(h) => Active(h)
  BY DEF Step, ReloadSession, WriteSession, InsertLine, FindLine, UpdateLine, BookLine, AllBooked,
         CommitClosing, ReloadTask, WriteTask, Fail, At, Active
<1> QED
  BY <1>1, <1>2, <1>3 DEF Closing, Counting

LEMMA AloneStep ==
  ASSUME Types, Counted, ~clash', NEW h \in Handlers, Step(h)
  PROVE  ~clash /\ ClosesAlone'
<1>1. req' = req /\ \A g \in Handlers \ {h} :
        (Closing(g)' <=> Closing(g)) /\ (Counting(g)' <=> Counting(g))
  BY OthersSame DEF Same, Closing, Counting, Active
<1>2. CASE FindSession(h)
  <2>1. ~clash /\ session' = session /\ session.status # "CLOSED" /\ req[h].op \in CountOps
    BY <1>2 DEF FindSession, At
  <2>2. ClosesAlone
    BY <2>1 DEF Counted
  <2>3. req[h].op = "CLOSE" => \A g \in Handlers \ {h} : ~Closing(g) /\ ~Counting(g)
    BY <1>2 DEF FindSession
  <2>4. req[h].op = "COUNT" => \A g \in Handlers \ {h} : ~Closing(g)
    BY <1>2 DEF FindSession
  <2>5. (Closing(h)' => req[h].op = "CLOSE") /\ (Counting(h)' => req[h].op = "COUNT")
    BY <1>1 DEF Closing, Counting
  <2> QED
    BY <1>1, <2>1, <2>2, <2>3, <2>4, <2>5 DEF ClosesAlone
<1>3. CASE ~FindSession(h)
  <2>1. clash' = clash
    BY <1>3 DEF Step, ReloadSession, WriteSession, InsertLine, FindLine, UpdateLine, BookLine,
           AllBooked, CommitClosing, FindTask, ReloadTask, WriteTask, Fail, history
  <2>2. ClosesAlone /\ Opens
    BY <2>1 DEF Counted
  <2>3. (Closing(h)' => Closing(h)) /\ (Counting(h)' => Counting(h))
    BY <1>3, GoesOn
  <2>4. session'.status = "CLOSED" => session.status = "CLOSED" \/ Closing(h)
    <3>1. CASE CommitClosing(h)
      BY <3>1 DEF CommitClosing, Closing, Active, Types, Control, ControlOf
    <3>2. CASE WriteSession(h) /\ req[h].op # "CLOSE"
      <4>1. session' = SessionOf(h) /\ Wanted(h).status = "IN_PROGRESS"
        <5>1. loaded[h].session \in SessionRow
          BY DEF Types, HandlerTypes, Memory
        <5> QED
          BY <3>2, <5>1 DEF WriteSession, Wanted, SessionRow
      <4> QED
        BY <4>1 DEF SessionOf
    <3>3. CASE ~CommitClosing(h) /\ ~(WriteSession(h) /\ req[h].op # "CLOSE")
      <4>1. session' = session
        BY <1>3, <3>3 DEF Step, ReloadSession, WriteSession, InsertLine, FindLine, UpdateLine,
             BookLine, AllBooked, FindTask, ReloadTask, WriteTask, Fail
      <4> QED
        BY <4>1
    <3> QED
      BY <3>1, <3>2, <3>3
  <2> QED
    BY <1>1, <2>1, <2>2, <2>3, <2>4 DEF ClosesAlone
<1> QED
  BY <1>2, <1>3

LEMMA SessionMovesOn ==
  ASSUME Types, NEW h \in Handlers, Step(h)
  PROVE  /\ session'.status = "OPEN" => session.status = "OPEN"
         /\ WriteSession(h) /\ req[h].op # "CLOSE" =>
              session' = session \/ session'.status = "IN_PROGRESS"
         /\ ~CommitClosing(h) /\ ~(WriteSession(h) /\ req[h].op # "CLOSE") => session' = session
<1>1. loaded[h].session \in SessionRow
  BY DEF Types, HandlerTypes, Memory
<1>2. CASE CommitClosing(h)
  <2>1. Wanted(h).status = "CLOSED"
    BY <1>2 DEF CommitClosing, Types, Control, ControlOf, Wanted
  <2> QED
    BY <1>2, <2>1 DEF CommitClosing, SessionOf, WriteSession
<1>3. CASE WriteSession(h) /\ req[h].op # "CLOSE"
  <2>1. Wanted(h).status = "IN_PROGRESS"
    BY <1>1, <1>3 DEF Wanted, SessionRow
  <2>2. session' = Wanted(h) \/ session' = session
    BY <1>3 DEF WriteSession, SessionOf
  <2> QED
    BY <1>3, <2>1, <2>2
<1>4. CASE ~CommitClosing(h) /\ ~(WriteSession(h) /\ req[h].op # "CLOSE")
  <2>1. session' = session
    BY <1>4 DEF Step, FindSession, ReloadSession, WriteSession, InsertLine, FindLine, UpdateLine,
         BookLine, AllBooked, FindTask, ReloadTask, WriteTask, Fail
  <2> QED
    BY <1>4, <2>1
<1> QED
  BY <1>2, <1>3, <1>4

\* The first ADD writes the session and no line.
LEMMA AddWritesSession ==
  ASSUME Types, Opens, NEW h \in Handlers, WriteSession(h), req[h].op # "CLOSE"
  PROVE  line' = line /\ req[h].op = "ADD" /\ dirty[h] \subseteq {Session}
<1>1. req[h].op = "ADD" /\ pc[h] = "write"
  BY DEF WriteSession, Types, Control, ControlOf
<1>2. dirty[h] \subseteq {Session}
  BY <1>1 DEF Opens
<1>3. \A l \in Lines : l \notin dirty[h]
  BY <1>2, WarehouseAssumption
<1>4. line' = LinesOf(h) /\ line \in [Lines -> LineRow]
  BY <1>1 DEF WriteSession, Types, TableTypes
<1>5. LinesOf(h) = [l \in Lines |-> line[l]]
  BY <1>3 DEF LinesOf
<1> QED
  BY <1>1, <1>2, <1>4, <1>5

LEMMA OpensStep ==
  ASSUME Types, Counted, ~clash, NEW h \in Handlers, Step(h)
  PROVE  Opens'
<1>0. /\ ClosesAlone /\ Opens /\ ClosesLines(h) /\ CountsLine(h) /\ HandlerTypes /\ TableTypes
      /\ ControlOf(h)
  BY DEF Counted, Types, Control
<1>1. session'.status = "OPEN" => session.status = "OPEN"
  BY SessionMovesOn
<1>2. ASSUME session'.status = "OPEN", NEW l \in Lines PROVE ~line'[l].exists
  <2>1. session.status = "OPEN" /\ \A k \in Lines : ~line[k].exists
    BY <1>0, <1>1, <1>2 DEF Opens
  <2>2. CASE InsertLine(h)
    BY <1>0, <2>1, <2>2 DEF InsertLine, Opens
  <2>3. CASE UpdateLine(h)
    <3>1. req[h].line \in Lines
      BY <1>0, <2>3, RequestTypes DEF UpdateLine, At, HandlerTypes, CountOps
    <3> QED
      BY <1>0, <2>1, <2>3, <3>1 DEF UpdateLine, At, CountsLine
  <2>4. CASE CommitClosing(h)
    <3>1. Closing(h)
      BY <1>0, <2>4 DEF CommitClosing, Closing, Active, ControlOf
    <3>2. ~loaded[h].line[l].exists
      BY <1>0, <2>1, <3>1 DEF ClosesLines, Books
    <3> QED
      BY <2>1, <2>4, <3>2 DEF CommitClosing, LinesOf
  <2>5. CASE WriteSession(h)
    <3>1. line' = line
      BY <1>0, <2>5, AddWritesSession DEF WriteSession
    <3> QED
      BY <2>1, <3>1
  <2>6. CASE ~(InsertLine(h) \/ UpdateLine(h) \/ CommitClosing(h) \/ WriteSession(h))
    <3>1. line' = line
      BY <2>6 DEF Step, FindSession, ReloadSession, FindLine, BookLine, AllBooked, FindTask,
           ReloadTask, WriteTask, Fail
    <3> QED
      BY <2>1, <3>1
  <2> QED
    BY <2>2, <2>3, <2>4, <2>5, <2>6
<1>3. ASSUME NEW g \in Handlers \ {h}
      PROVE  /\ pc'[g] = "insert" => session'.status # "OPEN"
             /\ pc'[g] \in {"save", "write"} /\ req'[g].op = "ADD" =>
                  /\ \A l \in Lines : ~loaded'[g].line[l].exists
                  /\ dirty'[g] \subseteq {Session}
                  /\ pc'[g] = "write" /\ Session \notin dirty'[g] => session'.status # "OPEN"
  <2>1. Same(g) /\ req' = req
    BY OthersSame
  <2> QED
    BY <1>0, <1>1, <2>1 DEF Opens, Same
<1>4. /\ pc'[h] = "insert" => session'.status # "OPEN"
      /\ pc'[h] \in {"save", "write"} /\ req'[h].op = "ADD" =>
           /\ \A l \in Lines : ~loaded'[h].line[l].exists
           /\ dirty'[h] \subseteq {Session}
           /\ pc'[h] = "write" /\ Session \notin dirty'[h] => session'.status # "OPEN"
  <2>1. CASE FindSession(h)
    <3>1. /\ pc[h] = "idle" /\ dirty' = dirty /\ session' = session /\ req' = req
          /\ req[h].op \in {"ADD", "COUNT", "CLOSE"} /\ loaded'[h].line = line
          /\ req[h].op = "COUNT" => pc'[h] = "findLine"
          /\ req[h].op = "CLOSE" => pc'[h] = "book"
      BY <1>0, <2>1 DEF FindSession, At, CountOps, Goto, HandlerTypes, Memory
    <3>2. req[h].op = "ADD" => pc'[h] = (IF session.status = "OPEN" THEN "save" ELSE "insert")
      BY <1>0, <2>1 DEF FindSession, Goto, HandlerTypes
    <3> QED
      BY <1>0, <3>1, <3>2 DEF Opens, ClosesLines
  <2>2. CASE ReloadSession(h)
    <3>1. /\ pc[h] = "save" /\ pc'[h] = "write" /\ loaded' = loaded /\ session' = session
          /\ req' = req /\ Orphans(h) = {}
          /\ dirty'[h] = dirty[h] \cup {l \in Existing : loaded[h].line[l] # line[l]}
                           \cup {k \in {Session} : Wanted(h) # session}
      BY <1>0, <2>2 DEF ReloadSession, Goto, HandlerTypes
    <3>2. ASSUME req[h].op = "ADD"
          PROVE  /\ \A l \in Lines : ~loaded[h].line[l].exists
                 /\ dirty'[h] \subseteq {Session}
                 /\ Session \notin dirty'[h] => session.status # "OPEN"
      <4>1. (\A l \in Lines : ~loaded[h].line[l].exists) /\ dirty[h] \subseteq {Session}
        BY <1>0, <3>1, <3>2 DEF Opens
      <4>2. Existing = {}
        BY <3>1, <4>1 DEF Orphans, Existing
      <4>3. Wanted(h).status = "IN_PROGRESS"
        BY <1>0, <3>2 DEF Wanted, HandlerTypes, Memory, SessionRow
      <4> QED
        BY <3>1, <4>1, <4>2, <4>3
    <3> QED
      BY <3>1, <3>2
  <2>3. CASE WriteSession(h)
    <3>1. CASE req[h].op = "CLOSE"
      <4>1. pc'[h] = "commit"
        BY <1>0, <2>3, <3>1 DEF WriteSession, Goto, HandlerTypes
      <4> QED
        BY <4>1
    <3>2. CASE req[h].op # "CLOSE"
      <4>1. pc'[h] = "insert" /\ session' = SessionOf(h) /\ pc[h] = "write"
        BY <1>0, <2>3, <3>2 DEF WriteSession, Goto, HandlerTypes
      <4>2. Wanted(h).status = "IN_PROGRESS"
        BY <1>0, <3>2 DEF Wanted, HandlerTypes, Memory, SessionRow
      <4>3. req[h].op = "ADD"
        BY <1>0, <2>3, <3>2, AddWritesSession
      <4>4. Session \notin dirty[h] => session.status # "OPEN"
        BY <1>0, <4>1, <4>3 DEF Opens
      <4> QED
        BY <4>1, <4>2, <4>4 DEF SessionOf
    <3> QED
      BY <3>1, <3>2
  <2>4. CASE AllBooked(h)
    BY <1>0, <2>4, OthersSame DEF AllBooked, Goto, ControlOf, HandlerTypes
  <2>5. CASE BookLine(h)
    BY <2>5 DEF BookLine
  <2>6. CASE InsertLine(h) \/ FindLine(h) \/ UpdateLine(h) \/ CommitClosing(h) \/ Fail(h)
               \/ ReloadTask(h) \/ WriteTask(h)
    BY <1>0, <2>6 DEF InsertLine, FindLine, UpdateLine, CommitClosing, Fail, ReloadTask, WriteTask,
         Goto, HandlerTypes
  <2>7. CASE FindTask(h)
    <3>1. req[h].op # "ADD" /\ req' = req /\ pc'[h] # "insert"
      BY <1>0, <2>7 DEF FindTask, At, TaskOps, Goto, HandlerTypes
    <3> QED
      BY <3>1
  <2> QED
    BY <2>1, <2>2, <2>3, <2>4, <2>5, <2>6, <2>7 DEF Step
<1> QED
  BY <1>2, <1>3, <1>4 DEF Opens

\* What a step does to the lines and what has been booked.
LEMMA LineSteps ==
  ASSUME Types, Opens, NEW h \in Handlers, Step(h)
  PROVE  /\ late \subseteq late'
         /\ InsertLine(h) \/ UpdateLine(h) \/ CommitClosing(h) \/ (line' = line /\ late' = late)
         /\ CommitClosing(h) \/ booked' = booked
<1>1. CASE WriteSession(h)
  <2>1. booked' = booked /\ late' = late
    BY <1>1 DEF WriteSession, history
  <2>2. line' = line
    <3>1. CASE req[h].op = "CLOSE"
      BY <1>1, <3>1 DEF WriteSession
    <3>2. CASE req[h].op # "CLOSE"
      BY <1>1, <3>2, AddWritesSession
    <3> QED
      BY <3>1, <3>2
  <2> QED
    BY <2>1, <2>2
<1>2. CASE InsertLine(h) \/ UpdateLine(h)
  BY <1>2 DEF InsertLine, UpdateLine
<1>3. CASE CommitClosing(h)
  BY <1>3 DEF CommitClosing, history
<1>4. CASE ~(WriteSession(h) \/ InsertLine(h) \/ UpdateLine(h) \/ CommitClosing(h))
  BY <1>4 DEF Step, FindSession, ReloadSession, FindLine, BookLine, AllBooked, FindTask,
     ReloadTask, WriteTask, Fail, history
<1> QED
  BY <1>1, <1>2, <1>3, <1>4

\* Where a handler is when it changes lines.
LEMMA Writers ==
  ASSUME Types, NEW h \in Handlers
  PROVE  /\ InsertLine(h) \/ UpdateLine(h) => req[h].line \in Lines
         /\ UpdateLine(h) => Counting(h) /\ pc[h] = "saveLine"
         /\ CommitClosing(h) => Closing(h)
         /\ pc[h] = "saveLine" => Counting(h) /\ req[h].line \in Lines
<1>0. ControlOf(h) /\ req \in [Handlers -> Request]
  BY DEF Types, Control, HandlerTypes
<1>1. req[h].op \in CountOps => req[h].line \in Lines
  BY <1>0, RequestTypes
<1> QED
  BY <1>0, <1>1 DEF InsertLine, UpdateLine, CommitClosing, At, Counting, Closing, Active, ControlOf,
     CountOps

\* While a closing runs, another handler can only add lines; what it adds too late is known.
LEMMA OthersClosing ==
  ASSUME Types, ClosesAlone, Opens, NEW h \in Handlers, Step(h), NEW g \in Handlers \ {h},
         Closing(g), NEW l \in Lines
  PROVE  line'[l] = line[l] \/ (~line[l].exists /\ (Past(g) => l \in late'))
<1>1. ~Closing(h) /\ ~Counting(h)
  BY DEF ClosesAlone
<1>2. InsertLine(h) \/ line' = line
  BY <1>1, LineSteps, Writers
<1>3. CASE InsertLine(h)
  <2>1. req[h].line \in Lines /\ line \in [Lines -> LineRow]
    BY <1>3, Writers DEF Types, TableTypes
  <2>2. /\ ~line[req[h].line].exists
        /\ l # req[h].line => line'[l] = line[l]
        /\ Past(g) => req[h].line \in late'
    BY <1>3, <2>1 DEF InsertLine
  <2> QED
    BY <2>2
<1> QED
  BY <1>2, <1>3

LEMMA OthersKeep ==
  ASSUME Types, Counted, ~clash, NEW h \in Handlers, Step(h), NEW g \in Handlers \ {h}
  PROVE  ClosesLines(g)' /\ CountsLine(g)'
<1>0. /\ ClosesAlone /\ Opens /\ ClosesLines(g) /\ CountsLine(g) /\ CountsLine(h)
      /\ line \in [Lines -> LineRow] /\ req' = req /\ Same(g)
  BY OthersSame DEF Counted, Types, TableTypes
<1>1. Closing(g)' <=> Closing(g)
  BY <1>0 DEF Closing, Active, Same
<1>2. late \subseteq late'
  BY <1>0, LineSteps
<1>3. ASSUME Closing(g), NEW l \in Lines PROVE Books(g, l)'
  <2>1. Books(g, l)
    BY <1>0, <1>3 DEF ClosesLines
  <2>2. line'[l] = line[l] \/ (~line[l].exists /\ (Past(g) => l \in late'))
    BY <1>0, <1>3, OthersClosing
  <2>3. pc[g] \in {"write", "commit"} => Past(g)
    BY <1>3 DEF Past, At, Closing
  <2>4. CASE line'[l] = line[l]
    BY <1>0, <1>2, <2>1, <2>4 DEF Books, Same
  <2>5. CASE ~line[l].exists /\ (Past(g) => l \in late')
    <3>1. ~loaded[g].line[l].exists
      BY <2>1, <2>5 DEF Books
    <3> QED
      BY <1>0, <2>1, <2>3, <2>5, <3>1 DEF Books, Same
  <2> QED
    BY <2>2, <2>4, <2>5
<1>4. ClosesLines(g)'
  BY <1>0, <1>1, <1>3 DEF ClosesLines, Same
<1>5. CountsLine(g)'
  <2>1. SUFFICES ASSUME pc[g] = "saveLine"
                 PROVE  LET l == req[g].line  x == loaded[g].line[l] IN
                        line'[l].exists /\ x.exists /\ x.adjusted = line'[l].adjusted
    BY <1>0 DEF CountsLine, Same
  <2>2. Counting(g) /\ req[g].line \in Lines
    BY <2>1, Writers
  <2>3. ~Closing(h)
    BY <1>0, <2>2 DEF ClosesAlone
  <2>4. /\ line[req[g].line].exists /\ loaded[g].line[req[g].line].exists
        /\ loaded[g].line[req[g].line].adjusted = line[req[g].line].adjusted
    BY <1>0, <2>1 DEF CountsLine
  <2>5. CASE InsertLine(h)
    BY <1>0, <2>2, <2>4, <2>5, Writers DEF InsertLine
  <2>6. CASE UpdateLine(h)
    <3>1. pc[h] = "saveLine" /\ req[h].line \in Lines
      BY <2>6, Writers
    <3>2. /\ loaded[h].line[req[h].line].exists
          /\ loaded[h].line[req[h].line].adjusted = line[req[h].line].adjusted
      BY <1>0, <3>1 DEF CountsLine
    <3>3. line' = [line EXCEPT ![req[h].line] = loaded[h].line[req[h].line]]
      BY <2>6 DEF UpdateLine
    <3> QED
      BY <1>0, <2>2, <2>4, <3>1, <3>2, <3>3
  <2>7. CASE line' = line
    BY <2>4, <2>7
  <2> QED
    BY <1>0, <2>3, <2>5, <2>6, <2>7, LineSteps, Writers
<1> QED
  BY <1>4, <1>5

\* A closing takes the lines as they are.
LEMMA ClosingStarts ==
  ASSUME Types, NEW h \in Handlers, ClosesLines(h), FindSession(h), req[h].op = "CLOSE",
         NEW l \in Lines
  PROVE  Books(h, l)'
<1>0. HandlerTypes /\ line \in [Lines -> LineRow]
  BY DEF Types, TableTypes
<1>1. /\ pc[h] = "idle" /\ pc'[h] = "book" /\ line' = line /\ dirty' = dirty /\ made' = made
      /\ late' = late /\ loaded'[h].line = line /\ todo'[h] = ToBook
  BY <1>0 DEF FindSession, At, Goto, HandlerTypes, Memory
<1>2. dirty'[h] = {} /\ made'[h][l] = Untouched
  BY <1>1 DEF ClosesLines, Nothing, Untouched
<1>3. l \in ToBook <=> Bookable(line[l])
  BY DEF ToBook, Existing, Bookable
<1>4. line[l].exists = TRUE \/ line[l].exists = FALSE
  BY <1>0 DEF LineRow
<1> QED
  BY <1>1, <1>2, <1>3, <1>4 DEF Books, Bookable

\* Booking a line: what is booked and how the line is marked belong together.
LEMMA LineIsBooked ==
  ASSUME Types, NEW h \in Handlers, ClosesLines(h), BookLine(h), NEW k \in Lines
  PROVE  Books(h, k)'
<1>0. HandlerTypes /\ line \in [Lines -> LineRow] /\ pc[h] = "book" /\ pc' = pc /\ line' = line
      /\ late' = late /\ ControlOf(h)
  BY DEF Types, TableTypes, BookLine, history, Control
<1>1. PICK l \in todo[h] :
        /\ made' = IF Diff(loaded[h].line[l]) = 0 THEN made
                   ELSE [made EXCEPT ![h][l] = [times |-> 1, sum |-> Diff(loaded[h].line[l])]]
        /\ loaded' = [loaded EXCEPT ![h].line[l] = Marked(loaded[h].line[l])]
        /\ dirty' = [dirty EXCEPT ![h] = @ \cup {l}]
        /\ todo' = [todo EXCEPT ![h] = @ \ {l}]
  BY DEF BookLine
<1>2. Closing(h) /\ l \in Lines /\ Books(h, k) /\ Books(h, l)
  BY <1>0, <1>1 DEF Closing, Active, ControlOf, ClosesLines, HandlerTypes
<1>3. loaded[h].line[l] = line[l] /\ Bookable(line[l]) /\ made[h][l] = Untouched
  BY <1>0, <1>1, <1>2 DEF Books
<1>t. loaded[h] \in Memory /\ made[h] \in [Lines -> Booking]
  BY <1>0 DEF HandlerTypes
<1>4. CASE k = l
  <2>1. loaded'[h].line[k] = Marked(line[k])
    BY <1>0, <1>1, <1>2, <1>3, <1>4, <1>t DEF HandlerTypes, Memory
  <2>2. made'[h][k] = Adjustment(line[k])
    <3>1. made' = (IF Diff(line[l]) = 0 THEN made
                   ELSE [made EXCEPT ![h][l] = [times |-> 1, sum |-> Diff(line[l])]])
      BY <1>1, <1>3
    <3> QED
      BY <1>0, <1>2, <1>3, <1>4, <1>t, <3>1 DEF HandlerTypes, Adjustment
  <2>3. k \notin todo'[h]
    BY <1>0, <1>1, <1>4 DEF HandlerTypes
  <2>4. Marked(line[k]).exists
    BY <1>0, <1>3, <1>4 DEF Marked, Bookable, LineRow
  <2> QED
    BY <1>0, <1>3, <1>4, <2>1, <2>2, <2>3, <2>4 DEF Books, Bookable
<1>5. CASE k # l
  <2>1. loaded'[h].line[k] = loaded[h].line[k]
    BY <1>0, <1>1, <1>2, <1>5, <1>t DEF HandlerTypes, Memory
  <2>2. made'[h][k] = made[h][k]
    BY <1>0, <1>1, <1>2, <1>5, <1>t DEF HandlerTypes
  <2>3. (k \in todo'[h] <=> k \in todo[h]) /\ (k \in dirty'[h] <=> k \in dirty[h])
    BY <1>0, <1>1, <1>5 DEF HandlerTypes
  <2> QED
    BY <1>0, <1>2, <2>1, <2>2, <2>3 DEF Books
<1> QED
  BY <1>4, <1>5

\* Reading the session again stops a closing when there are lines it does not have.
LEMMA ClosingReloads ==
  ASSUME Types, NEW h \in Handlers, Closing(h), ClosesLines(h), ReloadSession(h), NEW l \in Lines
  PROVE  Books(h, l)'
<1>0. HandlerTypes /\ l # Session
  BY WarehouseAssumption DEF Types, WarehouseAssumption
<1>1. /\ pc[h] = "save" /\ line' = line /\ loaded' = loaded /\ todo' = todo /\ made' = made
      /\ late' = late
      /\ dirty'[h] = dirty[h] \cup {k \in Existing : loaded[h].line[k] # line[k]}
                       \cup {k \in {Session} : Wanted(h) # session}
  BY <1>0 DEF ReloadSession, HandlerTypes, history
<1>2. line[l].exists => loaded[h].line[l].exists
  BY DEF ReloadSession, Orphans, Existing
<1>3. Books(h, l)
  BY DEF ClosesLines
<1>4. l \in dirty'[h] <=> l \in dirty[h] \/ (line[l].exists /\ loaded[h].line[l] # line[l])
  BY <1>0, <1>1 DEF Existing
<1> HIDE DEF Existing
<1> QED
  BY <1>1, <1>2, <1>3, <1>4 DEF Books

\* The steps of a handler keep what it holds of the lines right.
LEMMA OwnStep ==
  ASSUME Types, Counted, ~clash, NEW h \in Handlers, Step(h)
  PROVE  ClosesLines(h)' /\ CountsLine(h)'
<1>0. /\ ClosesLines(h) /\ CountsLine(h) /\ HandlerTypes /\ ControlOf(h) /\ req' = req
      /\ line \in [Lines -> LineRow] /\ req[h] \in Request
  BY OthersSame DEF Counted, Types, Control, TableTypes, HandlerTypes
<1>1. CASE FindLine(h)
  <2>1. pc'[h] = "saveLine" /\ line' = line /\ Counting(h) /\ ~Closing(h)
    BY <1>0, <1>1 DEF FindLine, Goto, HandlerTypes, ControlOf, Counting, Closing, Active
  <2>2. req[h].line \in Lines /\ line[req[h].line] \in LineRow
    <3>1. req[h].line \in Lines
      BY <1>0, <2>1, RequestTypes DEF Counting, CountOps, HandlerTypes
    <3> QED
      BY <1>0, <3>1
  <2>3. loaded'[h].line[req[h].line] = [line[req[h].line] EXCEPT !.counted = req[h].counted]
    <3> DEFINE l == req[h].line
               x == [line[l] EXCEPT !.counted = req[h].counted]
    <3>1. loaded' = [loaded EXCEPT ![h].line[l] = x] /\ loaded[h] \in Memory /\ l \in Lines
      BY <1>0, <1>1, <2>2 DEF FindLine, HandlerTypes
    <3> HIDE DEF x, l
    <3>2. loaded'[h].line[l] = x
      BY <1>0, <3>1 DEF HandlerTypes, Memory
    <3> QED
      BY <3>2 DEF x, l
  <2>4. CountsLine(h)'
    BY <1>0, <1>1, <2>1, <2>2, <2>3 DEF CountsLine, FindLine, LineRow
  <2>5. ClosesLines(h)'
    BY <1>0, <2>1 DEF ClosesLines, Closing, Counting
  <2> QED
    BY <2>4, <2>5
<1>2. CASE ~FindLine(h)
  <2>1. pc'[h] # "idle" /\ pc'[h] # "saveLine"
    BY <1>0, <1>2 DEF Step, FindSession, ReloadSession, WriteSession, InsertLine, UpdateLine, BookLine,
       AllBooked, CommitClosing, FindTask, ReloadTask, WriteTask, Fail, Goto, HandlerTypes
  <2>2. CASE ~Closing(h)'
    BY <2>1, <2>2 DEF ClosesLines, CountsLine
  <2>3. CASE Closing(h)'
    <3>1. req[h].op = "CLOSE" /\ pc'[h] \notin {"done", "failed"}
      BY <1>0, <2>3 DEF Closing, Active
    <3>2. FindSession(h) \/ ReloadSession(h) \/ WriteSession(h) \/ BookLine(h) \/ AllBooked(h)
      <4>1. ~(InsertLine(h) \/ UpdateLine(h) \/ FindTask(h) \/ ReloadTask(h) \/ WriteTask(h))
        BY <1>0, <3>1 DEF InsertLine, UpdateLine, FindTask, ReloadTask, WriteTask, At, ControlOf, TaskOps
      <4>2. ~(CommitClosing(h) \/ Fail(h))
        BY <1>0, <3>1 DEF CommitClosing, Fail, Goto, HandlerTypes
      <4> QED
        BY <1>2, <4>1, <4>2 DEF Step
    <3>3. CASE FindSession(h)
      <4>1. pc'[h] = "book"
        BY <1>0, <3>1, <3>3 DEF FindSession, Goto, HandlerTypes
      <4>2. \A l \in Lines : Books(h, l)'
        BY <1>0, <3>1, <3>3, ClosingStarts
      <4> QED
        BY <2>1, <4>1, <4>2 DEF ClosesLines, CountsLine
    <3>4. CASE BookLine(h)
      <4>1. pc'[h] = "book"
        BY <3>4 DEF BookLine
      <4>2. \A l \in Lines : Books(h, l)'
        BY <1>0, <3>4, LineIsBooked
      <4> QED
        BY <2>1, <4>1, <4>2 DEF ClosesLines, CountsLine
    <3>5. CASE AllBooked(h)
      <4>1. /\ Closing(h) /\ pc[h] = "book" /\ pc'[h] = "save" /\ todo[h] = {} /\ line' = line
            /\ loaded' = loaded /\ dirty' = dirty /\ todo' = todo /\ made' = made /\ late' = late
        BY <1>0, <3>1, <3>5 DEF AllBooked, Goto, HandlerTypes, Closing, Active, history
      <4>2. \A l \in Lines : Books(h, l)'
        BY <1>0, <4>1 DEF ClosesLines, Books
      <4> QED
        BY <2>1, <4>1, <4>2 DEF ClosesLines, CountsLine
    <3>6. CASE ReloadSession(h)
      <4>1. Closing(h) /\ pc[h] = "save" /\ todo' = todo
        BY <3>1, <3>6 DEF ReloadSession, Closing, Active
      <4>2. \A l \in Lines : Books(h, l)'
        BY <1>0, <3>6, <4>1, ClosingReloads
      <4> QED
        BY <1>0, <2>1, <4>1, <4>2 DEF ClosesLines, CountsLine
    <3>7. CASE WriteSession(h)
      <4>1. /\ Closing(h) /\ pc[h] = "write" /\ pc'[h] = "commit" /\ line' = line
            /\ loaded' = loaded /\ dirty' = dirty /\ todo' = todo /\ made' = made /\ late' = late
        BY <1>0, <3>1, <3>7 DEF WriteSession, Goto, HandlerTypes, Closing, Active, history
      <4>2. \A l \in Lines : Books(h, l)'
        BY <1>0, <4>1 DEF ClosesLines, Books
      <4> QED
        BY <1>0, <2>1, <4>1, <4>2 DEF ClosesLines, CountsLine
    <3> QED
      BY <3>2, <3>3, <3>4, <3>5, <3>6, <3>7
  <2> QED
    BY <2>2, <2>3
<1> QED
  BY <1>1, <1>2

\* A line is added as one that is not adjusted, and too late when the session is closed.
LEMMA InsertAdjusted ==
  ASSUME Types, NEW h \in Handlers, InsertLine(h), NEW l \in Lines, Adjusted(l)
  PROVE  Adjusted(l)'
<1>1. /\ req[h].line \in Lines /\ line \in [Lines -> LineRow] /\ ~line[req[h].line].exists
      /\ session' = session /\ booked' = booked /\ late \subseteq late'
      /\ line' = [line EXCEPT ![req[h].line] = [exists |-> TRUE, expected |-> req[h].expected,
                                  counted |-> req[h].counted, adjusted |-> FALSE]]
      /\ session.status = "CLOSED" => req[h].line \in late'
  BY Writers DEF Types, TableTypes, InsertLine
<1>2. CASE l = req[h].line
  <2>1. line'[l].exists /\ line'[l].adjusted = FALSE
    BY <1>1, <1>2
  <2> QED
    BY <1>1, <1>2, <2>1 DEF Adjusted
<1>3. CASE l # req[h].line
  <2>1. line'[l] = line[l]
    BY <1>1, <1>3
  <2> QED
    BY <1>1, <2>1 DEF Adjusted
<1> QED
  BY <1>2, <1>3

\* A new count leaves the mark as it is, and is late when there is one.
LEMMA UpdateAdjusted ==
  ASSUME Types, ClosesAlone, NEW h \in Handlers, CountsLine(h), UpdateLine(h), NEW l \in Lines,
         Adjusted(l)
  PROVE  Adjusted(l)'
<1>1. /\ req[h].line \in Lines /\ line \in [Lines -> LineRow] /\ session.status # "CLOSED"
      /\ session' = session /\ booked' = booked /\ late \subseteq late'
      /\ line' = [line EXCEPT ![req[h].line] = loaded[h].line[req[h].line]]
      /\ line[req[h].line].adjusted => req[h].line \in late'
  BY Writers DEF Types, TableTypes, UpdateLine, ClosesAlone
<1>2. CASE l = req[h].line
  <2>1. line[l].exists /\ line'[l].exists /\ line'[l].adjusted = line[l].adjusted
    BY <1>1, <1>2, Writers DEF CountsLine
  <2> QED
    BY <1>1, <1>2, <2>1 DEF Adjusted
<1>3. CASE l # req[h].line
  <2>1. line'[l] = line[l]
    BY <1>1, <1>3
  <2> QED
    BY <1>1, <2>1 DEF Adjusted
<1> QED
  BY <1>2, <1>3

\* Committing a closing books and marks every line it has that was counted and not adjusted.
LEMMA CommitAdjusted ==
  ASSUME Types, NEW h \in Handlers, ClosesLines(h), CommitClosing(h), NEW l \in Lines, Adjusted(l)
  PROVE  Adjusted(l)'
<1>1. Closing(h) /\ pc[h] = "commit" /\ todo[h] = {} /\ Books(h, l)
  BY Writers DEF CommitClosing, ClosesLines
<1> DEFINE x == loaded[h].line[l]
           y == line[l]
           m == made[h][l]
<1>2. /\ late' = late
      /\ line'[l] = IF l \in dirty[h] THEN x ELSE y
      /\ booked'[l].times = booked[l].times + m.times
      /\ booked'[l].sum = booked[l].sum + m.sum
  BY DEF CommitClosing, LinesOf, history
<1>3. /\ y \in LineRow /\ x \in LineRow
      /\ booked[l].times \in Nat /\ booked[l].sum \in Int
  BY DEF Types, TableTypes, HandlerTypes, Memory, Booking
<1>4. CASE ~x.exists
  <2>1. line'[l] = y /\ m = Untouched /\ (y.exists => l \in late)
    BY <1>1, <1>2, <1>4 DEF Books
  <2>2. booked'[l].times = booked[l].times /\ booked'[l].sum = booked[l].sum
    BY <1>2, <1>3, <2>1 DEF Untouched
  <2> QED
    BY <1>2, <2>1, <2>2 DEF Adjusted, Bookable
<1>5. CASE x.exists /\ Bookable(y)
  <2>1. x = Marked(y) /\ m = Adjustment(y) /\ (x # y => l \in dirty[h])
    BY <1>1, <1>5 DEF Books
  <2>2. booked[l].times = 0 /\ booked[l].sum = 0 /\ y.exists /\ y.counted # Null /\ ~y.adjusted
    BY <1>5 DEF Adjusted, Bookable
  <2>3. line'[l] = x
    BY <1>2, <2>1
  <2>4. y.counted \in Nat /\ Diff(y) \in Int
    BY <1>3, <2>2, DiffType DEF LineRow
  <2>5. CASE Diff(y) = 0
    <3>1. x = y /\ m.times = 0 /\ m.sum = 0
      BY <2>1, <2>5 DEF Marked, Adjustment, Untouched
    <3> QED
      BY <1>2, <2>2, <2>3, <2>5, <3>1 DEF Adjusted
  <2>6. CASE Diff(y) # 0
    <3>1. m.times = 1 /\ m.sum = Diff(y)
      BY <2>1, <2>6 DEF Adjustment
    <3>2. x.exists /\ x.adjusted /\ x.counted = y.counted /\ Diff(x) = Diff(y)
      BY <1>3, <1>5, <2>1, <2>6 DEF Marked, Diff, LineRow
    <3>3. booked'[l].times = 1 /\ booked'[l].sum = Diff(y)
      BY <1>2, <2>2, <2>4, <3>1
    <3> QED
      BY <2>2, <2>3, <3>2, <3>3 DEF Adjusted, Bookable
  <2> QED
    BY <2>5, <2>6
<1>6. CASE x.exists /\ ~Bookable(y)
  <2>1. x = y /\ m = Untouched
    BY <1>1, <1>6 DEF Books
  <2>2. line'[l] = y
    BY <1>2, <2>1
  <2>3. booked'[l].times = booked[l].times /\ booked'[l].sum = booked[l].sum
    BY <1>2, <1>3, <2>1 DEF Untouched
  <2> QED
    BY <1>2, <1>6, <2>2, <2>3 DEF Adjusted, Bookable
<1> QED
  BY <1>4, <1>5, <1>6

LEMMA AdjustedStep ==
  ASSUME Types, Counted, ~clash, NEW h \in Handlers, Step(h), NEW l \in Lines
  PROVE  Adjusted(l)'
<1>1. ClosesAlone /\ Opens /\ ClosesLines(h) /\ CountsLine(h) /\ Adjusted(l)
  BY DEF Counted
<1>2. CASE ~(InsertLine(h) \/ UpdateLine(h) \/ CommitClosing(h))
  <2>1. line' = line /\ late' = late /\ booked' = booked
    BY <1>1, <1>2, LineSteps
  <2>2. session'.status = "CLOSED" => session.status = "CLOSED"
    BY <1>2, SessionMovesOn
  <2> QED
    BY <1>1, <2>1, <2>2 DEF Adjusted
<1> QED
  BY <1>1, <1>2, InsertAdjusted, UpdateAdjusted, CommitAdjusted

LEMMA CountedStep == Types /\ Counted /\ [Next]_vars => Counted'
<1> SUFFICES ASSUME Types, Counted, [Next]_vars, ~clash' PROVE Counted'
  BY DEF Counted
<1>1. ASSUME NEW h \in Handlers, Step(h) PROVE Counted'
  <2>1. ~clash /\ ClosesAlone'
    BY <1>1, AloneStep
  <2>2. Opens'
    BY <1>1, <2>1, OpensStep
  <2>3. \A g \in Handlers : ClosesLines(g)' /\ CountsLine(g)'
    BY <1>1, <2>1, OwnStep, OthersKeep
  <2>4. \A l \in Lines : Adjusted(l)'
    BY <1>1, <2>1, AdjustedStep
  <2> QED
    BY <2>1, <2>2, <2>3, <2>4 DEF Counted
<1>2. CASE UNCHANGED vars
  <2>1. \A h \in Handlers :
          /\ Closing(h)' <=> Closing(h)
          /\ Counting(h)' <=> Counting(h)
          /\ \A l \in Lines : Books(h, l)' <=> Books(h, l)
    BY <1>2 DEF vars, Closing, Counting, Active, Books
  <2>2. ClosesAlone /\ Opens /\ \A h \in Handlers : ClosesLines(h) /\ CountsLine(h)
    BY <1>2 DEF Counted, vars
  <2>3. ClosesAlone' /\ Opens'
    BY <1>2, <2>1, <2>2 DEF vars, ClosesAlone, Opens
  <2>4. \A h \in Handlers : ClosesLines(h)' /\ CountsLine(h)'
    BY <1>2, <2>1, <2>2 DEF vars, ClosesLines, CountsLine
  <2>5. \A l \in Lines : Adjusted(l)'
    BY <1>2 DEF Counted, vars, Adjusted
  <2> QED
    BY <2>3, <2>4, <2>5 DEF Counted
<1> QED
  BY <1>1, <1>2 DEF Next, Finished

LEMMA CountedMeans == Types /\ Counted => AdjustedOnce /\ ClosedMeansBooked
<1> SUFFICES ASSUME Types, Counted, ~clash PROVE AdjustedOnce /\ ClosedMeansBooked
  BY DEF AdjustedOnce, ClosedMeansBooked
<1>1. AdjustedOnce
  BY DEF Counted, Adjusted, AdjustedOnce
<1>2. ASSUME session.status = "CLOSED", NEW l \in Existing \ late, line[l].counted # Null
      PROVE  booked[l].sum = Diff(line[l])
  <2>1. l \in Lines /\ line[l].exists /\ Adjusted(l)
    BY <1>2 DEF Existing, Counted
  <2>2. CASE line[l].adjusted
    BY <1>2, <2>1, <2>2 DEF Adjusted
  <2>3. CASE ~line[l].adjusted
    BY <1>2, <2>1, <2>3 DEF Adjusted, Bookable
  <2> QED
    BY <2>2, <2>3
<1> QED
  BY <1>1, <1>2 DEF ClosedMeansBooked

\* However often closing is tried, and whatever lines are added meanwhile, a line is adjusted
\* at most once, as long as no closing overlaps another one or a new count
\* (closeCountSession).
THEOREM LinesAreAdjustedOnce == Spec => []AdjustedOnce
<1>1. Init => Sound /\ Counted
  BY InitSound, InitCounted
<1>2. Sound /\ Counted /\ [Next]_vars => (Sound /\ Counted)'
  BY SoundStep, CountedStep DEF Sound
<1>3. Sound /\ Counted => AdjustedOnce
  BY CountedMeans DEF Sound
<1> QED
  BY <1>1, <1>2, <1>3, PTL DEF Spec

\* A session that is closed has booked what each of its lines was counted to differ by, unless
\* the line came too late, as long as no closing overlaps another one or a new count
\* (closeCountSession).
THEOREM ClosedIsBooked == Spec => []ClosedMeansBooked
<1>1. Init => Sound /\ Counted
  BY InitSound, InitCounted
<1>2. Sound /\ Counted /\ [Next]_vars => (Sound /\ Counted)'
  BY SoundStep, CountedStep DEF Sound
<1>3. Sound /\ Counted => ClosedMeansBooked
  BY CountedMeans DEF Sound
<1> QED
  BY <1>1, <1>2, <1>3, PTL DEF Spec
=============================================================================
