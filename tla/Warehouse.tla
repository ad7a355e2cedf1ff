----------------------------- MODULE Warehouse -----------------------------
(***************************************************************************)
(* The warehouse: a count session with its lines, which closing turns into *)
(* stock adjustments, and the status of putaway tasks, picking tasks and   *)
(* waves.                                                                  *)
(*                                                                         *)
(* Every handler reads its row without a lock and saves the entity later.  *)
(* A session is loaded with its lines and saved with them: lines that      *)
(* differ are written back, and a line in the table that the loaded        *)
(* session does not have fails the save, for count_lines.session is NOT    *)
(* NULL.  Only closing a session is a transaction of several statements.   *)
(***************************************************************************)
EXTENDS Integers, FiniteSets, TLC

CONSTANTS
  Lines,     \* ids of count lines, each about its own variant
  Tasks,     \* putaway tasks, picking tasks and waves
  Kind,      \* Kind[t]: "putaway", "picking" or "wave"
  Asked,     \* Asked[t]: requestedQuantity of a picking task
  InWave,    \* InWave[t]: the wave a picking task is created in, or Null
  Handlers,  \* request handlers; each serves one request
  Workloads, \* requests the handlers may have been sent together
  Session,   \* lock key of the count_sessions row
  Null

CountOps == {"ADD", "COUNT", "CLOSE"}
TaskOps == {"CREATE", "START", "ASSIGN", "COMPLETE", "CANCEL"}

\* expected and counted are those of a line; counted is Null when it comes later.
Request ==
  [op : CountOps, line : Lines, expected : Nat, counted : Nat \cup {Null}]
  \cup [op : TaskOps, task : Tasks, picked : Nat]

ASSUME WarehouseAssumption ==
  /\ Kind \in [Tasks -> {"putaway", "picking", "wave"}]
  /\ Asked \in [Tasks -> Nat]
  /\ InWave \in [Tasks -> {t \in Tasks : Kind[t] = "wave"} \cup {Null}]
  /\ Workloads \subseteq [Handlers -> Request]
  /\ Session \notin Lines /\ Null \notin Handlers \cup Lines \cup Tasks

VARIABLES
  session,  \* the session row: status, and closedAt as the handler that closed it
  line,     \* line[l]: the count_lines row
  booked,   \* booked[l]: committed adjustments, their number and sum
  task,     \* task[t]: the row of a task or wave; completedAt as the handler that set it
  lock,     \* lock[k]: the closing transaction that holds a session or line row or the
            \* stock of a line's variant
  pc, req,
  loaded,   \* loaded[h]: session, lines and task as h holds them in memory
  dirty,    \* dirty[h]: what h is about to write, or has written and not committed
  todo,     \* todo[h]: lines a closing still has to book
  made,     \* made[h]: adjustments of h, not committed
  clash,    \* a closing has overlapped another one, or a new count (history)
  late,     \* lines inserted after a closing had read its session again, or counted
            \* again after they were adjusted (history)
  raced     \* tasks and waves on which requests have overlapped (history)

vars == <<session, line, booked, task, lock, pc, req, loaded, dirty, todo, made, clash,
          late, raced>>
history == <<clash, late, raced>>

NoLine == [exists |-> FALSE, expected |-> 0, counted |-> Null, adjusted |-> FALSE]
NoTask == [status |-> "NONE", assigned |-> Null, completedAt |-> Null, picked |-> 0]
Nothing == [l \in Lines |-> [times |-> 0, sum |-> 0]]
Loaded(t) == [session |-> session, line |-> line, task |-> task[t]]

Init ==
  /\ session = [status |-> "OPEN", closedAt |-> Null]
  /\ line = [l \in Lines |-> NoLine]
  /\ booked = Nothing
  /\ task = [t \in Tasks |->
       IF Kind[t] = "picking" THEN NoTask
       ELSE [NoTask EXCEPT !.status = IF Kind[t] = "wave" THEN "OPEN" ELSE "PENDING"]]
  /\ lock = [k \in Lines \cup {Session} |-> Null]
  /\ pc = [h \in Handlers |-> "idle"]
  /\ req \in Workloads
  /\ loaded = [h \in Handlers |-> [session |-> session, line |-> line, task |-> NoTask]]
  /\ dirty = [h \in Handlers |-> {}]
  /\ todo = [h \in Handlers |-> {}]
  /\ made = [h \in Handlers |-> Nothing]
  /\ clash = FALSE /\ late = {} /\ raced = {}

-----------------------------------------------------------------------------
(* Handlers and rows. *)

Active(h) == pc[h] \notin {"idle", "done", "failed"}
Goto(h, label) == pc' = [pc EXCEPT ![h] = label]
At(h, label, ops) == pc[h] = label /\ req[h].op \in ops
Free(h, K) == \A k \in K : lock[k] \in {Null, h}
Take(h, K) == lock' = [k \in DOMAIN lock |-> IF k \in K THEN h ELSE lock[k]]
Release(h) == lock' = [k \in DOMAIN lock |-> IF lock[k] = h THEN Null ELSE lock[k]]
Existing == {l \in Lines : line[l].exists}
Diff(x) == x.counted - x.expected

Closing(h) == req[h].op = "CLOSE" /\ Active(h)
Counting(h) == req[h].op = "COUNT" /\ Active(h)

\* An error, a refusal or a crash: only a closing has something to roll back.
Fail(h) ==
  /\ Active(h)
  /\ Goto(h, "failed")
  /\ Release(h)
  /\ UNCHANGED <<session, line, booked, task, req, loaded, dirty, todo, made, history>>

-----------------------------------------------------------------------------
(* Count sessions. *)

\* MUTANT of ToBook: only what is too much is booked.
ToBookSurplus == {l \in Existing : ~line[l].adjusted /\ line[l].counted # Null
                                   /\ line[l].counted > line[l].expected}

ToBook == {l \in Existing : ~line[l].adjusted /\ line[l].counted # Null}

\* findSessionOrThrow; a closed session is refused.  A closing takes the lines that are
\* counted and not adjusted.
FindSession(h) ==
  LET others == {g \in Handlers \ {h} : Closing(g)}
      counts == {g \in Handlers \ {h} : Counting(g)} IN
  /\ At(h, "idle", CountOps)
  /\ session.status # "CLOSED"
  /\ loaded' = [loaded EXCEPT ![h].session = session, ![h].line = line]
  /\ todo' = [todo EXCEPT ![h] = ToBook]
  /\ Goto(h, CASE req[h].op = "COUNT" -> "findLine"
               [] req[h].op = "CLOSE" -> "book"
               [] req[h].op = "ADD" /\ session.status = "OPEN" -> "save"
               [] OTHER -> "insert")
  /\ clash' = CASE req[h].op = "CLOSE" -> clash \/ others \cup counts # {}
                [] req[h].op = "COUNT" -> clash \/ others # {}
                [] OTHER -> clash
  /\ UNCHANGED <<session, line, booked, task, lock, req, dirty, made, late, raced>>

\* What the session h is about to save looks like.
Wanted(h) ==
  IF req[h].op = "CLOSE" THEN [status |-> "CLOSED", closedAt |-> h]
  ELSE [loaded[h].session EXCEPT !.status = "IN_PROGRESS"]

Orphans(h) == {l \in Existing : ~loaded[h].line[l].exists}

\* save(session): the session and its lines are read again.  The first line of an open
\* session sets IN_PROGRESS; closing sets CLOSED.
ReloadSession(h) ==
  /\ pc[h] = "save"
  /\ Orphans(h) = {}
  /\ dirty' = [dirty EXCEPT ![h] = @
       \cup {l \in Existing : loaded[h].line[l] # line[l]}
       \cup {k \in {Session} : Wanted(h) # session}]
  /\ Goto(h, "write")
  /\ UNCHANGED <<session, line, booked, task, lock, req, loaded, todo, made, history>>

\* What h has written, on top of the committed rows.
LinesOf(h) == [l \in Lines |-> IF l \in dirty[h] THEN loaded[h].line[l] ELSE line[l]]
SessionOf(h) == IF Session \in dirty[h] THEN Wanted(h) ELSE session

\* Adding a line commits the session at once; a closing keeps its rows locked.
WriteSession(h) ==
  /\ pc[h] = "write"
  /\ Free(h, dirty[h])
  /\ IF req[h].op = "CLOSE"
     THEN /\ Take(h, dirty[h])
          /\ Goto(h, "commit")
          /\ UNCHANGED <<session, line>>
     ELSE /\ session' = SessionOf(h)
          /\ line' = LinesOf(h)
          /\ Goto(h, "insert")
          /\ UNCHANGED lock
  /\ UNCHANGED <<booked, task, req, loaded, dirty, todo, made, history>>

\* A closing that is past the point where a new line would stop it.
Past(h) == At(h, "write", {"CLOSE"}) \/ At(h, "commit", {"CLOSE"})

InsertLine(h) ==
  LET l == req[h].line IN
  /\ pc[h] = "insert"
  /\ ~line[l].exists
  /\ line' = [line EXCEPT ![l] = [exists |-> TRUE, expected |-> req[h].expected,
                                  counted |-> req[h].counted, adjusted |-> FALSE]]
  /\ late' = late \cup {x \in {l} : session.status = "CLOSED"
                                    \/ \E g \in Handlers : Past(g)}
  /\ Goto(h, "done")
  /\ UNCHANGED <<session, booked, task, lock, req, loaded, dirty, todo, made, clash, raced>>

\* updateCountLine: the line is read for itself.
FindLine(h) ==
  LET l == req[h].line IN
  /\ pc[h] = "findLine"
  /\ line[l].exists
  /\ loaded' = [loaded EXCEPT ![h].line[l] = [line[l] EXCEPT !.counted = req[h].counted]]
  /\ Goto(h, "saveLine")
  /\ UNCHANGED <<session, line, booked, task, lock, req, dirty, todo, made, history>>

\* save(line): a column that differs from the row is written.
UpdateLine(h) ==
  LET l == req[h].line IN
  /\ At(h, "saveLine", {"COUNT"})
  /\ Free(h, {l})
  /\ line' = [line EXCEPT ![l] = loaded[h].line[l]]
  /\ late' = late \cup {x \in {l} : line[l].adjusted}
  /\ Goto(h, "done")
  /\ UNCHANGED <<session, booked, task, lock, req, loaded, dirty, todo, made, clash, raced>>

\* MUTANT of Marked: the line is saved without the mark.
Unmarked(x) == x

Marked(x) == IF Diff(x) = 0 THEN x ELSE [x EXCEPT !.adjusted = TRUE]

\* One line of a closing: the adjustment, which locks the stock of its variant, and the
\* save of the line.
BookLine(h) ==
  /\ pc[h] = "book"
  /\ \E l \in todo[h] :
       LET x == loaded[h].line[l] IN
       /\ Free(h, {l})
       /\ Take(h, {l})
       /\ made' = IF Diff(x) = 0 THEN made
                  ELSE [made EXCEPT ![h][l] = [times |-> 1, sum |-> Diff(x)]]
       /\ loaded' = [loaded EXCEPT ![h].line[l] = Marked(x)]
       /\ dirty' = [dirty EXCEPT ![h] = @ \cup {l}]
       /\ todo' = [todo EXCEPT ![h] = @ \ {l}]
  /\ UNCHANGED <<session, line, booked, task, pc, req, history>>

AllBooked(h) ==
  /\ pc[h] = "book" /\ todo[h] = {}
  /\ Goto(h, "save")
  /\ UNCHANGED <<session, line, booked, task, lock, req, loaded, dirty, todo, made, history>>

CommitClosing(h) ==
  /\ pc[h] = "commit"
  /\ session' = SessionOf(h)
  /\ line' = LinesOf(h)
  /\ booked' = [l \in Lines |-> [times |-> booked[l].times + made[h][l].times,
                                 sum |-> booked[l].sum + made[h][l].sum]]
  /\ Release(h)
  /\ Goto(h, "done")
  /\ UNCHANGED <<task, req, loaded, dirty, todo, made, history>>

-----------------------------------------------------------------------------
(* Tasks and waves: a status machine each, saved as the entity that was read. *)

\* MUTANT of Allowed: a task counts as finished only when it is completed.
AllowedUnlessCompleted(h) ==
  LET t == req[h].task  s == task[t].status IN
  CASE req[h].op = "CREATE" -> s = "NONE" /\ Kind[t] = "picking"
    [] req[h].op = "START" -> Kind[t] = "wave" /\ s = "OPEN"
    [] OTHER -> Kind[t] # "wave" /\ s \notin {"NONE", "COMPLETED"}

\* The status checks of each handler.  A wave is created and found OPEN; it can be
\* completed without being started.  A cancelled task may be cancelled again.
Allowed(h) ==
  LET t == req[h].task  s == task[t].status  op == req[h].op IN
  CASE op = "CREATE" -> /\ Kind[t] = "picking" /\ s = "NONE"
                        /\ InWave[t] # Null =>
                             task[InWave[t]].status \notin {"COMPLETED", "CANCELLED"}
    [] op = "START" -> Kind[t] = "wave" /\ s = "OPEN"
    [] op = "ASSIGN" -> Kind[t] # "wave" /\ s \notin {"NONE", "COMPLETED", "CANCELLED"}
    [] op = "COMPLETE" -> s \notin {"NONE", "COMPLETED", "CANCELLED"}
    [] op = "CANCEL" -> Kind[t] # "wave" /\ s \notin {"NONE", "COMPLETED"}

\* MUTANT of After: a short pick counts as complete.
AfterAnyPick(h, x) ==
  CASE req[h].op = "CREATE" -> [NoTask EXCEPT !.status = "PENDING"]
    [] req[h].op = "START" -> [x EXCEPT !.status = "IN_PROGRESS"]
    [] req[h].op = "ASSIGN" -> [x EXCEPT !.status = "IN_PROGRESS", !.assigned = h]
    [] req[h].op = "CANCEL" -> [x EXCEPT !.status = "CANCELLED"]
    [] OTHER -> [x EXCEPT !.status = "COMPLETED", !.completedAt = h, !.picked = req[h].picked]

Short(h) == Kind[req[h].task] = "picking" /\ req[h].picked < Asked[req[h].task]

After(h, x) ==
  CASE req[h].op = "CREATE" -> [NoTask EXCEPT !.status = "PENDING"]
    [] req[h].op = "START" -> [x EXCEPT !.status = "IN_PROGRESS"]
    [] req[h].op = "ASSIGN" -> [x EXCEPT !.status = "IN_PROGRESS", !.assigned = h]
    [] req[h].op = "CANCEL" -> [x EXCEPT !.status = "CANCELLED"]
    [] req[h].op = "COMPLETE" ->
         [x EXCEPT !.status = IF Short(h) THEN "SHORT_PICK" ELSE "COMPLETED",
                   !.completedAt = h,
                   !.picked = IF Kind[req[h].task] = "picking" THEN req[h].picked ELSE @]

\* The rows a request depends on.
Rows(h) == {req[h].task} \cup ({InWave[req[h].task]} \ {Null})

FindTask(h) ==
  LET t == req[h].task IN
  /\ At(h, "idle", TaskOps)
  /\ Allowed(h)
  /\ loaded' = [loaded EXCEPT ![h].task = After(h, task[t])]
  /\ Goto(h, IF req[h].op = "CREATE" THEN "writeTask" ELSE "saveTask")
  /\ dirty' = [dirty EXCEPT ![h] = IF req[h].op = "CREATE" THEN DOMAIN NoTask ELSE {}]
  /\ raced' = raced \cup {x \in Rows(h) : \E g \in Handlers \ {h} :
                            Active(g) /\ req[g].op \in TaskOps /\ x \in Rows(g)}
  /\ UNCHANGED <<session, line, booked, task, lock, req, todo, made, clash, late>>

ReloadTask(h) ==
  LET t == req[h].task IN
  /\ pc[h] = "saveTask"
  /\ dirty' = [dirty EXCEPT ![h] = {k \in DOMAIN NoTask : loaded[h].task[k] # task[t][k]}]
  /\ Goto(h, "writeTask")
  /\ UNCHANGED <<session, line, booked, task, lock, req, loaded, todo, made, history>>

WriteTask(h) ==
  LET t == req[h].task IN
  /\ pc[h] = "writeTask"
  /\ task' = [task EXCEPT ![t] =
       [k \in DOMAIN NoTask |-> IF k \in dirty[h] THEN loaded[h].task[k] ELSE @[k]]]
  /\ Goto(h, "done")
  /\ UNCHANGED <<session, line, booked, lock, req, loaded, dirty, todo, made, history>>

-----------------------------------------------------------------------------

Step(h) ==
  \/ FindSession(h) \/ ReloadSession(h) \/ WriteSession(h) \/ InsertLine(h)
  \/ FindLine(h) \/ UpdateLine(h) \/ BookLine(h) \/ AllBooked(h) \/ CommitClosing(h)
  \/ FindTask(h) \/ ReloadTask(h) \/ WriteTask(h) \/ Fail(h)

\* Every request that was let in has been served.
Finished ==
  /\ \A h \in Handlers : ~Active(h)
  /\ UNCHANGED vars

Next == (\E h \in Handlers : Step(h)) \/ Finished

Spec == Init /\ [][Next]_vars

-----------------------------------------------------------------------------
(* Properties. *)

TaskRow ==
  [status : {"NONE", "OPEN", "PENDING", "IN_PROGRESS", "SHORT_PICK", "COMPLETED",
             "CANCELLED"},
   assigned : Handlers \cup {Null}, completedAt : Handlers \cup {Null}, picked : Nat]

\* Requests about a task or wave that do not overlap leave it a row that makes sense,
\* also after reassigning a short pick: completed tasks were picked in full, short picks
\* were not, and both have a time.
TasksMakeSense ==
  \A t \in Tasks \ raced :
    LET x == task[t] IN
    /\ x.status \in {"COMPLETED", "SHORT_PICK"} => x.completedAt # Null
    /\ Kind[t] = "picking" =>
         /\ x.status = "COMPLETED" => x.picked >= Asked[t]
         /\ x.status = "SHORT_PICK" => x.picked < Asked[t]

\* Rows have the types of their columns; a locked row belongs to a closing under way;
\* and the rows of tasks make sense.
TypeOK ==
  /\ session \in [status : {"OPEN", "IN_PROGRESS", "CLOSED"}, closedAt : Handlers \cup {Null}]
  /\ line \in [Lines -> [exists : BOOLEAN, expected : Nat, counted : Nat \cup {Null},
                         adjusted : BOOLEAN]]
  /\ booked \in [Lines -> [times : Nat, sum : Int]]
  /\ task \in [Tasks -> TaskRow]
  /\ \A k \in DOMAIN lock : lock[k] # Null => Closing(lock[k])
  /\ late \subseteq Lines /\ raced \subseteq Tasks /\ clash \in BOOLEAN
  /\ TasksMakeSense

\* closeCountSession: as long as no closing overlaps another or a new count, a line is
\* adjusted at most once, also when lines are added meanwhile, the closing fails and is
\* tried again, or a late save of the session opens it again.
AdjustedOnce ==
  ~clash => \A l \in Lines :
    /\ booked[l].times <= 1
    /\ line[l].adjusted <=> booked[l].times = 1

\* closeCountSession: as long as no closing overlaps another or a new count, a closed
\* session has booked every difference, except on lines that were inserted after the closing
\* had read its session for the last time, or counted again after they were adjusted.
ClosedMeansBooked ==
  ~clash /\ session.status = "CLOSED" =>
    \A l \in Existing \ late :
      line[l].counted # Null => booked[l].sum = Diff(line[l])

\* Requests about a task or wave that do not overlap never change one that is finished,
\* and never add a picking task to a wave that is.
FinishedStaysFinished ==
  [][\A t \in Tasks : t \notin raced' =>
       /\ task[t].status \in {"COMPLETED", "CANCELLED"} => task'[t] = task[t]
       /\ task[t].status = "NONE" /\ task'[t] # task[t] /\ InWave[t] # Null
            /\ InWave[t] \notin raced' =>
            task[InWave[t]].status # "COMPLETED"]_vars
=============================================================================
