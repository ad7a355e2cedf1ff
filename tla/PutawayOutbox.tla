---------------------------- MODULE PutawayOutbox ----------------------------
(***************************************************************************)
(* From a goods receipt to its putaway tasks.  The receipt's transaction   *)
(* publishes an outbox event; the processor of each server process polls   *)
(* the events, makes one task for each line of the receipt, and marks the  *)
(* event.  Warehouse clerks may make the tasks of a receipt by hand, and   *)
(* cancel tasks, at any time.                                              *)
(***************************************************************************)
EXTENDS Naturals, Sequences, FiniteSets, FiniteSetsExt, Functions

CONSTANTS
  Receipts,   \* goods receipts
  Lines,      \* their lines
  ReceiptOf,  \* ReceiptOf[l]: the receipt of line l
  Pollers,    \* server processes, each with one OutboxProcessor
  Clerks,     \* requests that make tasks by hand
  Manual,     \* the sets of lines such a request may choose
  MaxRetries, \* MAX_RETRIES
  Limit,      \* events fetched at a time
  MaxFaults,  \* bound: errors and crashes of the processors
  MaxChanges  \* bound: changes of the warehouse's locations

LinesOf(r) == {l \in Lines : ReceiptOf[l] = r}

ASSUME OutboxAssumption ==
  /\ ReceiptOf \in [Lines -> Receipts]
  /\ \A r \in Receipts : LinesOf(r) # {}
  /\ \A S \in Manual : \E r \in Receipts : S \subseteq LinesOf(r) /\ S # {}
  /\ MaxRetries \in Nat \ {0} /\ Limit \in Nat \ {0}
  /\ MaxFaults \in Nat /\ MaxChanges \in Nat

VARIABLES
  published, \* receipts whose event is stored, in order of creation
  event,     \* event[r]: status and retryCount of the event of receipt r
  made,      \* made[l]: tasks ever made for line l
  auto,      \* auto[l]: those the processor made
  open,      \* open[l]: those not cancelled
  usable,    \* the receiving warehouse has exactly one active location
  pc,        \* pc[p]: where processor p is; "idle" is isRunning = false
  batch,     \* batch[p]: the events p still has to process, by their places in
             \* published, with the retryCount it read
  desk,      \* desk[c]: where clerk request c is
  pick,      \* pick[c]: the lines it chose
  faults, changes

vars == <<published, event, made, auto, open, usable, pc, batch, desk, pick,
          faults, changes>>

store == <<published, event>>
tasks == <<made, auto, open>>
clerks == <<desk, pick>>
bounds == <<faults, changes>>

NoEvent == [status |-> "NONE", retries |-> 0]

Init ==
  /\ published = <<>>
  /\ event = [r \in Receipts |-> NoEvent]
  /\ made = [l \in Lines |-> 0] /\ auto = made /\ open = made
  /\ usable \in BOOLEAN
  /\ pc = [p \in Pollers |-> "idle"]
  /\ batch = [p \in Pollers |-> <<>>]
  /\ desk = [c \in Clerks |-> "idle"]
  /\ pick = [c \in Clerks |-> {}]
  /\ faults = 0 /\ changes = 0

-----------------------------------------------------------------------------
(* The outbox and the warehouse around it. *)

\* OutboxService.publish, in the transaction of createGoodsReceipt.
Publish(r) ==
  /\ event[r].status = "NONE"
  /\ published' = Append(published, r)
  /\ event' = [event EXCEPT ![r] = [status |-> "PENDING", retries |-> 0]]
  /\ UNCHANGED <<tasks, usable, pc, batch, clerks, bounds>>

\* A location of the warehouse is added, activated or deactivated.
ChangeLocations ==
  /\ changes < MaxChanges
  /\ usable' = ~usable
  /\ changes' = changes + 1
  /\ UNCHANGED <<store, tasks, pc, batch, clerks, faults>>

\* An administrator puts a dead letter back into the queue.
RequeueDeadLetter(r) ==
  /\ event[r].status = "DEAD_LETTER"
  /\ event' = [event EXCEPT ![r] = [status |-> "PENDING", retries |-> 0]]
  /\ UNCHANGED <<published, tasks, usable, pc, batch, clerks, bounds>>

CancelTask(l) ==
  /\ open[l] > 0
  /\ open' = [open EXCEPT ![l] = @ - 1]
  /\ UNCHANGED <<store, made, auto, usable, pc, batch, clerks, bounds>>

-----------------------------------------------------------------------------
(* The processor. *)

Due == {i \in DOMAIN published : event[published[i]].status = "PENDING"}
Oldest(S) == {i \in S : Cardinality({j \in S : j < i}) < Limit}

At(p) == Min(DOMAIN batch[p])
Current(p) == published[At(p)]
Goto(p, label) == pc' = [pc EXCEPT ![p] = label]

\* MUTANT of NextEvent: the end of the batch is noticed one event late.
NextEventLate(p) ==
  LET rest == DOMAIN batch[p] \ {At(p)} IN
  /\ batch' = [batch EXCEPT ![p] = Restrict(@, rest)]
  /\ Goto(p, IF DOMAIN batch[p] = {} THEN "idle" ELSE "count")

NextEvent(p) ==
  LET rest == DOMAIN batch[p] \ {At(p)} IN
  /\ batch' = [batch EXCEPT ![p] = Restrict(@, rest)]
  /\ Goto(p, IF rest = {} THEN "idle" ELSE "count")

\* A tick of the interval finds isRunning false and events to process.
Fetch(p) ==
  /\ pc[p] = "idle"
  /\ Due # {}
  /\ batch' = [batch EXCEPT ![p] = [i \in Oldest(Due) |-> event[published[i]].retries]]
  /\ Goto(p, "count")
  /\ UNCHANGED <<store, tasks, usable, clerks, bounds>>

\* MUTANT of CountTasks: the tasks that exist are not looked at.
CountNothing(p) ==
  /\ pc[p] = "count"
  /\ Goto(p, "create")
  /\ UNCHANGED <<store, tasks, usable, batch, clerks, bounds>>

\* Tasks of the receipt, cancelled ones too, mean that the event was handled.
CountTasks(p) ==
  /\ pc[p] = "count"
  /\ Goto(p, IF \E l \in LinesOf(Current(p)) : made[l] > 0
             THEN "sent" ELSE "create")
  /\ UNCHANGED <<store, tasks, usable, batch, clerks, bounds>>

More(f, S, n) == [l \in Lines |-> IF l \in S THEN f[l] + n ELSE f[l]]

\* MUTANT of CreateTasks: a missing location is logged, not thrown.
CreateOrLog(p) ==
  LET S == LinesOf(Current(p)) IN
  /\ pc[p] = "create"
  /\ IF usable
     THEN made' = More(made, S, 1) /\ auto' = More(auto, S, 1) /\ open' = More(open, S, 1)
     ELSE UNCHANGED tasks
  /\ Goto(p, "sent")
  /\ UNCHANGED <<store, usable, batch, clerks, bounds>>

\* One INSERT transaction for all lines, or an error without a location.
CreateTasks(p) ==
  LET S == LinesOf(Current(p)) IN
  /\ pc[p] = "create"
  /\ IF usable
     THEN /\ made' = More(made, S, 1)
          /\ auto' = More(auto, S, 1)
          /\ open' = More(open, S, 1)
          /\ Goto(p, "sent")
     ELSE /\ Goto(p, "fail")
          /\ UNCHANGED tasks
  /\ UNCHANGED <<store, usable, batch, clerks, bounds>>

MarkSent(p) ==
  /\ pc[p] = "sent"
  /\ event' = [event EXCEPT ![Current(p)].status = "SENT"]
  /\ NextEvent(p)
  /\ UNCHANGED <<published, tasks, usable, clerks, bounds>>

\* markFailed or markDeadLetter: the status, and then the count.
MarkFailure(p) ==
  /\ pc[p] = "fail"
  /\ event' = [event EXCEPT ![Current(p)].status =
                 IF batch[p][At(p)] + 1 >= MaxRetries THEN "DEAD_LETTER" ELSE "FAILED"]
  /\ Goto(p, "increment")
  /\ UNCHANGED <<published, tasks, usable, batch, clerks, bounds>>

IncrementRetries(p) ==
  /\ pc[p] = "increment"
  /\ event' = [event EXCEPT ![Current(p)].retries = @ + 1]
  /\ NextEvent(p)
  /\ UNCHANGED <<published, tasks, usable, clerks, bounds>>

\* The database fails inside the try block.
Error(p) ==
  /\ pc[p] \in {"count", "create", "sent"}
  /\ faults < MaxFaults
  /\ faults' = faults + 1
  /\ Goto(p, "fail")
  /\ UNCHANGED <<store, tasks, usable, batch, clerks, changes>>

\* MUTANT of Crash: an error while an event is marked leaves isRunning true.
CrashRunning(p) ==
  /\ pc[p] \in {"fail", "increment"}
  /\ faults < MaxFaults
  /\ faults' = faults + 1
  /\ Goto(p, "stuck")
  /\ UNCHANGED <<store, tasks, usable, batch, clerks, changes>>

\* The process crashes and restarts, or an error leaves the loop.
Crash(p) ==
  /\ pc[p] # "idle"
  /\ faults < MaxFaults
  /\ faults' = faults + 1
  /\ batch' = [batch EXCEPT ![p] = <<>>]
  /\ Goto(p, "idle")
  /\ UNCHANGED <<store, tasks, usable, clerks, changes>>

-----------------------------------------------------------------------------
(* WarehouseService.createPutawayTasksFromGoodsReceipt: checked, then saved. *)

ChooseLines(c) ==
  /\ desk[c] = "idle"
  /\ \E S \in Manual : /\ \A l \in S : event[ReceiptOf[l]].status # "NONE" /\ open[l] = 0
                       /\ pick' = [pick EXCEPT ![c] = S]
  /\ desk' = [desk EXCEPT ![c] = "save"]
  /\ UNCHANGED <<store, tasks, usable, pc, batch, bounds>>

SaveTasks(c) ==
  /\ desk[c] = "save"
  /\ made' = More(made, pick[c], 1)
  /\ open' = More(open, pick[c], 1)
  /\ desk' = [desk EXCEPT ![c] = "done"]
  /\ UNCHANGED <<store, auto, usable, pc, batch, pick, bounds>>

-----------------------------------------------------------------------------

Process(p) == \/ Fetch(p) \/ CountTasks(p) \/ CreateTasks(p) \/ MarkSent(p)
              \/ MarkFailure(p) \/ IncrementRetries(p)

Next ==
  \/ \E r \in Receipts : Publish(r) \/ RequeueDeadLetter(r)
  \/ \E l \in Lines : CancelTask(l)
  \/ \E c \in Clerks : ChooseLines(c) \/ SaveTasks(c)
  \/ \E p \in Pollers : Process(p) \/ Error(p) \/ Crash(p)
  \/ ChangeLocations

Spec == Init /\ [][Next]_vars

\* The interval keeps firing while a process is up, and the event loop and the
\* database keep serving the processor it starts.
FairSpec == Spec /\ \A p \in Pollers : WF_vars(Process(p))

-----------------------------------------------------------------------------
(* Properties. *)

Event == [status : {"NONE", "PENDING", "SENT", "FAILED", "DEAD_LETTER"}, retries : Nat]

\* Places of published events, with the retryCount read there.
IsBatch(b) == \E D \in SUBSET (1..Len(published)) : b \in [D -> Nat]

TypeOK ==
  /\ published \in Seq(Receipts)
  /\ event \in [Receipts -> Event]
  /\ made \in [Lines -> Nat] /\ auto \in [Lines -> Nat] /\ open \in [Lines -> Nat]
  /\ usable \in BOOLEAN
  /\ pc \in [Pollers -> {"idle", "count", "create", "sent", "fail", "increment"}]
  /\ batch = [p \in Pollers |-> batch[p]]
  /\ \A p \in Pollers : IsBatch(batch[p]) /\ (pc[p] # "idle" => DOMAIN batch[p] # {})
  /\ desk \in [Clerks -> {"idle", "save", "done"}]
  /\ pick \in [Clerks -> Manual \cup {{}}]
  /\ faults \in 0..MaxFaults /\ changes \in 0..MaxChanges

\* An event is marked SENT only when every line of its receipt has had a task,
\* through crashes, failed marks and tasks made by hand for the whole receipt.
SentMeansPutAway ==
  \A l \in Lines : event[ReceiptOf[l]].status = "SENT" => made[l] > 0

\* The outbox makes at most one task for a line, however often a crash between
\* the tasks and the mark has the event delivered again.
PutAwayOnce == \A l \in Lines : auto[l] <= 1

\* An event that waits is tried: it is not stuck behind failing ones, nor behind
\* an error of the processor.
EveryEventIsTried ==
  \A r \in Receipts : event[r].status = "PENDING" ~> event[r].status # "PENDING"
=============================================================================
