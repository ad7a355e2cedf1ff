----------------------- MODULE PutawayOutbox_proofs -----------------------
(***************************************************************************)
(* Proofs about PutawayOutbox, for every set of receipts, lines,           *)
(* processors and clerks that meets OutboxAssumption.                      *)
(***************************************************************************)
EXTENDS PutawayOutbox, WellFoundedInduction, FiniteSetTheorems, TLAPS

-----------------------------------------------------------------------------
(* The oldest event of a batch. *)

\* A set of numbers that is not empty has a least one.
LEMMA MinExists ==
  ASSUME NEW S \in SUBSET Nat, S # {}
  PROVE  Min(S) \in S /\ \A j \in S : Min(S) =< j
<1>1. PICK x \in S : \A y \in S : <<y, x>> \notin OpToRel(<, Nat)
  BY NatLessThanWellFounded, WFMin, Zenon
<1>2. \A y \in S : x =< y
  <2> SUFFICES ASSUME NEW y \in S, y < x PROVE FALSE
    OBVIOUS
  <2>1. <<y, x>> \in Nat \X Nat /\ <<y, x>>[1] = y /\ <<y, x>>[2] = x
    OBVIOUS
  <2>2. <<y, x>> \in OpToRel(<, Nat)
    BY <2>1 DEF OpToRel
  <2> QED BY <1>1, <2>2
<1> QED BY <1>2 DEF Min

\* Where a processor works, its current event is a published one.
LEMMA CurrentType ==
  ASSUME TypeOK, NEW p \in Pollers, pc[p] # "idle"
  PROVE  /\ At(p) \in DOMAIN batch[p]
         /\ At(p) \in 1..Len(published)
         /\ batch[p][At(p)] \in Nat
         /\ Current(p) \in Receipts
<1>1. PICK D \in SUBSET (1..Len(published)) : batch[p] \in [D -> Nat]
  BY DEF TypeOK, IsBatch
<1>2. DOMAIN batch[p] = D /\ D \in SUBSET Nat
  BY <1>1
<1>3. DOMAIN batch[p] # {}
  BY DEF TypeOK
<1>4. At(p) \in D
  BY <1>2, <1>3, MinExists DEF At
<1>5. published[At(p)] \in Receipts
  BY <1>4 DEF TypeOK
<1>6. At(p) \in 1..Len(published) /\ batch[p][At(p)] \in Nat
  BY <1>1, <1>4
<1>7. Current(p) \in Receipts
  BY <1>5 DEF Current
<1> QED BY <1>2, <1>4, <1>6, <1>7

\* The batch a processor fetches is not empty, and its places are published.
LEMMA FetchType ==
  ASSUME TypeOK, Due # {}
  PROVE  IsBatch([i \in Oldest(Due) |-> event[published[i]].retries]) /\ Oldest(Due) # {}
<1>1. Due \in SUBSET (1..Len(published)) /\ Due \in SUBSET Nat
  BY DEF Due, TypeOK
<1>2. Oldest(Due) \in SUBSET (1..Len(published))
  BY <1>1 DEF Oldest
<1>3. \A i \in Oldest(Due) : event[published[i]].retries \in Nat
  BY <1>2 DEF TypeOK, Event
<1>4. {j \in Due : j < Min(Due)} = {}
  <2> SUFFICES ASSUME NEW j \in Due, j < Min(Due) PROVE FALSE
    OBVIOUS
  <2>1. Min(Due) \in Nat /\ j \in Nat /\ Min(Due) =< j
    BY <1>1, MinExists
  <2> QED BY <2>1
<1>5. Cardinality({j \in Due : j < Min(Due)}) < Limit
  BY <1>4, FS_EmptySet, OutboxAssumption
<1>6. Min(Due) \in Oldest(Due)
  BY <1>1, <1>5, MinExists DEF Oldest
<1> QED BY <1>2, <1>3, <1>6 DEF IsBatch

\* Counting more tasks for some lines counts tasks.
LEMMA MoreType ==
  ASSUME NEW f \in [Lines -> Nat], NEW S
  PROVE  More(f, S, 1) \in [Lines -> Nat]
BY DEF More

\* Leaving an event behind keeps the types of a batch.
LEMMA NextEventType ==
  ASSUME TypeOK, NEW p \in Pollers, pc[p] # "idle", NextEvent(p), published' = published
  PROVE  /\ batch' = [q \in Pollers |-> batch'[q]]
         /\ pc' \in [Pollers -> {"idle", "count", "create", "sent", "fail", "increment"}]
         /\ \A q \in Pollers : IsBatch(batch[q])' /\ (pc'[q] # "idle" => DOMAIN batch'[q] # {})
<1> DEFINE rest == DOMAIN batch[p] \ {At(p)}
<1>1. PICK D \in SUBSET (1..Len(published)) : batch[p] \in [D -> Nat]
  BY DEF TypeOK, IsBatch
<1>2. Restrict(batch[p], rest) \in [rest -> Nat]
  BY <1>1 DEF Restrict
<1>3. rest \in SUBSET (1..Len(published))
  BY <1>1
<1>5. batch' = [batch EXCEPT ![p] = Restrict(@, rest)]
  BY DEF NextEvent
<1>6. batch' = [q \in Pollers |-> batch'[q]]
  BY <1>5 DEF TypeOK
<1>4. \A q \in Pollers : IsBatch(batch[q])'
  <2> SUFFICES ASSUME NEW q \in Pollers PROVE IsBatch(batch[q])'
    OBVIOUS
  <2>1. CASE q = p
    <3>1. batch'[q] = Restrict(batch[p], rest)
      BY <1>5, <2>1 DEF TypeOK
    <3> QED BY <1>2, <1>3, <3>1 DEF IsBatch
  <2>2. CASE q # p
    <3>1. batch'[q] = batch[q]
      BY <1>5, <2>2 DEF TypeOK
    <3> QED BY <3>1 DEF IsBatch, TypeOK
  <2> QED BY <2>1, <2>2
<1>7. pc' = [pc EXCEPT ![p] = IF rest = {} THEN "idle" ELSE "count"]
  BY DEF NextEvent, Goto
<1>8. DOMAIN Restrict(batch[p], rest) = rest
  BY DEF Restrict
<1>9. \A q \in Pollers : pc'[q] # "idle" => DOMAIN batch'[q] # {}
  <2> SUFFICES ASSUME NEW q \in Pollers, pc'[q] # "idle" PROVE DOMAIN batch'[q] # {}
    OBVIOUS
  <2>1. CASE q = p
    BY <2>1, <1>5, <1>7, <1>8 DEF TypeOK
  <2>2. CASE q # p
    BY <2>2, <1>5, <1>7 DEF TypeOK
  <2> QED BY <2>1, <2>2
<1> QED BY <1>4, <1>6, <1>7, <1>9 DEF TypeOK

-----------------------------------------------------------------------------
(* Type correctness. *)

\* The initial states have the types.
LEMMA InitType == Init => TypeOK
<1> SUFFICES ASSUME Init PROVE TypeOK
  OBVIOUS
<1>1. IsBatch(<<>>)
  <2>1. {} \in SUBSET (1..Len(published)) /\ <<>> \in [{} -> Nat]
    OBVIOUS
  <2> QED BY <2>1 DEF IsBatch
<1> QED BY <1>1, OutboxAssumption DEF Init, TypeOK, NoEvent, Event

\* Every step keeps the types: the state of the outbox, the warehouse and the
\* clerks changes within its types, and no processor runs without an event.
LEMMA NextType == TypeOK /\ [Next]_vars => TypeOK'
<1> SUFFICES ASSUME TypeOK, [Next]_vars PROVE TypeOK'
  OBVIOUS
<1> USE DEF store, tasks, clerks, bounds
<1>1. ASSUME NEW r \in Receipts, Publish(r) PROVE TypeOK'
  <2>1. published' \in Seq(Receipts) /\ Len(published') = Len(published) + 1
    BY <1>1 DEF Publish, TypeOK
  <2>2. 1..Len(published) \subseteq 1..Len(published')
    <3>1. Len(published) \in Nat
      BY DEF TypeOK
    <3> QED BY <2>1, <3>1
  <2>3. \A p \in Pollers : IsBatch(batch[p])'
    <3> SUFFICES ASSUME NEW p \in Pollers PROVE IsBatch(batch[p])'
      OBVIOUS
    <3>1. PICK D \in SUBSET (1..Len(published)) : batch[p] \in [D -> Nat]
      BY DEF TypeOK, IsBatch
    <3>2. D \in SUBSET (1..Len(published')) /\ batch'[p] = batch[p]
      BY <1>1, <2>2 DEF Publish
    <3> QED BY <3>1, <3>2 DEF IsBatch
  <2>4. event' \in [Receipts -> Event]
    BY <1>1 DEF Publish, TypeOK, Event
  <2> QED BY <1>1, <2>1, <2>3, <2>4 DEF Publish, TypeOK
<1>2. ASSUME NEW r \in Receipts, RequeueDeadLetter(r) PROVE TypeOK'
  BY <1>2 DEF RequeueDeadLetter, TypeOK, Event, IsBatch
<1>3. ASSUME NEW l \in Lines, CancelTask(l) PROVE TypeOK'
  BY <1>3 DEF CancelTask, TypeOK, IsBatch
<1>4. ASSUME NEW c \in Clerks, ChooseLines(c) PROVE TypeOK'
  BY <1>4 DEF ChooseLines, TypeOK, IsBatch
<1>5. ASSUME NEW c \in Clerks, SaveTasks(c) PROVE TypeOK'
  BY <1>5 DEF SaveTasks, TypeOK, IsBatch, More
<1>6. ASSUME NEW p \in Pollers, Fetch(p) PROVE TypeOK'
  <2> DEFINE b == [i \in Oldest(Due) |-> event[published[i]].retries]
  <2>1. IsBatch(b) /\ DOMAIN b # {}
    BY <1>6, FetchType DEF Fetch
  <2>2. batch' = [batch EXCEPT ![p] = b] /\ published' = published
    BY <1>6 DEF Fetch
  <2> HIDE DEF b
  <2>3. batch' = [q \in Pollers |-> batch'[q]] /\ \A q \in Pollers : IsBatch(batch[q])'
    BY <2>1, <2>2 DEF TypeOK, IsBatch
  <2>4. \A q \in Pollers : pc'[q] # "idle" => DOMAIN batch'[q] # {}
    BY <1>6, <2>1, <2>2 DEF Fetch, Goto, TypeOK
  <2> QED BY <1>6, <2>3, <2>4 DEF Fetch, Goto, TypeOK
<1>7. ASSUME NEW p \in Pollers, CountTasks(p) PROVE TypeOK'
  BY <1>7 DEF CountTasks, Goto, TypeOK, IsBatch
<1>8. ASSUME NEW p \in Pollers, CreateTasks(p) PROVE TypeOK'
  <2> DEFINE S == LinesOf(Current(p))
  <2>1. /\ More(made, S, 1) \in [Lines -> Nat]
        /\ More(auto, S, 1) \in [Lines -> Nat]
        /\ More(open, S, 1) \in [Lines -> Nat]
    BY MoreType DEF TypeOK
  <2>2. /\ made' \in {made, More(made, S, 1)}
        /\ auto' \in {auto, More(auto, S, 1)}
        /\ open' \in {open, More(open, S, 1)}
    BY <1>8 DEF CreateTasks
  <2>3. made' \in [Lines -> Nat] /\ auto' \in [Lines -> Nat] /\ open' \in [Lines -> Nat]
    <3> HIDE DEF S
    <3> QED BY <2>1, <2>2 DEF TypeOK
  <2>4. pc' = [pc EXCEPT ![p] = "sent"] \/ pc' = [pc EXCEPT ![p] = "fail"]
    BY <1>8 DEF CreateTasks, Goto
  <2>5. pc[p] = "create" /\ UNCHANGED <<published, event, usable, batch, desk, pick, faults, changes>>
    BY <1>8 DEF CreateTasks
  <2> QED BY <2>3, <2>4, <2>5 DEF TypeOK, IsBatch
<1>9. ASSUME NEW p \in Pollers, MarkSent(p) PROVE TypeOK'
  <2>1. event' \in [Receipts -> Event]
    BY <1>9, CurrentType DEF MarkSent, TypeOK, Event
  <2> QED BY <1>9, <2>1, NextEventType DEF MarkSent, TypeOK
<1>10. ASSUME NEW p \in Pollers, MarkFailure(p) PROVE TypeOK'
  <2>1. event' \in [Receipts -> Event]
    BY <1>10, CurrentType DEF MarkFailure, TypeOK, Event
  <2> QED BY <1>10, <2>1 DEF MarkFailure, Goto, TypeOK, IsBatch
<1>11. ASSUME NEW p \in Pollers, IncrementRetries(p) PROVE TypeOK'
  <2>1. event' \in [Receipts -> Event]
    <3>1. Current(p) \in Receipts
      BY <1>11, CurrentType DEF IncrementRetries
    <3>2. event[Current(p)].retries + 1 \in Nat
      BY <3>1 DEF TypeOK, Event
    <3> QED BY <1>11, <3>1, <3>2 DEF IncrementRetries, TypeOK, Event
  <2> QED BY <1>11, <2>1, NextEventType DEF IncrementRetries, TypeOK
<1>12. ASSUME NEW p \in Pollers, Error(p) PROVE TypeOK'
  BY <1>12, OutboxAssumption DEF Error, Goto, TypeOK, IsBatch
<1>13. ASSUME NEW p \in Pollers, Crash(p) PROVE TypeOK'
  <2>1. {} \in SUBSET (1..Len(published)) /\ <<>> \in [{} -> Nat]
    OBVIOUS
  <2>2. batch' = [batch EXCEPT ![p] = <<>>] /\ published' = published
    BY <1>13 DEF Crash
  <2>3. batch' = [q \in Pollers |-> batch'[q]] /\ \A q \in Pollers : IsBatch(batch[q])'
    BY <2>1, <2>2 DEF TypeOK, IsBatch
  <2>4. \A q \in Pollers : pc'[q] # "idle" => DOMAIN batch'[q] # {}
    BY <1>13 DEF Crash, Goto, TypeOK
  <2>5. pc' = [pc EXCEPT ![p] = "idle"] /\ faults' \in 0..MaxFaults
    BY <1>13, OutboxAssumption DEF Crash, Goto, TypeOK
  <2>6. UNCHANGED <<published, event, made, auto, open, usable, desk, pick, changes>>
    BY <1>13 DEF Crash
  <2> QED BY <2>3, <2>4, <2>5, <2>6 DEF TypeOK
<1>14. ASSUME ChangeLocations PROVE TypeOK'
  BY <1>14, OutboxAssumption DEF ChangeLocations, TypeOK, IsBatch
<1>15. CASE UNCHANGED vars
  BY <1>15 DEF vars, TypeOK, IsBatch
<1> QED BY <1>1, <1>2, <1>3, <1>4, <1>5, <1>6, <1>7, <1>8, <1>9, <1>10, <1>11, <1>12,
           <1>13, <1>14, <1>15 DEF Next, Process

\* The types of the outbox and of the tasks hold in every reachable state.
THEOREM OutboxTypes == Spec => []TypeOK
BY InitType, NextType, PTL DEF Spec
-----------------------------------------------------------------------------
(* An event marked SENT has its tasks, when clerks take whole receipts. *)

WholeManual == \A S \in Manual : \E r \in Receipts : S = LinesOf(r)

\* The lines of a receipt get their first tasks together.
Whole == \A l, m \in Lines : ReceiptOf[l] = ReceiptOf[m] /\ made[l] > 0 => made[m] > 0

\* A processor about to mark an event has tasks for it.
Marked == \A p \in Pollers : pc[p] = "sent" => \A l \in LinesOf(Current(p)) : made[l] > 0

\* The processor stays where it is, and tasks are only added.
Kept(p) == /\ batch'[p] = batch[p]
           /\ published' = published \/ \E r \in Receipts : published' = Append(published, r)

TasksAdded == \A l \in Lines : made'[l] >= made[l]

\* An event stays the current one of a processor while others publish.
LEMMA CurrentStays ==
  ASSUME TypeOK, NEW p \in Pollers, pc[p] # "idle", Kept(p)
  PROVE  Current(p)' = Current(p)
<1>1. At(p) \in 1..Len(published)
  BY CurrentType
<1>2. At(p)' = At(p)
  BY DEF Kept, At
<1>3. published'[At(p)] = published[At(p)]
  BY <1>1 DEF TypeOK, Kept
<1> QED BY <1>2, <1>3 DEF Current

\* One more task for the lines of a set leaves the others alone.
LEMMA MoreCounts ==
  ASSUME NEW f \in [Lines -> Nat], NEW S, NEW l \in Lines
  PROVE  /\ l \in S => More(f, S, 1)[l] = f[l] + 1
         /\ l \notin S => More(f, S, 1)[l] = f[l]
         /\ More(f, S, 1)[l] >= f[l]
BY DEF More

\* A processor that stays about to mark its event still has the tasks.
LEMMA MarkedStays ==
  ASSUME TypeOK, Marked, TasksAdded, made' \in [Lines -> Nat],
         NEW p \in Pollers, pc[p] = "sent", Kept(p)
  PROVE  \A l \in LinesOf(Current(p)') : made'[l] > 0
<1>1. Current(p)' = Current(p)
  BY CurrentStays
<1> SUFFICES ASSUME NEW l \in LinesOf(Current(p)) PROVE made'[l] > 0
  BY <1>1
<1>2. l \in Lines /\ made[l] > 0
  BY DEF Marked, LinesOf
<1>3. made[l] \in Nat /\ made'[l] \in Nat /\ made'[l] >= made[l]
  BY <1>2 DEF TasksAdded, TypeOK
<1> QED BY <1>2, <1>3

\* Tasks for all lines of one receipt keep the receipts whole.
LEMMA WholeStays ==
  ASSUME TypeOK, Whole, NEW r, made' = More(made, LinesOf(r), 1)
  PROVE  Whole'
<1> SUFFICES ASSUME NEW l \in Lines, NEW m \in Lines, ReceiptOf[l] = ReceiptOf[m], made'[l] > 0
             PROVE  made'[m] > 0
  BY DEF Whole
<1>1. made \in [Lines -> Nat]
  BY DEF TypeOK
<1>2. CASE m \in LinesOf(r)
  <2>1. made'[m] = made[m] + 1
    BY <1>1, <1>2, MoreCounts
  <2> QED BY <1>1, <2>1
<1>3. CASE m \notin LinesOf(r)
  <2>1. l \notin LinesOf(r)
    BY <1>3 DEF LinesOf
  <2>2. made'[l] = made[l] /\ made'[m] = made[m]
    BY <1>1, <1>3, <2>1, MoreCounts
  <2> QED BY <2>2 DEF Whole
<1> QED BY <1>2, <1>3

\* Each step adds tasks or leaves them, for a whole receipt at a time.
LEMMA TasksOfStep ==
  ASSUME TypeOK, TypeOK', [Next]_vars, WholeManual, Whole
  PROVE  TasksAdded /\ Whole'
<1> USE DEF store, tasks, clerks, bounds
<1>1. CASE made' = made
  BY <1>1 DEF TasksAdded, Whole, TypeOK
<1>2. ASSUME NEW r, made' = More(made, LinesOf(r), 1) PROVE TasksAdded /\ Whole'
  <2>1. Whole'
    BY <1>2, WholeStays
  <2>2. TasksAdded
    BY <1>2, MoreCounts DEF TasksAdded, TypeOK
  <2> QED BY <2>1, <2>2
<1>3. ASSUME NEW c \in Clerks, SaveTasks(c) PROVE TasksAdded /\ Whole'
  <2>1. made' = More(made, pick[c], 1) /\ pick[c] \in Manual \cup {{}}
    BY <1>3 DEF SaveTasks, TypeOK
  <2>2. CASE pick[c] = {}
    <3>1. More(made, {}, 1) = made
      BY DEF More, TypeOK
    <3> QED BY <1>1, <2>1, <2>2, <3>1
  <2>3. CASE pick[c] \in Manual
    BY <1>2, <2>1, <2>3 DEF WholeManual
  <2> QED BY <2>1, <2>2, <2>3
<1>4. ASSUME NEW p \in Pollers, CreateTasks(p) PROVE TasksAdded /\ Whole'
  <2>1. made' = More(made, LinesOf(Current(p)), 1) \/ made' = made
    BY <1>4 DEF CreateTasks
  <2> QED BY <1>1, <1>2, <2>1
<1>5. CASE \/ \E r \in Receipts : Publish(r) \/ RequeueDeadLetter(r)
           \/ \E l \in Lines : CancelTask(l)
           \/ \E c \in Clerks : ChooseLines(c)
           \/ ChangeLocations \/ UNCHANGED vars
  BY <1>1, <1>5 DEF Publish, RequeueDeadLetter, CancelTask, ChooseLines, ChangeLocations, vars
<1>6. ASSUME NEW p \in Pollers,
             \/ Fetch(p) \/ CountTasks(p) \/ MarkSent(p) \/ MarkFailure(p)
             \/ IncrementRetries(p) \/ Error(p) \/ Crash(p)
      PROVE TasksAdded /\ Whole'
  BY <1>1, <1>6 DEF Fetch, CountTasks, MarkSent, MarkFailure, IncrementRetries, Error, Crash
<1> QED BY <1>3, <1>4, <1>5, <1>6 DEF Next, Process

\* A processor comes to mark its event by counting or by creating the tasks.
LEMMA HowSent ==
  ASSUME TypeOK, [Next]_vars, NEW p \in Pollers, pc'[p] = "sent"
  PROVE  (pc[p] = "sent" /\ Kept(p)) \/ CountTasks(p) \/ CreateTasks(p)
<1> USE DEF store, tasks, clerks, bounds
<1>1. CASE \/ \E r \in Receipts : Publish(r) \/ RequeueDeadLetter(r)
           \/ \E l \in Lines : CancelTask(l)
           \/ \E c \in Clerks : ChooseLines(c) \/ SaveTasks(c)
           \/ ChangeLocations \/ UNCHANGED vars
  BY <1>1 DEF Publish, RequeueDeadLetter, CancelTask, ChooseLines, SaveTasks,
              ChangeLocations, vars, Kept
<1>2. ASSUME NEW q \in Pollers, q # p,
             \/ CountTasks(q) \/ CreateTasks(q) \/ MarkFailure(q) \/ Error(q)
      PROVE pc[p] = "sent" /\ Kept(p)
  BY <1>2 DEF CountTasks, CreateTasks, MarkFailure, Error, Goto, Kept, TypeOK
<1>3. ASSUME NEW q \in Pollers, q # p,
             \/ Fetch(q) \/ MarkSent(q) \/ IncrementRetries(q) \/ Crash(q)
      PROVE pc[p] = "sent" /\ Kept(p)
  BY <1>3 DEF Fetch, MarkSent, IncrementRetries, Crash, NextEvent, Goto, Kept, TypeOK
<1>4. ASSUME Fetch(p) \/ MarkSent(p) \/ MarkFailure(p) \/ IncrementRetries(p) \/ Error(p) \/ Crash(p)
      PROVE FALSE
  BY <1>4 DEF Fetch, MarkSent, MarkFailure, IncrementRetries, Error, Crash, NextEvent,
              Goto, TypeOK
<1> QED BY <1>1, <1>2, <1>3, <1>4 DEF Next, Process

\* A processor about to mark an event has tasks for it, after each step.
LEMMA MarkedNext ==
  ASSUME TypeOK, TypeOK', [Next]_vars, TasksAdded, Whole, Marked
  PROVE  Marked'
<1> USE DEF store
<1> SUFFICES ASSUME NEW p \in Pollers, pc'[p] = "sent"
             PROVE  \A l \in LinesOf(Current(p)') : made'[l] > 0
  BY DEF Marked, LinesOf
<1>1. CASE pc[p] = "sent" /\ Kept(p)
  <2>1. made' \in [Lines -> Nat]
    BY DEF TypeOK
  <2> QED BY <1>1, <2>1, MarkedStays
<1>2. CASE CountTasks(p) \/ CreateTasks(p)
  <2>1. pc[p] # "idle" /\ Kept(p)
    BY <1>2 DEF CountTasks, CreateTasks, Kept
  <2>2. Current(p)' = Current(p)
    BY <2>1, CurrentStays
  <2>3. CASE CountTasks(p)
    <3>1. \E l \in LinesOf(Current(p)) : made[l] > 0
      BY <2>3 DEF CountTasks, Goto, TypeOK
    <3>2. \A m \in LinesOf(Current(p)) : made[m] > 0
      BY <3>1 DEF Whole, LinesOf
    <3>3. made' = made
      BY <2>3 DEF CountTasks, tasks
    <3> QED BY <2>2, <3>2, <3>3
  <2>4. CASE CreateTasks(p)
    <3>1. pc'[p] = "sent" => made' = More(made, LinesOf(Current(p)), 1)
      BY <2>4 DEF CreateTasks, Goto, TypeOK
    <3>2. made \in [Lines -> Nat]
      BY DEF TypeOK
    <3>3. \A l \in LinesOf(Current(p)) : made'[l] > 0
      <4> SUFFICES ASSUME NEW l \in LinesOf(Current(p)) PROVE made'[l] > 0
        OBVIOUS
      <4>1. l \in Lines /\ made'[l] = made[l] + 1
        BY <3>1, <3>2, MoreCounts DEF LinesOf
      <4> QED BY <3>2, <4>1
    <3> QED BY <2>2, <3>3
  <2> QED BY <1>2, <2>3, <2>4
<1> QED BY <1>1, <1>2, HowSent

\* A step that marks no event leaves the SENT events as they are.
LEMMA SentBefore ==
  ASSUME TypeOK, [Next]_vars, NEW r \in Receipts, event'[r].status = "SENT"
  PROVE  \/ event[r].status = "SENT"
         \/ \E p \in Pollers : MarkSent(p) /\ Current(p) = r
<1> USE DEF store, tasks, clerks, bounds
<1>1. CASE event' = event
  BY <1>1
<1>2. ASSUME NEW q \in Receipts, Publish(q) \/ RequeueDeadLetter(q) PROVE event[r].status = "SENT"
  <2>1. event' = [event EXCEPT ![q] = [status |-> "PENDING", retries |-> 0]]
    BY <1>2 DEF Publish, RequeueDeadLetter
  <2>2. r # q
    <3> SUFFICES ASSUME r = q PROVE FALSE
      OBVIOUS
    <3>1. event'[r] = [status |-> "PENDING", retries |-> 0]
      BY <2>1 DEF TypeOK
    <3> QED BY <3>1
  <2> QED BY <2>1, <2>2 DEF TypeOK
<1>3. ASSUME NEW p \in Pollers, MarkSent(p), Current(p) # r PROVE event[r].status = "SENT"
  BY <1>3 DEF MarkSent, TypeOK
<1>4. ASSUME NEW p \in Pollers, MarkFailure(p) PROVE event[r].status = "SENT"
  BY <1>4 DEF MarkFailure, TypeOK, Event
<1>5. ASSUME NEW p \in Pollers, IncrementRetries(p) PROVE event[r].status = "SENT"
  BY <1>5 DEF IncrementRetries, TypeOK, Event
<1>6. CASE \/ \E l \in Lines : CancelTask(l)
           \/ \E c \in Clerks : ChooseLines(c) \/ SaveTasks(c)
           \/ ChangeLocations \/ UNCHANGED vars
  BY <1>1, <1>6 DEF CancelTask, ChooseLines, SaveTasks, ChangeLocations, vars
<1>7. ASSUME NEW p \in Pollers,
             \/ Fetch(p) \/ CountTasks(p) \/ CreateTasks(p) \/ Error(p) \/ Crash(p)
      PROVE event[r].status = "SENT"
  BY <1>1, <1>7 DEF Fetch, CountTasks, CreateTasks, Error, Crash
<1> QED BY <1>1, <1>2, <1>3, <1>4, <1>5, <1>6, <1>7 DEF Next, Process

\* The SENT events have their tasks after each step.
LEMMA SentNext ==
  ASSUME TypeOK, TypeOK', [Next]_vars, TasksAdded, Marked, SentMeansPutAway
  PROVE  SentMeansPutAway'
<1> SUFFICES ASSUME NEW l \in Lines, event'[ReceiptOf[l]].status = "SENT"
             PROVE  made'[l] > 0
  BY DEF SentMeansPutAway
<1>1. ReceiptOf[l] \in Receipts
  BY OutboxAssumption
<1>2. made[l] \in Nat /\ made'[l] \in Nat /\ made'[l] >= made[l]
  BY DEF TasksAdded, TypeOK
<1>3. made[l] > 0
  <2>1. CASE event[ReceiptOf[l]].status = "SENT"
    BY <2>1 DEF SentMeansPutAway
  <2>2. ASSUME NEW p \in Pollers, MarkSent(p), Current(p) = ReceiptOf[l] PROVE made[l] > 0
    BY <2>2 DEF MarkSent, Marked, LinesOf
  <2> QED BY <1>1, <2>1, <2>2, SentBefore
<1> QED BY <1>2, <1>3

\* When clerks take whole receipts, an event is marked SENT only when every line
\* of its receipt has had a task, whatever crashes, errors and interleavings of
\* any number of processors and clerks.
THEOREM SentIsPutAway ==
  ASSUME WholeManual
  PROVE  Spec => []SentMeansPutAway
<1> DEFINE Inv == Whole /\ Marked /\ SentMeansPutAway
<1>1. Init => Inv
  BY OutboxAssumption DEF Init, Whole, Marked, SentMeansPutAway, NoEvent
<1>2. TypeOK /\ TypeOK' /\ Inv /\ [Next]_vars => Inv'
  BY TasksOfStep, MarkedNext, SentNext
<1>3. Inv => SentMeansPutAway
  OBVIOUS
<1> QED BY <1>1, <1>2, <1>3, OutboxTypes, PTL DEF Spec

-----------------------------------------------------------------------------
(* One server process makes the tasks of a line once. *)

Solo == \A p, q \in Pollers : p = q

\* The tasks the processor made are among the tasks.
AutoIsMade == \A l \in Lines : auto[l] =< made[l]

\* A processor about to create tasks has made none for the receipt.
Fresh == \A p \in Pollers : pc[p] = "create" => \A l \in LinesOf(Current(p)) : auto[l] = 0

OnceInv == AutoIsMade /\ Fresh /\ PutAwayOnce

\* A processor comes to create tasks by counting none.
LEMMA HowFresh ==
  ASSUME TypeOK, [Next]_vars, NEW p \in Pollers, pc'[p] = "create"
  PROVE  (pc[p] = "create" /\ Kept(p)) \/ CountTasks(p)
<1> USE DEF store, tasks, clerks, bounds
<1>1. CASE \/ \E r \in Receipts : Publish(r) \/ RequeueDeadLetter(r)
           \/ \E l \in Lines : CancelTask(l)
           \/ \E c \in Clerks : ChooseLines(c) \/ SaveTasks(c)
           \/ ChangeLocations \/ UNCHANGED vars
  BY <1>1 DEF Publish, RequeueDeadLetter, CancelTask, ChooseLines, SaveTasks,
              ChangeLocations, vars, Kept
<1>2. ASSUME NEW q \in Pollers, q # p,
             \/ CountTasks(q) \/ CreateTasks(q) \/ MarkFailure(q) \/ Error(q)
      PROVE pc[p] = "create" /\ Kept(p)
  BY <1>2 DEF CountTasks, CreateTasks, MarkFailure, Error, Goto, Kept, TypeOK
<1>3. ASSUME NEW q \in Pollers, q # p,
             \/ Fetch(q) \/ MarkSent(q) \/ IncrementRetries(q) \/ Crash(q)
      PROVE pc[p] = "create" /\ Kept(p)
  BY <1>3 DEF Fetch, MarkSent, IncrementRetries, Crash, NextEvent, Goto, Kept, TypeOK
<1>4. ASSUME \/ Fetch(p) \/ CreateTasks(p) \/ MarkSent(p) \/ MarkFailure(p)
             \/ IncrementRetries(p) \/ Error(p) \/ Crash(p)
      PROVE FALSE
  BY <1>4 DEF Fetch, CreateTasks, MarkSent, MarkFailure, IncrementRetries, Error, Crash,
              NextEvent, Goto, TypeOK
<1> QED BY <1>1, <1>2, <1>3, <1>4 DEF Next, Process

\* Every step but the creation of tasks leaves what the processor made, and the
\* tasks never get fewer.
LEMMA AutoOfStep ==
  ASSUME TypeOK, TypeOK', [Next]_vars
  PROVE  \/ auto' = auto /\ (made' = made \/ \E c \in Clerks : made' = More(made, pick[c], 1))
         \/ \E p \in Pollers : /\ pc[p] = "create" /\ pc'[p] = "sent"
                               /\ made' = More(made, LinesOf(Current(p)), 1)
                               /\ auto' = More(auto, LinesOf(Current(p)), 1)
<1> USE DEF store, tasks, clerks, bounds
<1>1. ASSUME NEW p \in Pollers, CreateTasks(p)
      PROVE  \/ auto' = auto /\ made' = made
             \/ /\ pc[p] = "create" /\ pc'[p] = "sent"
                /\ made' = More(made, LinesOf(Current(p)), 1)
                /\ auto' = More(auto, LinesOf(Current(p)), 1)
  <2>1. pc[p] = "create"
    BY <1>1 DEF CreateTasks
  <2>2. CASE usable
    <3>1. pc' = [pc EXCEPT ![p] = "sent"]
      BY <1>1, <2>2 DEF CreateTasks, Goto
    <3>2. pc'[p] = "sent"
      BY <3>1 DEF TypeOK
    <3>3. /\ made' = More(made, LinesOf(Current(p)), 1)
          /\ auto' = More(auto, LinesOf(Current(p)), 1)
      BY <1>1, <2>2 DEF CreateTasks
    <3> QED BY <2>1, <3>2, <3>3
  <2>3. CASE ~usable
    BY <1>1, <2>3 DEF CreateTasks
  <2> QED BY <2>2, <2>3
<1>2. ASSUME NEW c \in Clerks, SaveTasks(c)
      PROVE  auto' = auto /\ made' = More(made, pick[c], 1)
  BY <1>2 DEF SaveTasks
<1>3. CASE \/ \E r \in Receipts : Publish(r) \/ RequeueDeadLetter(r)
           \/ \E l \in Lines : CancelTask(l)
           \/ \E c \in Clerks : ChooseLines(c)
           \/ ChangeLocations \/ UNCHANGED vars
  BY <1>3 DEF Publish, RequeueDeadLetter, CancelTask, ChooseLines, ChangeLocations, vars
<1>4. ASSUME NEW p \in Pollers,
             \/ Fetch(p) \/ CountTasks(p) \/ MarkSent(p) \/ MarkFailure(p)
             \/ IncrementRetries(p) \/ Error(p) \/ Crash(p)
      PROVE auto' = auto /\ made' = made
  BY <1>4 DEF Fetch, CountTasks, MarkSent, MarkFailure, IncrementRetries, Error, Crash
<1> QED BY <1>1, <1>2, <1>3, <1>4 DEF Next, Process

\* With one processor, what it has made stays at most one task for a line.
LEMMA OnceNext ==
  ASSUME TypeOK, TypeOK', [Next]_vars, Solo, OnceInv
  PROVE  OnceInv'
<1>1. made \in [Lines -> Nat] /\ auto \in [Lines -> Nat]
  BY DEF TypeOK
<1>2. ASSUME NEW p \in Pollers, pc[p] = "create"
      PROVE  \A l \in LinesOf(Current(p)) : auto[l] = 0
  BY <1>2 DEF OnceInv, Fresh
<1>3. AutoIsMade' /\ PutAwayOnce'
  <2> SUFFICES ASSUME NEW l \in Lines PROVE auto'[l] =< made'[l] /\ auto'[l] =< 1
    BY DEF AutoIsMade, PutAwayOnce
  <2>1. auto[l] =< made[l] /\ auto[l] =< 1
    BY DEF OnceInv, AutoIsMade, PutAwayOnce
  <2>2. CASE auto' = auto /\ made' = made
    BY <2>1, <2>2
  <2>3. ASSUME NEW c \in Clerks, auto' = auto, made' = More(made, pick[c], 1)
        PROVE  auto'[l] =< made'[l] /\ auto'[l] =< 1
    <3>1. made'[l] >= made[l] /\ made'[l] \in Nat
      BY <1>1, <2>3, MoreCounts DEF TypeOK
    <3> QED BY <1>1, <2>1, <2>3, <3>1
  <2>4. ASSUME NEW p \in Pollers, pc[p] = "create",
               made' = More(made, LinesOf(Current(p)), 1),
               auto' = More(auto, LinesOf(Current(p)), 1)
        PROVE  auto'[l] =< made'[l] /\ auto'[l] =< 1
    <3>1. CASE l \in LinesOf(Current(p))
      <4>1. auto'[l] = auto[l] + 1 /\ made'[l] = made[l] + 1
        BY <1>1, <2>4, <3>1, MoreCounts
      <4>2. auto[l] = 0
        BY <1>2, <2>4, <3>1
      <4> QED BY <1>1, <2>1, <4>1, <4>2
    <3>2. CASE l \notin LinesOf(Current(p))
      <4>1. auto'[l] = auto[l] /\ made'[l] = made[l]
        BY <1>1, <2>4, <3>2, MoreCounts
      <4> QED BY <2>1, <4>1
    <3> QED BY <3>1, <3>2
  <2> QED BY <2>2, <2>3, <2>4, AutoOfStep
<1>4. Fresh'
  <2> SUFFICES ASSUME NEW p \in Pollers, pc'[p] = "create"
               PROVE  \A l \in LinesOf(Current(p)') : auto'[l] = 0
    BY DEF Fresh, LinesOf
  <2>1. auto' = auto
    <3> SUFFICES ASSUME NEW q \in Pollers, pc'[q] = "sent" PROVE FALSE
      BY AutoOfStep
    <3> QED BY DEF Solo
  <2>2. Current(p)' = Current(p)
    <3>1. pc[p] # "idle" /\ Kept(p)
      BY HowFresh DEF CountTasks, store, Kept
    <3> QED BY <3>1, CurrentStays
  <2>3. \A l \in LinesOf(Current(p)) : auto[l] = 0
    <3>1. CASE pc[p] = "create"
      BY <1>2, <3>1
    <3>2. CASE CountTasks(p)
      <4>1. ~\E l \in LinesOf(Current(p)) : made[l] > 0
        BY <3>2 DEF CountTasks, Goto, TypeOK
      <4> SUFFICES ASSUME NEW l \in LinesOf(Current(p)) PROVE auto[l] = 0
        OBVIOUS
      <4>2. l \in Lines /\ auto[l] =< made[l] /\ ~(made[l] > 0)
        BY <4>1 DEF LinesOf, OnceInv, AutoIsMade
      <4> QED BY <1>1, <4>2
    <3> QED BY <3>1, <3>2, HowFresh
  <2> QED BY <2>1, <2>2, <2>3
<1> QED BY <1>3, <1>4 DEF OnceInv

\* A single server process makes at most one task for a line, however often a
\* crash between the tasks and the mark has the event delivered again and
\* whatever the clerks do.
THEOREM AutoPutAwayOnce ==
  ASSUME Solo
  PROVE  Spec => []PutAwayOnce
<1>1. Init => OnceInv
  BY DEF Init, OnceInv, AutoIsMade, Fresh, PutAwayOnce
<1>2. TypeOK /\ TypeOK' /\ OnceInv /\ [Next]_vars => OnceInv'
  BY OnceNext
<1>3. OnceInv => PutAwayOnce
  BY DEF OnceInv
<1> QED BY <1>1, <1>2, <1>3, OutboxTypes, PTL DEF Spec
=============================================================================
