---------------------------- MODULE SyncDelivery ----------------------------
(***************************************************************************)
(* What an offline client and the server tell each other.  It pushes       *)
(* batches of operations, and sends a batch again under the same           *)
(* Idempotency-Key until it gets an answer; the server answers from the    *)
(* stored key or processes the batch, and stores the key while the answer  *)
(* is already on its way.  It pulls outbox events that are SENT, in pages  *)
(* after a cursor, the creation time of the last event it got.             *)
(*                                                                         *)
(* Creation times have microseconds in the database; in the server and in  *)
(* the cursor they have milliseconds.                                      *)
(***************************************************************************)
EXTENDS Integers, Sequences, FiniteSets, FiniteSetsExt

CONSTANTS
  Batches,   \* batches of operations, each with its key
  Ops,       \* operations
  OpsOf,     \* OpsOf[b]: the operations of batch b, in order
  Attempts,  \* ids of requests; bounds how often a client tries
  Events,    \* outbox events of the tenant
  Stamp,     \* Stamp[e]: createdAt of e in microseconds
  Tick,      \* microseconds in a millisecond
  Limit,     \* limit of a page
  Workloads, \* what a client does: the batches it pushes, the events that come
  MaxFaults  \* bound on losses, crashes, failed writes and expired keys

ASSUME SyncAssumption ==
  /\ OpsOf \in [Batches -> Seq(Ops)]
  /\ \A b, c \in Batches : \A i \in DOMAIN OpsOf[b], j \in DOMAIN OpsOf[c] :
       OpsOf[b][i] = OpsOf[c][j] => b = c /\ i = j
  /\ IsFiniteSet(Events) /\ Stamp \in [Events -> Nat \ {0}]
  /\ \A d, e \in Events : Stamp[d] = Stamp[e] => d = e
  /\ Tick \in Nat \ {0} /\ Limit \in Nat \ {0} /\ MaxFaults \in Nat
  /\ Workloads \subseteq [batches : SUBSET Batches, events : SUBSET Events]

VARIABLES
  work,      \* what this client does
  answer,    \* answer[b]: the results the client has got, or NoAnswer
  attempt,   \* attempt[a]: a request: its batch, place, results, and what is still due
  stored,    \* stored[b]: the answer of the valid idempotency key, or NoAnswer
  times,     \* times[o]: how often operation o has been applied
  disturbed, \* batches tried again before their key was stored, or whose key was lost (history)
  status,    \* status[e]: of the outbox event
  cursor,    \* the cursor the client keeps
  page,      \* answers of the feed under way: sets of events
  got,       \* events the client has got
  behind,    \* events SENT after a later one was SENT (history)
  faults

pushVars == <<answer, attempt, stored, times, disturbed>>
feedVars == <<status, cursor, page, got, behind>>
vars == <<work, pushVars, feedVars, faults>>

NoAnswer == <<"none">>
Unused == [batch |-> "none", at |-> "unused", results |-> <<>>, reply |-> FALSE,
           store |-> FALSE]

Init ==
  /\ work \in Workloads
  /\ answer = [b \in Batches |-> NoAnswer]
  /\ attempt = [a \in Attempts |-> Unused]
  /\ stored = [b \in Batches |-> NoAnswer]
  /\ times = [o \in Ops |-> 0]
  /\ disturbed = {}
  /\ status = [e \in Events |-> "NONE"]
  /\ cursor = 0 /\ page = {} /\ got = {} /\ behind = {}
  /\ faults = 0

Fault == faults < MaxFaults /\ faults' = faults + 1

-----------------------------------------------------------------------------
(* Pushing. *)

\* The client sends a batch, or sends it again because no answer came in time.
Send(b) ==
  /\ b \in work.batches /\ answer[b] = NoAnswer
  /\ \E a \in Attempts :
       /\ attempt[a] = Unused
       /\ attempt' = [attempt EXCEPT ![a].batch = b, ![a].at = "arrive"]
  /\ UNCHANGED <<work, answer, stored, times, disturbed, feedVars, faults>>

\* An attempt that has looked in vain for the key and has not stored it.
Unstored(a) == attempt[a].at = "run" \/ attempt[a].store
Overlaps(a) == \E c \in Attempts \ {a} : attempt[c].batch = attempt[a].batch /\ Unstored(c)

\* MUTANT of Known: the key is not looked up.
NeverKnown(b) == FALSE

\* MUTANT of Known: the first attempt reserves the key, whether or not it ever answers.
Reserved(b) == \E a \in Attempts : attempt[a].batch = b /\ attempt[a].at \in {"run", "end"}

Known(b) == stored[b] # NoAnswer

\* intercept: a stored answer is given again, otherwise the batch is processed.
Lookup(a) ==
  LET b == attempt[a].batch IN
  /\ attempt[a].at = "arrive"
  /\ IF Known(b)
     THEN /\ attempt' = [attempt EXCEPT ![a].at = "end", ![a].reply = TRUE,
                                        ![a].results = stored[b]]
          /\ UNCHANGED disturbed
     ELSE /\ attempt' = [attempt EXCEPT ![a].at = "run"]
          /\ disturbed' = disturbed \cup {x \in {b} : Overlaps(a)}
  /\ UNCHANGED <<work, answer, stored, times, feedVars, faults>>

Outcome(done) == IF done THEN "accepted" ELSE "rejected"

\* processOperation: applied in a transaction of its own, or rejected with nothing done.
RunOperation(a) ==
  LET n == Len(attempt[a].results) + 1  ops == OpsOf[attempt[a].batch] IN
  /\ attempt[a].at = "run" /\ n <= Len(ops)
  /\ \E done \in BOOLEAN :
       /\ times' = [times EXCEPT ![ops[n]] = @ + (IF done THEN 1 ELSE 0)]
       /\ attempt' = [attempt EXCEPT ![a].results = Append(@, Outcome(done))]
  /\ UNCHANGED <<work, answer, stored, disturbed, feedVars, faults>>

\* The batch is done: the upsert is started and the answer is given, without waiting.
Respond(a) ==
  /\ attempt[a].at = "run"
  /\ Len(attempt[a].results) = Len(OpsOf[attempt[a].batch])
  /\ attempt' = [attempt EXCEPT ![a].at = "end", ![a].reply = TRUE, ![a].store = TRUE]
  /\ UNCHANGED <<work, answer, stored, times, disturbed, feedVars, faults>>

StoreKey(a) ==
  /\ attempt[a].store
  /\ stored' = [stored EXCEPT ![attempt[a].batch] = attempt[a].results]
  /\ attempt' = [attempt EXCEPT ![a].store = FALSE]
  /\ UNCHANGED <<work, answer, times, disturbed, feedVars, faults>>

Deliver(a) ==
  /\ attempt[a].reply
  /\ answer' = [answer EXCEPT ![attempt[a].batch] =
                  IF @ = NoAnswer THEN attempt[a].results ELSE @]
  /\ attempt' = [attempt EXCEPT ![a].reply = FALSE]
  /\ UNCHANGED <<work, stored, times, disturbed, feedVars, faults>>

\* A request or an answer is lost.
Lose(a) ==
  /\ attempt[a].at = "arrive" \/ attempt[a].reply
  /\ Fault
  /\ attempt' = [attempt EXCEPT ![a].at = "end", ![a].reply = FALSE]
  /\ UNCHANGED <<work, answer, stored, times, disturbed, feedVars>>

\* A crash in the middle of a batch keeps what has been applied; so does an upsert that
\* fails, whose error is ignored.
Crash(a) ==
  /\ Unstored(a)
  /\ Fault
  /\ attempt' = [attempt EXCEPT ![a].at = "end", ![a].store = FALSE]
  /\ disturbed' = disturbed \cup {attempt[a].batch}
  /\ UNCHANGED <<work, answer, stored, times, feedVars>>

\* A key is valid for 24 hours.
Expire(b) ==
  /\ Known(b)
  /\ Fault
  /\ stored' = [stored EXCEPT ![b] = NoAnswer]
  /\ disturbed' = disturbed \cup {b}
  /\ UNCHANGED <<work, answer, attempt, times, feedVars>>

-----------------------------------------------------------------------------
(* Pulling. *)

\* Events become visible when their transaction commits, in any order of their times.
Publish(e) ==
  /\ e \in work.events /\ status[e] = "NONE"
  /\ status' = [status EXCEPT ![e] = "PENDING"]
  /\ UNCHANGED <<work, pushVars, cursor, page, got, behind, faults>>

Sent == {e \in Events : status[e] = "SENT"}

MarkSent(e) ==
  /\ status[e] = "PENDING"
  /\ status' = [status EXCEPT ![e] = "SENT"]
  /\ behind' = behind \cup {x \in {e} : \E f \in Sent : Stamp[f] > Stamp[e]}
  /\ UNCHANGED <<work, pushVars, cursor, page, got, faults>>

\* An event that fails too often waits until an operator puts it back in the queue.
MarkDeadLetter(e) ==
  /\ status[e] = "PENDING"
  /\ Fault
  /\ status' = [status EXCEPT ![e] = "DEAD_LETTER"]
  /\ UNCHANGED <<work, pushVars, cursor, page, got, behind>>

Requeue(e) ==
  /\ status[e] = "DEAD_LETTER"
  /\ status' = [status EXCEPT ![e] = "PENDING"]
  /\ UNCHANGED <<work, pushVars, cursor, page, got, behind, faults>>

\* MUTANT of PageAfter: the newest events come first.
NewestFirst(c) ==
  LET after == {e \in Sent : Stamp[e] > c} IN
  {e \in after : Cardinality({f \in after : Stamp[f] > Stamp[e]}) < Limit}

\* getChanges: the first events after the cursor.
PageAfter(c) ==
  LET after == {e \in Sent : Stamp[e] > c} IN
  {e \in after : Cardinality({f \in after : Stamp[f] < Stamp[e]}) < Limit}

Pull ==
  /\ page = {} /\ PageAfter(cursor) # {}
  /\ page' = PageAfter(cursor)
  /\ UNCHANGED <<work, pushVars, status, cursor, got, behind, faults>>

ToMillis(t) == (t \div Tick) * Tick

\* MUTANT of NextCursor: the client keeps its cursor while there is more, as it is told.
NextCursorUnlessMore(p) ==
  IF Cardinality(p) = Limit THEN cursor ELSE ToMillis(Max({Stamp[e] : e \in p}))

NextCursor(p) == ToMillis(Max({Stamp[e] : e \in p}))

Receive ==
  /\ page # {}
  /\ got' = got \cup page
  /\ cursor' = NextCursor(page)
  /\ page' = {}
  /\ UNCHANGED <<work, pushVars, status, behind, faults>>

LosePage ==
  /\ page # {}
  /\ Fault
  /\ page' = {}
  /\ UNCHANGED <<work, pushVars, status, cursor, got, behind>>

-----------------------------------------------------------------------------

Serve(a) == Lookup(a) \/ RunOperation(a) \/ Respond(a) \/ StoreKey(a) \/ Deliver(a)

Next ==
  \/ \E b \in Batches : Send(b) \/ Expire(b)
  \/ \E a \in Attempts : Serve(a) \/ Lose(a) \/ Crash(a)
  \/ \E e \in Events : Publish(e) \/ MarkSent(e) \/ MarkDeadLetter(e) \/ Requeue(e)
  \/ Pull \/ Receive \/ LosePage

Spec == Init /\ [][Next]_vars

\* The server serves, the outbox sends, and the client keeps asking.
FairSpec ==
  /\ Spec
  /\ \A b \in Batches : WF_vars(Send(b))
  /\ \A a \in Attempts : WF_vars(Serve(a))
  /\ \A e \in Events : WF_vars(MarkSent(e))
  /\ WF_vars(Pull) /\ WF_vars(Receive)

-----------------------------------------------------------------------------
(* Properties. *)

Results == Seq({"accepted", "rejected"}) \cup {NoAnswer}

\* Types of pushing: what is stored and delivered are lists of results.
PushTypes ==
  /\ answer \in [Batches -> Results] /\ stored \in [Batches -> Results]
  /\ \A a \in Attempts : attempt[a] = Unused \/
       /\ attempt[a].batch \in Batches /\ attempt[a].at \in {"arrive", "run", "end"}
       /\ attempt[a].results \in Results
  /\ times \in [Ops -> Nat]

\* Types of the feed: the cursor has milliseconds, and only SENT events are delivered.
FeedTypes ==
  /\ status \in [Events -> {"NONE", "PENDING", "SENT", "DEAD_LETTER"}]
  /\ cursor \in Nat /\ cursor % Tick = 0
  /\ page \subseteq Events /\ got \subseteq Sent

\* IdempotencyKey: a batch that is only sent again once its key is stored is applied as
\* the client is told, whatever requests and answers are lost: each accepted operation
\* once, each rejected one not at all.
AppliedAsAnswered ==
  /\ PushTypes
  /\ \A b \in Batches \ disturbed : \A i \in 1 .. Len(OpsOf[b]) :
       /\ times[OpsOf[b][i]] <= 1
       /\ answer[b] # NoAnswer =>
            (answer[b][i] = "accepted" <=> times[OpsOf[b][i]] = 1)

\* getChanges: up to its cursor, a client has every event that was SENT in the order of
\* creation, although the cursor has lost the microseconds and pages are lost.
FeedComplete ==
  /\ FeedTypes
  /\ \A e \in Sent \ behind : Stamp[e] <= cursor => e \in got

\* An unanswered batch is answered: retries get through although some are lost.
EveryBatchIsAnswered ==
  \A b \in Batches : b \in work.batches ~> answer[b] # NoAnswer

\* An event that is SENT in the order of creation reaches the client, page by page.
EveryEventArrives ==
  \A e \in Events : (status[e] = "SENT" /\ e \notin behind) ~> e \in got

\* SyncController: a client that keeps its cursor misses no change.
NothingMissed ==
  \A e \in Sent : Stamp[e] <= cursor => e \in got
=============================================================================
