-------------------------- MODULE SyncSales_proofs --------------------------
(***************************************************************************)
(* Proofs about what a till and the server tell each other, and about the  *)
(* money and the reports of what is sold.  A client whose batch is tried   *)
(* again only once its key is stored is told what was done, and it gets    *)
(* every event of the feed, for every number of batches, operations,       *)
(* attempts and events, whatever is lost (SyncDelivery).  A payment        *)
(* request that runs alone brings the header of its sale in order, for     *)
(* every number of lines, payments and requests (SalePayments).  For every *)
(* shop and every history of it, the reports of stock agree with the rows, *)
(* those of demand with one another, and time alone makes no report look   *)
(* better (Reports).  The three are specifications of their own and share  *)
(* no state; the last two share the lemmas about sums over finite sets.    *)
(***************************************************************************)
EXTENDS SyncDelivery, SalePayments, Reports, FiniteSetTheorems, FunctionTheorems,
        SequenceTheorems, WellFoundedInduction, TLAPS

List == Seq({"accepted", "rejected"})
AttemptRow ==
  [batch : Batches \cup {"none"}, at : {"unused", "arrive", "run", "end"}, results : List,
   reply : BOOLEAN, store : BOOLEAN]

Types ==
  /\ answer \in [Batches -> List \cup {NoAnswer}]
  /\ stored \in [Batches -> List \cup {NoAnswer}]
  /\ attempt \in [Attempts -> AttemptRow]
  /\ times \in [Ops -> Nat]
  /\ disturbed \subseteq Batches

\* What an attempt holds before it runs, and while it does.
Places(a) ==
  LET x == attempt[a] IN
  /\ x.at = "unused" => x = Unused
  /\ x.at # "unused" => x.batch \in Batches
  /\ x.at = "arrive" => x.results = <<>>
  /\ x.at \in {"arrive", "run"} => ~x.reply /\ ~x.store

\* The attempts at b that have looked up its key.
Of(b) == {a \in Attempts : attempt[a].batch = b /\ attempt[a].at \in {"run", "end"}}

\* The operations of b that r accepts have been applied once, the others not at all.
Applied(b, r) ==
  \A i \in DOMAIN OpsOf[b] :
    times[OpsOf[b][i]] = (IF i \in DOMAIN r /\ r[i] = "accepted" THEN 1 ELSE 0)
Matches(b, r) == Applied(b, r) /\ Len(r) = Len(OpsOf[b])

\* One attempt at most is on its way to the key, and none when there is one.
Alone(b) ==
  /\ \A a, c \in Of(b) : Unstored(a) /\ Unstored(c) => a = c
  /\ Known(b) => \A a \in Of(b) : ~Unstored(a)

\* What is stored or told is what was done, and is not told before it is to be stored.
Told(b) ==
  /\ Known(b) => Matches(b, stored[b])
  /\ answer[b] # NoAnswer => Matches(b, answer[b])
  /\ \A a \in Of(b) : attempt[a].reply \/ attempt[a].store => Matches(b, attempt[a].results)
  /\ answer[b] # NoAnswer \/ (\E a \in Of(b) : attempt[a].reply) =>
       Known(b) \/ \E a \in Of(b) : attempt[a].store

\* Nothing has been done of a batch that nobody works on, and of the other what it has noted.
Done(b) ==
  /\ \A a \in Of(b) : attempt[a].at = "run" =>
       Applied(b, attempt[a].results) /\ Len(attempt[a].results) <= Len(OpsOf[b])
  /\ ~Known(b) /\ (\A a \in Of(b) : ~Unstored(a)) => Applied(b, <<>>)

Fine(b) == b \notin disturbed => Alone(b) /\ Told(b) /\ Done(b)

Sound ==
  /\ Types
  /\ \A a \in Attempts : Places(a)
  /\ \A b \in Batches : Fine(b)

LEMMA EmptyList == <<>> \in List /\ DOMAIN <<>> = {} /\ Len(<<>>) = 0
BY DEF List

LEMMA NoAnswerIsNoList == NoAnswer \notin List
<1> SUFFICES ASSUME NoAnswer \in List PROVE FALSE
  OBVIOUS
<1>1. 1 \in DOMAIN NoAnswer /\ NoAnswer[1] = "none"
  BY DEF NoAnswer
<1>2. NoAnswer[1] \in {"accepted", "rejected"}
  BY <1>1 DEF List
<1> QED
  BY <1>1, <1>2

LEMMA UnusedRow == Unused \in AttemptRow /\ Unused.at = "unused" /\ ~Unused.reply /\ ~Unused.store
                   /\ Unused.results = <<>>
BY EmptyList DEF Unused, AttemptRow

LEMMA InitSound == Init => Sound
<1> SUFFICES ASSUME Init PROVE Sound
  OBVIOUS
<1>1. Types
  BY UnusedRow DEF Init, Types
<1>2. \A a \in Attempts : Places(a)
  BY UnusedRow DEF Init, Places
<1>3. ASSUME NEW b \in Batches PROVE Fine(b)
  <2>1. Of(b) = {}
    BY UnusedRow DEF Init, Of
  <2>2. Applied(b, <<>>)
    BY EmptyList, SyncAssumption DEF Init, Applied, SyncAssumption
  <2> QED
    BY <2>1, <2>2 DEF Init, Fine, Alone, Told, Done, Known
<1> QED
  BY <1>1, <1>2, <1>3 DEF Sound

\* A batch about which nothing changes stays as it is.
LEMMA Elsewhere ==
  ASSUME Sound, NEW b \in Batches, disturbed \subseteq disturbed',
         Of(b)' = Of(b), \A a \in Of(b) : attempt'[a] = attempt[a],
         stored'[b] = stored[b], answer'[b] = answer[b],
         \A i \in DOMAIN OpsOf[b] : times'[OpsOf[b][i]] = times[OpsOf[b][i]]
  PROVE  Fine(b)'
<1>1. \A r : Applied(b, r)' <=> Applied(b, r)
  BY DEF Applied
<1>2. \A r : Matches(b, r)' <=> Matches(b, r)
  BY <1>1 DEF Matches
<1>3. CASE b \in disturbed
  BY <1>3 DEF Fine
<1>4. CASE b \notin disturbed
  <2>1. Alone(b) /\ Told(b) /\ Done(b)
    BY <1>4 DEF Sound, Fine
  <2>2. Known(b)' <=> Known(b)
    BY DEF Known
  <2>3. \A a \in Of(b) : Unstored(a)' <=> Unstored(a)
    BY DEF Unstored
  <2>4. Alone(b)'
    BY <2>1, <2>2, <2>3 DEF Alone
  <2>5. Told(b)'
    BY <1>2, <2>1, <2>2 DEF Told
  <2>6. Done(b)'
    BY <1>1, <2>1, <2>2, <2>3 DEF Done
  <2> QED
    BY <2>4, <2>5, <2>6 DEF Fine
<1> QED
  BY <1>3, <1>4

\* So do the others when an attempt changes, or comes.
LEMMA OthersStay ==
  ASSUME Sound, NEW a \in Attempts, attempt' \in [Attempts -> AttemptRow],
         \A c \in Attempts \ {a} : attempt'[c] = attempt[c],
         NEW b \in Batches, attempt[a].batch # b \/ attempt[a].at = "unused",
         attempt'[a].batch # b
  PROVE  Of(b)' = Of(b) /\ \A c \in Of(b) : attempt'[c] = attempt[c]
BY DEF Of

\* Each step puts a row y in the place of attempt a.
Puts(a, y) == y \in AttemptRow /\ attempt' = [attempt EXCEPT ![a] = y]

LEMMA PutEffect ==
  ASSUME Types, NEW a \in Attempts, NEW y, Puts(a, y)
  PROVE  /\ attempt' \in [Attempts -> AttemptRow] /\ attempt'[a] = y
         /\ \A c \in Attempts \ {a} : attempt'[c] = attempt[c]
BY DEF Types, Puts

LEMMA PutPlaces ==
  ASSUME Sound, NEW a \in Attempts, NEW y, Puts(a, y), Places(a)'
  PROVE  \A c \in Attempts : Places(c)'
<1>1. \A c \in Attempts \ {a} : attempt'[c] = attempt[c]
  BY PutEffect DEF Sound
<1> QED
  BY <1>1 DEF Sound, Places

LEMMA SendStep ==
  ASSUME Sound, NEW b \in Batches, Send(b)
  PROVE  Sound'
<1>0. Types
  BY DEF Sound
<1>1. PICK a \in Attempts :
        /\ attempt[a] = Unused
        /\ attempt' = [attempt EXCEPT ![a].batch = b, ![a].at = "arrive"]
  BY DEF Send
<1> DEFINE y == [batch |-> b, at |-> "arrive", results |-> <<>>, reply |-> FALSE, store |-> FALSE]
<1>2. Puts(a, y)
  <2>1. y \in AttemptRow
    BY EmptyList DEF AttemptRow
  <2>2. attempt' = [attempt EXCEPT ![a] = y]
    BY <1>0, <1>1 DEF Types, Unused
  <2> QED
    BY <2>1, <2>2 DEF Puts
<1>3. /\ attempt' \in [Attempts -> AttemptRow] /\ attempt'[a] = y
      /\ \A c \in Attempts \ {a} : attempt'[c] = attempt[c]
  BY <1>0, <1>2, PutEffect
<1>4. UNCHANGED <<answer, stored, times, disturbed>>
  BY DEF Send
<1>5. Types'
  BY <1>0, <1>3, <1>4 DEF Types
<1>6. \A c \in Attempts : Places(c)'
  <2>1. Places(a)'
    BY <1>3 DEF Places
  <2> QED
    BY <1>2, <2>1, PutPlaces
<1>7. ASSUME NEW d \in Batches PROVE Fine(d)'
  <2>1. Of(d)' = Of(d) /\ \A c \in Of(d) : attempt'[c] = attempt[c]
    BY <1>1, <1>3, UnusedRow DEF Of
  <2> QED
    BY <1>4, <2>1, Elsewhere
<1> QED
  BY <1>5, <1>6, <1>7 DEF Sound

LEMMA LookupStep ==
  ASSUME Sound, NEW a \in Attempts, Lookup(a)
  PROVE  Sound'
<1>0. Types /\ Places(a) /\ attempt[a] \in AttemptRow
  BY DEF Sound, Types
<1>1. PICK b \in Batches : b = attempt[a].batch
  BY <1>0 DEF Lookup, Places
<1>2. /\ attempt[a].at = "arrive" /\ attempt[a].results = <<>>
      /\ ~attempt[a].reply /\ ~attempt[a].store /\ a \notin Of(b)
      /\ UNCHANGED <<answer, stored, times>>
  BY <1>0 DEF Lookup, Places, Of
<1>3. CASE Known(b)
  <2> DEFINE y ==
        [batch |-> b, at |-> "end", results |-> stored[b], reply |-> TRUE, store |-> FALSE]
  <2>1. disturbed' = disturbed /\ stored[b] \in List
    BY <1>0, <1>1, <1>3 DEF Lookup, Types, Known
  <2>2. Puts(a, y)
    <3>1. y \in AttemptRow
      BY <2>1 DEF AttemptRow
    <3>2. attempt' = [attempt EXCEPT ![a] = y]
      BY <1>0, <1>1, <1>2, <1>3 DEF Lookup, Types, AttemptRow
    <3> QED
      BY <3>1, <3>2 DEF Puts
  <2>3. /\ attempt' \in [Attempts -> AttemptRow] /\ attempt'[a] = y
        /\ \A c \in Attempts \ {a} : attempt'[c] = attempt[c]
    BY <1>0, <2>2, PutEffect
  <2>4. Types'
    BY <1>0, <1>2, <2>1, <2>3 DEF Types
  <2>5. Places(a)'
    BY <2>3 DEF Places
  <2>6. ASSUME NEW d \in Batches \ {b} PROVE Fine(d)'
    <3>1. Of(d)' = Of(d) /\ \A c \in Of(d) : attempt'[c] = attempt[c]
      BY <1>1, <2>3, OthersStay
    <3> QED
      BY <1>2, <2>1, <3>1, Elsewhere
  <2>7. ASSUME b \notin disturbed PROVE Alone(b)' /\ Told(b)' /\ Done(b)'
    <3>1. Alone(b) /\ Told(b) /\ Done(b)
      BY <2>7 DEF Sound, Fine
    <3>2. Of(b)' = Of(b) \cup {a} /\ \A c \in Of(b) : attempt'[c] = attempt[c]
      BY <1>1, <1>2, <2>3 DEF Of
    <3>3. /\ Known(b)'
          /\ \A r : (Applied(b, r)' <=> Applied(b, r)) /\ (Matches(b, r)' <=> Matches(b, r))
      BY <1>2, <1>3 DEF Known, Applied, Matches
    <3>4. ~Unstored(a)' /\ \A c \in Of(b) : Unstored(c)' <=> Unstored(c)
      BY <2>3, <3>2 DEF Unstored
    <3>5. Alone(b)'
      BY <3>1, <3>2, <3>3, <3>4, <1>3 DEF Alone
    <3>6. Told(b)'
      BY <1>2, <1>3, <2>3, <3>1, <3>2, <3>3 DEF Told
    <3>7. Done(b)'
      BY <2>3, <3>1, <3>2, <3>3 DEF Done
    <3> QED
      BY <3>5, <3>6, <3>7
  <2>8. Fine(b)'
    BY <2>1, <2>7 DEF Fine
  <2> QED
    BY <2>2, <2>4, <2>5, <2>6, <2>8, PutPlaces DEF Sound
<1>4. CASE ~Known(b)
  <2> DEFINE y == [batch |-> b, at |-> "run", results |-> <<>>, reply |-> FALSE, store |-> FALSE]
  <2>1. disturbed' = disturbed \cup {x \in {b} : Overlaps(a)}
    BY <1>1, <1>4 DEF Lookup
  <2>2. Puts(a, y)
    <3>1. y \in AttemptRow
      BY EmptyList DEF AttemptRow
    <3>2. attempt' = [attempt EXCEPT ![a] = y]
      BY <1>0, <1>1, <1>2, <1>4 DEF Lookup, Types, AttemptRow
    <3> QED
      BY <3>1, <3>2 DEF Puts
  <2>3. /\ attempt' \in [Attempts -> AttemptRow] /\ attempt'[a] = y
        /\ \A c \in Attempts \ {a} : attempt'[c] = attempt[c]
    BY <1>0, <2>2, PutEffect
  <2>4. Types'
    BY <1>0, <1>2, <2>1, <2>3 DEF Types
  <2>5. Places(a)'
    BY <2>3 DEF Places
  <2>6. ASSUME NEW d \in Batches \ {b} PROVE Fine(d)'
    <3>1. Of(d)' = Of(d) /\ \A c \in Of(d) : attempt'[c] = attempt[c]
      BY <1>1, <2>3, OthersStay
    <3> QED
      BY <1>2, <2>1, <3>1, Elsewhere
  <2>7. ASSUME b \notin disturbed' PROVE Alone(b)' /\ Told(b)' /\ Done(b)'
    <3>1. Alone(b) /\ Told(b) /\ Done(b) /\ ~Overlaps(a)
      BY <2>1, <2>7 DEF Sound, Fine
    <3>2. Of(b)' = Of(b) \cup {a} /\ \A c \in Of(b) : attempt'[c] = attempt[c]
      BY <1>1, <1>2, <2>3 DEF Of
    <3>3. /\ ~Known(b)'
          /\ \A r : (Applied(b, r)' <=> Applied(b, r)) /\ (Matches(b, r)' <=> Matches(b, r))
      BY <1>2, <1>4 DEF Known, Applied, Matches
    <3>4. \A c \in Of(b) : ~Unstored(c) /\ ~Unstored(c)' /\ c # a
      BY <1>1, <1>2, <3>1, <3>2 DEF Overlaps, Of, Unstored
    <3>5. Alone(b)'
      BY <3>2, <3>3, <3>4 DEF Alone
    <3>6. Told(b)'
      BY <1>2, <1>4, <2>3, <3>1, <3>2, <3>3 DEF Told
    <3>7. Applied(b, <<>>)
      BY <1>4, <3>1, <3>4 DEF Done
    <3>8. Unstored(a)'
      BY <2>3 DEF Unstored
    <3>9. Len(OpsOf[b]) \in Nat
      BY SyncAssumption DEF SyncAssumption
    <3>10. Done(b)'
      BY <2>3, <3>1, <3>2, <3>3, <3>7, <3>8, <3>9, EmptyList DEF Done
    <3> QED
      BY <3>5, <3>6, <3>10
  <2>8. Fine(b)'
    BY <2>7 DEF Fine
  <2> QED
    BY <2>2, <2>4, <2>5, <2>6, <2>8, PutPlaces DEF Sound
<1> QED
  BY <1>3, <1>4

\* A step of attempt a at its batch b leaves the other batches alone.
LEMMA OneBatch ==
  ASSUME Sound, NEW a \in Attempts, NEW b \in Batches, attempt[a].batch = b,
         NEW y, Puts(a, y), y.batch = b, disturbed \subseteq disturbed',
         \A d \in Batches \ {b} : /\ stored'[d] = stored[d] /\ answer'[d] = answer[d]
                                  /\ \A i \in DOMAIN OpsOf[d] :
                                       times'[OpsOf[d][i]] = times[OpsOf[d][i]],
         Types', Places(a)', Fine(b)'
  PROVE  Sound'
<1>1. /\ attempt' \in [Attempts -> AttemptRow] /\ attempt'[a] = y
      /\ \A c \in Attempts \ {a} : attempt'[c] = attempt[c]
  BY PutEffect DEF Sound
<1>2. ASSUME NEW d \in Batches \ {b} PROVE Fine(d)'
  <2>1. Of(d)' = Of(d) /\ \A c \in Of(d) : attempt'[c] = attempt[c]
    BY <1>1, OthersStay
  <2> QED
    BY <2>1, Elsewhere
<1>3. \A c \in Attempts : Places(c)'
  BY PutPlaces
<1> QED
  BY <1>2, <1>3 DEF Sound

\* While an attempt runs, nobody has been told anything of its batch.
LEMMA NothingToldYet ==
  ASSUME Sound, NEW a \in Attempts, attempt[a].at = "run",
         NEW b \in Batches, attempt[a].batch = b, b \notin disturbed
  PROVE  /\ a \in Of(b) /\ Unstored(a) /\ ~attempt[a].reply /\ ~attempt[a].store
         /\ ~Known(b) /\ answer[b] = NoAnswer
         /\ \A c \in Of(b) : ~attempt[c].reply /\ ~attempt[c].store
         /\ \A c \in Of(b) \ {a} : ~Unstored(c)
         /\ Applied(b, attempt[a].results)
<1>1. Alone(b) /\ Told(b) /\ Done(b) /\ Places(a)
  BY DEF Sound, Fine
<1>2. a \in Of(b) /\ Unstored(a) /\ ~attempt[a].reply /\ ~attempt[a].store
  BY <1>1 DEF Of, Unstored, Places
<1>3. ~Known(b) /\ \A c \in Of(b) \ {a} : ~Unstored(c)
  BY <1>1, <1>2 DEF Alone
<1>4. \A c \in Of(b) : ~attempt[c].store
  BY <1>2, <1>3 DEF Unstored
<1>5. answer[b] = NoAnswer /\ \A c \in Of(b) : ~attempt[c].reply
  BY <1>1, <1>3, <1>4 DEF Told
<1>6. Applied(b, attempt[a].results)
  BY <1>1, <1>2 DEF Done
<1> QED
  BY <1>2, <1>3, <1>4, <1>5, <1>6

\* The row of an attempt of which one field, or the place and another, are new.
LEMMA NewResults ==
  ASSUME NEW x \in AttemptRow, NEW r
  PROVE  [x EXCEPT !.results = r] =
           [batch |-> x.batch, at |-> x.at, results |-> r, reply |-> x.reply, store |-> x.store]
BY DEF AttemptRow

LEMMA NewReply ==
  ASSUME NEW x \in AttemptRow, NEW r
  PROVE  [x EXCEPT !.reply = r] =
           [batch |-> x.batch, at |-> x.at, results |-> x.results, reply |-> r, store |-> x.store]
BY DEF AttemptRow

LEMMA NewStore ==
  ASSUME NEW x \in AttemptRow, NEW r
  PROVE  [x EXCEPT !.store = r] =
           [batch |-> x.batch, at |-> x.at, results |-> x.results, reply |-> x.reply, store |-> r]
BY DEF AttemptRow

LEMMA NewEndReply ==
  ASSUME NEW x \in AttemptRow, NEW r, NEW s \in {"end"}
  PROVE  [x EXCEPT !.at = s, !.reply = r] =
           [batch |-> x.batch, at |-> s, results |-> x.results, reply |-> r, store |-> x.store]
<1> DEFINE z == [x EXCEPT !.at = s]
<1>1. /\ z = [batch |-> x.batch, at |-> s, results |-> x.results,
               reply |-> x.reply, store |-> x.store]
      /\ z \in AttemptRow
  BY DEF AttemptRow
<1>2. [x EXCEPT !.at = s, !.reply = r] = [z EXCEPT !.reply = r]
  OBVIOUS
<1> HIDE DEF z
<1>3. [z EXCEPT !.reply = r] =
        [batch |-> z.batch, at |-> z.at, results |-> z.results, reply |-> r, store |-> z.store]
  BY <1>1, NewReply
<1> QED
  BY <1>1, <1>2, <1>3

LEMMA NewEndStore ==
  ASSUME NEW x \in AttemptRow, NEW r, NEW s \in {"end"}
  PROVE  [x EXCEPT !.at = s, !.store = r] =
           [batch |-> x.batch, at |-> s, results |-> x.results, reply |-> x.reply, store |-> r]
<1> DEFINE z == [x EXCEPT !.at = s]
<1>1. /\ z = [batch |-> x.batch, at |-> s, results |-> x.results,
               reply |-> x.reply, store |-> x.store]
      /\ z \in AttemptRow
  BY DEF AttemptRow
<1>2. [x EXCEPT !.at = s, !.store = r] = [z EXCEPT !.store = r]
  OBVIOUS
<1> HIDE DEF z
<1>3. [z EXCEPT !.store = r] =
        [batch |-> z.batch, at |-> z.at, results |-> z.results, reply |-> z.reply, store |-> r]
  BY <1>1, NewStore
<1> QED
  BY <1>1, <1>2, <1>3

LEMMA RunStep ==
  ASSUME Sound, NEW a \in Attempts, RunOperation(a)
  PROVE  Sound'
<1>0. Types /\ Places(a) /\ attempt[a] \in AttemptRow
  BY DEF Sound, Types
<1>1. PICK b \in Batches : b = attempt[a].batch
  BY <1>0 DEF RunOperation, Places
<1>a. PICK rs \in List : rs = attempt[a].results
  BY <1>0 DEF AttemptRow
<1> DEFINE n == Len(rs) + 1
<1>2. PICK done \in BOOLEAN :
        /\ times' = [times EXCEPT ![OpsOf[b][n]] = @ + (IF done THEN 1 ELSE 0)]
        /\ attempt' = [attempt EXCEPT ![a].results = Append(@, Outcome(done))]
  BY <1>1, <1>a DEF RunOperation
<1> DEFINE more == Append(rs, Outcome(done))
           y == [batch |-> b, at |-> "run", results |-> more, reply |-> FALSE, store |-> FALSE]
<1>3. /\ attempt[a].at = "run" /\ ~attempt[a].reply /\ ~attempt[a].store
      /\ n <= Len(OpsOf[b]) /\ UNCHANGED <<answer, stored, disturbed>>
  BY <1>0, <1>1, <1>a DEF RunOperation, Places
<1>4. /\ rs \in List /\ more \in List /\ Len(rs) \in Nat /\ n \in Nat \ {0}
      /\ Len(more) = n /\ DOMAIN rs = 1 .. Len(rs) /\ DOMAIN more = 1 .. n
      /\ more[n] = Outcome(done) /\ \A i \in 1 .. Len(rs) : more[i] = rs[i]
  BY DEF List, Outcome
<1>5. /\ OpsOf[b] \in Seq(Ops) /\ DOMAIN OpsOf[b] = 1 .. Len(OpsOf[b]) /\ Len(OpsOf[b]) \in Nat
      /\ n \in DOMAIN OpsOf[b] /\ OpsOf[b][n] \in Ops
  BY <1>3, <1>4, SyncAssumption DEF SyncAssumption
<1>6. Puts(a, y)
  <2>1. y \in AttemptRow
    BY <1>4 DEF AttemptRow
  <2>2. attempt[a] = [batch |-> b, at |-> "run", results |-> rs, reply |-> FALSE, store |-> FALSE]
    BY <1>0, <1>1, <1>3, <1>a DEF AttemptRow
  <2>3. attempt' = [attempt EXCEPT ![a] = [attempt[a] EXCEPT !.results = more]]
    BY <1>0, <1>2, <1>a DEF Types
  <2>4. [attempt[a] EXCEPT !.results = more] = y
    <3>1. /\ attempt[a].batch = b /\ attempt[a].at = "run"
          /\ attempt[a].reply = FALSE /\ attempt[a].store = FALSE
      BY <2>2
    <3> HIDE DEF more
    <3> QED
      BY <1>0, <3>1, NewResults
  <2> QED
    BY <2>1, <2>3, <2>4 DEF Puts
<1>7. /\ attempt' \in [Attempts -> AttemptRow] /\ attempt'[a] = y
      /\ \A c \in Attempts \ {a} : attempt'[c] = attempt[c]
  BY <1>0, <1>6, PutEffect
<1>8. Types'
  <2>1. times' \in [Ops -> Nat]
    BY <1>0, <1>2, <1>5 DEF Types
  <2> QED
    BY <1>0, <1>3, <1>7, <2>1 DEF Types
<1>9. Places(a)'
  BY <1>7 DEF Places
<1>10. ASSUME NEW d \in Batches \ {b}, NEW i \in DOMAIN OpsOf[d]
       PROVE  times'[OpsOf[d][i]] = times[OpsOf[d][i]]
  <2>1. OpsOf[d][i] # OpsOf[b][n]
    BY <1>5, SyncAssumption DEF SyncAssumption
  <2>2. OpsOf[d][i] \in Ops
    BY SyncAssumption DEF SyncAssumption
  <2> QED
    BY <1>0, <1>2, <2>1, <2>2 DEF Types
<1>11. ASSUME b \notin disturbed PROVE Alone(b)' /\ Told(b)' /\ Done(b)'
  <2>1. /\ a \in Of(b) /\ ~Known(b) /\ answer[b] = NoAnswer
        /\ \A c \in Of(b) : ~attempt[c].reply /\ ~attempt[c].store
        /\ \A c \in Of(b) \ {a} : ~Unstored(c)
        /\ Applied(b, rs)
    BY <1>1, <1>3, <1>11, <1>a, NothingToldYet
  <2>2. Of(b)' = Of(b) /\ ~Known(b)' /\ answer'[b] = NoAnswer
    BY <1>1, <1>3, <1>7, <2>1 DEF Of, Known
  <2>3. Unstored(a)' /\ \A c \in Of(b) \ {a} : ~Unstored(c)'
    BY <1>7, <2>1 DEF Unstored, Of
  <2>4. \A c \in Of(b) : ~attempt'[c].reply /\ ~attempt'[c].store
    BY <1>7, <2>1 DEF Of
  <2>5. Alone(b)'
    BY <2>2, <2>3 DEF Alone
  <2>6. Told(b)'
    BY <2>2, <2>4 DEF Told
  <2>7. Applied(b, more)'
    <3> SUFFICES ASSUME NEW i \in DOMAIN OpsOf[b]
                 PROVE  times'[OpsOf[b][i]] =
                          (IF i \in DOMAIN more /\ more[i] = "accepted" THEN 1 ELSE 0)
      BY DEF Applied
    <3>1. times[OpsOf[b][i]] = (IF i \in DOMAIN rs /\ rs[i] = "accepted" THEN 1 ELSE 0)
      BY <2>1 DEF Applied
    <3>2. CASE i = n
      BY <1>0, <1>2, <1>4, <1>5, <3>1, <3>2 DEF Types, Outcome
    <3>3. CASE i # n
      <4>1. OpsOf[b][i] # OpsOf[b][n] /\ OpsOf[b][i] \in Ops
        BY <1>5, <3>3, SyncAssumption DEF SyncAssumption
      <4>2. times'[OpsOf[b][i]] = times[OpsOf[b][i]]
        BY <1>0, <1>2, <4>1 DEF Types
      <4>3. i \in Nat /\ (i \in DOMAIN more <=> i \in DOMAIN rs)
        BY <1>4, <1>5, <3>3
      <4> QED
        BY <1>4, <3>1, <4>2, <4>3
    <3> QED
      BY <3>2, <3>3
  <2>8. Done(b)'
    <3>1. \A c \in Of(b)' : attempt'[c].at = "run" => c = a
      BY <2>2, <2>3 DEF Unstored
    <3>2. attempt'[a].results = more /\ Len(more) <= Len(OpsOf[b])
      BY <1>3, <1>4, <1>7
    <3>3. a \in Of(b)' /\ Unstored(a)'
      BY <2>1, <2>2, <2>3
    <3> QED
      BY <2>7, <3>1, <3>2, <3>3 DEF Done
  <2> QED
    BY <2>5, <2>6, <2>8
<1>12. Fine(b)'
  BY <1>3, <1>11 DEF Fine
<1> QED
  BY <1>1, <1>3, <1>6, <1>8, <1>9, <1>10, <1>12, OneBatch

LEMMA RespondStep ==
  ASSUME Sound, NEW a \in Attempts, Respond(a)
  PROVE  Sound'
<1>0. Types /\ Places(a) /\ attempt[a] \in AttemptRow
  BY DEF Sound, Types
<1>1. PICK b \in Batches : b = attempt[a].batch
  BY <1>0 DEF Respond, Places
<1>2. PICK rs \in List : rs = attempt[a].results
  BY <1>0 DEF AttemptRow
<1> DEFINE y == [batch |-> b, at |-> "end", results |-> rs, reply |-> TRUE, store |-> TRUE]
<1>3. /\ attempt[a].at = "run" /\ Len(rs) = Len(OpsOf[b])
      /\ UNCHANGED <<answer, stored, times, disturbed>>
  BY <1>1, <1>2 DEF Respond
<1>4. Puts(a, y)
  <2>1. y \in AttemptRow
    BY DEF AttemptRow
  <2>2. attempt[a] = [batch |-> b, at |-> "run", results |-> rs, reply |-> FALSE, store |-> FALSE]
    BY <1>0, <1>1, <1>2, <1>3 DEF AttemptRow, Places
  <2>3. attempt' = [attempt EXCEPT ![a] = y]
    BY <1>0, <2>2 DEF Respond, Types
  <2> QED
    BY <2>1, <2>3 DEF Puts
<1>5. /\ attempt' \in [Attempts -> AttemptRow] /\ attempt'[a] = y
      /\ \A c \in Attempts \ {a} : attempt'[c] = attempt[c]
  BY <1>0, <1>4, PutEffect
<1>6. Types'
  BY <1>0, <1>3, <1>5 DEF Types
<1>7. Places(a)'
  BY <1>5 DEF Places
<1>8. ASSUME b \notin disturbed PROVE Alone(b)' /\ Told(b)' /\ Done(b)'
  <2>1. /\ a \in Of(b) /\ ~Known(b) /\ answer[b] = NoAnswer
        /\ \A c \in Of(b) : ~attempt[c].reply /\ ~attempt[c].store
        /\ \A c \in Of(b) \ {a} : ~Unstored(c)
        /\ Applied(b, rs)
    BY <1>1, <1>2, <1>3, <1>8, NothingToldYet
  <2>2. Of(b)' = Of(b) /\ ~Known(b)' /\ answer'[b] = NoAnswer /\ Matches(b, rs)'
    BY <1>1, <1>3, <1>5, <2>1 DEF Of, Known, Matches, Applied
  <2>3. Unstored(a)' /\ \A c \in Of(b) \ {a} : ~Unstored(c)'
    BY <1>5, <2>1 DEF Unstored, Of
  <2>4. \A c \in Of(b) \ {a} : ~attempt'[c].reply /\ ~attempt'[c].store
    BY <1>5, <2>1 DEF Of
  <2>5. Alone(b)'
    BY <2>2, <2>3 DEF Alone
  <2>6. Told(b)'
    BY <1>5, <2>1, <2>2, <2>4 DEF Told
  <2>7. Done(b)'
    BY <1>5, <2>1, <2>2, <2>3 DEF Done, Unstored
  <2> QED
    BY <2>5, <2>6, <2>7
<1>9. Fine(b)'
  BY <1>3, <1>8 DEF Fine
<1> QED
  BY <1>1, <1>3, <1>4, <1>6, <1>7, <1>9, OneBatch

LEMMA StoreStep ==
  ASSUME Sound, NEW a \in Attempts, StoreKey(a)
  PROVE  Sound'
<1>0. Types /\ Places(a) /\ attempt[a] \in AttemptRow
  BY DEF Sound, Types
<1>1. attempt[a].at = "end" /\ attempt[a].store
  BY <1>0, UnusedRow DEF StoreKey, Places, AttemptRow
<1>2. PICK b \in Batches : b = attempt[a].batch
  BY <1>0, <1>1 DEF Places
<1>3. PICK rs \in List : rs = attempt[a].results
  BY <1>0 DEF AttemptRow
<1>4. PICK told \in BOOLEAN : told = attempt[a].reply
  BY <1>0 DEF AttemptRow
<1> DEFINE y == [batch |-> b, at |-> "end", results |-> rs, reply |-> told, store |-> FALSE]
<1>5. stored' = [stored EXCEPT ![b] = rs] /\ UNCHANGED <<answer, times, disturbed>>
  BY <1>2, <1>3 DEF StoreKey
<1>6. Puts(a, y)
  <2>1. y \in AttemptRow
    BY DEF AttemptRow
  <2>2. attempt[a] = [batch |-> b, at |-> "end", results |-> rs, reply |-> told, store |-> TRUE]
    BY <1>0, <1>1, <1>2, <1>3, <1>4 DEF AttemptRow
  <2>3. attempt' = [attempt EXCEPT ![a] = [attempt[a] EXCEPT !.store = FALSE]]
    BY <1>0 DEF StoreKey, Types
  <2>4. [attempt[a] EXCEPT !.store = FALSE] = y
    <3>1. /\ attempt[a].batch = b /\ attempt[a].at = "end"
          /\ attempt[a].results = rs /\ attempt[a].reply = told
      BY <2>2
    <3>2. \A r : [attempt[a] EXCEPT !.store = r] =
            [batch |-> b, at |-> "end", results |-> rs, reply |-> told, store |-> r]
      BY <1>0, <3>1, NewStore
    <3> QED
      BY <3>2, Zenon
  <2> QED
    BY <2>1, <2>3, <2>4 DEF Puts
<1>7. /\ attempt' \in [Attempts -> AttemptRow] /\ attempt'[a] = y
      /\ \A c \in Attempts \ {a} : attempt'[c] = attempt[c]
  BY <1>0, <1>6, PutEffect
<1>8. Types'
  BY <1>0, <1>5, <1>7 DEF Types
<1>9. Places(a)'
  BY <1>7 DEF Places
<1>10. ASSUME b \notin disturbed PROVE Alone(b)' /\ Told(b)' /\ Done(b)'
  <2>1. Alone(b) /\ Told(b) /\ Done(b) /\ a \in Of(b) /\ Unstored(a)
    BY <1>1, <1>2, <1>10 DEF Sound, Fine, Of, Unstored
  <2>2. ~Known(b) /\ (\A c \in Of(b) \ {a} : ~Unstored(c)) /\ Matches(b, rs)
    BY <1>1, <1>3, <2>1 DEF Alone, Told
  <2>3. Of(b)' = Of(b) /\ stored'[b] = rs /\ Known(b)'
    BY <1>0, <1>1, <1>2, <1>5, <1>7, NoAnswerIsNoList DEF Types, Of, Known
  <2>4. \A c \in Of(b) : ~Unstored(c)'
    BY <1>7, <2>2 DEF Unstored, Of
  <2>5. \A r : Matches(b, r)' <=> Matches(b, r)
    BY <1>5 DEF Matches, Applied
  <2>6. Alone(b)'
    BY <2>3, <2>4 DEF Alone
  <2>7. \A c \in Of(b) : attempt'[c].reply \/ attempt'[c].store => Matches(b, attempt'[c].results)
    BY <1>7, <2>1, <2>2 DEF Told, Of
  <2>8. Told(b)'
    BY <1>5, <2>1, <2>2, <2>3, <2>5, <2>7 DEF Told
  <2>9. Done(b)'
    BY <2>3, <2>4 DEF Done, Unstored
  <2> QED
    BY <2>6, <2>8, <2>9
<1>11. Fine(b)'
  BY <1>5, <1>10 DEF Fine
<1>12. \A d \in Batches \ {b} : stored'[d] = stored[d]
  BY <1>0, <1>5 DEF Types
<1> QED
  BY <1>2, <1>5, <1>6, <1>8, <1>9, <1>11, <1>12, OneBatch

LEMMA DeliverStep ==
  ASSUME Sound, NEW a \in Attempts, Deliver(a)
  PROVE  Sound'
<1>0. Types /\ Places(a) /\ attempt[a] \in AttemptRow
  BY DEF Sound, Types
<1>1. attempt[a].at = "end" /\ attempt[a].reply
  BY <1>0, UnusedRow DEF Deliver, Places, AttemptRow
<1>2. PICK b \in Batches : b = attempt[a].batch
  BY <1>0, <1>1 DEF Places
<1>3. PICK rs \in List : rs = attempt[a].results
  BY <1>0 DEF AttemptRow
<1>4. PICK due \in BOOLEAN : due = attempt[a].store
  BY <1>0 DEF AttemptRow
<1> DEFINE y == [batch |-> b, at |-> "end", results |-> rs, reply |-> FALSE, store |-> due]
<1>5. /\ answer' = [answer EXCEPT ![b] = IF @ = NoAnswer THEN rs ELSE @]
      /\ UNCHANGED <<stored, times, disturbed>>
  BY <1>2, <1>3 DEF Deliver
<1>6. Puts(a, y)
  <2>1. y \in AttemptRow
    BY DEF AttemptRow
  <2>2. attempt[a] = [batch |-> b, at |-> "end", results |-> rs, reply |-> TRUE, store |-> due]
    BY <1>0, <1>1, <1>2, <1>3, <1>4 DEF AttemptRow
  <2>3. attempt' = [attempt EXCEPT ![a] = [attempt[a] EXCEPT !.reply = FALSE]]
    BY <1>0 DEF Deliver, Types
  <2>4. [attempt[a] EXCEPT !.reply = FALSE] = y
    <3>1. /\ attempt[a].batch = b /\ attempt[a].at = "end"
          /\ attempt[a].results = rs /\ attempt[a].store = due
      BY <2>2
    <3>2. \A r : [attempt[a] EXCEPT !.reply = r] =
            [batch |-> b, at |-> "end", results |-> rs, reply |-> r, store |-> due]
      BY <1>0, <3>1, NewReply
    <3> QED
      BY <3>2, Zenon
  <2> QED
    BY <2>1, <2>3, <2>4 DEF Puts
<1>7. /\ attempt' \in [Attempts -> AttemptRow] /\ attempt'[a] = y
      /\ \A c \in Attempts \ {a} : attempt'[c] = attempt[c]
  BY <1>0, <1>6, PutEffect
<1>8. Types'
  BY <1>0, <1>5, <1>7 DEF Types
<1>9. Places(a)'
  BY <1>7 DEF Places
<1>10. ASSUME b \notin disturbed PROVE Alone(b)' /\ Told(b)' /\ Done(b)'
  <2>1. Alone(b) /\ Told(b) /\ Done(b) /\ a \in Of(b)
    BY <1>1, <1>2, <1>10 DEF Sound, Fine, Of
  <2>2. Of(b)' = Of(b) /\ (Known(b)' <=> Known(b))
    BY <1>1, <1>2, <1>5, <1>7 DEF Of, Known
  <2>3. /\ \A c \in Of(b) \ {a} : attempt'[c] = attempt[c]
        /\ attempt'[a].store = attempt[a].store /\ attempt'[a].results = attempt[a].results
        /\ \A c \in Of(b) : Unstored(c)' <=> Unstored(c)
    BY <1>1, <1>3, <1>4, <1>7 DEF Of, Unstored
  <2>4. \A r : (Matches(b, r)' <=> Matches(b, r)) /\ (Applied(b, r)' <=> Applied(b, r))
    BY <1>5 DEF Matches, Applied
  <2>5. Matches(b, answer'[b])
    BY <1>0, <1>1, <1>3, <1>5, <2>1 DEF Types, Told
  <2>6. Known(b) \/ \E c \in Of(b) : attempt[c].store
    BY <1>1, <2>1 DEF Told
  <2>7. Alone(b)'
    BY <2>1, <2>2, <2>3 DEF Alone
  <2>8. \A c \in Of(b) : attempt'[c].reply \/ attempt'[c].store => Matches(b, attempt'[c].results)
    BY <1>7, <2>1, <2>3 DEF Told
  <2>9. Known(b)' \/ \E c \in Of(b)' : attempt'[c].store
    BY <2>2, <2>3, <2>6
  <2>10. Told(b)'
    BY <1>5, <2>1, <2>2, <2>4, <2>5, <2>8, <2>9 DEF Told
  <2>11. \A c \in Of(b) : attempt'[c].at = "run" => attempt'[c] = attempt[c]
    BY <1>7, <2>3
  <2>12. Done(b)'
    BY <2>1, <2>2, <2>3, <2>4, <2>11 DEF Done
  <2> QED
    BY <2>7, <2>10, <2>12
<1>11. Fine(b)'
  BY <1>5, <1>10 DEF Fine
<1>12. \A d \in Batches \ {b} : answer'[d] = answer[d]
  BY <1>0, <1>5 DEF Types
<1> QED
  BY <1>2, <1>5, <1>6, <1>8, <1>9, <1>11, <1>12, OneBatch

LEMMA LoseStep ==
  ASSUME Sound, NEW a \in Attempts, Lose(a)
  PROVE  Sound'
<1>0. Types /\ Places(a) /\ attempt[a] \in AttemptRow
  BY DEF Sound, Types
<1>1. /\ attempt[a].at \in {"arrive", "end"}
      /\ attempt[a].at = "arrive" => ~attempt[a].reply /\ ~attempt[a].store
  BY <1>0, UnusedRow DEF Lose, Places, AttemptRow
<1>2. PICK b \in Batches : b = attempt[a].batch
  BY <1>0, <1>1 DEF Places
<1>3. PICK rs \in List : rs = attempt[a].results
  BY <1>0 DEF AttemptRow
<1>4. PICK due \in BOOLEAN : due = attempt[a].store
  BY <1>0 DEF AttemptRow
<1>5. PICK told \in BOOLEAN, at \in {"arrive", "end"} :
        told = attempt[a].reply /\ at = attempt[a].at
  BY <1>0, <1>1 DEF AttemptRow
<1> DEFINE y == [batch |-> b, at |-> "end", results |-> rs, reply |-> FALSE, store |-> due]
<1>6. UNCHANGED <<answer, stored, times, disturbed>>
  BY DEF Lose
<1>7. Puts(a, y)
  <2>1. y \in AttemptRow
    BY DEF AttemptRow
  <2>2. attempt[a] = [batch |-> b, at |-> at, results |-> rs, reply |-> told, store |-> due]
    BY <1>0, <1>2, <1>3, <1>4, <1>5 DEF AttemptRow
  <2>3. attempt' = [attempt EXCEPT ![a] = [attempt[a] EXCEPT !.at = "end", !.reply = FALSE]]
    BY <1>0 DEF Lose, Types
  <2>4. [attempt[a] EXCEPT !.at = "end", !.reply = FALSE] = y
    <3>1. attempt[a].batch = b /\ attempt[a].results = rs /\ attempt[a].store = due
      BY <2>2
    <3>2. \A r, s : s = "end" => [attempt[a] EXCEPT !.at = s, !.reply = r] =
                      [batch |-> b, at |-> s, results |-> rs, reply |-> r, store |-> due]
      BY <1>0, <3>1, NewEndReply
    <3> QED
      BY <3>2, Zenon
  <2> QED
    BY <2>1, <2>3, <2>4 DEF Puts
<1>8. /\ attempt' \in [Attempts -> AttemptRow] /\ attempt'[a] = y
      /\ \A c \in Attempts \ {a} : attempt'[c] = attempt[c]
  BY <1>0, <1>7, PutEffect
<1>9. Types'
  BY <1>0, <1>6, <1>8 DEF Types
<1>10. Places(a)'
  BY <1>8 DEF Places
<1>11. ASSUME b \notin disturbed PROVE Alone(b)' /\ Told(b)' /\ Done(b)'
  <2>1. Alone(b) /\ Told(b) /\ Done(b)
    BY <1>11 DEF Sound, Fine
  <2>2. Of(b)' = Of(b) \cup {a} /\ (Known(b)' <=> Known(b))
    BY <1>2, <1>6, <1>8 DEF Of, Known
  <2>3. /\ \A c \in Of(b)' \ {a} : c \in Of(b) /\ attempt'[c] = attempt[c]
        /\ attempt'[a].store = attempt[a].store /\ attempt'[a].results = attempt[a].results
        /\ \A c \in Of(b)' : Unstored(c)' <=> Unstored(c)
    BY <1>1, <1>3, <1>4, <1>8, <2>2 DEF Of, Unstored
  <2>4. a \notin Of(b) => ~Unstored(a) /\ ~attempt[a].store
    BY <1>1, <1>2 DEF Of, Unstored
  <2>5. \A r : (Matches(b, r)' <=> Matches(b, r)) /\ (Applied(b, r)' <=> Applied(b, r))
    BY <1>6 DEF Matches, Applied
  <2>6. Alone(b)'
    BY <2>1, <2>2, <2>3, <2>4 DEF Alone
  <2>7. \A c \in Of(b)' : attempt'[c].reply \/ attempt'[c].store => Matches(b, attempt'[c].results)
    BY <1>8, <2>1, <2>3, <2>4 DEF Told
  <2>8. ASSUME answer'[b] # NoAnswer \/ \E c \in Of(b)' : attempt'[c].reply
        PROVE  Known(b)' \/ \E c \in Of(b)' : attempt'[c].store
    <3>1. answer[b] # NoAnswer \/ \E c \in Of(b) : attempt[c].reply
      BY <1>6, <1>8, <2>3, <2>8
    <3>2. Known(b) \/ \E c \in Of(b) : attempt[c].store
      BY <2>1, <3>1 DEF Told
    <3> QED
      BY <2>2, <2>3, <3>2
  <2>9. Told(b)'
    BY <1>6, <2>1, <2>2, <2>5, <2>7, <2>8 DEF Told
  <2>10. \A c \in Of(b)' : attempt'[c].at = "run" => c \in Of(b) /\ attempt'[c] = attempt[c]
    BY <1>8, <2>3
  <2>11. Done(b)'
    BY <2>1, <2>2, <2>3, <2>5, <2>10 DEF Done
  <2> QED
    BY <2>6, <2>9, <2>11
<1>12. Fine(b)'
  BY <1>6, <1>11 DEF Fine
<1> QED
  BY <1>2, <1>6, <1>7, <1>9, <1>10, <1>12, OneBatch

LEMMA CrashStep ==
  ASSUME Sound, NEW a \in Attempts, Crash(a)
  PROVE  Sound'
<1>0. Types /\ Places(a) /\ attempt[a] \in AttemptRow
  BY DEF Sound, Types
<1>1. attempt[a].at \in {"run", "end"}
  BY <1>0, UnusedRow DEF Crash, Unstored, Places, AttemptRow
<1>2. PICK b \in Batches : b = attempt[a].batch
  BY <1>0, <1>1 DEF Places
<1>3. PICK rs \in List : rs = attempt[a].results
  BY <1>0 DEF AttemptRow
<1>4. PICK due \in BOOLEAN, told \in BOOLEAN : due = attempt[a].store /\ told = attempt[a].reply
  BY <1>0 DEF AttemptRow
<1>5. PICK at \in {"run", "end"} : at = attempt[a].at
  BY <1>1
<1> DEFINE y == [batch |-> b, at |-> "end", results |-> rs, reply |-> told, store |-> FALSE]
<1>6. UNCHANGED <<answer, stored, times>> /\ disturbed' = disturbed \cup {b}
  BY <1>2 DEF Crash
<1>7. Puts(a, y)
  <2>1. y \in AttemptRow
    BY DEF AttemptRow
  <2>2. attempt[a] = [batch |-> b, at |-> at, results |-> rs, reply |-> told, store |-> due]
    BY <1>0, <1>2, <1>3, <1>4, <1>5 DEF AttemptRow
  <2>3. attempt' = [attempt EXCEPT ![a] = [attempt[a] EXCEPT !.at = "end", !.store = FALSE]]
    BY <1>0 DEF Crash, Types
  <2>4. [attempt[a] EXCEPT !.at = "end", !.store = FALSE] = y
    <3>1. attempt[a].batch = b /\ attempt[a].results = rs /\ attempt[a].reply = told
      BY <2>2
    <3>2. \A r, s : s = "end" => [attempt[a] EXCEPT !.at = s, !.store = r] =
                      [batch |-> b, at |-> s, results |-> rs, reply |-> told, store |-> r]
      BY <1>0, <3>1, NewEndStore
    <3> QED
      BY <3>2, Zenon
  <2> QED
    BY <2>1, <2>3, <2>4 DEF Puts
<1>8. attempt' \in [Attempts -> AttemptRow] /\ attempt'[a] = y
  BY <1>0, <1>7, PutEffect
<1>9. Types'
  BY <1>0, <1>6, <1>8 DEF Types
<1>10. Places(a)'
  BY <1>8 DEF Places
<1>11. Fine(b)'
  BY <1>6 DEF Fine
<1> QED
  BY <1>2, <1>6, <1>7, <1>9, <1>10, <1>11, OneBatch

LEMMA ExpireStep ==
  ASSUME Sound, NEW b \in Batches, Expire(b)
  PROVE  Sound'
<1>1. /\ UNCHANGED <<answer, attempt, times>> /\ disturbed' = disturbed \cup {b}
      /\ stored' = [stored EXCEPT ![b] = NoAnswer]
  BY DEF Expire
<1>2. Types'
  BY <1>1 DEF Sound, Types
<1>3. \A a \in Attempts : Places(a)'
  BY <1>1 DEF Sound, Places
<1>4. ASSUME NEW d \in Batches PROVE Fine(d)'
  <2>1. CASE d = b
    BY <1>1, <2>1 DEF Fine
  <2>2. CASE d # b
    <3>1. stored'[d] = stored[d]
      BY <1>1, <2>2 DEF Sound, Types
    <3>2. Of(d)' = Of(d)
      BY <1>1 DEF Of
    <3> QED
      BY <1>1, <3>1, <3>2, Elsewhere
  <2> QED
    BY <2>1, <2>2
<1> QED
  BY <1>2, <1>3, <1>4 DEF Sound

\* The feed changes nothing of this.
LEMMA FeedStep ==
  ASSUME Sound, UNCHANGED pushVars
  PROVE  Sound'
<1>1. UNCHANGED <<answer, attempt, stored, times, disturbed>>
  BY DEF pushVars
<1>2. Types' /\ \A a \in Attempts : Places(a)'
  BY <1>1 DEF Sound, Types, Places
<1>3. ASSUME NEW d \in Batches PROVE Fine(d)'
  <2>1. Of(d)' = Of(d)
    BY <1>1 DEF Of
  <2> QED
    BY <1>1, <2>1, Elsewhere
<1> QED
  BY <1>2, <1>3 DEF Sound

LEMMA SoundStep == Sound /\ [Next]_vars => Sound'
<1> SUFFICES ASSUME Sound, [Next]_vars PROVE Sound'
  OBVIOUS
<1>1. CASE UNCHANGED vars
  BY <1>1, FeedStep DEF vars
<1>2. ASSUME NEW b \in Batches, Send(b) \/ Expire(b) PROVE Sound'
  BY <1>2, SendStep, ExpireStep
<1>3. ASSUME NEW a \in Attempts, Serve(a) \/ Lose(a) \/ Crash(a) PROVE Sound'
  BY <1>3, LookupStep, RunStep, RespondStep, StoreStep, DeliverStep, LoseStep, CrashStep DEF Serve
<1>4. ASSUME NEW e \in Events, Publish(e) \/ MarkSent(e) \/ MarkDeadLetter(e) \/ Requeue(e)
      PROVE  Sound'
  BY <1>4, FeedStep DEF Publish, MarkSent, MarkDeadLetter, Requeue
<1>5. ASSUME Pull \/ Receive \/ LosePage PROVE Sound'
  BY <1>5, FeedStep DEF Pull, Receive, LosePage
<1> QED
  BY <1>1, <1>2, <1>3, <1>4, <1>5 DEF Next

\* Of an undisturbed batch something is always known: what is stored, noted, or nothing.
LEMMA SomeList ==
  ASSUME Sound, NEW b \in Batches \ disturbed
  PROVE  \E r : Applied(b, r)
<1>1. Told(b) /\ Done(b)
  BY DEF Sound, Fine
<1>2. CASE Known(b)
  BY <1>1, <1>2 DEF Told, Matches
<1>3. CASE \E a \in Of(b) : attempt[a].store
  BY <1>1, <1>3 DEF Told, Matches
<1>4. CASE \E a \in Of(b) : attempt[a].at = "run"
  BY <1>1, <1>4 DEF Done
<1>5. CASE ~Known(b) /\ \A a \in Of(b) : ~Unstored(a)
  BY <1>1, <1>5 DEF Done
<1> QED
  BY <1>2, <1>3, <1>4, <1>5 DEF Unstored

LEMMA SoundIsEnough == Sound => AppliedAsAnswered
<1> SUFFICES ASSUME Sound PROVE AppliedAsAnswered
  OBVIOUS
<1>1. PushTypes
  <2>1. List \cup {NoAnswer} = Results
    BY DEF List, Results
  <2>2. ASSUME NEW a \in Attempts, attempt[a] # Unused
        PROVE  /\ attempt[a].batch \in Batches /\ attempt[a].at \in {"arrive", "run", "end"}
               /\ attempt[a].results \in List
    BY <2>2 DEF Sound, Types, Places, AttemptRow
  <2> QED
    BY <2>1, <2>2 DEF Sound, Types, PushTypes
<1>2. ASSUME NEW b \in Batches \ disturbed, NEW i \in 1 .. Len(OpsOf[b])
      PROVE  /\ times[OpsOf[b][i]] <= 1
             /\ answer[b] # NoAnswer =>
                  (answer[b][i] = "accepted" <=> times[OpsOf[b][i]] = 1)
  <2>1. i \in DOMAIN OpsOf[b] /\ Len(OpsOf[b]) \in Nat
    BY SyncAssumption DEF SyncAssumption
  <2>2. times[OpsOf[b][i]] <= 1
    <3>1. PICK r : Applied(b, r)
      BY SomeList
    <3> QED
      BY <2>1, <3>1 DEF Applied
  <2>3. ASSUME answer[b] # NoAnswer
        PROVE  answer[b][i] = "accepted" <=> times[OpsOf[b][i]] = 1
    <3>1. Matches(b, answer[b]) /\ answer[b] \in List
      BY <2>3 DEF Sound, Types, Fine, Told
    <3>2. i \in DOMAIN answer[b]
      BY <2>1, <3>1 DEF Matches, List
    <3> QED
      BY <2>1, <3>1, <3>2 DEF Matches, Applied
  <2> QED
    BY <2>2, <2>3
<1> QED
  BY <1>1, <1>2 DEF AppliedAsAnswered

\* A client that sends a batch again only once its key is stored is told the truth about
\* it (IdempotencyInterceptor), for any batches, attempts, losses and crashes elsewhere.
THEOREM AnswersAreTrue == Spec => []AppliedAsAnswered
<1>1. Init => Sound
  BY InitSound
<1>2. Sound /\ [Next]_vars => Sound'
  BY SoundStep
<1>3. Sound => AppliedAsAnswered
  BY SoundIsEnough
<1> QED
  BY <1>1, <1>2, <1>3, PTL DEF Spec

-----------------------------------------------------------------------------
(* The feed. *)

LEMMA LeastNat ==
  ASSUME NEW T, T \subseteq Nat, T # {}
  PROVE  \E x \in T : \A y \in T : x <= y
<1> DEFINE R == OpToRel(<, Nat)
<1>1. IsWellFoundedOn(R, Nat)
  BY NatLessThanWellFounded
<1>2. \A x, y \in Nat : y < x => <<y, x>> \in R
  BY DEF OpToRel
<1> HIDE DEF R
<1>3. PICK x \in T : \A y \in T : ~(<<y, x>> \in R)
  BY <1>1, WFMin
<1>4. \A y \in T : ~(y < x) /\ y \in Nat /\ x \in Nat
  BY <1>2, <1>3
<1> QED
  BY <1>4

\* What the cursor loses: it stays a number of milliseconds, not above the time.
LEMMA MillisBelow ==
  ASSUME NEW t \in Nat
  PROVE  ToMillis(t) \in Nat /\ ToMillis(t) <= t /\ ToMillis(t) % Tick = 0
<1> DEFINE q == t \div Tick
<1>1. Tick \in Nat \ {0}
  BY SyncAssumption DEF SyncAssumption
<1>2. q \in Nat /\ t = Tick * q + (t % Tick) /\ t % Tick \in Nat
  BY <1>1
<1>3. ToMillis(t) = q * Tick
  BY DEF ToMillis
<1> HIDE DEF q
<1>4. q * Tick \in Nat /\ q * Tick <= t
  BY <1>1, <1>2
<1>5. (q * Tick) % Tick = 0
  BY <1>1, <1>2
<1> QED
  BY <1>3, <1>4, <1>5

Timely == Sent \ behind

\* Why the feed is complete.  What a client has, up to its cursor and after it, is closed
\* downwards: every event SENT in order that is not later than one on the page is on the
\* page or was got before.  The page, if any, has a last event.
Pages ==
  /\ page \subseteq Sent
  /\ cursor = 0 \/ \E f \in got : cursor <= Stamp[f]
  /\ \A e \in Timely : \A f \in page : Stamp[e] <= Stamp[f] => e \in page \cup got
  /\ page # {} => \E m \in page : \A f \in page : Stamp[f] <= Stamp[m]

FeedSound == FeedComplete /\ Pages

LEMMA InitFeed == Init => FeedSound
<1> SUFFICES ASSUME Init PROVE FeedSound
  OBVIOUS
<1>1. Sent = {}
  BY DEF Init, Sent
<1>2. 0 % Tick = 0
  BY SyncAssumption DEF SyncAssumption
<1> QED
  BY <1>1, <1>2 DEF Init, FeedSound, FeedComplete, FeedTypes, Pages, Timely

\* A step that changes at most the status of events that are not SENT, before and after.
LEMMA SameSent ==
  ASSUME FeedSound, UNCHANGED <<cursor, page, got, behind>>, Sent' = Sent,
         status' \in [Events -> {"NONE", "PENDING", "SENT", "DEAD_LETTER"}]
  PROVE  FeedSound'
BY DEF FeedSound, FeedComplete, FeedTypes, Pages, Timely

LEMMA QuietStep ==
  ASSUME FeedSound, NEW e \in Events, Publish(e) \/ MarkDeadLetter(e) \/ Requeue(e)
  PROVE  FeedSound'
<1>1. UNCHANGED <<cursor, page, got, behind>>
  BY DEF Publish, MarkDeadLetter, Requeue
<1>2. PICK s \in {"NONE", "PENDING", "DEAD_LETTER"} : status' = [status EXCEPT ![e] = s]
  BY DEF Publish, MarkDeadLetter, Requeue
<1>3. status[e] # "SENT" /\ status \in [Events -> {"NONE", "PENDING", "SENT", "DEAD_LETTER"}]
  BY DEF Publish, MarkDeadLetter, Requeue, FeedSound, FeedComplete, FeedTypes
<1>4. Sent' = Sent
  BY <1>2, <1>3 DEF Sent
<1>5. status' \in [Events -> {"NONE", "PENDING", "SENT", "DEAD_LETTER"}]
  BY <1>2, <1>3
<1> QED
  BY <1>1, <1>4, <1>5, SameSent

LEMMA MarkSentStep ==
  ASSUME FeedSound, NEW e \in Events, MarkSent(e)
  PROVE  FeedSound'
<1>1. /\ status[e] = "PENDING" /\ status' = [status EXCEPT ![e] = "SENT"]
      /\ behind' = behind \cup {x \in {e} : \E f \in Sent : Stamp[f] > Stamp[e]}
      /\ UNCHANGED <<cursor, page, got>>
  BY DEF MarkSent
<1>2. /\ status \in [Events -> {"NONE", "PENDING", "SENT", "DEAD_LETTER"}]
      /\ cursor \in Nat /\ cursor % Tick = 0 /\ page \subseteq Events /\ got \subseteq Sent
  BY DEF FeedSound, FeedComplete, FeedTypes
<1>3. e \notin Sent /\ Sent' = Sent \cup {e} /\ Sent \subseteq Events
  BY <1>1, <1>2 DEF Sent
<1>4. FeedTypes'
  BY <1>1, <1>2, <1>3 DEF FeedTypes
<1>5. \A f \in Events : Stamp[f] \in Nat \ {0} /\ (f # e => Stamp[f] # Stamp[e])
  BY SyncAssumption DEF SyncAssumption
<1>6. e \in Timely' => \A f \in Sent : Stamp[f] < Stamp[e]
  BY <1>1, <1>3, <1>5 DEF Timely
<1>7. \A d \in Timely' : d # e => d \in Timely
  BY <1>1, <1>3 DEF Timely
<1>8. e \in Timely' => ~(Stamp[e] <= cursor)
  BY <1>2, <1>3, <1>5, <1>6 DEF FeedSound, Pages
<1>9. \A d \in Sent' \ behind' : Stamp[d] <= cursor => d \in got
  BY <1>7, <1>8 DEF Timely, FeedSound, FeedComplete
<1>10. e \in Timely' => \A f \in page : ~(Stamp[e] <= Stamp[f])
  BY <1>3, <1>5, <1>6 DEF FeedSound, Pages
<1>11. Pages'
  <2>1. \A d \in Timely' : \A f \in page : Stamp[d] <= Stamp[f] => d \in page \cup got
    BY <1>7, <1>10 DEF FeedSound, Pages
  <2> QED
    BY <1>1, <1>3, <2>1 DEF FeedSound, Pages
<1> QED
  BY <1>1, <1>4, <1>9, <1>11 DEF FeedSound, FeedComplete

\* A page has a last event, and whatever is after the cursor and before it.
LEMMA PageIsClosed ==
  ASSUME NEW c \in Nat, NEW p, p = PageAfter(c)
  PROVE  /\ p \subseteq Sent
         /\ \A e \in Sent : \A f \in p : Stamp[e] > c /\ Stamp[e] <= Stamp[f] => e \in p
         /\ p # {} => \E m \in p : \A f \in p : Stamp[f] <= Stamp[m]
<1> DEFINE after == {e \in Sent : Stamp[e] > c}
           Earlier(e) == {f \in after : Stamp[f] < Stamp[e]}
           n(e) == Cardinality(Earlier(e))
<1>1. p = {e \in after : n(e) < Limit}
  BY DEF PageAfter
<1>2. after \subseteq Sent /\ Sent \subseteq Events /\ IsFiniteSet(Events) /\ Limit \in Nat
  BY SyncAssumption DEF SyncAssumption, Sent
<1>3. \A e \in Events : Stamp[e] \in Nat
  BY SyncAssumption DEF SyncAssumption
<1>4. \A e : IsFiniteSet(Earlier(e)) /\ n(e) \in Nat
  BY <1>2, FS_Subset, FS_CardinalityType
<1>5. ASSUME NEW e \in after, NEW f \in after, Stamp[e] <= Stamp[f]
      PROVE  /\ n(e) <= n(f)
             /\ n(e) = n(f) => Earlier(e) = Earlier(f)
  <2>1. Earlier(e) \subseteq Earlier(f)
    BY <1>2, <1>3, <1>5
  <2> QED
    BY <1>4, <2>1, FS_Subset
<1>6. ASSUME NEW e \in after, NEW f \in after, Stamp[e] < Stamp[f]
      PROVE  Earlier(e) # Earlier(f)
  BY <1>2, <1>3, <1>6
<1> HIDE DEF n, Earlier
<1>7. \A e \in Sent : \A f \in p : Stamp[e] > c /\ Stamp[e] <= Stamp[f] => e \in p
  BY <1>1, <1>2, <1>4, <1>5
<1>8. ASSUME p # {} PROVE \E m \in p : \A f \in p : Stamp[f] <= Stamp[m]
  <2> DEFINE T == {Limit - n(e) : e \in p}
  <2>1. T \subseteq Nat /\ T # {}
    BY <1>1, <1>2, <1>4, <1>8
  <2>2. PICK x \in T : \A y \in T : x <= y
    BY <2>1, LeastNat
  <2>3. PICK m \in p : x = Limit - n(m)
    BY <2>2
  <2>4. ASSUME NEW f \in p PROVE n(f) <= n(m)
    <3>1. Limit - n(m) <= Limit - n(f)
      BY <2>2, <2>3
    <3> QED
      BY <1>2, <1>4, <3>1
  <2>5. ASSUME NEW f \in p PROVE ~(Stamp[m] < Stamp[f])
    <3>1. SUFFICES ASSUME Stamp[m] < Stamp[f] PROVE FALSE
      OBVIOUS
    <3>2. m \in after /\ f \in after /\ Stamp[m] <= Stamp[f]
      BY <1>1, <1>2, <1>3, <3>1
    <3>3. n(m) = n(f)
      BY <1>4, <1>5, <2>4, <3>2
    <3> QED
      BY <1>5, <1>6, <3>1, <3>2, <3>3
  <2>6. \A f \in p : Stamp[f] \in Nat
    BY <1>1, <1>2, <1>3
  <2> QED
    BY <2>5, <2>6
<1> QED
  BY <1>1, <1>2, <1>7, <1>8

LEMMA PullStep == FeedSound /\ Pull => FeedSound'
<1> SUFFICES ASSUME FeedSound, Pull PROVE FeedSound'
  OBVIOUS
<1>1. page' = PageAfter(cursor) /\ UNCHANGED <<status, cursor, got, behind>>
  BY DEF Pull
<1>2. FeedTypes /\ cursor \in Nat
  BY DEF FeedSound, FeedComplete, FeedTypes
<1>3. /\ page' \subseteq Sent
      /\ \A e \in Sent : \A f \in page' : Stamp[e] > cursor /\ Stamp[e] <= Stamp[f] => e \in page'
      /\ page' # {} => \E m \in page' : \A f \in page' : Stamp[f] <= Stamp[m]
  BY <1>1, <1>2, PageIsClosed
<1>4. Sent' = Sent /\ Timely' = Timely /\ Sent \subseteq Events
  BY <1>1 DEF Sent, Timely
<1>5. \A e \in Timely : \A f \in page' : Stamp[e] <= Stamp[f] => e \in page' \cup got
  <2>1. \A e \in Timely : Stamp[e] \in Nat /\ (Stamp[e] <= cursor => e \in got)
    BY <1>4, SyncAssumption DEF FeedSound, FeedComplete, Timely, SyncAssumption
  <2> QED
    BY <1>2, <1>3, <2>1 DEF Timely
<1>6. Pages'
  BY <1>1, <1>3, <1>4, <1>5 DEF Pages, FeedSound
<1>7. FeedTypes'
  BY <1>1, <1>2, <1>3, <1>4 DEF FeedTypes
<1> QED
  BY <1>1, <1>4, <1>6, <1>7 DEF FeedSound, FeedComplete

LEMMA ReceiveStep == FeedSound /\ Receive => FeedSound'
<1> SUFFICES ASSUME FeedSound, Receive PROVE FeedSound'
  OBVIOUS
<1>1. /\ page # {} /\ got' = got \cup page /\ cursor' = NextCursor(page) /\ page' = {}
      /\ UNCHANGED <<status, behind>>
  BY DEF Receive
<1>2. Sent' = Sent /\ Timely' = Timely /\ Sent \subseteq Events /\ page \subseteq Sent
  BY <1>1 DEF Sent, Timely, FeedSound, Pages
<1>3. \A e \in Events : Stamp[e] \in Nat
  BY SyncAssumption DEF SyncAssumption
<1> DEFINE S == {Stamp[e] : e \in page}
<1>4. PICK m \in page : \A f \in page : Stamp[f] <= Stamp[m]
  BY <1>1 DEF FeedSound, Pages
<1>5. Max(S) \in S
  <2>1. \E x \in S : \A y \in S : x >= y
    BY <1>2, <1>3, <1>4
  <2> QED
    BY <2>1 DEF Max
<1>6. PICK last \in page : Max(S) = Stamp[last]
  BY <1>5
<1>7. cursor' = ToMillis(Stamp[last]) /\ Stamp[last] \in Nat
  BY <1>1, <1>2, <1>3, <1>6 DEF NextCursor
<1>8. cursor' \in Nat /\ cursor' <= Stamp[last] /\ cursor' % Tick = 0
  BY <1>7, MillisBelow
<1>9. FeedTypes'
  BY <1>1, <1>2, <1>8 DEF FeedSound, FeedComplete, FeedTypes
<1>10. ASSUME NEW e \in Timely, Stamp[e] <= cursor' PROVE e \in got'
  <2>1. Stamp[e] <= Stamp[last]
    BY <1>2, <1>3, <1>7, <1>8, <1>10 DEF Timely
  <2> QED
    BY <1>1, <2>1 DEF FeedSound, Pages
<1>11. Pages'
  BY <1>1, <1>8 DEF Pages
<1> QED
  BY <1>1, <1>2, <1>9, <1>10, <1>11 DEF FeedSound, FeedComplete, Timely

LEMMA FeedSoundStep == FeedSound /\ [Next]_vars => FeedSound'
<1> SUFFICES ASSUME FeedSound, [Next]_vars PROVE FeedSound'
  OBVIOUS
<1>0. ASSUME UNCHANGED feedVars PROVE FeedSound'
  <2>1. UNCHANGED <<status, cursor, page, got, behind>> /\ Sent' = Sent
    BY <1>0 DEF feedVars, Sent
  <2> QED
    BY <2>1, SameSent DEF FeedSound, FeedComplete, FeedTypes
<1>1. CASE UNCHANGED vars
  BY <1>0, <1>1 DEF vars
<1>2. ASSUME NEW b \in Batches, Send(b) \/ Expire(b) PROVE FeedSound'
  BY <1>0, <1>2 DEF Send, Expire
<1>3. ASSUME NEW a \in Attempts, Serve(a) \/ Lose(a) \/ Crash(a) PROVE FeedSound'
  BY <1>0, <1>3 DEF Serve, Lookup, RunOperation, Respond, StoreKey, Deliver, Lose, Crash
<1>4. ASSUME NEW e \in Events, Publish(e) \/ MarkSent(e) \/ MarkDeadLetter(e) \/ Requeue(e)
      PROVE  FeedSound'
  BY <1>4, QuietStep, MarkSentStep
<1>5. CASE LosePage
  <2>1. page' = {} /\ UNCHANGED <<status, cursor, got, behind>> /\ Sent' = Sent
    BY <1>5 DEF LosePage, Sent
  <2> QED
    BY <2>1 DEF FeedSound, FeedComplete, FeedTypes, Pages, Timely
<1> QED
  BY <1>1, <1>2, <1>3, <1>4, <1>5, PullStep, ReceiveStep DEF Next

\* A client of getChanges has, up to its cursor, every event that was SENT in the order of
\* creation, for any number of events, pages of any size and any precision of the cursor.
THEOREM FeedIsComplete == Spec => []FeedComplete
<1>1. Init => FeedSound
  BY InitFeed
<1>2. FeedSound /\ [Next]_vars => FeedSound'
  BY FeedSoundStep
<1>3. FeedSound => FeedComplete
  BY DEF FeedSound
<1> QED
  BY <1>1, <1>2, <1>3, PTL DEF Spec

-----------------------------------------------------------------------------
(* The money of a sale: sums over finite sets. *)

\* Of a set of subsets, one has no other of them inside it.
LEMMA LeastSubset ==
  ASSUME NEW Base, IsFiniteSet(Base), NEW T \in SUBSET (SUBSET Base), T # {}
  PROVE  \E m \in T : \A n \in T : n \subseteq m => n = m
<1>1. T \subseteq FiniteSubsetsOf(Base)
  BY FS_FiniteSubsetsOfFinite, Zenon
<1>2. PICK m \in T : \A n \in T : <<n, m>> \notin StrictSubsetOrdering(Base)
  BY <1>1, FS_StrictSubsetOrderingWellFounded, WFMin, Zenon
<1> QED BY <1>2, Zenon DEF StrictSubsetOrdering

\* F gives the sums of f over the subsets of D.
FirstOf(S) == CHOOSE x \in S : TRUE
IsSum(F, f, D) ==
  F = [S \in SUBSET D |->
         IF S = {} THEN 0 ELSE f[FirstOf(S)] + F[S \ {FirstOf(S)}]]

\* What the equation of a sum says of one set.
LEMMA SumStep ==
  ASSUME NEW f, NEW D, NEW F, IsSum(F, f, D), NEW S \in SUBSET D
  PROVE  /\ S = {} => F[S] = 0
         /\ S # {} => /\ FirstOf(S) \in S
                      /\ S \ {FirstOf(S)} \in SUBSET D
                      /\ F[S] = f[FirstOf(S)] + F[S \ {FirstOf(S)}]
<1>1. S # {} => FirstOf(S) \in S
  BY DEF FirstOf
<1>2. F[S] = [R \in SUBSET D |->
               IF R = {} THEN 0 ELSE f[FirstOf(R)] + F[R \ {FirstOf(R)}]][S]
  BY Zenon DEF IsSum
<1>3. F[S] = IF S = {} THEN 0 ELSE f[FirstOf(S)] + F[S \ {FirstOf(S)}]
  BY <1>2, Zenon
<1> QED BY <1>1, <1>3, Zenon

\* There is at most one sum ...
LEMMA SumUnique ==
  ASSUME NEW f, NEW Base, IsFiniteSet(Base), NEW D \in SUBSET Base,
         NEW F, IsSum(F, f, D), NEW G, IsSum(G, f, D), NEW S \in SUBSET D
  PROVE  F[S] = G[S]
<1> DEFINE Bad == {R \in SUBSET D : F[R] # G[R]}
<1> SUFFICES ASSUME F[S] # G[S] PROVE FALSE
  OBVIOUS
<1>1. Bad # {} /\ Bad \in SUBSET (SUBSET Base)
  OBVIOUS
<1>2. PICK m \in Bad : \A n \in Bad : n \subseteq m => n = m
  <2> HIDE DEF Bad
  <2> QED BY <1>1, LeastSubset
<1>3. m \in SUBSET D /\ F[m] # G[m]
  OBVIOUS
<1> DEFINE p == m \ {FirstOf(m)}
<1>4. /\ m = {} => F[m] = 0
      /\ m # {} => /\ FirstOf(m) \in m
                   /\ p \in SUBSET D
                   /\ F[m] = f[FirstOf(m)] + F[p]
  <2> HIDE DEF Bad
  <2> QED BY <1>3, SumStep
<1>5. /\ m = {} => G[m] = 0
      /\ m # {} => G[m] = f[FirstOf(m)] + G[p]
  <2> HIDE DEF Bad
  <2> QED BY <1>3, SumStep
<1>6. m # {}
  BY <1>3, <1>4, <1>5
<1>7. p \notin Bad
  <2> HIDE DEF Bad
  <2> QED BY <1>2, <1>4, <1>6
<1>8. F[p] = G[p]
  BY <1>4, <1>6, <1>7
<1> QED BY <1>3, <1>4, <1>5, <1>6, <1>8, Zenon

\* ... it is a sum of every part of what it sums ...
LEMMA SumRestrict ==
  ASSUME NEW f, NEW D, NEW C \in SUBSET D, NEW F, IsSum(F, f, D)
  PROVE  IsSum([S \in SUBSET C |-> F[S]], f, C)
<1> DEFINE G == [S \in SUBSET C |-> F[S]]
<1>1. ASSUME NEW S \in SUBSET C
      PROVE  G[S] = IF S = {} THEN 0 ELSE f[FirstOf(S)] + G[S \ {FirstOf(S)}]
  <2>1. S \in SUBSET D /\ S \ {FirstOf(S)} \in SUBSET C
    OBVIOUS
  <2>2. G[S] = F[S] /\ G[S \ {FirstOf(S)}] = F[S \ {FirstOf(S)}]
    BY <2>1
  <2>3. /\ S = {} => F[S] = 0
        /\ S # {} => F[S] = f[FirstOf(S)] + F[S \ {FirstOf(S)}]
    <3> HIDE DEF G
    <3> QED BY <2>1, SumStep
  <2> HIDE DEF G
  <2>4. CASE S = {}
    BY <2>2, <2>3, <2>4, Zenon
  <2>5. CASE S # {}
    BY <2>2, <2>3, <2>5, Zenon
  <2> QED BY <2>4, <2>5
<1>2. G = [S \in SUBSET C |->
            IF S = {} THEN 0 ELSE f[FirstOf(S)] + G[S \ {FirstOf(S)}]]
  <2>1. G = [S \in SUBSET C |-> G[S]]
    OBVIOUS
  <2> HIDE DEF G
  <2> QED BY <1>1, <2>1, Zenon
<1> QED BY <1>2, Zenon DEF IsSum

\* ... and there is one.
LEMMA SumExists ==
  ASSUME NEW f, NEW Base, IsFiniteSet(Base), NEW D \in SUBSET Base
  PROVE  \E F : IsSum(F, f, D)
<1> DEFINE Good(C) == \E F : IsSum(F, f, C)
           Bad == {C \in SUBSET Base : ~Good(C)}
<1> SUFFICES ASSUME ~Good(D) PROVE FALSE
  OBVIOUS
<1>1. Bad # {} /\ Bad \in SUBSET (SUBSET Base)
  OBVIOUS
<1>2. PICK m \in Bad : \A n \in Bad : n \subseteq m => n = m
  <2> HIDE DEF Bad
  <2> QED BY <1>1, LeastSubset
<1>3. m \in SUBSET Base /\ ~Good(m)
  OBVIOUS
<1>4. \A C \in SUBSET m : C # m => Good(C)
  <2> SUFFICES ASSUME NEW C \in SUBSET m, C # m, ~Good(C) PROVE FALSE
    OBVIOUS
  <2>1. C \in Bad
    BY <1>3
  <2> HIDE DEF Bad
  <2> QED BY <1>2, <2>1
<1> HIDE DEF Good, Bad
<1> DEFINE SumOn(C) == CHOOSE F : IsSum(F, f, C)
           T(C) == SumOn(C)[C]
           Term(S) == f[FirstOf(S)]
           F == [S \in SUBSET m |->
                  IF S = {} THEN 0 ELSE Term(S) + T(S \ {FirstOf(S)})]
<1>5. \A C \in SUBSET m : C # m => IsSum(SumOn(C), f, C)
  BY <1>4, Zenon DEF Good
<1>6. ASSUME NEW S \in SUBSET m, S # m, S # {} PROVE T(S) = Term(S) + T(S \ {FirstOf(S)})
  <2> DEFINE P == S \ {FirstOf(S)}
  <2>1. FirstOf(S) \in S
    BY <1>6 DEF FirstOf
  <2>2. P \in SUBSET S /\ P \in SUBSET m /\ P # m /\ P \in SUBSET Base
    BY <1>3, <1>6, <2>1
  <2>3. IsSum(SumOn(S), f, S) /\ IsSum(SumOn(P), f, P)
    BY <1>5, <1>6, <2>2, Zenon
  <2> HIDE DEF SumOn, P
  <2>4. IsSum([R \in SUBSET P |-> SumOn(S)[R]], f, P)
    BY <2>2, <2>3, SumRestrict, Zenon
  <2>5. P \in SUBSET P /\ S \in SUBSET S
    OBVIOUS
  <2>6. SumOn(P)[P] = [R \in SUBSET P |-> SumOn(S)[R]][P]
    BY <2>2, <2>3, <2>4, <2>5, SumUnique
  <2>7. SumOn(P)[P] = SumOn(S)[P]
    BY <2>5, <2>6, Zenon
  <2>8. SumOn(S)[S] = Term(S) + SumOn(S)[P]
    BY <1>6, <2>3, <2>5, SumStep DEF P
  <2> QED BY <2>7, <2>8, Zenon DEF P
<1>7. T({}) = 0 \/ m = {}
  <2> SUFFICES ASSUME m # {} PROVE T({}) = 0
    OBVIOUS
  <2>1. PICK E \in SUBSET m : E = {}
    OBVIOUS
  <2>2. IsSum(SumOn(E), f, E)
    BY <1>5, <2>1
  <2>3. PICK G : G = SumOn(E)
    OBVIOUS
  <2> HIDE DEF SumOn
  <2>4. IsSum(G, f, E) /\ E \in SUBSET E
    BY <2>2, <2>3
  <2>5. G[E] = 0
    BY <2>1, <2>4, SumStep
  <2> QED BY <2>1, <2>3, <2>5
<1>8. ASSUME NEW S \in SUBSET m
      PROVE  F[S] = IF S = {} THEN 0 ELSE Term(S) + F[S \ {FirstOf(S)}]
  <2> DEFINE P == S \ {FirstOf(S)}
  <2> HIDE DEF T, Term
  <2>1. CASE S = {}
    BY <2>1
  <2>2. CASE S # {}
    <3>1. FirstOf(S) \in S
      BY <2>2 DEF FirstOf
    <3>2. P \in SUBSET m /\ P # m /\ m # {}
      BY <3>1
    <3>3. F[S] = Term(S) + T(P)
      BY <2>2
    <3> HIDE DEF P
    <3>4. CASE P = {}
      <4>1. T(P) = 0 /\ F[P] = 0
        BY <1>7, <3>2, <3>4
      <4> HIDE DEF F
      <4> QED BY <2>2, <3>3, <4>1 DEF P
    <3>5. CASE P # {}
      <4>1. F[P] = Term(P) + T(P \ {FirstOf(P)})
        BY <3>2, <3>5
      <4>2. T(P) = Term(P) + T(P \ {FirstOf(P)})
        BY <1>6, <3>2, <3>5
      <4> HIDE DEF F
      <4> QED BY <2>2, <3>3, <4>1, <4>2 DEF P
    <3> QED BY <3>4, <3>5
  <2> QED BY <2>1, <2>2
<1>9. IsSum(F, f, m)
  <2>1. F = [S \in SUBSET m |-> F[S]]
    OBVIOUS
  <2> HIDE DEF F
  <2>2. F = [S \in SUBSET m |->
              IF S = {} THEN 0 ELSE f[FirstOf(S)] + F[S \ {FirstOf(S)}]]
    BY <1>8, <2>1, Zenon
  <2> QED BY <2>2, Zenon DEF IsSum
<1> QED BY <1>3, <1>9, Zenon DEF Good

\* So SumOf is the sum.
LEMMA SumOfIsSum ==
  ASSUME NEW Base, IsFiniteSet(Base), NEW f
  PROVE  \E F : IsSum(F, f, Base) /\ SumOf(f, Base) = F[Base]
<1>1. PICK F : IsSum(F, f, Base)
  BY SumExists
<1> DEFINE Sum == CHOOSE G : IsSum(G, f, Base)
<1>2. IsSum(Sum, f, Base)
  BY <1>1, Zenon
<1>3. SumOf(f, Base) = Sum[Base]
  BY Zenon DEF SumOf, IsSum, FirstOf
<1> QED BY <1>2, <1>3, Zenon

\* A sum of naturals is one.
LEMMA SumType ==
  ASSUME NEW f, NEW Base, IsFiniteSet(Base), \A s \in Base : f[s] \in Nat,
         NEW F, IsSum(F, f, Base), NEW S \in SUBSET Base
  PROVE  F[S] \in Nat
<1> DEFINE Bad == {R \in SUBSET Base : F[R] \notin Nat}
<1> SUFFICES ASSUME F[S] \notin Nat PROVE FALSE
  OBVIOUS
<1>1. Bad # {} /\ Bad \in SUBSET (SUBSET Base)
  OBVIOUS
<1>2. PICK m \in Bad : \A n \in Bad : n \subseteq m => n = m
  <2> HIDE DEF Bad
  <2> QED BY <1>1, LeastSubset
<1>3. m \in SUBSET Base /\ F[m] \notin Nat
  OBVIOUS
<1> DEFINE p == m \ {FirstOf(m)}
<1>4. /\ m = {} => F[m] = 0
      /\ m # {} => /\ FirstOf(m) \in m
                   /\ p \in SUBSET Base
                   /\ F[m] = f[FirstOf(m)] + F[p]
  <2> HIDE DEF Bad
  <2> QED BY <1>3, SumStep
<1>5. m # {}
  BY <1>3, <1>4
<1>6. p \notin Bad
  <2> HIDE DEF Bad
  <2> QED BY <1>2, <1>4, <1>5
<1>7. F[p] \in Nat /\ f[FirstOf(m)] \in Nat
  BY <1>3, <1>4, <1>5, <1>6
<1> HIDE DEF p, Bad
<1> QED BY <1>3, <1>4, <1>5, <1>7

\* What SumOf adds up to is a natural number if its terms are.
LEMMA SumOfNat ==
  ASSUME NEW S, IsFiniteSet(S), NEW f, \A x \in S : f[x] \in Nat
  PROVE  SumOf(f, S) \in Nat
<1>1. PICK F : IsSum(F, f, S) /\ SumOf(f, S) = F[S]
  BY SumOfIsSum
<1>2. S \in SUBSET S
  OBVIOUS
<1> QED BY <1>1, <1>2, SumType

-----------------------------------------------------------------------------
(* Types of the payments. *)

\* What a request keeps in memory: columns of a sale, and amounts of lines.
PlanTyped(p) ==
  DOMAIN p \subseteq Columns /\ \A k \in DOMAIN p : \E s \in Sale : p[k] = s[k]
NewTyped(n) == DOMAIN n \subseteq Lines /\ \A l \in DOMAIN n : n[l] \in Nat

MoneyTypes ==
  /\ TypeOK
  /\ DOMAIN plan = Clerks /\ DOMAIN new = Clerks
  /\ \A c \in Clerks : PlanTyped(plan[c]) /\ NewTyped(new[c])

\* The amounts are: totals, what counts of the payments, and what is written.
LEMMA TotalNat ==
  ASSUME NEW f \in [Lines -> Nat]
  PROVE  Total(f) \in Nat
BY SumOfNat, PaymentsAssumption DEF Total

LEMMA LiveSumNat ==
  ASSUME MoneyTypes
  PROVE  LiveSum \in Nat
<1> DEFINE f == [p \in Payments |-> payment[p].amount]
<1>1. IsFiniteSet(Live)
  BY FS_Subset, PaymentsAssumption DEF Live
<1>2. \A p \in Live : f[p] \in Nat
  BY DEF MoneyTypes, TypeOK, Live
<1> HIDE DEF f
<1>3. SumOf(f, Live) \in Nat
  BY <1>1, <1>2, SumOfNat
<1> QED BY <1>3 DEF LiveSum, f

LEMMA WrittenSale ==
  ASSUME NEW row \in Sale, NEW cols, PlanTyped(cols)
  PROVE  Written(cols, row) \in Sale
BY DEF PlanTyped, Written, Sale

LEMMA WrittenAmounts ==
  ASSUME NEW row \in [Lines -> Nat], NEW cols, NewTyped(cols)
  PROVE  Written(cols, row) \in [Lines -> Nat]
BY DEF NewTyped, Written

LEMMA NothingTyped == PlanTyped(<<>>) /\ NewTyped(<<>>)
BY DEF PlanTyped, NewTyped

LEMMA InitMoneyTypes ==
  ASSUME PaymentsInit
  PROVE  MoneyTypes
<1>1. Total(LinePrice) \in Nat
  BY TotalNat, PaymentsAssumption
<1>2. FirstPaid \in Nat
  BY SumOfNat, FS_Subset, PaymentsAssumption DEF FirstPaid
<1>3. sale \in Sale
  BY <1>1, <1>2 DEF PaymentsInit, Sale, PayStatus
<1>4. \A c \in Clerks : req[c] \in Request
  BY PaymentsAssumption DEF PaymentsInit
<1>5. req \in [Clerks -> Request]
  BY <1>4 DEF PaymentsInit
<1>6. payment \in [Payments -> [status : {"NONE", "ACTIVE", "UPDATED", "CANCELLED"},
                               amount : Nat]]
  BY PaymentsAssumption DEF PaymentsInit, NoPayment
<1>7. \A c \in Clerks : PlanTyped(plan[c]) /\ NewTyped(new[c])
  BY NothingTyped DEF PaymentsInit
<1>8. TypeOK
  BY <1>3, <1>5, <1>6, <1>7, PaymentsAssumption DEF PlanTyped, NewTyped, PaymentsInit, TypeOK, Keys
<1>9. DOMAIN plan = Clerks /\ DOMAIN new = Clerks
  BY DEF PaymentsInit
<1> QED BY <1>7, <1>8, <1>9 DEF MoneyTypes

\* A step changes the memory of the request that takes it, and keeps the types.
LEMMA StepMoneyTypes ==
  ASSUME MoneyTypes, NEW c \in Clerks,
         Begin(c) \/ Step(c) \/ Fail(c)
  PROVE  MoneyTypes'
<1> USE DEF MoneyTypes, TypeOK, Goto
<1> DEFINE PlansTyped == DOMAIN plan = Clerks /\ \A d \in Clerks : PlanTyped(plan[d])
           NewsTyped == DOMAIN new = Clerks /\ \A d \in Clerks : NewTyped(new[d])
<1>1. CASE Begin(c)
  <2>1. req' \in [Clerks -> Request]
    BY <1>1, PaymentsAssumption DEF Begin
  <2>2. alone' \in [Clerks -> BOOLEAN]
    BY <1>1 DEF Begin, Active
  <2> QED BY <1>1, <2>1, <2>2 DEF Begin
<1>2. CASE ReadSale(c)
  <2>1. req[c].op \in Paying \cup {"CANCEL", "LINE"}
    BY <1>2 DEF ReadSale, At
  <2>2. pc' \in [Clerks -> {"idle", "start", "find", "void", "insert", "lockLines",
                                 "line", "sum", "recalc", "reload", "write", "commit",
                                 "done", "failed"}]
    BY <1>2, <2>1 DEF ReadSale, Paying
  <2> QED BY <1>2, <2>2 DEF ReadSale
<1>3. CASE LockSale(c)
  BY <1>3 DEF LockSale, Take, Keys
<1>4. CASE LockLines(c)
  BY <1>4 DEF LockLines, Take, Keys
<1>5. CASE FindPayment(c)
  BY <1>5 DEF FindPayment
<1>6. CASE VoidPayment(c)
  BY <1>6 DEF VoidPayment
<1>7. CASE InsertPayment(c)
  <2>1. req[c].amount \in Nat
    BY DEF Request
  <2> QED BY <1>7, <2>1 DEF InsertPayment
<1>8. CASE WriteLine(c)
  <2>1. req[c].amount \in Nat /\ req[c].line \in Lines
    BY DEF Request
  <2>2. lock' \in [Keys -> Clerks \cup {Nobody}]
    BY <1>8 DEF WriteLine, Take
  <2>3. NewTyped([k \in {req[c].line} |-> req[c].amount])
    BY <2>1 DEF NewTyped
  <2>4. NewsTyped'
    BY <1>8, <2>3 DEF WriteLine
  <2> QED BY <1>8, <2>2, <2>4 DEF NewTyped, WriteLine
<1>9. CASE SumLines(c)
  <2>1. Total(Written(new[c], amount)) \in Nat
    BY WrittenAmounts, TotalNat
  <2>2. entity' \in [Clerks -> Sale]
    BY <1>9, <2>1 DEF SumLines, Sale
  <2> QED BY <1>9, <2>2 DEF SumLines
<1>10. CASE Recalc(c)
  <2>1. LiveSum \in Nat
    BY LiveSumNat
  <2>2. PayStatus(LiveSum, entity[c].total) \in {"UNPAID", "PARTIAL", "PAID"}
    BY DEF PayStatus
  <2>3. entity'[c] \in Sale
    <3>1. CASE req[c].op = "CANCEL"
      BY <1>10, <3>1 DEF Recalc, Sale
    <3>2. CASE req[c].op # "CANCEL"
      BY <1>10, <3>2, <2>1, <2>2 DEF Recalc, Sale
    <3> QED BY <3>1, <3>2
  <2>4. entity' \in [Clerks -> Sale]
    BY <1>10, <2>3 DEF Recalc
  <2> QED BY <1>10, <2>4 DEF Recalc
<1>11. CASE Reload(c)
  <2> DEFINE p == plan'[c]
  <2>1. p = [k \in {k \in Columns : sale[k] # entity[c][k]} |-> entity[c][k]]
    BY <1>11 DEF Reload
  <2>2. PlanTyped(p)
    BY <2>1 DEF PlanTyped
  <2>3. PlansTyped'
    BY <1>11, <2>2 DEF Reload
  <2> QED BY <1>11, <2>3 DEF PlanTyped, Reload
<1>12. CASE WriteAndCommit(c)
  <2>1. sale' \in Sale
    BY <1>12, WrittenSale DEF WriteAndCommit
  <2>2. PlansTyped'
    BY <1>12, NothingTyped DEF WriteAndCommit
  <2> QED BY <1>12, <2>1, <2>2 DEF WriteAndCommit
<1>13. CASE WriteSale(c)
  <2>1. lock' \in [Keys -> Clerks \cup {Nobody}]
    BY <1>13 DEF WriteSale, Take
  <2> QED BY <1>13, <2>1 DEF WriteSale
<1>14. CASE Commit(c)
  <2>1. sale' \in Sale /\ amount' \in [Lines -> Nat]
    BY <1>14, WrittenSale, WrittenAmounts DEF Commit
  <2>2. lock' \in [Keys -> Clerks \cup {Nobody}]
    BY <1>14 DEF Commit, Release
  <2>3. PlansTyped'
    BY <1>14, NothingTyped DEF Commit
  <2>4. NewsTyped'
    BY <1>14, NothingTyped DEF Commit
  <2> QED BY <1>14, <2>1, <2>2, <2>3, <2>4 DEF Commit
<1>15. CASE Fail(c)
  <2>1. lock' \in [Keys -> Clerks \cup {Nobody}]
    BY <1>15 DEF Fail, Release
  <2>2. PlansTyped'
    BY <1>15, NothingTyped DEF Fail
  <2>3. NewsTyped'
    BY <1>15, NothingTyped DEF Fail
  <2> QED BY <1>15, <2>1, <2>2, <2>3 DEF Fail
<1> QED BY <1>1, <1>2, <1>3, <1>4, <1>5, <1>6, <1>7, <1>8, <1>9, <1>10, <1>11, <1>12,
           <1>13, <1>14, <1>15 DEF Step

\* The types of the payments and of the sale they belong to.
THEOREM MoneyTypesHold ==
  PaymentsSpec => []TypeOK
<1>1. PaymentsInit => MoneyTypes
  BY InitMoneyTypes
<1>2. MoneyTypes /\ [PaymentsNext]_paymentsVars => MoneyTypes'
  <2> SUFFICES ASSUME MoneyTypes, [PaymentsNext]_paymentsVars PROVE MoneyTypes'
    OBVIOUS
  <2>1. CASE UNCHANGED paymentsVars
    BY <2>1 DEF paymentsVars, MoneyTypes, TypeOK, PlanTyped, NewTyped
  <2> QED BY <2>1, StepMoneyTypes DEF PaymentsNext, Finished
<1>3. MoneyTypes => TypeOK
  BY DEF MoneyTypes
<1> QED BY <1>1, <1>2, <1>3, PTL DEF PaymentsSpec

-----------------------------------------------------------------------------
(* A request that runs alone. *)

\* Where a request may be with its operation.
Route(c) ==
  /\ pc[c] = "lockLines" => req[c].op = "RETURN"
  /\ pc[c] \in {"find", "void"} => req[c].op \in {"EDIT", "DELETE"}
  /\ pc[c] = "insert" => req[c].op \in {"ADD", "EDIT"}
  /\ pc[c] \in {"line", "sum"} => req[c].op \in {"LINE", "RETURN"}
  /\ pc[c] = "commit" => req[c].op \in InTx

LinesSummed(c, s) == s.total = Total(Written(new[c], amount))

\* s is the header as request c has to leave it.
Balanced(c, s) ==
  IF req[c].op = "CANCEL"
  THEN s.status = "CANCELLED" /\ s.paid = s.total
  ELSE /\ s.paid = LiveSum
       /\ s.pay = PayStatus(s.paid, s.total)
       /\ req[c].op \in InTx => LinesSummed(c, s)

\* A request that has been alone so far still is; it has brought the header in order
\* in its memory, and the columns it will write make the stored row the same.
Solo(c) ==
  Active(c) /\ alone[c] =>
    /\ \A d \in Clerks \ {c} : ~Active(d)
    /\ pc[c] = "recalc" /\ req[c].op \in {"LINE", "RETURN"} =>
         LinesSummed(c, entity[c])
    /\ pc[c] \in {"reload", "write", "commit"} => Balanced(c, entity[c])
    /\ pc[c] \in {"write", "commit"} => Written(plan[c], sale) = entity[c]

SoloInv == \A c \in Clerks : Route(c) /\ Solo(c)

LEMMA InitSolo ==
  ASSUME PaymentsInit
  PROVE  SoloInv
BY DEF PaymentsInit, SoloInv, Route, Solo, Active

\* The difference of two rows written to the one makes the other.
LEMMA DifferenceWritten ==
  ASSUME NEW row \in Sale, NEW other \in Sale,
         NEW p, p = [k \in {k \in Columns : row[k] # other[k]} |-> other[k]]
  PROVE  Written(p, row) = other
BY DEF Written, Columns, Sale

LEMMA StepRoute ==
  ASSUME MoneyTypes, NEW c \in Clerks, Route(c), Begin(c) \/ Step(c) \/ Fail(c)
  PROVE  Route(c)'
<1> USE DEF Route, MoneyTypes, TypeOK, Goto, At, Paying, InTx
<1>1. CASE Begin(c) \/ Fail(c)
  BY <1>1 DEF Begin, Fail
<1>2. CASE ReadSale(c) \/ LockSale(c) \/ LockLines(c)
  BY <1>2 DEF ReadSale, LockSale, LockLines
<1>3. CASE FindPayment(c) \/ VoidPayment(c) \/ InsertPayment(c)
  BY <1>3 DEF FindPayment, VoidPayment, InsertPayment
<1>4. CASE WriteLine(c) \/ SumLines(c) \/ Recalc(c) \/ Reload(c)
  BY <1>4 DEF WriteLine, SumLines, Recalc, Reload
<1>5. CASE WriteAndCommit(c) \/ WriteSale(c) \/ Commit(c)
  BY <1>5 DEF WriteAndCommit, WriteSale, Commit
<1> QED BY <1>1, <1>2, <1>3, <1>4, <1>5 DEF Step

\* The sums depend on the payments, and on the amounts a request sees.
LEMMA LiveSumKept ==
  ASSUME payment' = payment
  PROVE  LiveSum' = LiveSum
BY DEF LiveSum, Live, SumOf

LEMMA TotalKept ==
  ASSUME NEW c \in Clerks, new'[c] = new[c], amount' = amount
  PROVE  Total(Written(new[c], amount))' = Total(Written(new[c], amount))
BY DEF Total, SumOf, Written

LEMMA BalancedKept ==
  ASSUME NEW c \in Clerks, req' = req, entity' = entity, payment' = payment,
         new' = new, amount' = amount, Balanced(c, entity[c])
  PROVE  Balanced(c, entity[c])'
<1>1. LiveSum' = LiveSum
  BY LiveSumKept
<1>2. Total(Written(new[c], amount))' = Total(Written(new[c], amount))
  BY TotalKept
<1> QED BY <1>1, <1>2 DEF Balanced, LinesSummed, PayStatus, InTx

\* Who starts a request ends the solitude of the others; who goes on is under way.
LEMMA StartedBeside ==
  ASSUME MoneyTypes, NEW c \in Clerks, NEW d \in Clerks \ {c}, Begin(c)
  PROVE  /\ pc'[d] = pc[d] /\ req'[d] = req[d]
         /\ alone'[d] => ~Active(d)
BY DEF MoneyTypes, TypeOK, Goto, Begin

LEMMA WentOnBeside ==
  ASSUME MoneyTypes, NEW c \in Clerks, Step(c) \/ Fail(c)
  PROVE  /\ \A d \in Clerks \ {c} : pc'[d] = pc[d]
         /\ req' = req /\ alone' = alone /\ Active(c)
<1> USE DEF MoneyTypes, TypeOK, Goto, At, Active
<1>1. CASE Fail(c)
  BY <1>1 DEF Fail
<1>2. CASE ReadSale(c) \/ LockSale(c) \/ LockLines(c)
  BY <1>2 DEF ReadSale, LockSale, LockLines
<1>3. CASE FindPayment(c) \/ VoidPayment(c) \/ InsertPayment(c)
  BY <1>3 DEF FindPayment, VoidPayment, InsertPayment
<1>4. CASE WriteLine(c) \/ SumLines(c) \/ Recalc(c) \/ Reload(c)
  BY <1>4 DEF WriteLine, SumLines, Recalc, Reload
<1>5. CASE WriteAndCommit(c) \/ WriteSale(c) \/ Commit(c)
  BY <1>5 DEF WriteAndCommit, WriteSale, Commit
<1> QED BY <1>1, <1>2, <1>3, <1>4, <1>5 DEF Step

\* Beside a request that takes a step no other is alone and under way.
LEMMA OtherSolo ==
  ASSUME MoneyTypes, NEW c \in Clerks, NEW d \in Clerks \ {c}, Route(d), Solo(d),
         Begin(c) \/ Step(c) \/ Fail(c)
  PROVE  Route(d)' /\ Solo(d)'
<1>1. CASE Begin(c)
  <2>1. /\ pc'[d] = pc[d] /\ req'[d] = req[d]
        /\ alone'[d] => ~Active(d)
    BY <1>1, StartedBeside
  <2> QED BY <2>1 DEF Route, Solo, Active, InTx
<1>2. CASE Step(c) \/ Fail(c)
  <2>1. /\ pc'[d] = pc[d] /\ req'[d] = req[d]
        /\ alone'[d] = alone[d] /\ Active(c)
    BY <1>2, WentOnBeside
  <2>2. ~(Active(d) /\ alone[d])
    BY <2>1 DEF Solo
  <2> QED BY <2>1, <2>2 DEF Route, Solo, Active, InTx
<1> QED BY <1>1, <1>2

LEMMA OwnSolo ==
  ASSUME MoneyTypes, NEW c \in Clerks, Route(c), Solo(c),
         Begin(c) \/ Step(c) \/ Fail(c)
  PROVE  Solo(c)'
<1> SUFFICES ASSUME Active(c)', alone'[c] PROVE Solo(c)'
  BY DEF Solo
<1> USE DEF Route, MoneyTypes, TypeOK, Goto, At
<1>1. CASE Begin(c)
  <2>1. pc'[c] = "start" /\ \A d \in Clerks \ {c} : ~Active(d)
    BY <1>1 DEF Begin
  <2>2. \A d \in Clerks \ {c} : pc'[d] = pc[d]
    BY <1>1 DEF Begin
  <2> QED BY <2>1, <2>2 DEF Solo, Active
<1>2. CASE Step(c) \/ Fail(c)
  <2>1. Active(c) /\ alone[c]
    BY <1>2, WentOnBeside
  <2>2. \A d \in Clerks \ {c} : ~Active(d)'
    BY <1>2, <2>1, WentOnBeside DEF Solo, Active
  <2>3. ~Fail(c)
    BY DEF Fail, Active
  <2>4. CASE ReadSale(c)
    <3>1. req'[c] = req[c] /\ req[c].op \in Paying \cup {"CANCEL", "LINE"}
      BY <2>4 DEF ReadSale
    <3>2. pc'[c] = CASE req[c].op = "ADD" -> "insert"
                          [] req[c].op \in {"EDIT", "DELETE"} -> "find"
                          [] req[c].op = "LINE" -> "line"
                          [] req[c].op = "CANCEL" -> "recalc"
      BY <2>4 DEF ReadSale
    <3>4. \/ pc'[c] \in {"insert", "find", "line"}
          \/ pc'[c] = "recalc" /\ req[c].op = "CANCEL"
      BY <3>1, <3>2 DEF Paying
    <3> QED BY <2>2, <3>1, <3>4 DEF Solo
  <2>10. CASE LockSale(c) \/ LockLines(c) \/ WriteLine(c)
    <3>1. pc'[c] \notin {"recalc", "reload", "write", "commit"}
      BY <2>10 DEF LockSale, LockLines, WriteLine
    <3> QED BY <2>2, <3>1 DEF Solo
  <2>11. CASE FindPayment(c) \/ VoidPayment(c) \/ InsertPayment(c)
    <3>1. /\ pc'[c] \notin {"reload", "write", "commit"}
          /\ req'[c].op \notin {"LINE", "RETURN"}
      BY <2>11 DEF FindPayment, VoidPayment, InsertPayment
    <3> QED BY <2>2, <3>1 DEF Solo
  <2>5. CASE SumLines(c)
    <3>1. pc'[c] = "recalc" /\ new'[c] = new[c] /\ amount' = amount
      BY <2>5 DEF SumLines
    <3>2. entity'[c].total = Total(Written(new[c], amount))
      BY <2>5 DEF SumLines, Sale
    <3>3. LinesSummed(c, entity[c])'
      BY <3>1, <3>2, TotalKept DEF LinesSummed
    <3> QED BY <2>2, <3>1, <3>3 DEF Solo
  <2>6. CASE Recalc(c)
    <3>1. pc'[c] = "reload" /\ req'[c] = req[c]
      BY <2>6 DEF Recalc
    <3>2. Balanced(c, entity[c])'
      <4>1. CASE req[c].op = "CANCEL"
        BY <2>6, <3>1, <4>1 DEF Recalc, Balanced, Sale
      <4>2. CASE req[c].op # "CANCEL"
        <5>1. /\ entity'[c].paid = LiveSum /\ entity'[c].total = entity[c].total
              /\ entity'[c].pay = PayStatus(LiveSum, entity[c].total)
          BY <2>6, <4>2 DEF Recalc, Sale
        <5>2. LiveSum' = LiveSum
          BY <2>6, LiveSumKept DEF Recalc
        <5>3. ASSUME req[c].op \in InTx
              PROVE  LinesSummed(c, entity[c])'
          <6>1. LinesSummed(c, entity[c])
            BY <2>1, <2>6, <4>2, <5>3 DEF Recalc, Solo, InTx
          <6>2. new'[c] = new[c] /\ amount' = amount
            BY <2>6 DEF Recalc
          <6> QED BY <5>1, <6>1, <6>2, TotalKept DEF LinesSummed
        <5>4. entity'[c].pay = PayStatus(entity'[c].paid, entity'[c].total)
          BY <5>1
        <5> QED BY <3>1, <4>2, <5>1, <5>2, <5>3, <5>4 DEF Balanced, InTx, PayStatus
      <4> QED BY <4>1, <4>2
    <3> QED BY <2>2, <3>1, <3>2 DEF Solo
  <2>7. CASE Reload(c)
    <3>1. pc'[c] = "write"
      BY <2>7 DEF Reload
    <3>2. Balanced(c, entity[c])'
      BY <2>1, <2>7, BalancedKept DEF Reload, Solo
    <3>3. (Written(plan[c], sale) = entity[c])'
      <4>1. plan'[c] = [k \in {k \in Columns : sale[k] # entity[c][k]} |-> entity[c][k]]
            /\ sale' = sale /\ entity' = entity
        BY <2>7 DEF Reload
      <4>2. sale \in Sale /\ entity[c] \in Sale
        OBVIOUS
      <4>3. Written(plan'[c], sale) = entity[c]
        BY <4>1, <4>2, DifferenceWritten
      <4> QED BY <4>1, <4>3 DEF Written
    <3> QED BY <2>2, <3>1, <3>2, <3>3 DEF Solo
  <2>8. CASE WriteSale(c)
    <3>1. pc'[c] = "commit" /\ sale' = sale /\ entity' = entity /\ plan' = plan
      BY <2>8 DEF WriteSale
    <3>2. Balanced(c, entity[c])'
      BY <2>1, <2>8, BalancedKept DEF WriteSale, Solo
    <3>3. (Written(plan[c], sale) = entity[c])'
      BY <2>1, <2>8, <3>1 DEF WriteSale, Solo, Written
    <3> QED BY <2>2, <3>1, <3>2, <3>3 DEF Solo
  <2>9. CASE WriteAndCommit(c) \/ Commit(c)
    BY <2>9 DEF WriteAndCommit, Commit, Active
  <2> QED BY <1>2, <2>3, <2>4, <2>5, <2>6, <2>7, <2>8, <2>9, <2>10, <2>11 DEF Step
<1> QED BY <1>1, <1>2

\* What the last statement of a request that was alone leaves.
LEMMA DoneBalances ==
  ASSUME MoneyTypes, NEW c \in Clerks, Route(c), Solo(c), alone[c],
         Begin(c) \/ Step(c) \/ Fail(c)
  PROVE  EndsBalanced(c)
<1> SUFFICES ASSUME pc[c] # "done", pc'[c] = "done"
             PROVE  EndsBalanced(c)
  BY DEF EndsBalanced
<1> USE DEF MoneyTypes, TypeOK, Goto, At
<1>1. WriteAndCommit(c) \/ Commit(c)
  <2>1. ~Begin(c) /\ ~Fail(c)
    BY DEF Begin, Fail
  <2>2. ~ReadSale(c)
    <3> SUFFICES ASSUME ReadSale(c) PROVE FALSE
      OBVIOUS
    <3>1. req[c].op \in Paying \cup {"CANCEL", "LINE"}
      BY DEF ReadSale
    <3> QED BY <3>1 DEF ReadSale, Paying
  <2>3. ~(LockSale(c) \/ LockLines(c) \/ FindPayment(c)
          \/ VoidPayment(c) \/ InsertPayment(c) \/ WriteLine(c))
    BY DEF LockSale, LockLines, FindPayment, VoidPayment,
           InsertPayment, WriteLine
  <2>4. ~(SumLines(c) \/ Recalc(c) \/ Reload(c) \/ WriteSale(c))
    BY DEF SumLines, Recalc, Reload, WriteSale
  <2> QED BY <2>1, <2>2, <2>3, <2>4 DEF Step
<1>2. pc[c] \in {"write", "commit"} /\ payment' = payment
      /\ sale' = Written(plan[c], sale)
  BY <1>1 DEF WriteAndCommit, Commit
<1>3. Balanced(c, entity[c]) /\ sale' = entity[c]
  BY <1>2 DEF Solo, Active
<1>4. CASE req[c].op = "CANCEL"
  <2>1. entity[c].total \in Nat
    BY DEF Sale
  <2> QED BY <1>3, <1>4, <2>1 DEF Balanced, EndsBalanced
<1>5. CASE req[c].op # "CANCEL"
  <2>1. LiveSum' = LiveSum
    BY <1>2, LiveSumKept
  <2>2. req[c].op \in InTx => amount' = Written(new[c], amount)
    BY <1>1 DEF WriteAndCommit, Commit, InTx, Paying
  <2>3. req[c].op \in InTx => sale'.total = Total(amount')
    BY <1>3, <1>5, <2>2 DEF Balanced, LinesSummed
  <2> QED BY <1>3, <1>5, <2>1, <2>3 DEF Balanced, EndsBalanced
<1> QED BY <1>4, <1>5

\* Whatever overlapping or failed requests have left behind, a request that runs with
\* no other beside it ends with the header right: paid amount, payment status, and the
\* total of the lines where it touched them.
THEOREM PaymentsBalance ==
  PaymentsSpec => SoloRequestBalances
<1>1. PaymentsInit => MoneyTypes /\ SoloInv
  BY InitMoneyTypes, InitSolo
<1>2. MoneyTypes /\ SoloInv /\ [PaymentsNext]_paymentsVars => (MoneyTypes /\ SoloInv)'
  <2> SUFFICES ASSUME MoneyTypes, SoloInv, [PaymentsNext]_paymentsVars
               PROVE  MoneyTypes' /\ SoloInv'
    OBVIOUS
  <2>1. CASE UNCHANGED paymentsVars
    <3>1. MoneyTypes'
      BY <2>1 DEF paymentsVars, MoneyTypes, TypeOK, PlanTyped, NewTyped
    <3>2. ASSUME NEW c \in Clerks PROVE Route(c)' /\ Solo(c)'
      <4>1. Balanced(c, entity[c]) => Balanced(c, entity[c])'
        BY <2>1, BalancedKept DEF paymentsVars
      <4>2. LinesSummed(c, entity[c]) => LinesSummed(c, entity[c])'
        BY <2>1, TotalKept DEF paymentsVars, LinesSummed
      <4>3. Route(c)'
        BY <2>1 DEF paymentsVars, SoloInv, Route, InTx
      <4>4. Solo(c)'
        BY <2>1, <4>1, <4>2 DEF paymentsVars, SoloInv, Solo, Active, Written
      <4> QED BY <4>3, <4>4
    <3> QED BY <3>1, <3>2 DEF SoloInv
  <2>2. ASSUME NEW c \in Clerks, Begin(c) \/ Step(c) \/ Fail(c)
        PROVE  MoneyTypes' /\ SoloInv'
    BY <2>2, StepMoneyTypes, StepRoute, OwnSolo, OtherSolo DEF SoloInv
  <2> QED BY <2>1, <2>2 DEF PaymentsNext, Finished
<1>3. MoneyTypes /\ SoloInv /\ [PaymentsNext]_paymentsVars =>
        [\A c \in Clerks : alone[c] => EndsBalanced(c)]_paymentsVars
  <2> SUFFICES ASSUME MoneyTypes, SoloInv, PaymentsNext, NEW c \in Clerks, alone[c]
               PROVE  EndsBalanced(c) \/ UNCHANGED paymentsVars
    OBVIOUS
  <2>1. ASSUME NEW d \in Clerks, Begin(d) \/ Step(d) \/ Fail(d)
        PROVE  EndsBalanced(c)
    <3>1. CASE d = c
      BY <2>1, <3>1, DoneBalances DEF SoloInv
    <3>2. CASE d # c
      <4>1. pc'[c] = pc[c]
        BY <2>1, <3>2, StartedBeside, WentOnBeside
      <4> QED BY <4>1 DEF EndsBalanced
    <3> QED BY <3>1, <3>2
  <2> QED BY <2>1 DEF PaymentsNext, Finished
<1> QED BY <1>1, <1>2, <1>3, PTL DEF PaymentsSpec, SoloRequestBalances

-----------------------------------------------------------------------------
(* The shop of the reports: more about sums over finite sets. *)

\* The sum of f over the finite set S.
SumOver(f, S) == (CHOOSE F : IsSum(F, f, S))[S]

\* Every sum over a larger set gives the same.
LEMMA SumIs ==
  ASSUME NEW f, NEW S, IsFiniteSet(S), NEW F, IsSum(F, f, S), NEW R \in SUBSET S
  PROVE  F[R] = SumOver(f, R)
<1> DEFINE G == CHOOSE H : IsSum(H, f, R)
<1>1. IsFiniteSet(R) /\ R \in SUBSET R
  BY FS_Subset
<1>2. PICK H : IsSum(H, f, R)
  BY <1>1, SumExists
<1>3. IsSum(G, f, R)
  BY <1>2, Zenon
<1>4. IsSum([T \in SUBSET R |-> F[T]], f, R)
  BY SumRestrict
<1> HIDE DEF G
<1>5. [T \in SUBSET R |-> F[T]][R] = G[R]
  BY <1>1, <1>3, <1>4, SumUnique
<1>6. [T \in SUBSET R |-> F[T]][R] = F[R]
  BY <1>1
<1> QED BY <1>5, <1>6, Zenon DEF SumOver, G

\* What holds of the empty set, and of a set with one element more if of the set, holds of
\* every finite set.
LEMMA BySize ==
  ASSUME NEW S, IsFiniteSet(S), NEW G, {} \in G,
         \A R \in SUBSET S : \A x \in S \ R : R \in G => R \cup {x} \in G
  PROVE  S \in G
<1> DEFINE Bad == {R \in SUBSET S : R \notin G}
<1> SUFFICES ASSUME S \notin G PROVE FALSE
  OBVIOUS
<1>1. Bad # {} /\ Bad \in SUBSET (SUBSET S)
  OBVIOUS
<1>2. PICK m \in Bad : \A n \in Bad : n \subseteq m => n = m
  <2> HIDE DEF Bad
  <2> QED BY <1>1, LeastSubset
<1>3. PICK x \in m : TRUE
  OBVIOUS
<1>4. m \ {x} \in SUBSET S /\ x \in S \ (m \ {x}) /\ (m \ {x}) \cup {x} = m
  OBVIOUS
<1>5. m \ {x} \notin Bad
  <2> HIDE DEF Bad
  <2> QED BY <1>2
<1>6. m \ {x} \in G
  BY <1>4, <1>5
<1> QED BY <1>4, <1>6

\* The equation of a sum.
LEMMA SumFirst ==
  ASSUME NEW f, NEW S, IsFiniteSet(S)
  PROVE  /\ S = {} => SumOver(f, S) = 0
         /\ S # {} => /\ FirstOf(S) \in S
                      /\ SumOver(f, S) = f[FirstOf(S)] + SumOver(f, S \ {FirstOf(S)})
<1>1. PICK F : IsSum(F, f, S)
  BY SumExists
<1>2. S \in SUBSET S /\ S \ {FirstOf(S)} \in SUBSET S
  OBVIOUS
<1>3. F[S] = SumOver(f, S) /\ F[S \ {FirstOf(S)}] = SumOver(f, S \ {FirstOf(S)})
  BY <1>1, <1>2, SumIs
<1>4. /\ S = {} => F[S] = 0
      /\ S # {} => /\ FirstOf(S) \in S
                   /\ F[S] = f[FirstOf(S)] + F[S \ {FirstOf(S)}]
  <2>1. \A T \in SUBSET S :
          /\ T = {} => F[T] = 0
          /\ T # {} => /\ FirstOf(T) \in T
                       /\ F[T] = f[FirstOf(T)] + F[T \ {FirstOf(T)}]
    BY <1>1, SumStep
  <2> QED BY <1>2, <2>1, Zenon
<1> QED BY <1>3, <1>4, Zenon

\* Nothing sums to zero.
LEMMA SumEmpty ==
  ASSUME NEW f
  PROVE  SumOver(f, {}) = 0
BY SumFirst, FS_EmptySet

\* Any element may be the first.
LEMMA SumTake ==
  ASSUME NEW S, IsFiniteSet(S), NEW f, \A x \in S : f[x] \in Int
  PROVE  SumOver(f, S) \in Int /\ \A x \in S : SumOver(f, S) = f[x] + SumOver(f, S \ {x})
<1> DEFINE Good(R) == SumOver(f, R) \in Int /\ \A x \in R : SumOver(f, R) = f[x] + SumOver(f, R \ {x})
           Bad == {R \in SUBSET S : ~Good(R)}
<1> SUFFICES ASSUME ~Good(S) PROVE FALSE
  OBVIOUS
<1>1. Bad # {} /\ Bad \in SUBSET (SUBSET S)
  <2> HIDE DEF Good
  <2> QED OBVIOUS
<1>2. PICK m \in Bad : \A n \in Bad : n \subseteq m => n = m
  <2> HIDE DEF Bad
  <2> QED BY <1>1, LeastSubset
<1>3. m \in SUBSET S /\ ~Good(m) /\ IsFiniteSet(m)
  <2> HIDE DEF Good
  <2> QED BY FS_Subset
<1>4. \A n \in SUBSET m : n # m => Good(n)
  <2> HIDE DEF Good
  <2> QED BY <1>2, <1>3
<1> HIDE DEF Bad, Good
<1>5. /\ m = {} => SumOver(f, m) = 0
      /\ m # {} => /\ FirstOf(m) \in m
                   /\ SumOver(f, m) = f[FirstOf(m)] + SumOver(f, m \ {FirstOf(m)})
  BY <1>3, SumFirst
<1>6. m # {}
  BY <1>3, <1>5 DEF Good
<1> DEFINE a == FirstOf(m)
           rest == m \ {a}
<1>7. a \in m /\ SumOver(f, m) = f[a] + SumOver(f, rest) /\ f[a] \in Int
  BY <1>3, <1>5, <1>6
<1> HIDE DEF a
<1>8. Good(rest)
  BY <1>4, <1>7
<1>9. SumOver(f, rest) \in Int
  BY <1>8 DEF Good
<1>10. ASSUME NEW x \in m, x # a PROVE SumOver(f, m) = f[x] + SumOver(f, m \ {x})
  <2>1. Good(m \ {x}) /\ x \in rest /\ a \in m \ {x}
    BY <1>4, <1>7, <1>10
  <2>2. SumOver(f, rest) = f[x] + SumOver(f, rest \ {x})
    BY <1>8, <2>1 DEF Good
  <2>3. SumOver(f, m \ {x}) = f[a] + SumOver(f, (m \ {x}) \ {a})
    BY <2>1 DEF Good
  <2>4. (m \ {x}) \ {a} = rest \ {x}
    OBVIOUS
  <2>5. Good(rest \ {x})
    BY <1>4, <1>7
  <2>6. SumOver(f, rest \ {x}) \in Int /\ f[x] \in Int
    BY <1>3, <2>5 DEF Good
  <2>7. SumOver(f, m \ {x}) = f[a] + SumOver(f, rest \ {x})
    BY <2>3, <2>4, Zenon
  <2> HIDE DEF rest
  <2> QED BY <1>7, <2>2, <2>6, <2>7
<1>11. SumOver(f, m) \in Int
  BY <1>7, <1>9
<1>12. Good(m)
  BY <1>7, <1>10, <1>11 DEF Good
<1> QED BY <1>3, <1>12

\* A set with one element more.
LEMMA SumAdd ==
  ASSUME NEW S, IsFiniteSet(S), NEW f, \A x \in S : f[x] \in Int,
         NEW R \in SUBSET S, NEW x \in S \ R
  PROVE  /\ SumOver(f, R \cup {x}) = f[x] + SumOver(f, R)
         /\ SumOver(f, R \cup {x}) \in Int /\ SumOver(f, R) \in Int /\ f[x] \in Int
<1>1. IsFiniteSet(R) /\ IsFiniteSet(R \cup {x}) /\ R \cup {x} \in SUBSET S
  BY FS_Subset
<1>2. (R \cup {x}) \ {x} = R
  OBVIOUS
<1> QED BY <1>1, <1>2, SumTake

\* A sum of naturals is one.
LEMMA SumNat ==
  ASSUME NEW S, IsFiniteSet(S), NEW f, \A x \in S : f[x] \in Nat
  PROVE  SumOver(f, S) \in Nat
<1> DEFINE G == {R \in SUBSET S : SumOver(f, R) \in Nat}
<1>1. {} \in G
  BY SumEmpty
<1>2. ASSUME NEW R \in SUBSET S, NEW x \in S \ R, R \in G PROVE R \cup {x} \in G
  <2>1. SumOver(f, R \cup {x}) = f[x] + SumOver(f, R)
    BY SumAdd
  <2> QED BY <1>2, <2>1
<1> HIDE DEF G
<1>3. S \in G
  BY <1>1, <1>2, BySize
<1> QED BY <1>3 DEF G

\* A sum of naturals is zero only if they are.
LEMMA SumPositive ==
  ASSUME NEW S, IsFiniteSet(S), NEW f, \A x \in S : f[x] \in Nat, NEW x \in S
  PROVE  f[x] <= SumOver(f, S)
<1>1. SumOver(f, S) = f[x] + SumOver(f, S \ {x})
  BY SumTake
<1>2. SumOver(f, S \ {x}) \in Nat
  BY SumNat, FS_Subset
<1> QED BY <1>1, <1>2

\* Equal values have equal sums.
LEMMA SumSame ==
  ASSUME NEW S, IsFiniteSet(S), NEW f, NEW g, \A x \in S : f[x] \in Int /\ g[x] = f[x]
  PROVE  SumOver(f, S) = SumOver(g, S)
<1> DEFINE G == {R \in SUBSET S : SumOver(f, R) = SumOver(g, R)}
<1>1. {} \in G
  BY SumEmpty
<1>2. ASSUME NEW R \in SUBSET S, NEW x \in S \ R, R \in G PROVE R \cup {x} \in G
  <2>1. SumOver(f, R \cup {x}) = f[x] + SumOver(f, R)
    BY SumAdd
  <2>2. SumOver(g, R \cup {x}) = g[x] + SumOver(g, R)
    BY SumAdd
  <2> QED BY <1>2, <2>1, <2>2
<1> HIDE DEF G
<1>3. S \in G
  BY <1>1, <1>2, BySize
<1> QED BY <1>3 DEF G

\* The sum of two functions.
LEMMA SumPlus ==
  ASSUME NEW S, IsFiniteSet(S), NEW f, NEW g, NEW h,
         \A x \in S : f[x] \in Int /\ g[x] \in Int /\ h[x] = f[x] + g[x]
  PROVE  SumOver(h, S) = SumOver(f, S) + SumOver(g, S)
<1> DEFINE G == {R \in SUBSET S : SumOver(h, R) = SumOver(f, R) + SumOver(g, R)}
<1>1. {} \in G
  BY SumEmpty
<1>2. ASSUME NEW R \in SUBSET S, NEW x \in S \ R, R \in G PROVE R \cup {x} \in G
  <2>0. \A y \in S : h[y] \in Int
    OBVIOUS
  <2>1. SumOver(f, R \cup {x}) = f[x] + SumOver(f, R) /\ SumOver(f, R) \in Int
    BY SumAdd
  <2>2. SumOver(g, R \cup {x}) = g[x] + SumOver(g, R) /\ SumOver(g, R) \in Int
    BY SumAdd
  <2>3. SumOver(h, R \cup {x}) = h[x] + SumOver(h, R)
    BY <2>0, SumAdd
  <2> QED BY <1>2, <2>1, <2>2, <2>3
<1> HIDE DEF G
<1>3. S \in G
  BY <1>1, <1>2, BySize
<1> QED BY <1>3 DEF G

\* The sum over two disjoint sets.
LEMMA SumUnion ==
  ASSUME NEW S, IsFiniteSet(S), NEW f, \A x \in S : f[x] \in Int,
         NEW A \in SUBSET S, NEW B \in SUBSET S, A \cap B = {}
  PROVE  SumOver(f, A \cup B) = SumOver(f, A) + SumOver(f, B)
<1> DEFINE G == {R \in SUBSET B : SumOver(f, A \cup R) = SumOver(f, A) + SumOver(f, R)}
<1>0. IsFiniteSet(A) /\ IsFiniteSet(B)
  BY FS_Subset
<1>1. {} \in G
  <2>1. A \cup {} = A /\ SumOver(f, A) \in Int
    BY <1>0, SumTake
  <2> QED BY <2>1, SumEmpty
<1>2. ASSUME NEW R \in SUBSET B, NEW x \in B \ R, R \in G PROVE R \cup {x} \in G
  <2>1. SumOver(f, R \cup {x}) = f[x] + SumOver(f, R) /\ SumOver(f, R) \in Int
    <3>1. \A y \in B : f[y] \in Int
      OBVIOUS
    <3>2. R \in SUBSET B /\ x \in B \ R
      OBVIOUS
    <3> QED BY ONLY <1>0, <3>1, <3>2, SumAdd
  <2>2. A \cup R \in SUBSET S /\ x \in S \ (A \cup R)
    OBVIOUS
  <2>5. SumOver(f, A \cup (R \cup {x})) = f[x] + SumOver(f, A \cup R)
    <3> DEFINE Q == A \cup R
               U == A \cup (R \cup {x})
    <3>1. U = Q \cup {x}
      OBVIOUS
    <3>2. Q \in SUBSET S /\ x \in S \ Q
      BY <2>2
    <3> HIDE DEF Q, U
    <3>3. SumOver(f, Q \cup {x}) = f[x] + SumOver(f, Q)
      BY <3>2, SumAdd
    <3>4. SumOver(f, U) = f[x] + SumOver(f, Q)
      BY <3>1, <3>3, Zenon
    <3> QED BY <3>4 DEF U, Q
  <2>4. SumOver(f, A) \in Int /\ f[x] \in Int
    BY <1>0, SumTake
  <2> QED BY <1>2, <2>1, <2>4, <2>5
<1> HIDE DEF G
<1>3. B \in G
  BY <1>0, <1>1, <1>2, BySize
<1> QED BY <1>3 DEF G

\* What is zero may be left out.
LEMMA SumWithout ==
  ASSUME NEW S, IsFiniteSet(S), NEW f, \A x \in S : f[x] \in Int,
         NEW R \in SUBSET S, \A x \in S \ R : f[x] = 0
  PROVE  SumOver(f, S) = SumOver(f, R)
<1> DEFINE G == {T \in SUBSET (S \ R) : SumOver(f, T) = 0}
<1>1. {} \in G
  BY SumEmpty
<1>2. ASSUME NEW T \in SUBSET (S \ R), NEW x \in (S \ R) \ T, T \in G PROVE T \cup {x} \in G
  <2>1. SumOver(f, T \cup {x}) = f[x] + SumOver(f, T)
    BY SumAdd
  <2> QED BY <1>2, <2>1
<1> HIDE DEF G
<1>3. IsFiniteSet(S \ R) /\ IsFiniteSet(R)
  BY FS_Subset
<1>4. S \ R \in G
  BY <1>1, <1>2, <1>3, BySize
<1>5. SumOver(f, R \cup (S \ R)) = SumOver(f, R) + SumOver(f, S \ R) /\ R \cup (S \ R) = S
  BY SumUnion
<1>6. SumOver(f, R) \in Int
  BY <1>3, SumTake
<1>7. SumOver(f, R \cup (S \ R)) = SumOver(f, S)
  BY <1>5, Zenon
<1>8. SumOver(f, S \ R) = 0
  BY <1>4 DEF G
<1> QED BY <1>5, <1>6, <1>7, <1>8

\* A sum by parts.
LEMMA SumParts ==
  ASSUME NEW S, IsFiniteSet(S), NEW f, \A x \in S : f[x] \in Int,
         NEW K, IsFiniteSet(K), NEW part, \A k \in K : part[k] \in SUBSET S,
         \A x \in S : \E k \in K : x \in part[k],
         \A k, j \in K : \A x \in S : x \in part[k] /\ x \in part[j] => k = j,
         NEW g, \A k \in K : g[k] = SumOver(f, part[k])
  PROVE  SumOver(g, K) = SumOver(f, S)
<1> DEFINE Union(L) == {x \in S : \E k \in L : x \in part[k]}
           G == {L \in SUBSET K : SumOver(g, L) = SumOver(f, Union(L))}
<1>1. {} \in G
  <2>1. Union({}) = {}
    OBVIOUS
  <2> QED BY <2>1, SumEmpty
<1>2. \A k \in K : g[k] \in Int
  <2> TAKE k \in K
  <2>1. IsFiniteSet(part[k]) /\ \A x \in part[k] : f[x] \in Int
    BY FS_Subset
  <2>2. SumOver(f, part[k]) \in Int
    BY <2>1, SumTake
  <2> QED BY <2>2
<1>3. ASSUME NEW L \in SUBSET K, NEW k \in K \ L, L \in G PROVE L \cup {k} \in G
  <2>1. SumOver(g, L \cup {k}) = g[k] + SumOver(g, L)
    BY <1>2, SumAdd
  <2> DEFINE A == Union(L)
             B == part[k]
  <2>2. A \in SUBSET S /\ B \in SUBSET S /\ A \cap B = {} /\ A \cup B = Union(L \cup {k})
    OBVIOUS
  <2>3. IsFiniteSet(A) /\ IsFiniteSet(B)
    BY FS_Subset
  <2> HIDE DEF A, B
  <2>4. SumOver(f, A \cup B) = SumOver(f, A) + SumOver(f, B)
    BY <2>2, SumUnion
  <2>5. SumOver(f, A) \in Int /\ SumOver(f, B) \in Int
    BY <2>2, <2>3, SumTake
  <2>6. g[k] = SumOver(f, B) /\ SumOver(g, L) = SumOver(f, A)
    BY <1>3 DEF A, B
  <2>7. SumOver(g, L \cup {k}) = SumOver(f, Union(L \cup {k}))
    <3>1. SumOver(f, Union(L \cup {k})) = SumOver(f, A \cup B)
      BY <2>2, Zenon
    <3> HIDE DEF Union
    <3> QED BY <2>1, <2>4, <2>5, <2>6, <3>1
  <2> QED BY <2>7
<1> HIDE DEF G
<1>4. K \in G
  BY <1>1, <1>3, BySize
<1>5. Union(K) = S
  OBVIOUS
<1> QED BY <1>4, <1>5 DEF G

\* A sum over what a one-to-one function maps to.
LEMMA SumMap ==
  ASSUME NEW S, IsFiniteSet(S), NEW T, NEW h \in [S -> T],
         \A x, y \in S : h[x] = h[y] => x = y, \A y \in T : \E x \in S : h[x] = y,
         NEW f, \A y \in T : f[y] \in Int, NEW g, \A x \in S : g[x] = f[h[x]]
  PROVE  IsFiniteSet(T) /\ SumOver(g, S) = SumOver(f, T)
<1> DEFINE Img(R) == {h[x] : x \in R}
           G == {R \in SUBSET S : IsFiniteSet(Img(R)) /\ SumOver(g, R) = SumOver(f, Img(R))}
<1>1. {} \in G
  <2>1. Img({}) = {}
    OBVIOUS
  <2> QED BY <2>1, SumEmpty, FS_EmptySet
<1>2. \A x \in S : g[x] \in Int
  OBVIOUS
<1>3. ASSUME NEW R \in SUBSET S, NEW x \in S \ R, R \in G PROVE R \cup {x} \in G
  <2>1. SumOver(g, R \cup {x}) = g[x] + SumOver(g, R)
    BY <1>2, SumAdd
  <2>2. Img(R \cup {x}) = Img(R) \cup {h[x]} /\ h[x] \notin Img(R) /\ Img(R \cup {x}) \in SUBSET T
    OBVIOUS
  <2>3. IsFiniteSet(Img(R \cup {x}))
    <3>1. IsFiniteSet(Img(R))
      BY <1>3
    <3>2. IsFiniteSet(Img(R) \cup {h[x]})
      <4> HIDE DEF Img
      <4> QED BY <3>1, FS_AddElement
    <3> QED BY <2>2, <3>2, Zenon
  <2>4. Img(R) \in SUBSET Img(R \cup {x}) /\ h[x] \in Img(R \cup {x}) \ Img(R)
        /\ \A y \in Img(R \cup {x}) : f[y] \in Int
    BY <2>2
  <2>5. SumOver(f, Img(R) \cup {h[x]}) = f[h[x]] + SumOver(f, Img(R))
    <3> DEFINE U == Img(R \cup {x})
               V == Img(R)
    <3>1. IsFiniteSet(U) /\ V \in SUBSET U /\ h[x] \in U \ V /\ \A y \in U : f[y] \in Int
      BY <2>3, <2>4
    <3> HIDE DEF U, V
    <3>2. SumOver(f, V \cup {h[x]}) = f[h[x]] + SumOver(f, V)
      BY <3>1, SumAdd
    <3> QED BY <3>2 DEF V
  <2>6. SumOver(g, R) = SumOver(f, Img(R)) /\ g[x] = f[h[x]]
    BY <1>3
  <2> HIDE DEF Img
  <2> QED BY <2>1, <2>2, <2>3, <2>5, <2>6
<1> HIDE DEF G
<1>4. S \in G
  BY <1>1, <1>3, BySize
<1>5. Img(S) = T
  OBVIOUS
<1> QED BY <1>4, <1>5 DEF G

-----------------------------------------------------------------------------
(* What the model totals, as sums.  A lemma cannot take the measure of a TotalOf as its
   parameter, so the fact is stated for each measure. *)

\* The quantities of the movements that Record books.
LEMMA QuantityTotal ==
  ASSUME NEW S, IsFiniteSet(S)
  PROVE  TotalOf(LAMBDA m : m.quantity, S) = SumOver([m \in S |-> m.quantity], S)
<1> DEFINE f == [m \in S |-> m.quantity]
           Is(F) == F = [T \in SUBSET S |->
             IF T = {} THEN 0 ELSE (CHOOSE a \in T : TRUE).quantity + F[T \ {CHOOSE a \in T : TRUE}]]
           H == CHOOSE F : Is(F)
<1>1. TotalOf(LAMBDA m : m.quantity, S) = H[S]
  BY Zenon DEF TotalOf, MapThenSumSet, MapThenFoldSet
<1>2. \A T \in SUBSET S : T # {} => f[FirstOf(T)] = (CHOOSE a \in T : TRUE).quantity
  BY Zenon DEF FirstOf
<1> HIDE DEF f
<1>3. \A F : Is(F) <=> IsSum(F, f, S)
  BY <1>2, Zenon DEF IsSum, FirstOf
<1>4. PICK F : IsSum(F, f, S)
  BY SumExists
<1>5. IsSum(H, f, S)
  <2> HIDE DEF Is
  <2> QED BY <1>3, <1>4, Zenon
<1> HIDE DEF H
<1>6. H[S] = SumOver(f, S)
  BY <1>5, SumIs
<1> QED BY <1>1, <1>6, Zenon DEF f

\* The same with the other sign.
LEMMA NegatedTotal ==
  ASSUME NEW S, IsFiniteSet(S)
  PROVE  TotalOf(LAMBDA m : -m.quantity, S) = SumOver([m \in S |-> -m.quantity], S)
<1> DEFINE f == [m \in S |-> -m.quantity]
           Is(F) == F = [T \in SUBSET S |->
             IF T = {} THEN 0 ELSE -(CHOOSE a \in T : TRUE).quantity + F[T \ {CHOOSE a \in T : TRUE}]]
           H == CHOOSE F : Is(F)
<1>1. TotalOf(LAMBDA m : -m.quantity, S) = H[S]
  BY Zenon DEF TotalOf, MapThenSumSet, MapThenFoldSet
<1>2. \A T \in SUBSET S : T # {} => f[FirstOf(T)] = -(CHOOSE a \in T : TRUE).quantity
  BY Zenon DEF FirstOf
<1> HIDE DEF f
<1>3. \A F : Is(F) <=> IsSum(F, f, S)
  BY <1>2, Zenon DEF IsSum, FirstOf
<1>4. PICK F : IsSum(F, f, S)
  BY SumExists
<1>5. IsSum(H, f, S)
  <2> HIDE DEF Is
  <2> QED BY <1>3, <1>4, Zenon
<1> HIDE DEF H
<1>6. H[S] = SumOver(f, S)
  BY <1>5, SumIs
<1> QED BY <1>1, <1>6, Zenon DEF f

\* The prices of a sale's lines (HeaderOf).
LEMMA NetTotal ==
  ASSUME NEW lines, NEW S, IsFiniteSet(S)
  PROVE  TotalOf(LAMBDA i : Net(lines[i]), S) = SumOver([i \in S |-> Net(lines[i])], S)
<1> DEFINE f == [i \in S |-> Net(lines[i])]
           Is(F) == F = [T \in SUBSET S |->
             IF T = {} THEN 0 ELSE Net(lines[(CHOOSE a \in T : TRUE)]) + F[T \ {CHOOSE a \in T : TRUE}]]
           H == CHOOSE F : Is(F)
<1>1. TotalOf(LAMBDA i : Net(lines[i]), S) = H[S]
  BY Zenon DEF TotalOf, MapThenSumSet, MapThenFoldSet
<1>2. \A T \in SUBSET S : T # {} => f[FirstOf(T)] = Net(lines[(CHOOSE a \in T : TRUE)])
  BY Zenon DEF FirstOf
<1> HIDE DEF f
<1>3. \A F : Is(F) <=> IsSum(F, f, S)
  BY <1>2, Zenon DEF IsSum, FirstOf
<1>4. PICK F : IsSum(F, f, S)
  BY SumExists
<1>5. IsSum(H, f, S)
  <2> HIDE DEF Is
  <2> QED BY <1>3, <1>4, Zenon
<1> HIDE DEF H
<1>6. H[S] = SumOver(f, S)
  BY <1>5, SumIs
<1> QED BY <1>1, <1>6, Zenon DEF f

\* The totals of a sale's lines (HeaderOf).
LEMMA LineTotals ==
  ASSUME NEW lines, NEW S, IsFiniteSet(S)
  PROVE  TotalOf(LAMBDA i : lines[i].lineTotal, S) = SumOver([i \in S |-> lines[i].lineTotal], S)
<1> DEFINE f == [i \in S |-> lines[i].lineTotal]
           Is(F) == F = [T \in SUBSET S |->
             IF T = {} THEN 0 ELSE lines[(CHOOSE a \in T : TRUE)].lineTotal + F[T \ {CHOOSE a \in T : TRUE}]]
           H == CHOOSE F : Is(F)
<1>1. TotalOf(LAMBDA i : lines[i].lineTotal, S) = H[S]
  BY Zenon DEF TotalOf, MapThenSumSet, MapThenFoldSet
<1>2. \A T \in SUBSET S : T # {} => f[FirstOf(T)] = lines[(CHOOSE a \in T : TRUE)].lineTotal
  BY Zenon DEF FirstOf
<1> HIDE DEF f
<1>3. \A F : Is(F) <=> IsSum(F, f, S)
  BY <1>2, Zenon DEF IsSum, FirstOf
<1>4. PICK F : IsSum(F, f, S)
  BY SumExists
<1>5. IsSum(H, f, S)
  <2> HIDE DEF Is
  <2> QED BY <1>3, <1>4, Zenon
<1> HIDE DEF H
<1>6. H[S] = SumOver(f, S)
  BY <1>5, SumIs
<1> QED BY <1>1, <1>6, Zenon DEF f

\* The units of one variant that the returns of a sale took back (PartsReturned).
LEMMA PartsTotal ==
  ASSUME NEW order, NEW v, NEW S, IsFiniteSet(S)
  PROVE  TotalOf(LAMBDA k : order.returns[k].parts[v], S) = SumOver([k \in S |-> order.returns[k].parts[v]], S)
<1> DEFINE f == [k \in S |-> order.returns[k].parts[v]]
           Is(F) == F = [T \in SUBSET S |->
             IF T = {} THEN 0 ELSE order.returns[(CHOOSE a \in T : TRUE)].parts[v] + F[T \ {CHOOSE a \in T : TRUE}]]
           H == CHOOSE F : Is(F)
<1>1. TotalOf(LAMBDA k : order.returns[k].parts[v], S) = H[S]
  BY Zenon DEF TotalOf, MapThenSumSet, MapThenFoldSet
<1>2. \A T \in SUBSET S : T # {} => f[FirstOf(T)] = order.returns[(CHOOSE a \in T : TRUE)].parts[v]
  BY Zenon DEF FirstOf
<1> HIDE DEF f
<1>3. \A F : Is(F) <=> IsSum(F, f, S)
  BY <1>2, Zenon DEF IsSum, FirstOf
<1>4. PICK F : IsSum(F, f, S)
  BY SumExists
<1>5. IsSum(H, f, S)
  <2> HIDE DEF Is
  <2> QED BY <1>3, <1>4, Zenon
<1> HIDE DEF H
<1>6. H[S] = SumOver(f, S)
  BY <1>5, SumIs
<1> QED BY <1>1, <1>6, Zenon DEF f

\* The units of a set of lines, as the reports add them up.
LEMMA LineQuantities ==
  ASSUME NEW S, IsFiniteSet(S)
  PROVE  Quantity(S) = SumOver([x \in S |-> LineAt(x).quantity], S)
<1> DEFINE f == [x \in S |-> LineAt(x).quantity]
           Is(F) == F = [T \in SUBSET S |->
             IF T = {} THEN 0 ELSE LineAt((CHOOSE a \in T : TRUE)).quantity + F[T \ {CHOOSE a \in T : TRUE}]]
           H == CHOOSE F : Is(F)
<1>1. Quantity(S) = H[S]
  BY Zenon DEF TotalOf, MapThenSumSet, MapThenFoldSet, Quantity
<1>2. \A T \in SUBSET S : T # {} => f[FirstOf(T)] = LineAt((CHOOSE a \in T : TRUE)).quantity
  BY Zenon DEF FirstOf
<1> HIDE DEF f
<1>3. \A F : Is(F) <=> IsSum(F, f, S)
  BY <1>2, Zenon DEF IsSum, FirstOf
<1>4. PICK F : IsSum(F, f, S)
  BY SumExists
<1>5. IsSum(H, f, S)
  <2> HIDE DEF Is
  <2> QED BY <1>3, <1>4, Zenon
<1> HIDE DEF H
<1>6. H[S] = SumOver(f, S)
  BY <1>5, SumIs
<1> QED BY <1>1, <1>6, Zenon DEF f

\* The stock of a set of rows, as the reports and the stock views add it up.
LEMMA RowQuantities ==
  ASSUME NEW S, IsFiniteSet(S)
  PROVE  StockOf(S) = SumOver([r \in S |-> stock[r[1]][r[2]]], S)
<1> DEFINE f == [r \in S |-> stock[r[1]][r[2]]]
           Is(F) == F = [T \in SUBSET S |->
             IF T = {} THEN 0 ELSE stock[(CHOOSE a \in T : TRUE)[1]][(CHOOSE a \in T : TRUE)[2]] + F[T \ {CHOOSE a \in T : TRUE}]]
           H == CHOOSE F : Is(F)
<1>1. StockOf(S) = H[S]
  BY Zenon DEF TotalOf, MapThenSumSet, MapThenFoldSet, StockOf
<1>2. \A T \in SUBSET S : T # {} => f[FirstOf(T)] = stock[(CHOOSE a \in T : TRUE)[1]][(CHOOSE a \in T : TRUE)[2]]
  BY Zenon DEF FirstOf
<1> HIDE DEF f
<1>3. \A F : Is(F) <=> IsSum(F, f, S)
  BY <1>2, Zenon DEF IsSum, FirstOf
<1>4. PICK F : IsSum(F, f, S)
  BY SumExists
<1>5. IsSum(H, f, S)
  <2> HIDE DEF Is
  <2> QED BY <1>3, <1>4, Zenon
<1> HIDE DEF H
<1>6. H[S] = SumOver(f, S)
  BY <1>5, SumIs
<1> QED BY <1>1, <1>6, Zenon DEF f

\* The quantities of a set of booked movements, as the reports add them up.
LEMMA MoveQuantities ==
  ASSUME NEW S, IsFiniteSet(S)
  PROVE  NetQuantity(S) = SumOver([k \in S |-> movements[k].quantity], S)
<1> DEFINE f == [k \in S |-> movements[k].quantity]
           Is(F) == F = [T \in SUBSET S |->
             IF T = {} THEN 0 ELSE movements[(CHOOSE a \in T : TRUE)].quantity + F[T \ {CHOOSE a \in T : TRUE}]]
           H == CHOOSE F : Is(F)
<1>1. NetQuantity(S) = H[S]
  BY Zenon DEF TotalOf, MapThenSumSet, MapThenFoldSet, NetQuantity
<1>2. \A T \in SUBSET S : T # {} => f[FirstOf(T)] = movements[(CHOOSE a \in T : TRUE)].quantity
  BY Zenon DEF FirstOf
<1> HIDE DEF f
<1>3. \A F : Is(F) <=> IsSum(F, f, S)
  BY <1>2, Zenon DEF IsSum, FirstOf
<1>4. PICK F : IsSum(F, f, S)
  BY SumExists
<1>5. IsSum(H, f, S)
  <2> HIDE DEF Is
  <2> QED BY <1>3, <1>4, Zenon
<1> HIDE DEF H
<1>6. H[S] = SumOver(f, S)
  BY <1>5, SumIs
<1> QED BY <1>1, <1>6, Zenon DEF f

-----------------------------------------------------------------------------
(* The amounts of a line, and the movements of a request. *)

\* Products, which SMT does not know to be integers.
LEMMA TimesNat == \A m, n \in Nat : m * n \in Nat
OBVIOUS
\* The same of integers.
LEMMA TimesInt == \A m, n \in Int : m * n \in Int
OBVIOUS
\* A quotient of naturals is one.
LEMMA DivNat ==
  ASSUME NEW a \in Nat, NEW n \in Nat \ {0}
  PROVE  a \div n \in Nat
OBVIOUS
\* A bound on a quotient from one on what is divided.
LEMMA DivAtMost ==
  ASSUME NEW a \in Nat, NEW b \in Nat, NEW n \in Nat \ {0}, a <= n * b
  PROVE  a \div n <= b
<1> DEFINE d == a \div n
<1>1. d \in Nat /\ n * d <= a
  OBVIOUS
<1> HIDE DEF d
<1>2. n * d <= n * b
  <2>1. n * d \in Nat /\ n * b \in Nat
    BY <1>1, TimesNat
  <2> QED BY <1>1, <2>1
<1>3. d <= b
  <2> SUFFICES ASSUME d > b PROVE FALSE
    BY <1>1
  <2>1. PICK e \in Nat : d = b + 1 + e
    <3>1. d - b - 1 \in Nat /\ d = b + 1 + (d - b - 1)
      BY <1>1
    <3> QED BY <3>1
  <2>2. n * d = n * b + n + n * e
    BY <2>1
  <2>3. n * e \in Nat /\ n * b \in Nat
    BY TimesNat
  <2> QED BY <1>2, <2>2, <2>3
<1> QED BY <1>3 DEF d

\* An amount or percentage that computeSaleLineAmountsForQuantity scales stays one.
LEMMA ScaledType ==
  ASSUME NEW l \in LineRow, NEW q \in Nat, NEW money \in OrNull(Nat), NEW percent \in OrNull(Nat)
  PROVE  Scaled(money, percent, l, q) \in OrNull(Nat)
<1>1. l.quantity \in Nat
  BY DEF LineRow
<1>2. CASE money = Null \/ percent # Null
  BY <1>2 DEF Scaled, OrNull
<1>3. CASE money # Null /\ percent = Null
  <2>1. money \in Nat /\ money * q \in Nat
    BY <1>3, TimesNat DEF OrNull
  <2>2. l.quantity > 0 => (money * q) \div l.quantity \in Nat
    BY <1>1, <2>1, DivNat
  <2> QED BY <1>1, <1>3, <2>2 DEF Scaled, OrNull
<1> QED BY <1>2, <1>3

\* The amounts that calculateLineAmounts derives from a line are integers; its price and its
\* discount are not negative.
LEMMA AmountType ==
  ASSUME NEW l \in LineRow
  PROVE  /\ Net(l) \in Nat /\ Discount(l, Net(l)) \in Nat /\ Taxable(l) \in Int
         /\ Tax(l, Taxable(l)) \in Int /\ AmountOf(l) \in Int
<1>1. /\ l.quantity \in Nat /\ l.unitPrice \in Nat
      /\ l.discountAmount \in OrNull(Nat) /\ l.discountPercent \in OrNull(Nat)
      /\ l.taxAmount \in OrNull(Nat) /\ l.taxPercent \in OrNull(Nat)
  BY DEF LineRow
<1>2. Net(l) \in Nat
  BY <1>1, TimesNat DEF Net
<1>3. Discount(l, Net(l)) \in Nat
  <2>1. l.discountPercent # Null => Net(l) * l.discountPercent \in Nat
    BY <1>1, <1>2, TimesNat DEF OrNull
  <2> QED BY <1>1, <2>1, DivNat DEF Discount, OrNull
<1>4. Taxable(l) \in Int
  BY <1>2, <1>3 DEF Taxable
<1>5. Tax(l, Taxable(l)) \in Int
  <2>1. l.taxPercent # Null => Taxable(l) * l.taxPercent \in Int
    BY <1>1, <1>4, TimesInt DEF OrNull
  <2>2. \A n \in Int : n \div 100 \in Int
    OBVIOUS
  <2> QED BY <1>1, <2>1, <2>2 DEF Tax, OrNull
<1> QED BY <1>2, <1>3, <1>4, <1>5 DEF AmountOf

\* A line scaled to another quantity (computeSaleLineAmountsForQuantity) is a line of that
\* quantity.
LEMMA ForQuantityType ==
  ASSUME NEW l \in LineRow, NEW q \in Nat
  PROVE  /\ ForQuantity(l, q) \in LineRow
         /\ ForQuantity(l, q).quantity = q /\ ForQuantity(l, q).item = l.item
<1> DEFINE m == [l EXCEPT !.quantity = q,
                     !.discountAmount = Scaled(@, l.discountPercent, l, q),
                     !.taxAmount = Scaled(@, l.taxPercent, l, q)]
<1>1. /\ Scaled(l.discountAmount, l.discountPercent, l, q) \in OrNull(Nat)
      /\ Scaled(l.taxAmount, l.taxPercent, l, q) \in OrNull(Nat)
  <2>1. /\ l.discountAmount \in OrNull(Nat) /\ l.discountPercent \in OrNull(Nat)
        /\ l.taxAmount \in OrNull(Nat) /\ l.taxPercent \in OrNull(Nat)
    BY DEF LineRow
  <2> QED BY <2>1, ScaledType
<1>2. m \in LineRow /\ m.quantity = q /\ m.item = l.item
  BY <1>1 DEF LineRow
<1>3. ForQuantity(l, q) = [m EXCEPT !.lineTotal = AmountOf(m)]
  BY DEF ForQuantity
<1> HIDE DEF m
<1>4. AmountOf(m) \in Int
  BY <1>2, AmountType
<1> QED BY <1>2, <1>3, <1>4 DEF LineRow

\* What is left of a line when q of its units come back (createSaleReturn) is a line.
LEMMA ReducedType ==
  ASSUME NEW l \in LineRow, NEW q \in Nat, q <= l.quantity
  PROVE  Reduced(l, q) \in LineRow
<1>1. l.quantity \in Nat /\ l.lineTotal \in Int /\ l.quantity - q \in Nat
  BY DEF LineRow
<1> DEFINE rest == ForQuantity(l, l.quantity - q)
<1>2. rest \in LineRow /\ ForQuantity(l, q) \in LineRow
  BY <1>1, ForQuantityType
<1>3. AtLeast0(l.lineTotal - ForQuantity(l, q).lineTotal) \in Int
  <2>1. ForQuantity(l, q).lineTotal \in Int
    BY <1>2 DEF LineRow
  <2> QED BY <1>1, <2>1 DEF AtLeast0
<1>4. Reduced(l, q) = IF l.item \in Variants THEN rest
      ELSE [rest EXCEPT !.lineTotal = AtLeast0(l.lineTotal - ForQuantity(l, q).lineTotal)]
  BY DEF Reduced
<1> HIDE DEF rest
<1> QED BY <1>2, <1>3, <1>4 DEF LineRow

\* The totals of a sale's header are integers.
LEMMA HeaderType ==
  ASSUME NEW lines \in Seq(LineRow)
  PROVE  HeaderOf(lines).unitPrice \in Int /\ HeaderOf(lines).lineTotal \in Int
<1> DEFINE D == DOMAIN lines
           f == [i \in D |-> Net(lines[i])]
           g == [i \in D |-> lines[i].lineTotal]
<1>1. IsFiniteSet(D) /\ \A i \in D : lines[i] \in LineRow
  BY FS_Interval
<1>2. \A i \in D : f[i] \in Int /\ g[i] \in Int
  <2> TAKE i \in D
  <2>1. lines[i] \in LineRow
    BY <1>1
  <2>2. Net(lines[i]) \in Int /\ lines[i].lineTotal \in Int
    BY <2>1, AmountType DEF LineRow
  <2> QED BY <2>2
<1>3. HeaderOf(lines).unitPrice = SumOver(f, D) /\ HeaderOf(lines).lineTotal = SumOver(g, D)
  <2>1. TotalOf(LAMBDA i : Net(lines[i]), D) = SumOver(f, D)
    BY <1>1, NetTotal, Zenon
  <2>2. TotalOf(LAMBDA i : lines[i].lineTotal, D) = SumOver(g, D)
    BY <1>1, LineTotals, Zenon
  <2> QED BY <2>1, <2>2, Zenon DEF HeaderOf
<1> HIDE DEF D, f, g
<1> QED BY <1>1, <1>2, <1>3, SumTake

\* The sale with other lines is a sale, and only its lines and totals are others.
LEMMA WithLinesType ==
  ASSUME NEW order \in SaleRow, NEW lines \in Seq(LineRow)
  PROVE  /\ WithLines(order, lines) \in SaleRow
         /\ WithLines(order, lines).lines = lines
         /\ WithLines(order, lines).store = order.store
         /\ WithLines(order, lines).at = order.at
         /\ WithLines(order, lines).status = order.status
         /\ WithLines(order, lines).customer = order.customer
         /\ WithLines(order, lines).cancelledAt = order.cancelledAt
         /\ WithLines(order, lines).returns = order.returns
BY HeaderType DEF WithLines, SaleRow

\* The units of each variant in a line or in the recipe of its package.
LEMMA GoodsType ==
  ASSUME ShopAssumption, NEW l, l.item \in Variants \cup Packages, NEW q \in Nat
  PROVE  Goods(l, q) \in [Variants -> Nat]
<1>1. \A v \in Variants : l.item \in Packages => q * Recipe[l.item][v] \in Nat
  BY TimesNat DEF ShopAssumption
<1> QED BY <1>1 DEF Goods

\* What a function maps a finite set to is finite.
LEMMA FiniteImage ==
  ASSUME NEW S, IsFiniteSet(S), NEW h, NEW T, \A y \in T : \E x \in S : y = h[x]
  PROVE  IsFiniteSet(T)
<1> DEFINE U == {h[x] : x \in S}
           g == [x \in S |-> h[x]]
<1>1. g \in Surjection(S, U)
  BY DEF Surjection
<1>2. T \in SUBSET U
  OBVIOUS
<1> HIDE DEF U, g
<1> QED BY <1>1, <1>2, FS_Surjection, FS_Subset

\* The rows that a request writes.
LEMMA MoveType ==
  ASSUME now \in Nat, NEW type \in {"IN", "OUT", "TRANSFER_IN", "TRANSFER_OUT", "ADJUSTMENT"},
         NEW s \in Stores, NEW v \in Variants, NEW n \in Int, NEW p \in OrNull(Nat), NEW ref \in Nat \X Nat
  PROVE  /\ Move(type, s, v, n, p, ref) \in MovementRow
         /\ Move(type, s, v, n, p, ref).at = now
         /\ Move(type, s, v, n, p, ref).store = s
         /\ Move(type, s, v, n, p, ref).variant = v
         /\ Move(type, s, v, n, p, ref).quantity = n
BY DEF Move, MovementRow

\* A finite set of movements that are made now.
Fresh(moves) == IsFiniteSet(moves) /\ moves \in SUBSET MovementRow /\ \A m \in moves : m.at = now

\* The movements of one line are fresh, of one store, and all in or all out.
LEMMA LineMoves ==
  ASSUME ShopAssumption, now \in Nat, NEW type \in {"IN", "OUT"}, NEW s \in Stores, NEW ref \in Nat \X Nat,
         NEW l \in LineRow, NEW goods \in [Variants -> Int], NEW sign \in {-1, 1}
  PROVE  /\ Fresh(Moves(type, s, ref, l, goods, sign))
         /\ \A m \in Moves(type, s, ref, l, goods, sign) :
              /\ m.store = s /\ m.type = type
              /\ sign = 1 => m.quantity \in Nat
              /\ sign = -1 => -m.quantity \in Nat
<1> DEFINE p == IF l.item \in Packages THEN Null ELSE l.unitPrice
           V == {w \in Variants : goods[w] > 0}
           h == [v \in V |-> Move(type, s, v, sign * goods[v], p, ref)]
           M == Moves(type, s, ref, l, goods, sign)
<1>1. p \in OrNull(Nat)
  BY DEF LineRow, OrNull
<1>2. IsFiniteSet(V)
  BY FS_Subset DEF ShopAssumption
<1>3. M = {h[v] : v \in V}
  BY DEF Moves
<1>4. ASSUME NEW v \in V
      PROVE  /\ h[v] \in MovementRow /\ h[v].at = now /\ h[v].store = s /\ h[v].type = type
             /\ sign = 1 => h[v].quantity \in Nat
             /\ sign = -1 => -h[v].quantity \in Nat
  <2>1. goods[v] \in Nat /\ sign * goods[v] \in Int /\ v \in Variants
    OBVIOUS
  <2>2. sign = 1 => sign * goods[v] \in Nat
    BY <2>1
  <2>3. sign = -1 => -(sign * goods[v]) \in Nat
    BY <2>1
  <2>4. h[v] = Move(type, s, v, sign * goods[v], p, ref)
    OBVIOUS
  <2> HIDE DEF p, h
  <2>5. PICK n \in Int : n = sign * goods[v]
    BY <2>1
  <2>6. h[v] \in MovementRow /\ h[v].at = now /\ h[v].store = s /\ h[v].quantity = n
    <3>1. h[v] = Move(type, s, v, n, p, ref)
      BY <2>4, <2>5, Zenon
    <3> QED BY <1>1, <2>1, <3>1, MoveType
  <2>7. h[v].type = type
    BY <2>4 DEF Move
  <2> QED BY <2>2, <2>3, <2>5, <2>6, <2>7
<1> HIDE DEF h, V
<1> HIDE DEF M
<1>5. \A m \in M : \E v \in V : m = h[v]
  BY <1>3
<1>6. IsFiniteSet(M)
  BY <1>2, <1>5, FiniteImage
<1>7. Fresh(M)
  BY <1>4, <1>5, <1>6 DEF Fresh
<1>8. \A m \in M : m.store = s /\ m.type = type /\ (sign = 1 => m.quantity \in Nat) /\ (sign = -1 => -m.quantity \in Nat)
  BY <1>4, <1>5
<1> QED BY <1>7, <1>8 DEF M

\* SetToSeq puts each element of a finite set at one position.
LEMMA SetInOrder ==
  ASSUME NEW S, IsFiniteSet(S)
  PROVE  /\ Cardinality(S) \in Nat
         /\ SetToSeq(S) \in [1..Cardinality(S) -> S]
         /\ \A i, j \in 1..Cardinality(S) : SetToSeq(S)[i] = SetToSeq(S)[j] => i = j
         /\ \A y \in S : \E i \in 1..Cardinality(S) : SetToSeq(S)[i] = y
<1> DEFINE n == Cardinality(S)
           f == SetToSeq(S)
<1>1. n \in Nat /\ ExistsBijection(1..n, S)
  BY FS_CardinalityType
<1>2. PICK g \in [1..n -> S] : IsInjective(g)
  BY <1>1 DEF ExistsBijection, Bijection, Injection
<1>3. f \in [1..n -> S] /\ IsInjective(f)
  BY <1>2 DEF SetToSeq
<1>4. Cardinality(1..n) = n
  BY <1>1, FS_Interval
<1> HIDE DEF f
<1>5. f \in Surjection(1..n, S)
  BY <1>3, <1>4, FS_Injection DEF Injection
<1> QED BY <1>1, <1>3, <1>5 DEF f, IsInjective, Surjection

-----------------------------------------------------------------------------
(* Stock rows and their movements. *)

\* The quantities of a set of movements, and those of one stock row.
Amounts(moves) == [m \in moves |-> m.quantity]
Rows(moves, s, v) == {m \in moves : m.store = s /\ m.variant = v}

\* Booking movements leaves those of before where they are and adds each new one once.
LEMMA RecordKeeps ==
  ASSUME NEW moves, Fresh(moves), movements \in Seq(MovementRow), Record(moves)
  PROVE  /\ movements' \in Seq(MovementRow)
         /\ Len(movements') = Len(movements) + Cardinality(moves)
         /\ \A k \in DOMAIN movements : k \in DOMAIN movements' /\ movements'[k] = movements[k]
         /\ \A k \in DOMAIN movements' \ DOMAIN movements :
              movements'[k] \in moves /\ movements'[k].at = now
         /\ \A k, j \in DOMAIN movements' \ DOMAIN movements : movements'[k] = movements'[j] => k = j
         /\ \A m \in moves : \E k \in DOMAIN movements' \ DOMAIN movements : movements'[k] = m
<1> DEFINE f == SetToSeq(moves)
           n == Cardinality(moves)
<1>1. /\ n \in Nat /\ f \in [1..n -> moves]
      /\ \A i, j \in 1..n : f[i] = f[j] => i = j
      /\ \A m \in moves : \E i \in 1..n : f[i] = m
  BY SetInOrder DEF Fresh
<1> HIDE DEF f, n
<1>2. f \in Seq(MovementRow) /\ Len(f) = n
  BY <1>1 DEF Fresh
<1>3. movements' = movements \o f
  BY DEF Record, f
<1>4. /\ movements \o f \in Seq(MovementRow) /\ Len(movements \o f) = Len(movements) + n
      /\ \A i \in 1..(Len(movements) + n) : (movements \o f)[i] =
           IF i <= Len(movements) THEN movements[i] ELSE f[i - Len(movements)]
  BY <1>2, ConcatProperties
<1>5. Len(movements) \in Nat /\ DOMAIN movements = 1..Len(movements) /\ DOMAIN movements' = 1..(Len(movements) + n)
  BY <1>1, <1>3, <1>4, LenProperties
<1>6. \A k \in DOMAIN movements : k \in DOMAIN movements' /\ movements'[k] = movements[k]
  BY <1>1, <1>3, <1>4, <1>5
<1>7. ASSUME NEW k \in DOMAIN movements' \ DOMAIN movements
      PROVE  /\ k - Len(movements) \in 1..n /\ k \in Nat
             /\ movements'[k] = f[k - Len(movements)] /\ movements'[k] \in moves
  <2>1. k \in 1..(Len(movements) + n) /\ ~(k <= Len(movements)) /\ k - Len(movements) \in 1..n
    BY <1>1, <1>5
  <2>2. movements'[k] = f[k - Len(movements)]
    BY <1>3, <1>4, <2>1
  <2> QED BY <1>1, <2>1, <2>2
<1>8. ASSUME NEW k \in DOMAIN movements' \ DOMAIN movements, NEW j \in DOMAIN movements' \ DOMAIN movements,
             movements'[k] = movements'[j]
      PROVE  k = j
  <2>1. k - Len(movements) = j - Len(movements)
    BY <1>1, <1>7, <1>8
  <2> QED BY <1>5, <1>7, <2>1
<1>9. ASSUME NEW m \in moves
      PROVE  \E k \in DOMAIN movements' \ DOMAIN movements : movements'[k] = m
  <2>1. PICK i \in 1..n : f[i] = m
    BY <1>1
  <2>2. Len(movements) + i \in DOMAIN movements' \ DOMAIN movements /\ (Len(movements) + i) - Len(movements) = i
    BY <1>1, <1>5
  <2> QED BY <1>7, <2>1, <2>2
<1> QED BY <1>3, <1>4, <1>6, <1>7, <1>8, <1>9 DEF Fresh, n

\* Booking movements changes each stock row by the sum of its movements.
LEMMA RecordStock ==
  ASSUME NEW moves, Fresh(moves), stock \in [Stores -> [Variants -> Int]], Record(moves)
  PROVE  /\ stock' \in [Stores -> [Variants -> Int]]
         /\ \A s \in Stores, v \in Variants :
              /\ SumOver(Amounts(moves), Rows(moves, s, v)) \in Int
              /\ stock'[s][v] = stock[s][v] + SumOver(Amounts(moves), Rows(moves, s, v))
<1>1. ASSUME NEW s \in Stores, NEW v \in Variants
      PROVE  /\ TotalOf(LAMBDA m : m.quantity, {m \in moves : m.store = s /\ m.variant = v})
                  = SumOver(Amounts(moves), Rows(moves, s, v))
             /\ SumOver(Amounts(moves), Rows(moves, s, v)) \in Int
  <2> DEFINE R == Rows(moves, s, v)
             f == Amounts(moves)
             g == [m \in R |-> m.quantity]
  <2>1. IsFiniteSet(R) /\ R \in SUBSET moves
    BY FS_Subset DEF Fresh, Rows
  <2>2. \A m \in R : f[m] \in Int /\ g[m] = f[m]
    BY <2>1 DEF Fresh, MovementRow, Amounts
  <2>3. TotalOf(LAMBDA m : m.quantity, R) = SumOver(g, R)
    BY <2>1, QuantityTotal, Zenon
  <2> HIDE DEF R, f, g
  <2>4. SumOver(f, R) = SumOver(g, R) /\ SumOver(f, R) \in Int
    BY <2>1, <2>2, SumSame, SumTake
  <2> QED BY <2>3, <2>4, Zenon DEF R, f, Rows
<1>2. stock' = [s \in Stores |-> [v \in Variants |-> stock[s][v] + SumOver(Amounts(moves), Rows(moves, s, v))]]
  <2>1. stock' = [s \in Stores |-> [v \in Variants |-> stock[s][v] +
                 TotalOf(LAMBDA m : m.quantity, {m \in moves : m.store = s /\ m.variant = v})]]
    BY Zenon DEF Record
  <2> QED BY <1>1, <2>1, Zenon
<1>3. \A s \in Stores, v \in Variants : SumOver(Amounts(moves), Rows(moves, s, v)) \in Int
  BY <1>1
<1> QED BY <1>2, <1>3

\* Of what is booked: the quantities, the movements of one row, and those up to a day.
Moved == [k \in DOMAIN movements |-> movements[k].quantity]
RowMoves(s, v) ==
  {k \in DOMAIN movements : movements[k].store = s /\ movements[k].variant = v}
UpTo(K, day) == {k \in K : Day(movements[k].at) <= day}

\* There are finitely many booked movements, of integer quantities.
LEMMA MovedType ==
  ASSUME movements \in Seq(MovementRow)
  PROVE  IsFiniteSet(DOMAIN movements) /\ \A k \in DOMAIN movements : Moved[k] \in Int
<1>1. Len(movements) \in Nat /\ DOMAIN movements = 1..Len(movements) /\ \A k \in DOMAIN movements : movements[k] \in MovementRow
  BY ElementOfSeq
<1> QED BY <1>1, FS_Interval DEF Moved, MovementRow

\* The inductive invariant about stock: every row holds the sum of all its movements, today
\* (Ledger) and at the end of each day that has passed (Past).
Ledger == \A s \in Stores, v \in Variants : stock[s][v] = SumOver(Moved, RowMoves(s, v))
Past ==
  \A c \in DOMAIN closing : \A day \in {closing[c].first, closing[c].last} :
    \A s \in Stores, v \in Variants :
      closing[c].stock[s][v] = SumOver(Moved, UpTo(RowMoves(s, v), day))

\* The sum over a set that has grown by what h maps to R.
LEMMA SumGrows ==
  ASSUME NEW D, IsFiniteSet(D), NEW g, \A k \in D : g[k] \in Int,
         NEW K \in SUBSET D, NEW N \in SUBSET D, K \cap N = {}, NEW L, L = K \cup N,
         NEW f, \A k \in K : g[k] = f[k],
         NEW R, NEW h \in [N -> R], \A k, j \in N : h[k] = h[j] => k = j, \A m \in R : \E k \in N : h[k] = m,
         NEW a, \A m \in R : a[m] \in Int, \A k \in N : g[k] = a[h[k]]
  PROVE  SumOver(g, L) = SumOver(f, K) + SumOver(a, R)
<1>1. IsFiniteSet(N) /\ IsFiniteSet(K)
  BY FS_Subset
<1>2. SumOver(g, N) = SumOver(a, R)
  BY <1>1, SumMap
<1>3. SumOver(g, K) = SumOver(f, K)
  BY <1>1, SumSame
<1>4. SumOver(g, K \cup N) = SumOver(g, K) + SumOver(g, N)
  BY SumUnion
<1> QED BY <1>2, <1>3, <1>4

\* A row and its movements change together (createMovement, applyMovementToStockSummary).
LEMMA RecordLedger ==
  ASSUME NEW moves, Fresh(moves), movements \in Seq(MovementRow),
         stock \in [Stores -> [Variants -> Int]], Record(moves), Ledger
  PROVE  Ledger'
<1> SUFFICES ASSUME NEW s \in Stores, NEW v \in Variants
             PROVE  stock'[s][v] = SumOver(Moved', RowMoves(s, v)')
  BY DEF Ledger
<1> DEFINE K == RowMoves(s, v)
           L == RowMoves(s, v)'
           D == DOMAIN movements'
           N == {k \in D \ DOMAIN movements : movements'[k].store = s /\ movements'[k].variant = v}
           R == Rows(moves, s, v)
           h == [k \in N |-> movements'[k]]
           f == Moved
           g == Moved'
           a == Amounts(moves)
<1>1. /\ movements' \in Seq(MovementRow)
      /\ \A k \in DOMAIN movements : k \in D /\ movements'[k] = movements[k]
      /\ \A k \in D \ DOMAIN movements : movements'[k] \in moves
      /\ \A k, j \in D \ DOMAIN movements : movements'[k] = movements'[j] => k = j
      /\ \A m \in moves : \E k \in D \ DOMAIN movements : movements'[k] = m
  BY RecordKeeps
<1>2. IsFiniteSet(DOMAIN movements) /\ \A k \in DOMAIN movements : f[k] \in Int
  BY MovedType
<1>3. IsFiniteSet(D) /\ \A k \in D : g[k] \in Int /\ g[k] = movements'[k].quantity
  <2>1. Len(movements') \in Nat /\ D = 1..Len(movements') /\ \A k \in D : movements'[k] \in MovementRow
    BY <1>1, ElementOfSeq
  <2> QED BY <2>1, FS_Interval DEF Moved, MovementRow
<1>4. K \in SUBSET D /\ K \in SUBSET DOMAIN movements /\ N \in SUBSET D /\ K \cap N = {} /\ L = K \cup N
  BY <1>1 DEF RowMoves
<1>5. \A k \in K : g[k] = f[k]
  BY <1>1, <1>3 DEF RowMoves, Moved
<1>6. /\ h \in [N -> R] /\ \A k, j \in N : h[k] = h[j] => k = j
      /\ \A m \in R : \E k \in N : h[k] = m
  BY <1>1 DEF Rows
<1>7. \A m \in R : a[m] \in Int /\ a[m] = m.quantity
  BY DEF Rows, Amounts, Fresh, MovementRow
<1>8. \A k \in N : g[k] = a[h[k]]
  BY <1>3, <1>6, <1>7
<1> HIDE DEF K, L, D, N, R, h, f, g, a
<1>9. SumOver(g, L) = SumOver(f, K) + SumOver(a, R)
  BY ONLY <1>3, <1>4, <1>5, <1>6, <1>7, <1>8, SumGrows
<1>10. stock'[s][v] = stock[s][v] + SumOver(a, R)
  BY RecordStock DEF a, R
<1>11. stock[s][v] = SumOver(f, K)
  BY DEF Ledger, f, K
<1> QED BY <1>9, <1>10, <1>11, Zenon DEF g, L

\* What is booked today is of no past day.
LEMMA RecordPast ==
  ASSUME NEW moves, Fresh(moves), movements \in Seq(MovementRow), Record(moves),
         UNCHANGED closing, \A c \in DOMAIN closing :
           closing[c].first \in Nat /\ closing[c].last \in Nat /\ closing[c].first <= closing[c].last /\ closing[c].last < Day(now),
         now \in Nat, Past
  PROVE  Past'
<1> SUFFICES ASSUME NEW c \in DOMAIN closing, NEW day \in {closing[c].first, closing[c].last},
                    NEW s \in Stores, NEW v \in Variants
             PROVE  closing[c].stock[s][v] = SumOver(Moved', UpTo(RowMoves(s, v), day)')
  BY DEF Past
<1> DEFINE K == UpTo(RowMoves(s, v), day)
           f == Moved
           g == Moved'
<1>1. /\ movements' \in Seq(MovementRow)
      /\ \A k \in DOMAIN movements : k \in DOMAIN movements' /\ movements'[k] = movements[k]
      /\ \A k \in DOMAIN movements' \ DOMAIN movements : movements'[k].at = now
  BY RecordKeeps
<1>2. ~(Day(now) <= day)
  BY DEF Day
<1>3. UpTo(RowMoves(s, v), day)' = K
  BY <1>1, <1>2 DEF UpTo, RowMoves
<1>4. IsFiniteSet(DOMAIN movements) /\ \A k \in DOMAIN movements : f[k] \in Int
  BY MovedType
<1>5. K \in SUBSET DOMAIN movements /\ \A k \in K : g[k] = f[k]
  BY <1>1 DEF UpTo, RowMoves, Moved
<1> HIDE DEF K, f, g
<1>6. IsFiniteSet(K) /\ \A k \in K : f[k] \in Int
  BY <1>4, <1>5, FS_Subset
<1>7. SumOver(g, K) = SumOver(f, K)
  BY <1>5, <1>6, SumSame
<1>8. closing[c].stock[s][v] = SumOver(f, K)
  BY DEF Past, f, K
<1> QED BY <1>3, <1>7, <1>8, Zenon DEF g

-----------------------------------------------------------------------------
(* What each request books, and the types it keeps. *)

\* The movements of all the lines of a request.
LEMMA FreshUnion ==
  ASSUME NEW D, IsFiniteSet(D), NEW h, \A j \in D : Fresh(h[j]),
         NEW T, \A m : m \in T <=> \E j \in D : m \in h[j]
  PROVE  Fresh(T)
<1> DEFINE U == {h[j] : j \in D}
<1>1. \A y \in U : \E j \in D : y = h[j]
  OBVIOUS
<1>2. T = UNION U
  OBVIOUS
<1> HIDE DEF U
<1>3. IsFiniteSet(U)
  BY <1>1, FiniteImage
<1>4. \A y \in U : IsFiniteSet(y)
  BY <1>1 DEF Fresh
<1>5. IsFiniteSet(T)
  BY <1>2, <1>3, <1>4, FS_UNION
<1> QED BY <1>1, <1>2, <1>5 DEF Fresh

\* One movement.
LEMMA OneFresh ==
  ASSUME NEW m \in MovementRow, m.at = now
  PROVE  Fresh({m})
BY FS_Singleton DEF Fresh

\* What keeps the rows from becoming negative is for each request to show: it books no more than
\* there is ...
LEMMA RecordNat ==
  ASSUME NEW moves, Fresh(moves), stock \in [Stores -> [Variants -> Nat]], Record(moves),
         \A s \in Stores, v \in Variants : stock[s][v] + SumOver(Amounts(moves), Rows(moves, s, v)) >= 0
  PROVE  stock' \in [Stores -> [Variants -> Nat]]
<1>1. stock \in [Stores -> [Variants -> Int]]
  OBVIOUS
<1>2. \A s \in Stores, v \in Variants : stock'[s][v] \in Int /\ stock'[s][v] >= 0
  BY <1>1, RecordStock
<1>3. stock' \in [Stores -> [Variants -> Int]]
  BY <1>1, RecordStock
<1> QED BY <1>2, <1>3

\* ... or only what comes in ...
LEMMA RecordIn ==
  ASSUME NEW moves, Fresh(moves), stock \in [Stores -> [Variants -> Nat]], Record(moves),
         \A m \in moves : m.quantity \in Nat
  PROVE  stock' \in [Stores -> [Variants -> Nat]]
<1>1. ASSUME NEW s \in Stores, NEW v \in Variants
      PROVE  stock[s][v] + SumOver(Amounts(moves), Rows(moves, s, v)) >= 0
  <2> DEFINE R == Rows(moves, s, v)
             a == Amounts(moves)
  <2>1. IsFiniteSet(R) /\ \A m \in R : a[m] \in Nat
    BY FS_Subset DEF Fresh, Rows, Amounts
  <2> HIDE DEF R, a
  <2>2. SumOver(a, R) \in Nat
    BY <2>1, SumNat
  <2> QED BY <2>2 DEF R, a
<1> QED BY <1>1, RecordNat

\* ... or one movement that the row allows.
LEMMA RecordOne ==
  ASSUME NEW m \in MovementRow, m.at = now, stock \in [Stores -> [Variants -> Nat]], Record({m}),
         stock[m.store][m.variant] + m.quantity >= 0
  PROVE  stock' \in [Stores -> [Variants -> Nat]]
<1>1. ASSUME NEW s \in Stores, NEW v \in Variants
      PROVE  stock[s][v] + SumOver(Amounts({m}), Rows({m}, s, v)) >= 0
  <2> DEFINE a == Amounts({m})
  <2>1. a[m] = m.quantity /\ m.quantity \in Int
    BY DEF Amounts, MovementRow
  <2>2. CASE m.store = s /\ m.variant = v
    <3>1. Rows({m}, s, v) = {m} /\ IsFiniteSet({m}) /\ {m} \ {m} = {}
      BY <2>2, FS_Singleton DEF Rows
    <3>2. SumOver(a, {m}) = a[m] + SumOver(a, {m} \ {m})
      <4> HIDE DEF a
      <4> QED BY <2>1, <3>1, SumTake
    <3>3. SumOver(a, {m} \ {m}) = 0
      BY <3>1, SumEmpty
    <3>4. SumOver(a, Rows({m}, s, v)) = m.quantity
      <4> HIDE DEF a
      <4>1. SumOver(a, Rows({m}, s, v)) = SumOver(a, {m})
        BY <3>1, Zenon
      <4> QED BY <2>1, <3>2, <3>3, <4>1
    <3> HIDE DEF a
    <3> QED BY <2>1, <2>2, <3>4 DEF a
  <2>3. CASE ~(m.store = s /\ m.variant = v)
    <3>1. Rows({m}, s, v) = {}
      BY <2>3 DEF Rows
    <3>2. SumOver(a, {}) = 0
      BY SumEmpty
    <3>3. SumOver(a, Rows({m}, s, v)) = 0
      BY <3>1, <3>2, Zenon
    <3> HIDE DEF a
    <3> QED BY <3>3 DEF a
  <2> QED BY <2>2, <2>3
<1> QED BY <1>1, OneFresh, RecordNat

\* A sale, its cancellation and its returns are of times that have come, and its returns are of
\* its lines.
SaleFits(order, t) ==
  /\ order.at <= t
  /\ IF order.status = "CANCELLED" THEN order.cancelledAt \in order.at..t
     ELSE order.cancelledAt = NotCancelled
  /\ \A k \in DOMAIN order.returns :
       order.returns[k].at \in order.at..t /\ order.returns[k].line \in DOMAIN order.lines
\* What Pass keeps of the days that a step of the clock closes.
ClosedDays == [first : Nat, last : Nat, stock : [Stores -> [Variants -> Nat]]]
\* The types that every step keeps; prices and totals may be any integers.
ShopTypes ==
  /\ now \in Moments \cup {0}
  /\ stock \in [Stores -> [Variants -> Nat]]
  /\ linked \in [Stores -> [Variants -> BOOLEAN]]
  /\ sales \in Seq(SaleRow) /\ \A i \in DOMAIN sales : SaleFits(sales[i], now)
  /\ movements \in Seq(MovementRow) /\ \A k \in DOMAIN movements : movements[k].at <= now
  /\ \A k \in DOMAIN balances : k[1] \in Stores /\ k[2] \in Variants /\ balances[k] \in Nat
  /\ closing \in Seq(ClosedDays)
  /\ \A c \in DOMAIN closing : closing[c].first <= closing[c].last /\ closing[c].last < Day(now)

\* The clock shows a natural number of hours.
LEMMA NowType ==
  ASSUME ShopAssumption, now \in Moments \cup {0}
  PROVE  now \in Nat /\ Day(now) \in Nat
BY DEF ShopAssumption, Day

\* Booked movements are of times that have come.
LEMMA RecordTypes ==
  ASSUME NEW moves, Fresh(moves), Record(moves), now \in Nat,
         movements \in Seq(MovementRow), \A k \in DOMAIN movements : movements[k].at <= now
  PROVE  movements' \in Seq(MovementRow) /\ \A k \in DOMAIN movements' : movements'[k].at <= now
BY RecordKeeps

\* The clock keeps the types.
LEMMA PassTypes ==
  ASSUME ShopAssumption, ShopTypes, NEW hour \in Moments, Pass(hour)
  PROVE  ShopTypes'
<1>1. hour \in Nat /\ now \in Nat /\ hour > now /\ now' = hour
  BY NowType DEF ShopTypes, ShopAssumption, Pass
<1>2. \A i \in DOMAIN sales : SaleFits(sales[i], hour)
  <2> TAKE i \in DOMAIN sales
  <2>1. SaleFits(sales[i], now) /\ sales[i] \in SaleRow
    BY DEF ShopTypes
  <2>2. sales[i].at \in Nat /\ sales[i].cancelledAt \in Int /\ sales[i].returns \in Seq(ReturnRow)
    BY <2>1 DEF SaleRow
  <2>3. \A k \in DOMAIN sales[i].returns : sales[i].returns[k].at \in Nat
    <3>1. \A k \in DOMAIN sales[i].returns : sales[i].returns[k] \in ReturnRow
      BY <2>2
    <3> QED BY <3>1 DEF ReturnRow
  <2> QED BY <1>1, <2>1, <2>2, <2>3 DEF SaleFits
<1>3. \A k \in DOMAIN movements : movements[k].at <= hour
  <2> TAKE k \in DOMAIN movements
  <2>1. movements[k].at \in Nat /\ movements[k].at <= now
    <3>1. movements[k] \in MovementRow
      BY DEF ShopTypes
    <3> QED BY <3>1 DEF ShopTypes, MovementRow
  <2> QED BY <1>1, <2>1
<1>4. Day(now) \in Nat /\ Day(hour) \in Nat /\ Day(now) <= Day(hour)
  BY <1>1 DEF Day
<1> DEFINE c0 == [first |-> Day(now), last |-> Day(hour) - 1, stock |-> stock]
<1>5. Day(hour) # Day(now) => c0 \in ClosedDays
  BY <1>4 DEF ClosedDays, ShopTypes
<1>6. /\ closing' \in Seq(ClosedDays)
      /\ \A c \in DOMAIN closing' : closing'[c].first <= closing'[c].last /\ closing'[c].last < Day(hour)
  <2>0. \A c \in DOMAIN closing : closing[c] \in ClosedDays
    BY DEF ShopTypes
  <2>1. CASE Day(hour) = Day(now)
    BY <2>1 DEF ShopTypes, Pass
  <2>2. CASE Day(hour) # Day(now)
    <3>1. closing' = Append(closing, c0)
      BY <2>2 DEF Pass
    <3>2. c0.first <= c0.last /\ c0.last < Day(hour) /\ c0 \in ClosedDays
      <4>1. c0.first = Day(now) /\ c0.last = Day(hour) - 1 /\ c0 \in ClosedDays
        BY <1>5, <2>2
      <4> HIDE DEF c0
      <4> QED BY <1>4, <2>2, <4>1
    <3> HIDE DEF c0
    <3>3. \A c \in DOMAIN closing : closing[c].first <= closing[c].last /\ closing[c].last < Day(hour)
      BY <1>4, <2>0 DEF ShopTypes, ClosedDays
    <3> QED BY <3>1, <3>2, <3>3 DEF ShopTypes
  <2> QED BY <2>1, <2>2
<1> QED BY <1>1, <1>2, <1>3, <1>6 DEF ShopTypes, Pass

\* What a request does to the stock: it books a finite set of movements.
Recorded == UNCHANGED <<now, closing>> /\ \E moves : Fresh(moves) /\ Record(moves)

\* It is enough for a request to say what it books and to keep the types of the rest.
LEMMA KeepsTypes ==
  ASSUME ShopTypes, ShopAssumption, NEW moves, Fresh(moves), Record(moves), UNCHANGED <<now, closing>>,
         stock' \in [Stores -> [Variants -> Nat]],
         linked' \in [Stores -> [Variants -> BOOLEAN]],
         sales' \in Seq(SaleRow), \A i \in DOMAIN sales' : SaleFits(sales'[i], now),
         \A k \in DOMAIN balances' : k[1] \in Stores /\ k[2] \in Variants /\ balances'[k] \in Nat
  PROVE  ShopTypes' /\ Recorded
<1>1. movements' \in Seq(MovementRow) /\ \A k \in DOMAIN movements' : movements'[k].at <= now
  BY RecordTypes, NowType DEF ShopTypes
<1>2. ShopTypes'
  BY <1>1 DEF ShopTypes
<1> QED BY <1>2 DEF Recorded

\* A stock action opens variants in its store.
LEMMA OpenedType ==
  ASSUME ShopTypes, NEW s \in Stores, NEW moved
  PROVE  Opened(s, moved) \in [Stores -> [Variants -> BOOLEAN]]
BY DEF ShopTypes, Opened

\* receiveStock books what comes in; a balance of a lot and location grows with it.
LEMMA ReceiveTypes ==
  ASSUME ShopAssumption, ShopTypes, NEW d \in Deliveries, ReceiveGoods(d)
  PROVE  ShopTypes' /\ Recorded
<1>1. /\ d.store \in Stores /\ IsFiniteSet(d.lines)
      /\ \A l \in d.lines : /\ l.variant \in Variants /\ l.quantity \in Nat /\ l.unitPrice \in OrNull(Nat)
                            /\ l.lot \in Lots \cup {None} /\ l.location \in Locations \cup {None}
  BY DEF ShopAssumption, Delivery, OrNull
<1> DEFINE h == [l \in d.lines |-> [Move("IN", d.store, l.variant, l.quantity, l.unitPrice, NoRef)
                                      EXCEPT !.lot = l.lot, !.location = l.location]]
           moves == {h[l] : l \in d.lines}
           tracked == {l \in d.lines : Tracked(l)}
<1>2. now \in Nat
  BY NowType DEF ShopTypes
<1>3. ASSUME NEW l \in d.lines
      PROVE  h[l] \in MovementRow /\ h[l].at = now /\ h[l].quantity \in Nat
  <2> DEFINE m == Move("IN", d.store, l.variant, l.quantity, l.unitPrice, NoRef)
  <2>1. m \in MovementRow /\ m.at = now /\ m.quantity = l.quantity
    <3>1. NoRef \in Nat \X Nat
      BY DEF NoRef
    <3> QED BY <1>1, <1>2, <3>1, MoveType
  <2>2. h[l] = [m EXCEPT !.lot = l.lot, !.location = l.location]
    OBVIOUS
  <2> HIDE DEF m, h
  <2> QED BY <1>1, <2>1, <2>2 DEF MovementRow
<1>4. Record(moves)
  <2>1. moves = {[Move("IN", d.store, l.variant, l.quantity, l.unitPrice, NoRef)
                        EXCEPT !.lot = l.lot, !.location = l.location] : l \in d.lines}
    OBVIOUS
  <2> HIDE DEF moves
  <2> QED BY <2>1, Zenon DEF ReceiveGoods
<1>5. \A m \in moves : \E l \in d.lines : m = h[l]
  OBVIOUS
<1> HIDE DEF h, moves
<1>6. Fresh(moves)
  <2>1. IsFiniteSet(moves)
    BY <1>1, <1>5, FiniteImage
  <2> QED BY <1>3, <1>5, <2>1 DEF Fresh
<1>7. stock' \in [Stores -> [Variants -> Nat]]
  BY <1>3, <1>4, <1>5, <1>6, RecordIn DEF ShopTypes
<1>8. PICK row \in [tracked -> UNION {BalanceRows(d.store, l) : l \in tracked}] :
        /\ \A l \in tracked : row[l] \in BalanceRows(d.store, l)
        /\ balances' = [k \in DOMAIN balances \cup {row[l] : l \in tracked} |->
                          IF \E l \in tracked : row[l] = k
                          THEN BalanceAfter({l \in tracked : row[l] = k}, k) ELSE balances[k]]
  BY Zenon DEF ReceiveGoods
<1>9. ASSUME NEW k \in DOMAIN balances'
      PROVE  k[1] \in Stores /\ k[2] \in Variants /\ balances'[k] \in Nat
  <2> DEFINE L == {l \in tracked : row[l] = k}
  <2>1. IsFiniteSet(L) /\ \A l \in L : l.quantity \in Nat
    BY <1>1, FS_Subset
  <2>2. TotalOf(LAMBDA l : l.quantity, L) \in Nat
    <3> DEFINE f == [l \in L |-> l.quantity]
    <3>1. \A l \in L : f[l] \in Nat
      BY <2>1
    <3> HIDE DEF L
    <3>2. TotalOf(LAMBDA l : l.quantity, L) = SumOver(f, L)
      BY <2>1, QuantityTotal, Zenon
    <3> HIDE DEF f
    <3>3. SumOver(f, L) \in Nat
      BY <2>1, <3>1, SumNat
    <3> QED BY <3>2, <3>3, Zenon
  <2>3. k \in DOMAIN balances => k[1] \in Stores /\ k[2] \in Variants /\ balances[k] \in Nat
    BY DEF ShopTypes
  <2>4. CASE \E l \in tracked : row[l] = k
    <3>1. BalanceAfter(L, k) \in Nat
      <4> DEFINE n == TotalOf(LAMBDA l : l.quantity, L)
      <4>1. BalanceAfter(L, k) = (IF k \in DOMAIN balances THEN balances[k] ELSE 0) + n
        BY Zenon DEF BalanceAfter
      <4>2. n \in Nat
        BY <2>2, Zenon
      <4> HIDE DEF n
      <4> QED BY <2>3, <4>1, <4>2
    <3>2. balances'[k] = BalanceAfter(L, k)
      BY <1>8, <2>4, Zenon
    <3>3. PICK l \in tracked : row[l] = k /\ k \in BalanceRows(d.store, l)
      BY <1>8, <2>4, Zenon
    <3>4. l.variant \in Variants
      BY <1>1
    <3>5. k[1] \in Stores /\ k[2] \in Variants
      <4> DEFINE found == {b \in DOMAIN balances : /\ b[1] = d.store /\ b[2] = l.variant
                             /\ l.lot \in {None, b[3]} /\ l.location \in {None, b[4]}}
      <4>1. BalanceRows(d.store, l) = IF found = {} THEN {<<d.store, l.variant, l.lot, l.location>>} ELSE found
        BY Zenon DEF BalanceRows
      <4>2. k = <<d.store, l.variant, l.lot, l.location>> \/ k \in found
        BY <3>3, <4>1
      <4> QED BY <1>1, <3>4, <4>2
    <3> QED BY <3>1, <3>2, <3>5
  <2>5. CASE ~\E l \in tracked : row[l] = k
    <3>1. k \in DOMAIN balances /\ balances'[k] = balances[k]
      BY <1>8, <2>5
    <3> QED BY <2>3, <3>1
  <2> QED BY <2>4, <2>5
<1>10. linked' \in [Stores -> [Variants -> BOOLEAN]]
  <2>1. PICK V : linked' = Opened(d.store, V)
    BY DEF ReceiveGoods
  <2> QED BY <1>1, <2>1, OpenedType
<1>11. UNCHANGED <<now, sales, closing>>
  BY DEF ReceiveGoods
<1>12. sales' \in Seq(SaleRow) /\ \A i \in DOMAIN sales' : SaleFits(sales'[i], now)
  BY <1>11 DEF ShopTypes
<1> QED BY <1>4, <1>6, <1>7, <1>9, <1>10, <1>11, <1>12, KeepsTypes

\* adjustStock leaves no row below zero.
LEMMA AdjustTypes ==
  ASSUME ShopAssumption, ShopTypes, NEW s \in Stores, NEW v \in Variants, NEW diff \in Int, Adjust(s, v, diff)
  PROVE  ShopTypes' /\ Recorded
<1> DEFINE m == Move("ADJUSTMENT", s, v, diff, Null, NoRef)
<1>1. now \in Nat
  BY NowType DEF ShopTypes
<1>2. m \in MovementRow /\ m.at = now /\ m.store = s /\ m.variant = v /\ m.quantity = diff
  <2>1. NoRef \in Nat \X Nat /\ Null \in OrNull(Nat)
    BY DEF NoRef, OrNull
  <2> QED BY <1>1, <2>1, MoveType
<1>3. /\ Record({m}) /\ stock[s][v] + diff >= 0 /\ linked' = Opened(s, {v})
      /\ UNCHANGED <<now, sales, balances, closing>>
  BY DEF Adjust
<1> HIDE DEF m
<1>4. Fresh({m})
  BY <1>2, OneFresh
<1>5. stock' \in [Stores -> [Variants -> Nat]]
  BY <1>2, <1>3, RecordOne DEF ShopTypes
<1>6. linked' \in [Stores -> [Variants -> BOOLEAN]]
  BY <1>3, OpenedType
<1>7. /\ sales' \in Seq(SaleRow) /\ \A i \in DOMAIN sales' : SaleFits(sales'[i], now)
      /\ \A k \in DOMAIN balances' : k[1] \in Stores /\ k[2] \in Variants /\ balances'[k] \in Nat
  BY <1>3 DEF ShopTypes
<1> QED BY <1>3, <1>4, <1>5, <1>6, <1>7, KeepsTypes

\* transferStock takes from a store what it has and gives it to the other.
LEMMA TransferTypes ==
  ASSUME ShopAssumption, ShopTypes, NEW from \in Stores, NEW to \in Stores, NEW v \in Variants, Transfer(from, to, v)
  PROVE  ShopTypes' /\ Recorded
<1> DEFINE out == Move("TRANSFER_OUT", from, v, -1, Null, NoRef)
           back == Move("TRANSFER_IN", to, v, 1, Null, NoRef)
           moves == {out, back}
<1>1. now \in Nat /\ NoRef \in Nat \X Nat /\ Null \in OrNull(Nat)
  BY NowType DEF ShopTypes, NoRef, OrNull
<1>2. out \in MovementRow /\ out.at = now /\ out.store = from /\ out.variant = v /\ out.quantity = -1
  BY <1>1, MoveType
<1>3. back \in MovementRow /\ back.at = now /\ back.store = to /\ back.variant = v /\ back.quantity = 1
  BY <1>1, MoveType
<1>4. Record({out, back}) /\ stock[from][v] >= 1 /\ UNCHANGED <<now, sales, balances, linked, closing>>
  BY DEF Transfer
<1> HIDE DEF out, back
<1>5. Fresh(moves) /\ Record(moves)
  <2>1. IsFiniteSet({out} \cup {back}) /\ {out} \cup {back} = moves
    BY FS_Singleton, FS_Union
  <2>2. IsFiniteSet(moves)
    BY <2>1, Zenon
  <2> QED BY <1>2, <1>3, <1>4, <2>2 DEF Fresh
<1>6. ASSUME NEW s \in Stores, NEW w \in Variants
      PROVE  stock[s][w] + SumOver(Amounts(moves), Rows(moves, s, w)) >= 0
  <2> DEFINE a == Amounts(moves)
             R == Rows(moves, s, w)
  <2>1. IsFiniteSet(R) /\ R \in SUBSET moves
    BY <1>5, FS_Subset DEF Rows, Fresh
  <2>2. a[out] = -1 /\ a[back] = 1
    BY <1>2, <1>3 DEF Amounts
  <2>3. (out \in R => from = s /\ v = w) /\ \A m \in R : m # out => m = back
    BY <1>2, <2>1 DEF Rows
  <2> HIDE DEF a, R
  <2>4. stock[s][w] \in Nat
    BY DEF ShopTypes
  <2>5. CASE out \in R
    <3>1. SumOver(a, R) = a[out] + SumOver(a, R \ {out})
      <4>1. \A m \in R : a[m] \in Int
        BY <2>2, <2>3
      <4> QED BY <2>1, <2>5, <4>1, SumTake
    <3>2. SumOver(a, R \ {out}) \in Nat
      <4>1. IsFiniteSet(R \ {out}) /\ \A m \in R \ {out} : a[m] \in Nat
        BY <2>1, <2>2, <2>3, FS_Subset
      <4> QED BY <4>1, SumNat
    <3> QED BY <1>4, <2>2, <2>3, <2>4, <2>5, <3>1, <3>2 DEF a, R
  <2>6. CASE out \notin R
    <3>1. \A m \in R : a[m] \in Nat
      BY <2>2, <2>3, <2>6
    <3>2. SumOver(a, R) \in Nat
      BY <2>1, <3>1, SumNat
    <3> QED BY <2>4, <3>2 DEF a, R
  <2> QED BY <2>5, <2>6
<1>7. stock' \in [Stores -> [Variants -> Nat]]
  BY <1>5, <1>6, RecordNat DEF ShopTypes
<1>8. /\ sales' \in Seq(SaleRow) /\ \A i \in DOMAIN sales' : SaleFits(sales'[i], now)
      /\ \A k \in DOMAIN balances' : k[1] \in Stores /\ k[2] \in Variants /\ balances'[k] \in Nat
      /\ linked' \in [Stores -> [Variants -> BOOLEAN]]
  BY <1>4 DEF ShopTypes
<1> HIDE DEF moves
<1> QED BY <1>4, <1>5, <1>7, <1>8, KeepsTypes

\* Closing or opening a variant in a store books nothing.
LEMMA SwitchTypes ==
  ASSUME ShopTypes, NEW s \in Stores, NEW v \in Variants, SwitchLink(s, v)
  PROVE  ShopTypes'
<1>1. linked' \in [Stores -> [Variants -> BOOLEAN]]
  BY DEF ShopTypes, SwitchLink
<1> QED BY <1>1 DEF ShopTypes, SwitchLink

\* A total and the total of what has the other sign.
LEMMA SumNegated ==
  ASSUME NEW S, IsFiniteSet(S), NEW f, NEW g, \A x \in S : f[x] \in Int /\ g[x] = -f[x]
  PROVE  SumOver(f, S) \in Int /\ SumOver(g, S) = -SumOver(f, S)
<1> DEFINE h == [x \in S |-> 0]
<1>1. SumOver(h, S) = SumOver(f, S) + SumOver(g, S)
  <2>1. \A x \in S : f[x] \in Int /\ g[x] \in Int /\ h[x] = f[x] + g[x]
    OBVIOUS
  <2> HIDE DEF h
  <2> QED BY <2>1, SumPlus
<1>2. SumOver(h, S) = 0
  <2>1. \A x \in S : h[x] \in Int
    OBVIOUS
  <2>2. \A x \in S \ {} : h[x] = 0
    OBVIOUS
  <2>3. {} \in SUBSET S
    OBVIOUS
  <2> HIDE DEF h
  <2>4. SumOver(h, S) = SumOver(h, {})
    BY <2>1, <2>2, <2>3, SumWithout
  <2> QED BY <2>4, SumEmpty
<1>3. SumOver(f, S) \in Int
  BY SumTake
<1>4. SumOver(g, S) \in Int
  <2>1. \A x \in S : g[x] \in Int
    OBVIOUS
  <2> QED BY <2>1, SumTake
<1> HIDE DEF h
<1> QED BY <1>1, <1>2, <1>3, <1>4

\* A function on 1..n is a sequence.
LEMMA IsSeq ==
  ASSUME NEW n \in Nat, NEW S, NEW f \in [1..n -> S]
  PROVE  f \in Seq(S) /\ Len(f) = n /\ DOMAIN f = 1..n /\ IsFiniteSet(DOMAIN f)
BY FS_Interval

\* createSale books the units of every line, of a package those of its parts, and refuses when a
\* row has less.
LEMMA SellTypes ==
  ASSUME ShopAssumption, ShopTypes, NEW b \in Baskets, Sell(b)
  PROVE  ShopTypes' /\ Recorded
<1> DEFINE lines == [j \in DOMAIN b.lines |-> ForQuantity(b.lines[j], b.lines[j].quantity)]
           h == [j \in DOMAIN lines |-> Moves("OUT", b.store, <<Len(sales) + 1, j>>, lines[j], Goods(lines[j], lines[j].quantity), -1)]
           moves == UNION {h[j] : j \in DOMAIN lines}
           order  == [store |-> b.store, customer |-> b.customer, by |-> b.by, at |-> now,
                status |-> "CONFIRMED", cancelledAt |-> NotCancelled, lines |-> <<>>,
                returns |-> <<>>, unitPrice |-> 0, lineTotal |-> 0]
<1>1. now \in Nat
  BY NowType DEF ShopTypes
<1>2. /\ b.store \in Stores /\ b.customer \in Customers \cup {NoCustomer} /\ b.by \in Employees
      /\ b.lines \in Seq(LineRow)
  BY DEF ShopAssumption, Basket
<1>3. lines \in Seq(LineRow) /\ IsFiniteSet(DOMAIN lines) /\ \A j \in DOMAIN lines : lines[j] \in LineRow /\ j \in Nat
  <2>1. \A j \in DOMAIN b.lines : b.lines[j] \in LineRow
    BY <1>2
  <2>2. \A j \in DOMAIN b.lines : ForQuantity(b.lines[j], b.lines[j].quantity) \in LineRow
    <3> TAKE j \in DOMAIN b.lines
    <3>1. b.lines[j].quantity \in Nat
      BY <2>1 DEF LineRow
    <3> QED BY <2>1, <3>1, ForQuantityType
  <2>3. DOMAIN b.lines = 1..Len(b.lines) /\ Len(b.lines) \in Nat
    BY <1>2
  <2>4. lines \in [1..Len(b.lines) -> LineRow]
    BY <2>2, <2>3
  <2> HIDE DEF lines
  <2>5. lines \in Seq(LineRow) /\ DOMAIN lines = 1..Len(b.lines) /\ IsFiniteSet(DOMAIN lines)
    BY <2>3, <2>4, IsSeq
  <2> QED BY <2>4, <2>5
<1> HIDE DEF lines
<1>4. Record(moves) /\ sales' = Append(sales, WithLines(order, lines)) /\ UNCHANGED <<now, balances, linked, closing>>
  <2>1. moves = UNION {Moves("OUT", b.store, <<Len(sales) + 1, j>>, lines[j], Goods(lines[j], lines[j].quantity), -1)
                        : j \in DOMAIN lines}
    OBVIOUS
  <2> HIDE DEF moves
  <2> QED BY <2>1, Zenon DEF Sell, lines
<1>5. \A v \in Variants :
           TotalOf(LAMBDA m : -m.quantity, {m \in moves : m.variant = v}) <= stock[b.store][v]
  <2>1. moves = UNION {Moves("OUT", b.store, <<Len(sales) + 1, j>>, lines[j], Goods(lines[j], lines[j].quantity), -1)
                        : j \in DOMAIN lines}
    OBVIOUS
  <2> HIDE DEF moves
  <2> QED BY <2>1, Zenon DEF Sell, lines
<1>6. ASSUME NEW j \in DOMAIN lines
      PROVE  Fresh(h[j]) /\ \A m \in h[j] : m.store = b.store
  <2>1. lines[j] \in LineRow /\ lines[j].item \in Variants \cup Packages /\ lines[j].quantity \in Nat
        /\ <<Len(sales) + 1, j>> \in Nat \X Nat
    <3>1. Len(sales) \in Nat
      BY DEF ShopTypes
    <3> QED BY <1>3, <3>1 DEF LineRow
  <2>2. Goods(lines[j], lines[j].quantity) \in [Variants -> Int]
    <3>1. Goods(lines[j], lines[j].quantity) \in [Variants -> Nat]
      BY <2>1, GoodsType
    <3> QED BY <3>1
  <2>3. h[j] = Moves("OUT", b.store, <<Len(sales) + 1, j>>, lines[j], Goods(lines[j], lines[j].quantity), -1)
    OBVIOUS
  <2> HIDE DEF h
  <2> QED BY <1>1, <1>2, <2>1, <2>2, <2>3, LineMoves
<1>7. \A m \in moves : \E j \in DOMAIN lines : m \in h[j]
  OBVIOUS
<1>8. Fresh(moves)
  <2>1. \A m : m \in moves <=> \E j \in DOMAIN lines : m \in h[j]
    OBVIOUS
  <2> HIDE DEF moves, h
  <2> QED BY <1>3, <1>6, <2>1, FreshUnion
<1>9. \A m \in moves : m.store = b.store
  <2> HIDE DEF moves, h
  <2> QED BY <1>6, <1>7
<1> HIDE DEF moves, h
<1>10. ASSUME NEW s \in Stores, NEW v \in Variants
       PROVE  stock[s][v] + SumOver(Amounts(moves), Rows(moves, s, v)) >= 0
  <2> DEFINE a == Amounts(moves)
             R == Rows(moves, s, v)
             V == {m \in moves : m.variant = v}
             g == [m \in V |-> -m.quantity]
  <2>0. stock[s][v] \in Nat
    BY DEF ShopTypes
  <2>1. CASE s = b.store
    <3>1. R = V /\ IsFiniteSet(V)
      BY <1>8, <1>9, <2>1, FS_Subset DEF Rows, Fresh
    <3>2. \A m \in V : a[m] \in Int /\ g[m] = -a[m]
      BY <1>8 DEF Fresh, Amounts, MovementRow
    <3>3. TotalOf(LAMBDA m : -m.quantity, V) = SumOver(g, V)
      BY <3>1, NegatedTotal, Zenon
    <3>4. TotalOf(LAMBDA m : -m.quantity, V) <= stock[b.store][v]
      BY <1>5, Zenon
    <3> HIDE DEF a, R, V, g
    <3>5. SumOver(a, V) \in Int /\ SumOver(g, V) = -SumOver(a, V)
      BY <3>1, <3>2, SumNegated
    <3>6. SumOver(g, V) <= stock[s][v]
      BY <2>1, <3>3, <3>4, Zenon
    <3>7. stock[s][v] + SumOver(a, V) >= 0
      BY <2>0, <3>5, <3>6
    <3> QED BY <3>1, <3>7, Zenon DEF a, R
  <2>2. CASE s # b.store
    <3>1. R = {}
      BY <1>9, <2>2 DEF Rows
    <3>2. SumOver(a, R) = 0
      BY <3>1, SumEmpty, Zenon
    <3> HIDE DEF a, R
    <3>3. stock[s][v] + SumOver(a, R) >= 0
      BY <2>0, <3>2
    <3> QED BY <3>3 DEF a, R
  <2> QED BY <2>1, <2>2
<1>11. stock' \in [Stores -> [Variants -> Nat]]
  BY <1>4, <1>8, <1>10, RecordNat DEF ShopTypes
<1>12. WithLines(order, lines) \in SaleRow /\ SaleFits(WithLines(order, lines), now)
  <2>1. order \in SaleRow /\ SaleFits(order, now)
    BY <1>1, <1>2 DEF SaleRow, SaleFits, NotCancelled
  <2>2. order.returns = <<>> /\ order.status = "CONFIRMED" /\ order.at = now /\ order.cancelledAt = NotCancelled
    OBVIOUS
  <2> HIDE DEF order
  <2>3. /\ WithLines(order, lines) \in SaleRow
        /\ WithLines(order, lines).returns = <<>> /\ WithLines(order, lines).status = "CONFIRMED"
        /\ WithLines(order, lines).at = now /\ WithLines(order, lines).cancelledAt = NotCancelled
    BY <1>3, <2>1, <2>2, WithLinesType
  <2> QED BY <1>1, <2>3 DEF SaleFits
<1> HIDE DEF order
<1>13. sales' \in Seq(SaleRow) /\ \A i \in DOMAIN sales' : SaleFits(sales'[i], now)
  BY <1>4, <1>12 DEF ShopTypes
<1>14. /\ \A k \in DOMAIN balances' : k[1] \in Stores /\ k[2] \in Variants /\ balances'[k] \in Nat
       /\ linked' \in [Stores -> [Variants -> BOOLEAN]]
  BY <1>4 DEF ShopTypes
<1> QED BY <1>4, <1>8, <1>11, <1>13, <1>14, KeepsTypes

\* The units that returns took back are a natural number.
LEMMA PartsType ==
  ASSUME NEW order \in SaleRow, NEW j, NEW v \in Variants
  PROVE  PartsReturned(order, j, v) \in Nat
<1> DEFINE K == ReturnsOf(order, j)
           f == [k \in K |-> order.returns[k].parts[v]]
<1>1. order.returns \in Seq(ReturnRow)
  BY DEF SaleRow
<1>2. IsFiniteSet(K)
  <2>1. IsFiniteSet(DOMAIN order.returns)
    BY <1>1, FS_Interval
  <2> QED BY <2>1, FS_Subset DEF ReturnsOf
<1>3. \A k \in K : f[k] \in Nat
  <2>1. \A k \in K : order.returns[k] \in ReturnRow
    BY <1>1 DEF ReturnsOf
  <2> QED BY <2>1 DEF ReturnRow
<1>4. TotalOf(LAMBDA k : order.returns[k].parts[v], K) = SumOver(f, K)
  <2> HIDE DEF K
  <2> QED BY <1>2, PartsTotal, Zenon
<1> HIDE DEF K, f
<1>5. SumOver(f, K) \in Nat
  BY <1>2, <1>3, SumNat
<1> QED BY <1>4, <1>5, Zenon DEF PartsReturned, K

\* A request about a sale of the table.
LEMMA SaleType ==
  ASSUME ShopTypes, NEW i \in DOMAIN sales
  PROVE  /\ sales[i] \in SaleRow /\ SaleFits(sales[i], now) /\ i \in Nat
         /\ sales[i].store \in Stores /\ sales[i].lines \in Seq(LineRow)
         /\ IsFiniteSet(DOMAIN sales[i].lines)
         /\ \A j \in DOMAIN sales[i].lines :
              /\ sales[i].lines[j] \in LineRow /\ <<i, j>> \in Nat \X Nat
              /\ sales[i].lines[j].item \in Variants \cup Packages /\ sales[i].lines[j].quantity \in Nat
<1>1. sales[i] \in SaleRow /\ SaleFits(sales[i], now) /\ i \in Nat
  BY DEF ShopTypes
<1>2. sales[i].store \in Stores /\ sales[i].lines \in Seq(LineRow)
  BY <1>1 DEF SaleRow
<1> DEFINE L == sales[i].lines
<1>3. L \in Seq(LineRow)
  BY <1>2
<1> HIDE DEF L
<1>4. IsFiniteSet(DOMAIN L) /\ \A j \in DOMAIN L : L[j] \in LineRow /\ j \in Nat
  BY <1>3, FS_Interval
<1>5. \A j \in DOMAIN L : L[j].item \in Variants \cup Packages /\ L[j].quantity \in Nat /\ <<i, j>> \in Nat \X Nat
  BY <1>1, <1>4 DEF LineRow
<1> QED BY <1>1, <1>2, <1>4, <1>5 DEF L

\* A request that replaces one sale keeps the table.
LEMMA SaleChanged ==
  ASSUME ShopTypes, NEW i \in DOMAIN sales, NEW order \in SaleRow, SaleFits(order, now),
         sales' = [sales EXCEPT ![i] = order]
  PROVE  sales' \in Seq(SaleRow) /\ \A k \in DOMAIN sales' : SaleFits(sales'[k], now)
BY DEF ShopTypes

\* cancelSale books back what every line still has.
LEMMA CancelTypes ==
  ASSUME ShopAssumption, ShopTypes, NEW i \in DOMAIN sales, Cancel(i)
  PROVE  ShopTypes' /\ Recorded
<1> DEFINE order == sales[i]
           left == [j \in DOMAIN order.lines |-> [v \in Variants |-> Goods(order.lines[j], order.lines[j].quantity)[v]
                                       - PartsReturned(order, j, v)]]
           h == [j \in DOMAIN order.lines |-> Moves("IN", order.store, <<i, j>>, order.lines[j], left[j], 1)]
           moves == UNION {h[j] : j \in DOMAIN order.lines}
           after == [order EXCEPT !.status = "CANCELLED", !.cancelledAt = now]
<1>1. now \in Nat
  BY NowType DEF ShopTypes
<1>2. /\ order \in SaleRow /\ SaleFits(order, now) /\ order.store \in Stores
      /\ IsFiniteSet(DOMAIN order.lines)
      /\ \A j \in DOMAIN order.lines :
           /\ order.lines[j] \in LineRow /\ <<i, j>> \in Nat \X Nat
           /\ order.lines[j].item \in Variants \cup Packages /\ order.lines[j].quantity \in Nat
  BY SaleType
<1>3. /\ order.status = "CONFIRMED" /\ UNCHANGED <<now, balances, linked, closing>>
      /\ sales' = [sales EXCEPT ![i].status = "CANCELLED", ![i].cancelledAt = now]
  BY DEF Cancel
<1>4. Record(moves)
  <2>1. moves = UNION {Moves("IN", order.store, <<i, j>>, order.lines[j],
                             [v \in Variants |-> Goods(order.lines[j], order.lines[j].quantity)[v]
                                       - PartsReturned(order, j, v)], 1) : j \in DOMAIN order.lines}
    OBVIOUS
  <2> HIDE DEF moves
  <2> QED BY <2>1, Zenon DEF Cancel
<1>5. ASSUME NEW j \in DOMAIN order.lines
      PROVE  Fresh(h[j]) /\ \A m \in h[j] : m.quantity \in Nat
  <2>1. left[j] \in [Variants -> Int]
    <3>1. Goods(order.lines[j], order.lines[j].quantity) \in [Variants -> Nat]
      BY <1>2, GoodsType
    <3>2. \A v \in Variants : PartsReturned(order, j, v) \in Nat
      BY <1>2, PartsType
    <3>3. \A v \in Variants : Goods(order.lines[j], order.lines[j].quantity)[v] - PartsReturned(order, j, v) \in Int
      BY <3>1, <3>2
    <3> QED BY <3>3
  <2>2. h[j] = Moves("IN", order.store, <<i, j>>, order.lines[j], left[j], 1)
    OBVIOUS
  <2> HIDE DEF h, left, order
  <2> QED BY <1>1, <1>2, <2>1, <2>2, LineMoves
<1>6. \A m : m \in moves <=> \E j \in DOMAIN order.lines : m \in h[j]
  OBVIOUS
<1> HIDE DEF h, moves
<1>7. Fresh(moves)
  <2> HIDE DEF order
  <2> QED BY <1>2, <1>5, <1>6, FreshUnion
<1>8. \A m \in moves : m.quantity \in Nat
  BY <1>5, <1>6
<1>9. stock' \in [Stores -> [Variants -> Nat]]
  BY <1>4, <1>7, <1>8, RecordIn DEF ShopTypes
<1>10. after \in SaleRow /\ SaleFits(after, now)
  <2>1. after \in SaleRow /\ after.status = "CANCELLED" /\ after.cancelledAt = now /\ after.at = order.at
        /\ after.returns = order.returns /\ after.lines = order.lines
    <3>1. order \in SaleRow /\ now \in Int
      BY <1>1, <1>2
    <3> HIDE DEF order
    <3> QED BY ONLY <3>1 DEF SaleRow
  <2>2. order.at \in Nat
    BY <1>2 DEF SaleRow
  <2> HIDE DEF after, order
  <2> QED BY <1>1, <1>2, <2>1, <2>2 DEF SaleFits
<1>11. sales' = [sales EXCEPT ![i] = after]
  <2>1. sales \in Seq(SaleRow)
    BY DEF ShopTypes
  <2> QED BY <1>3, <2>1
<1> HIDE DEF after, order
<1>12. sales' \in Seq(SaleRow) /\ \A k \in DOMAIN sales' : SaleFits(sales'[k], now)
  BY <1>10, <1>11, SaleChanged
<1>13. /\ \A k \in DOMAIN balances' : k[1] \in Stores /\ k[2] \in Variants /\ balances'[k] \in Nat
       /\ linked' \in [Stores -> [Variants -> BOOLEAN]]
  BY <1>3 DEF ShopTypes
<1> QED BY <1>3, <1>4, <1>7, <1>9, <1>12, <1>13, KeepsTypes

\* A sale with a changed line and one more return is a sale.
LEMMA ReturnedType ==
  ASSUME ShopAssumption, ShopTypes, NEW order \in SaleRow, SaleFits(order, now), NEW j \in DOMAIN order.lines,
         NEW l \in LineRow, NEW q \in Nat, NEW back \in [Variants -> Nat], NEW refund \in Nat
  PROVE  LET after == Returned(WithLines(order, [order.lines EXCEPT ![j] = l]), j, q, back, refund)
         IN  after \in SaleRow /\ SaleFits(after, now)
<1> DEFINE lines == [order.lines EXCEPT ![j] = l]
           with == WithLines(order, lines)
           after == Returned(with, j, q, back, refund)
           r == [at |-> now, line |-> j, quantity |-> q, parts |-> back, totalRefund |-> refund]
<1>1. now \in Nat
  BY NowType DEF ShopTypes
<1>2. order.lines \in Seq(LineRow) /\ order.returns \in Seq(ReturnRow) /\ order.at \in Nat
  BY DEF SaleRow
<1>3. lines \in Seq(LineRow) /\ DOMAIN lines = DOMAIN order.lines /\ j \in Nat
  BY <1>2
<1> HIDE DEF lines
<1>4. /\ with \in SaleRow /\ with.lines = lines /\ with.at = order.at /\ with.status = order.status
      /\ with.cancelledAt = order.cancelledAt /\ with.returns = order.returns
  BY <1>3, WithLinesType
<1> HIDE DEF with
<1>5. r \in ReturnRow /\ r.at = now /\ r.line = j
  BY <1>1, <1>3 DEF ReturnRow
<1>6. after = [with EXCEPT !.returns = Append(@, r)]
  BY DEF Returned
<1> HIDE DEF r, after
<1>7. Append(order.returns, r) \in Seq(ReturnRow)
  BY <1>2, <1>5
<1>8. /\ after \in SaleRow /\ after.lines = lines /\ after.at = order.at /\ after.status = order.status
      /\ after.cancelledAt = order.cancelledAt /\ after.returns = Append(order.returns, r)
  BY <1>4, <1>6, <1>7 DEF SaleRow
<1>9. \A k \in DOMAIN after.returns :
        after.returns[k].at \in order.at..now /\ after.returns[k].line \in DOMAIN order.lines
  <2> DEFINE R == order.returns
  <2>1. R \in Seq(ReturnRow)
    BY <1>2
  <2>2. \A k \in DOMAIN R : R[k].at \in order.at..now /\ R[k].line \in DOMAIN order.lines
    BY DEF SaleFits
  <2>3. r.at \in order.at..now
    BY <1>1, <1>2, <1>5 DEF SaleFits
  <2>4. after.returns = Append(R, r)
    BY <1>8
  <2> HIDE DEF R
  <2>5. \A k \in DOMAIN Append(R, r) : Append(R, r)[k] = r \/ (k \in DOMAIN R /\ Append(R, r)[k] = R[k])
    BY <1>5, <2>1
  <2> QED BY <1>5, <2>2, <2>3, <2>4, <2>5
<1>10. SaleFits(after, now)
  BY <1>3, <1>8, <1>9 DEF SaleFits
<1> QED BY <1>8, <1>10 DEF after, with, lines

\* createSaleReturn of whole units: a line is reduced and its goods come back.
LEMMA ReturnUnitsTypes ==
  ASSUME ShopAssumption, ShopTypes, NEW i \in DOMAIN sales, NEW j \in DOMAIN sales[i].lines, NEW q \in Nat,
         ReturnUnits(i, j, q)
  PROVE  ShopTypes' /\ Recorded
<1> DEFINE order == sales[i]
           l == order.lines[j]
           moves == Moves("IN", order.store, <<i, j>>, l, Goods(l, q), 1)
           after == Returned(WithLines(order, [order.lines EXCEPT ![j] = Reduced(l, q)]), j, q, NoParts, 0)
<1>1. now \in Nat
  BY NowType DEF ShopTypes
<1>2. /\ order \in SaleRow /\ SaleFits(order, now) /\ order.store \in Stores /\ j \in DOMAIN order.lines
      /\ l \in LineRow /\ <<i, j>> \in Nat \X Nat /\ l.item \in Variants \cup Packages
  BY SaleType
<1>3. /\ q <= l.quantity /\ sales' = [sales EXCEPT ![i] = after] /\ Record(moves)
      /\ UNCHANGED <<now, balances, linked, closing>>
  BY Zenon DEF ReturnUnits
<1>4. NoParts \in [Variants -> Nat]
  BY DEF NoParts
<1>5. Goods(l, q) \in [Variants -> Int]
  <2>1. Goods(l, q) \in [Variants -> Nat]
    BY <1>2, GoodsType
  <2> QED BY <2>1
<1>6. Reduced(l, q) \in LineRow
  BY <1>2, <1>3, ReducedType
<1>7. after \in SaleRow /\ SaleFits(after, now)
  <2> HIDE DEF order, l
  <2> QED BY <1>2, <1>4, <1>6, ReturnedType
<1>8. Fresh(moves) /\ \A m \in moves : m.quantity \in Nat
  <2> HIDE DEF order, l
  <2> QED BY <1>1, <1>2, <1>5, LineMoves
<1> HIDE DEF order, l, moves, after
<1>9. stock' \in [Stores -> [Variants -> Nat]]
  BY <1>3, <1>8, RecordIn DEF ShopTypes
<1>10. sales' \in Seq(SaleRow) /\ \A k \in DOMAIN sales' : SaleFits(sales'[k], now)
  BY <1>3, <1>7, SaleChanged
<1>11. /\ \A k \in DOMAIN balances' : k[1] \in Stores /\ k[2] \in Variants /\ balances'[k] \in Nat
       /\ linked' \in [Stores -> [Variants -> BOOLEAN]]
  BY <1>3 DEF ShopTypes
<1> QED BY <1>3, <1>8, <1>9, <1>10, <1>11, KeepsTypes

\* createSaleReturn of a part of a package: the line pays for it and the part comes back.
LEMMA ReturnPartTypes ==
  ASSUME ShopAssumption, ShopTypes, NEW i \in DOMAIN sales, NEW j \in DOMAIN sales[i].lines,
         NEW v \in Variants, NEW n \in Nat, ReturnPart(i, j, v, n)
  PROVE  ShopTypes' /\ Recorded
<1> DEFINE order == sales[i]
           l == order.lines[j]
           refund == n * PartPrice[l.item][v]
           left == [l EXCEPT !.lineTotal = AtLeast0(@ - refund)]
           back == [NoParts EXCEPT ![v] = n]
           m == Move("IN", order.store, v, n, PartPrice[l.item][v], <<i, j>>)
           after == Returned(WithLines(order, [order.lines EXCEPT ![j] = left]), j, 0, back, refund)
<1>1. now \in Nat
  BY NowType DEF ShopTypes
<1>2. /\ order \in SaleRow /\ SaleFits(order, now) /\ order.store \in Stores /\ j \in DOMAIN order.lines
      /\ l \in LineRow /\ <<i, j>> \in Nat \X Nat /\ l.item \in Variants \cup Packages
  BY SaleType
<1>3. /\ l.item \in Packages /\ sales' = [sales EXCEPT ![i] = after] /\ Record({m})
      /\ UNCHANGED <<now, balances, linked, closing>>
  BY Zenon DEF ReturnPart
<1>4. back \in [Variants -> Nat]
  BY DEF NoParts
<1>5. PartPrice[l.item][v] \in Nat /\ refund \in Nat
  <2>1. PartPrice[l.item][v] \in Nat
    BY <1>3 DEF ShopAssumption
  <2> HIDE DEF l
  <2> QED BY <2>1, TimesNat
<1>6. left \in LineRow
  <2> HIDE DEF l, refund
  <2>1. AtLeast0(l.lineTotal - refund) \in Int
    BY <1>2, <1>5 DEF AtLeast0, LineRow
  <2> QED BY <1>2, <2>1 DEF LineRow
<1>7. after \in SaleRow /\ SaleFits(after, now)
  <2> HIDE DEF order, l, left, back, refund
  <2> QED BY <1>2, <1>4, <1>5, <1>6, ReturnedType
<1>8. m \in MovementRow /\ m.at = now /\ m.quantity = n
  <2>1. PartPrice[l.item][v] \in OrNull(Nat)
    BY <1>5 DEF OrNull
  <2> HIDE DEF order, l
  <2> QED BY <1>1, <1>2, <2>1, MoveType
<1> HIDE DEF order, l, left, back, refund, m, after
<1>9. Fresh({m}) /\ \A x \in {m} : x.quantity \in Nat
  BY <1>8, OneFresh
<1>10. stock' \in [Stores -> [Variants -> Nat]]
  BY <1>3, <1>9, RecordIn DEF ShopTypes
<1>11. sales' \in Seq(SaleRow) /\ \A k \in DOMAIN sales' : SaleFits(sales'[k], now)
  BY <1>3, <1>7, SaleChanged
<1>12. /\ \A k \in DOMAIN balances' : k[1] \in Stores /\ k[2] \in Variants /\ balances'[k] \in Nat
       /\ linked' \in [Stores -> [Variants -> BOOLEAN]]
  BY <1>3 DEF ShopTypes
<1> QED BY <1>3, <1>9, <1>10, <1>11, <1>12, KeepsTypes

-----------------------------------------------------------------------------
(* The inductive invariant of the shop. *)

\* An empty shop.
LEMMA InitTypes ==
  ASSUME ShopInit
  PROVE  ShopTypes /\ Ledger /\ Past
<1>1. ShopTypes
  BY DEF ShopInit, ShopTypes
<1>2. Ledger
  <2> SUFFICES ASSUME NEW s \in Stores, NEW v \in Variants
               PROVE  stock[s][v] = SumOver(Moved, RowMoves(s, v))
    BY DEF Ledger
  <2>1. stock[s][v] = 0
    BY DEF ShopInit
  <2>2. RowMoves(s, v) = {}
    BY DEF ShopInit, RowMoves
  <2> QED BY <2>1, <2>2, SumEmpty, Zenon
<1>3. Past
  BY DEF ShopInit, Past
<1> QED BY <1>1, <1>2, <1>3

\* What a step may be.
LEMMA ShopStep ==
  ASSUME ShopAssumption, ShopTypes, ShopNext
  PROVE  /\ ShopTypes'
         /\ \/ \E hour \in Moments : Pass(hour)
            \/ UNCHANGED <<now, movements, stock, closing>>
            \/ Recorded
<1>1. CASE \E hour \in Moments : Pass(hour)
  BY <1>1, PassTypes
<1>2. CASE \E d \in Deliveries : ReceiveGoods(d)
  BY <1>2, ReceiveTypes
<1>3. CASE \E x \in Adjustments : Adjust(x[1], x[2], x[3])
  <2>1. PICK x \in Adjustments : Adjust(x[1], x[2], x[3])
    BY <1>3
  <2>2. x[1] \in Stores /\ x[2] \in Variants /\ x[3] \in Int
    BY DEF ShopAssumption
  <2> QED BY <2>1, <2>2, AdjustTypes
<1>4. CASE \E x \in Transfers : Transfer(x[1], x[2], x[3])
  <2>1. PICK x \in Transfers : Transfer(x[1], x[2], x[3])
    BY <1>4
  <2>2. x[1] \in Stores /\ x[2] \in Stores /\ x[3] \in Variants
    BY DEF ShopAssumption
  <2> QED BY <2>1, <2>2, TransferTypes
<1>5. CASE \E x \in Switches : SwitchLink(x[1], x[2])
  <2>1. PICK x \in Switches : SwitchLink(x[1], x[2])
    BY <1>5
  <2>2. x[1] \in Stores /\ x[2] \in Variants
    BY DEF ShopAssumption
  <2>3. UNCHANGED <<now, movements, stock, closing>>
    BY <2>1 DEF SwitchLink
  <2> QED BY <2>1, <2>2, <2>3, SwitchTypes
<1>6. CASE \E b \in Baskets : Sell(b)
  BY <1>6, SellTypes
<1>7. CASE \E i \in DOMAIN sales : Cancel(i)
  BY <1>7, CancelTypes
<1>8. CASE \E i \in DOMAIN sales : \E j \in DOMAIN sales[i].lines :
             ReturnUnits(i, j, 1) \/ \E v \in Variants : ReturnPart(i, j, v, 1)
  BY <1>8, ReturnUnitsTypes, ReturnPartTypes
<1> QED BY <1>1, <1>2, <1>3, <1>4, <1>5, <1>6, <1>7, <1>8, Zenon DEF ShopNext

\* What Past says of one row.
LEMMA PastRow ==
  ASSUME Past, NEW c \in DOMAIN closing, NEW day \in {closing[c].first, closing[c].last},
         NEW s \in Stores, NEW v \in Variants
  PROVE  closing[c].stock[s][v] = SumOver(Moved, UpTo(RowMoves(s, v), day))
BY Zenon DEF Past

\* Nothing booked, nothing changed.
LEMMA SameBooks ==
  ASSUME UNCHANGED <<movements, stock, closing>>
  PROVE  (Ledger => Ledger') /\ (Past => Past')
<1>1. Moved' = Moved /\ \A s \in Stores, v \in Variants : RowMoves(s, v)' = RowMoves(s, v)
  BY DEF Moved, RowMoves
<1>2. \A s \in Stores, v \in Variants : \A day : UpTo(RowMoves(s, v), day)' = UpTo(RowMoves(s, v), day)
  BY <1>1 DEF UpTo
<1>3. Ledger => Ledger'
  BY <1>1, Zenon DEF Ledger
<1>4. ASSUME Past, NEW c \in DOMAIN closing, NEW day \in {closing[c].first, closing[c].last},
             NEW s \in Stores, NEW v \in Variants
      PROVE  closing[c].stock[s][v] = SumOver(Moved', UpTo(RowMoves(s, v), day)')
  <2>1. closing[c].stock[s][v] = SumOver(Moved, UpTo(RowMoves(s, v), day))
    BY <1>4, Zenon DEF Past
  <2> QED BY <1>1, <1>2, <2>1, Zenon
<1>5. Past => Past'
  BY <1>4 DEF Past
<1> QED BY <1>3, <1>5

\* The clock closes days: their movements are all that is booked up to them, which is all that
\* is booked.
LEMMA PassLedger ==
  ASSUME ShopAssumption, ShopTypes, Ledger, Past, NEW hour \in Moments, Pass(hour)
  PROVE  Ledger' /\ Past'
<1>1. /\ UNCHANGED <<movements, stock>> /\ now \in Nat
      /\ closing' = IF Day(hour) = Day(now) THEN closing
                    ELSE Append(closing, [first |-> Day(now), last |-> Day(hour) - 1, stock |-> stock])
  BY NowType DEF ShopTypes, Pass
<1>2. Ledger'
  BY <1>1 DEF Ledger, Moved, RowMoves
<1>3. Past'
  <2> SUFFICES ASSUME NEW c \in DOMAIN closing', NEW day \in {closing'[c].first, closing'[c].last},
                      NEW s \in Stores, NEW v \in Variants
               PROVE  closing'[c].stock[s][v] = SumOver(Moved', UpTo(RowMoves(s, v), day)')
    BY DEF Past
  <2>1. Moved' = Moved /\ UpTo(RowMoves(s, v), day)' = UpTo(RowMoves(s, v), day)
    BY <1>1 DEF Moved, RowMoves, UpTo
  <2>2. closing'[c].stock[s][v] = SumOver(Moved, UpTo(RowMoves(s, v), day))
    <3> DEFINE r == [first |-> Day(now), last |-> Day(hour) - 1, stock |-> stock]
    <3>1. CASE closing' = closing
      <4>1. c \in DOMAIN closing /\ closing'[c] = closing[c] /\ day \in {closing[c].first, closing[c].last}
        BY <3>1
      <4>2. closing[c].stock[s][v] = SumOver(Moved, UpTo(RowMoves(s, v), day))
        BY <4>1, PastRow
      <4> QED BY <4>1, <4>2, Zenon
    <3>2. CASE closing' = Append(closing, r) /\ Day(hour) # Day(now)
      <4>0. r.first = Day(now) /\ r.last = Day(hour) - 1 /\ r.stock = stock
        OBVIOUS
      <4> HIDE DEF r
      <4>1. closing'[c] = r \/ (c \in DOMAIN closing /\ closing'[c] = closing[c])
        <5>1. closing \in Seq(ClosedDays)
          BY DEF ShopTypes
        <5> QED BY <3>2, <5>1
      <4>2. CASE c \in DOMAIN closing /\ closing'[c] = closing[c]
        <5>1. day \in {closing[c].first, closing[c].last}
          BY <4>2
        <5>2. closing[c].stock[s][v] = SumOver(Moved, UpTo(RowMoves(s, v), day))
          BY <4>2, <5>1, PastRow
        <5> QED BY <4>2, <5>2, Zenon
      <4>3. CASE closing'[c] = r
        <5>1. day >= Day(now) /\ day \in Int
          <6>1. hour \in Nat /\ hour > now /\ Day(hour) # Day(now)
            BY <3>2 DEF ShopAssumption, Pass
          <6>2. Day(hour) - 1 >= Day(now) /\ Day(now) \in Nat /\ Day(hour) \in Nat
            BY <1>1, <6>1 DEF Day
          <6>3. day = Day(now) \/ day = Day(hour) - 1
            BY <4>0, <4>3
          <6> QED BY <6>2, <6>3
        <5>2. \A k \in DOMAIN movements : Day(movements[k].at) <= day
          <6> TAKE k \in DOMAIN movements
          <6>1. movements[k] \in MovementRow /\ movements[k].at <= now
            BY DEF ShopTypes
          <6>2. movements[k].at \in Nat
            BY <6>1 DEF MovementRow
          <6>3. Day(movements[k].at) <= Day(now) /\ Day(now) \in Nat /\ Day(movements[k].at) \in Nat
            BY <1>1, <6>1, <6>2 DEF Day
          <6> QED BY <5>1, <6>3
        <5>3. UpTo(RowMoves(s, v), day) = RowMoves(s, v)
          BY <5>2 DEF UpTo, RowMoves
        <5> QED BY <4>0, <4>3, <5>3, Zenon DEF Ledger
      <4> QED BY <4>1, <4>2, <4>3
    <3> QED BY <1>1, <3>1, <3>2
  <2> QED BY <2>1, <2>2, Zenon
<1> QED BY <1>2, <1>3

\* The invariant is inductive.
LEMMA StepLedger ==
  ASSUME ShopAssumption, ShopTypes, Ledger, Past, ShopNext
  PROVE  ShopTypes' /\ Ledger' /\ Past'
<1>0. /\ ShopTypes'
      /\ (\E hour \in Moments : Pass(hour)) \/ UNCHANGED <<now, movements, stock, closing>> \/ Recorded
  BY ShopStep
<1>1. CASE \E hour \in Moments : Pass(hour)
  <2>1. PICK hour \in Moments : Pass(hour)
    BY <1>1
  <2> QED BY <1>0, <2>1, PassLedger
<1>2. CASE UNCHANGED <<now, movements, stock, closing>>
  BY <1>0, <1>2, SameBooks
<1>3. CASE Recorded
  <2>1. PICK moves : Fresh(moves) /\ Record(moves)
    BY <1>3 DEF Recorded
  <2>2. UNCHANGED <<now, closing>>
    BY <1>3 DEF Recorded
  <2>3. movements \in Seq(MovementRow) /\ stock \in [Stores -> [Variants -> Int]] /\ now \in Nat
    BY NowType DEF ShopTypes
  <2>4. Ledger'
    BY <2>1, <2>3, RecordLedger
  <2>5. \A c \in DOMAIN closing : closing[c].first \in Nat /\ closing[c].last \in Nat /\ closing[c].first <= closing[c].last
            /\ closing[c].last < Day(now)
    <3>1. \A c \in DOMAIN closing : closing[c] \in ClosedDays
      BY DEF ShopTypes
    <3> QED BY <3>1 DEF ShopTypes, ClosedDays
  <2>6. Past'
    BY <2>1, <2>2, <2>3, <2>5, RecordPast
  <2> QED BY <1>0, <2>4, <2>6
<1> QED BY <1>0, <1>1, <1>2, <1>3

\* In every state of the shop each stock row is the sum of its movements, today and at the end
\* of every day that has passed: receiveStock, adjustStock, transferStock, createSale,
\* cancelSale and createSaleReturn never let the two apart.
THEOREM LedgerHolds == ShopSpec => [](ShopTypes /\ Ledger /\ Past)
<1> USE ShopAssumption
<1>1. ShopInit => ShopTypes /\ Ledger /\ Past
  BY InitTypes
<1>2. ShopTypes /\ Ledger /\ Past /\ [ShopNext]_shopVars => (ShopTypes /\ Ledger /\ Past)'
  <2>1. ASSUME ShopTypes, Ledger, Past, UNCHANGED shopVars PROVE (ShopTypes /\ Ledger /\ Past)'
    <3>1. ShopTypes'
      BY <2>1 DEF shopVars, ShopTypes
    <3> QED BY <2>1, <3>1, SameBooks DEF shopVars
  <2> QED BY <2>1, StepLedger
<1> QED BY <1>1, <1>2, PTL DEF ShopSpec

-----------------------------------------------------------------------------
(* What the reports total, as sums. *)

\* The stock of one store in a table of stock.
LEMMA StoreTotal ==
  ASSUME NEW table, NEW s, IsFiniteSet(Variants)
  PROVE  StoreStock(table, s) = SumOver([v \in Variants |-> table[s][v]], Variants)
<1> DEFINE f == [v \in Variants |-> table[s][v]]
           Is(F) == F = [T \in SUBSET Variants |->
             IF T = {} THEN 0 ELSE table[s][(CHOOSE a \in T : TRUE)] + F[T \ {CHOOSE a \in T : TRUE}]]
           H == CHOOSE F : Is(F)
<1>1. StoreStock(table, s) = H[Variants]
  BY Zenon DEF TotalOf, MapThenSumSet, MapThenFoldSet, StoreStock
<1>2. \A T \in SUBSET Variants : T # {} => f[FirstOf(T)] = table[s][(CHOOSE a \in T : TRUE)]
  BY Zenon DEF FirstOf
<1> HIDE DEF f
<1>3. \A F : Is(F) <=> IsSum(F, f, Variants)
  BY <1>2, Zenon DEF IsSum, FirstOf
<1>4. PICK F : IsSum(F, f, Variants)
  BY SumExists
<1>5. IsSum(H, f, Variants)
  <2> HIDE DEF Is
  <2> QED BY <1>3, <1>4, Zenon
<1> HIDE DEF H
<1>6. H[Variants] = SumOver(f, Variants)
  BY <1>5, SumIs
<1> QED BY <1>1, <1>6, Zenon DEF f

\* The stock of several stores.
LEMMA TableTotal ==
  ASSUME NEW table, NEW S, IsFiniteSet(S)
  PROVE  AllStock(S, table) = SumOver([s \in S |-> StoreStock(table, s)], S)
<1> DEFINE f == [s \in S |-> StoreStock(table, s)]
           Is(F) == F = [T \in SUBSET S |->
             IF T = {} THEN 0 ELSE StoreStock(table, (CHOOSE a \in T : TRUE)) + F[T \ {CHOOSE a \in T : TRUE}]]
           H == CHOOSE F : Is(F)
<1>1. AllStock(S, table) = H[S]
  BY Zenon DEF TotalOf, MapThenSumSet, MapThenFoldSet, AllStock
<1>2. \A T \in SUBSET S : T # {} => f[FirstOf(T)] = StoreStock(table, (CHOOSE a \in T : TRUE))
  BY Zenon DEF FirstOf
<1> HIDE DEF f
<1>3. \A F : Is(F) <=> IsSum(F, f, S)
  BY <1>2, Zenon DEF IsSum, FirstOf
<1>4. PICK F : IsSum(F, f, S)
  BY SumExists
<1>5. IsSum(H, f, S)
  <2> HIDE DEF Is
  <2> QED BY <1>3, <1>4, Zenon
<1> HIDE DEF H
<1>6. H[S] = SumOver(f, S)
  BY <1>5, SumIs
<1> QED BY <1>1, <1>6, Zenon DEF f

\* The column of quantities of a report.
LEMMA ColumnTotal ==
  ASSUME NEW rows, IsFiniteSet(DOMAIN rows)
  PROVE  Column(rows, LAMBDA r : r.totalQuantity) = SumOver([k \in DOMAIN rows |-> rows[k].totalQuantity], DOMAIN rows)
<1> DEFINE f == [k \in DOMAIN rows |-> rows[k].totalQuantity]
           Is(F) == F = [T \in SUBSET DOMAIN rows |->
             IF T = {} THEN 0 ELSE rows[(CHOOSE a \in T : TRUE)].totalQuantity + F[T \ {CHOOSE a \in T : TRUE}]]
           H == CHOOSE F : Is(F)
<1>1. Column(rows, LAMBDA r : r.totalQuantity) = H[DOMAIN rows]
  BY Zenon DEF TotalOf, MapThenSumSet, MapThenFoldSet, Column
<1>2. \A T \in SUBSET DOMAIN rows : T # {} => f[FirstOf(T)] = rows[(CHOOSE a \in T : TRUE)].totalQuantity
  BY Zenon DEF FirstOf
<1> HIDE DEF f
<1>3. \A F : Is(F) <=> IsSum(F, f, DOMAIN rows)
  BY <1>2, Zenon DEF IsSum, FirstOf
<1>4. PICK F : IsSum(F, f, DOMAIN rows)
  BY SumExists
<1>5. IsSum(H, f, DOMAIN rows)
  <2> HIDE DEF Is
  <2> QED BY <1>3, <1>4, Zenon
<1> HIDE DEF H
<1>6. H[DOMAIN rows] = SumOver(f, DOMAIN rows)
  BY <1>5, SumIs
<1> QED BY <1>1, <1>6, Zenon DEF f

\* The stock summary, over its products.
LEMMA ProductTotal ==
  ASSUME NEW summary, NEW S, IsFiniteSet(S)
  PROVE  TotalOf(LAMBDA p : summary[p], S) = SumOver([p \in S |-> summary[p]], S)
<1> DEFINE f == [p \in S |-> summary[p]]
           Is(F) == F = [T \in SUBSET S |->
             IF T = {} THEN 0 ELSE summary[(CHOOSE a \in T : TRUE)] + F[T \ {CHOOSE a \in T : TRUE}]]
           H == CHOOSE F : Is(F)
<1>1. TotalOf(LAMBDA p : summary[p], S) = H[S]
  BY Zenon DEF TotalOf, MapThenSumSet, MapThenFoldSet
<1>2. \A T \in SUBSET S : T # {} => f[FirstOf(T)] = summary[(CHOOSE a \in T : TRUE)]
  BY Zenon DEF FirstOf
<1> HIDE DEF f
<1>3. \A F : Is(F) <=> IsSum(F, f, S)
  BY <1>2, Zenon DEF IsSum, FirstOf
<1>4. PICK F : IsSum(F, f, S)
  BY SumExists
<1>5. IsSum(H, f, S)
  <2> HIDE DEF Is
  <2> QED BY <1>3, <1>4, Zenon
<1> HIDE DEF H
<1>6. H[S] = SumOver(f, S)
  BY <1>5, SumIs
<1> QED BY <1>1, <1>6, Zenon DEF f

\* The stock by age, over the ages.
LEMMA AgeTotal ==
  ASSUME NEW scope, NEW S, IsFiniteSet(S)
  PROVE  TotalOf(LAMBDA b : StockAging(scope)[b], S) = SumOver([b \in S |-> StockAging(scope)[b]], S)
<1> DEFINE f == [b \in S |-> StockAging(scope)[b]]
           Is(F) == F = [T \in SUBSET S |->
             IF T = {} THEN 0 ELSE StockAging(scope)[(CHOOSE a \in T : TRUE)] + F[T \ {CHOOSE a \in T : TRUE}]]
           H == CHOOSE F : Is(F)
<1>1. TotalOf(LAMBDA b : StockAging(scope)[b], S) = H[S]
  BY Zenon DEF TotalOf, MapThenSumSet, MapThenFoldSet
<1>2. \A T \in SUBSET S : T # {} => f[FirstOf(T)] = StockAging(scope)[(CHOOSE a \in T : TRUE)]
  BY Zenon DEF FirstOf
<1> HIDE DEF f
<1>3. \A F : Is(F) <=> IsSum(F, f, S)
  BY <1>2, Zenon DEF IsSum, FirstOf
<1>4. PICK F : IsSum(F, f, S)
  BY SumExists
<1>5. IsSum(H, f, S)
  <2> HIDE DEF Is
  <2> QED BY <1>3, <1>4, Zenon
<1> HIDE DEF H
<1>6. H[S] = SumOver(f, S)
  BY <1>5, SumIs
<1> QED BY <1>1, <1>6, Zenon DEF f

\* The stock of several variants.
LEMMA VariantTotal ==
  ASSUME NEW scope, NEW S, IsFiniteSet(S)
  PROVE  TotalOf(LAMBDA v : VariantStock(scope, v), S) = SumOver([v \in S |-> VariantStock(scope, v)], S)
<1> DEFINE f == [v \in S |-> VariantStock(scope, v)]
           Is(F) == F = [T \in SUBSET S |->
             IF T = {} THEN 0 ELSE VariantStock(scope, (CHOOSE a \in T : TRUE)) + F[T \ {CHOOSE a \in T : TRUE}]]
           H == CHOOSE F : Is(F)
<1>1. TotalOf(LAMBDA v : VariantStock(scope, v), S) = H[S]
  BY Zenon DEF TotalOf, MapThenSumSet, MapThenFoldSet
<1>2. \A T \in SUBSET S : T # {} => f[FirstOf(T)] = VariantStock(scope, (CHOOSE a \in T : TRUE))
  BY Zenon DEF FirstOf
<1> HIDE DEF f
<1>3. \A F : Is(F) <=> IsSum(F, f, S)
  BY <1>2, Zenon DEF IsSum, FirstOf
<1>4. PICK F : IsSum(F, f, S)
  BY SumExists
<1>5. IsSum(H, f, S)
  <2> HIDE DEF Is
  <2> QED BY <1>3, <1>4, Zenon
<1> HIDE DEF H
<1>6. H[S] = SumOver(f, S)
  BY <1>5, SumIs
<1> QED BY <1>1, <1>6, Zenon DEF f

\* The sales of a variant that the reorder analysis shows, over the stores.
LEMMA SoldTotal ==
  ASSUME NEW reorder, NEW v, NEW S, IsFiniteSet(S)
  PROVE  StoresSold(reorder, v, S) = SumOver([s \in S |-> reorder[<<s, v>>].soldLast30], S)
<1> DEFINE f == [s \in S |-> reorder[<<s, v>>].soldLast30]
           Is(F) == F = [T \in SUBSET S |->
             IF T = {} THEN 0 ELSE reorder[<<(CHOOSE a \in T : TRUE), v>>].soldLast30 + F[T \ {CHOOSE a \in T : TRUE}]]
           H == CHOOSE F : Is(F)
<1>1. StoresSold(reorder, v, S) = H[S]
  BY Zenon DEF StoresSold, TotalOf, MapThenSumSet, MapThenFoldSet
<1>2. \A T \in SUBSET S : T # {} => f[FirstOf(T)] = reorder[<<(CHOOSE a \in T : TRUE), v>>].soldLast30
  BY Zenon DEF FirstOf
<1> HIDE DEF f
<1>3. \A F : Is(F) <=> IsSum(F, f, S)
  BY <1>2, Zenon DEF IsSum, FirstOf
<1>4. PICK F : IsSum(F, f, S)
  BY SumExists
<1>5. IsSum(H, f, S)
  <2> HIDE DEF Is
  <2> QED BY <1>3, <1>4, Zenon
<1> HIDE DEF H
<1>6. H[S] = SumOver(f, S)
  BY <1>5, SumIs
<1> QED BY <1>1, <1>6, Zenon DEF f

-----------------------------------------------------------------------------
(* The reports of stock. *)

\* A finite set of integers has its maximum.
LEMMA MaxOf ==
  ASSUME NEW S \in SUBSET Int, IsFiniteSet(S), S # {}
  PROVE  Max(S) \in S /\ \A y \in S : Max(S) >= y
<1> DEFINE G == {R \in SUBSET S : R = {} \/ \E x \in R : \A y \in R : x >= y}
<1>1. {} \in G
  OBVIOUS
<1>2. ASSUME NEW R \in SUBSET S, NEW x \in S \ R, R \in G PROVE R \cup {x} \in G
  <2>1. CASE R = {}
    BY <2>1
  <2>2. CASE R # {}
    <3>1. PICK z \in R : \A y \in R : z >= y
      BY <1>2, <2>2
    <3>2. CASE z >= x
      BY <3>1, <3>2
    <3>3. CASE ~(z >= x)
      <4>1. \A y \in R : x >= y
        BY <3>1, <3>3
      <4> QED BY <4>1
    <3> QED BY <3>2, <3>3
  <2> QED BY <2>1, <2>2
<1> HIDE DEF G
<1>3. S \in G
  BY <1>1, <1>2, BySize
<1>4. \E x \in S : \A y \in S : x >= y
  BY <1>3 DEF G
<1> QED BY <1>4 DEF Max

\* All that has happened is in the range of all time.
LEMMA AllOfTime ==
  ASSUME ShopAssumption, now \in Moments \cup {0}, NEW t \in Nat, t <= now
  PROVE  In(t, AllTime)
<1> DEFINE m == Max(Moments)
<1>1. m \in Nat /\ \A y \in Moments : m >= y
  <2>1. Moments \in SUBSET Int /\ Moments \in SUBSET Nat /\ IsFiniteSet(Moments) /\ Moments # {}
    BY DEF ShopAssumption
  <2>2. Max(Moments) \in Moments /\ \A y \in Moments : Max(Moments) >= y
    BY <2>1, MaxOf
  <2> QED BY <2>1, <2>2
<1>2. now <= m /\ now \in Nat
  BY <1>1 DEF ShopAssumption
<1> HIDE DEF m
<1>3. t <= 24 * (m \div 24) + 23
  BY <1>1, <1>2
<1>4. AllTime = [start |-> 24 * 0, end |-> 24 * (m \div 24) + 23]
  BY DEF AllTime, WholeDays, Day, m
<1> QED BY <1>3, <1>4 DEF In

\* Of the movements K, those of a stock row and those of some stores.
OfRow(K, s, v) == {k \in K : movements[k].store = s /\ movements[k].variant = v}
OfStores(K, S) == {k \in K : movements[k].store \in S}

\* A table whose rows are sums of movements adds up to the movements of its stores.
LEMMA TableBooks ==
  ASSUME ShopAssumption, movements \in Seq(MovementRow), NEW K \in SUBSET DOMAIN movements,
         NEW scope \in SUBSET Stores, NEW table,
         \A s \in scope, v \in Variants : table[s][v] = SumOver(Moved, OfRow(K, s, v))
  PROVE  AllStock(scope, table) = SumOver(Moved, OfStores(K, scope))
<1> DEFINE f == Moved
           OfStore(s) == {k \in K : movements[k].store = s}
           All == OfStores(K, scope)
           g == [s \in scope |-> StoreStock(table, s)]
           part == [s \in scope |-> OfStore(s)]
<1>1. /\ IsFiniteSet(K) /\ IsFiniteSet(scope) /\ IsFiniteSet(Variants) /\ \A k \in K : f[k] \in Int
      /\ \A k \in K : movements[k].variant \in Variants
  <2>1. IsFiniteSet(DOMAIN movements) /\ \A k \in DOMAIN movements : f[k] \in Int
    BY MovedType
  <2>2. \A k \in DOMAIN movements : movements[k].variant \in Variants
    <3>1. \A k \in DOMAIN movements : movements[k] \in MovementRow
      OBVIOUS
    <3> QED BY <3>1 DEF MovementRow
  <2>3. IsFiniteSet(K)
    BY <2>1, FS_Subset
  <2> QED BY <2>1, <2>2, <2>3, FS_Subset DEF ShopAssumption
<1>2. ASSUME NEW s \in scope PROVE StoreStock(table, s) = SumOver(f, OfStore(s))
  <2> DEFINE h == [v \in Variants |-> table[s][v]]
             D == OfStore(s)
             share == [v \in Variants |-> {k \in D : movements[k].variant = v}]
  <2>1. StoreStock(table, s) = SumOver(h, Variants)
    BY <1>1, StoreTotal
  <2>2. /\ D \in SUBSET K /\ \A k \in D : f[k] \in Int
        /\ \A v \in Variants : share[v] \in SUBSET D
        /\ \A k \in D : \E v \in Variants : k \in share[v]
        /\ \A v, w \in Variants : \A k \in D : k \in share[v] /\ k \in share[w] => v = w
    BY <1>1
  <2>3. \A v \in Variants : h[v] = SumOver(f, share[v])
    <3> TAKE v \in Variants
    <3>1. share[v] = {k \in K : movements[k].store = s /\ movements[k].variant = v}
      OBVIOUS
    <3>2. h[v] = SumOver(f, {k \in K : movements[k].store = s /\ movements[k].variant = v})
      BY Zenon DEF OfRow
    <3> HIDE DEF h, share, D, f
    <3> QED BY <3>1, <3>2, Zenon
  <2> HIDE DEF h, D, share, f
  <2>4. IsFiniteSet(D)
    BY <1>1, <2>2, FS_Subset
  <2>5. SumOver(h, Variants) = SumOver(f, D)
    BY ONLY <1>1, <2>2, <2>3, <2>4, SumParts
  <2> QED BY <2>1, <2>5, Zenon DEF D
<1>3. AllStock(scope, table) = SumOver(g, scope)
  BY <1>1, TableTotal, Zenon
<1>4. /\ All \in SUBSET K /\ \A k \in All : f[k] \in Int
      /\ \A s \in scope : part[s] \in SUBSET All
      /\ \A k \in All : \E s \in scope : k \in part[s]
      /\ \A r, s \in scope : \A k \in All : k \in part[r] /\ k \in part[s] => r = s
  BY <1>1 DEF OfStores
<1>5. \A s \in scope : g[s] = SumOver(f, part[s])
  <2> TAKE s \in scope
  <2>1. part[s] = OfStore(s)
    OBVIOUS
  <2>2. g[s] = StoreStock(table, s)
    OBVIOUS
  <2> HIDE DEF g, part, All, f, OfStore
  <2> QED BY <1>2, <2>1, <2>2, Zenon
<1> HIDE DEF g, part, All, f
<1>6. IsFiniteSet(All)
  BY <1>1, <1>4, FS_Subset
<1>7. SumOver(g, scope) = SumOver(f, All)
  BY ONLY <1>1, <1>4, <1>5, <1>6, SumParts
<1> QED BY <1>3, <1>7, Zenon DEF All, f

\* The net quantity of a set of movements is its sum.
LEMMA NetIs ==
  ASSUME movements \in Seq(MovementRow), NEW K \in SUBSET DOMAIN movements
  PROVE  NetQuantity(K) = SumOver(Moved, K) /\ NetQuantity(K) \in Int
<1> DEFINE f == [k \in K |-> movements[k].quantity]
           g == Moved
<1>1. IsFiniteSet(DOMAIN movements) /\ \A k \in DOMAIN movements : g[k] \in Int
  BY MovedType
<1>2. IsFiniteSet(K) /\ \A k \in K : g[k] \in Int /\ f[k] = g[k]
  BY <1>1, FS_Subset DEF Moved
<1>3. NetQuantity(K) = SumOver(f, K)
  BY <1>2, MoveQuantities
<1> HIDE DEF f, g
<1>4. SumOver(g, K) = SumOver(f, K) /\ SumOver(g, K) \in Int
  BY <1>2, SumSame, SumTake
<1> QED BY <1>3, <1>4, Zenon DEF g

\* The movements of all time in a scope are those of its stores.
LEMMA MovesOfScope ==
  ASSUME ShopAssumption, ShopTypes, NEW scope
  PROVE  MovesIn(scope, AllTime) = {k \in DOMAIN movements : movements[k].store \in scope}
<1>1. \A k \in DOMAIN movements : In(movements[k].at, AllTime)
  <2> TAKE k \in DOMAIN movements
  <2>1. movements[k] \in MovementRow /\ movements[k].at <= now /\ now \in Moments \cup {0}
    BY DEF ShopTypes
  <2>2. movements[k].at \in Nat
    BY <2>1 DEF MovementRow
  <2> QED BY <2>1, <2>2, AllOfTime
<1> QED BY <1>1 DEF MovesIn

\* Today's stock of a scope is the sum of its movements ...
LEMMA StockIsBooked ==
  ASSUME ShopAssumption, ShopTypes, Ledger, NEW scope \in SUBSET Stores
  PROVE  /\ AllStock(scope, stock) = NetQuantity(MovesIn(scope, AllTime))
         /\ AllStock(scope, stock) \in Int
<1> DEFINE D == DOMAIN movements
           M == OfStores(D, scope)
<1>1. movements \in Seq(MovementRow)
  BY DEF ShopTypes
<1>2. AllStock(scope, stock) = SumOver(Moved, M)
  <2>1. \A s \in scope, v \in Variants :
          stock[s][v] = SumOver(Moved, OfRow(D, s, v))
    BY Zenon DEF Ledger, RowMoves, OfRow
  <2>2. D \in SUBSET DOMAIN movements
    OBVIOUS
  <2> HIDE DEF D
  <2> QED BY <1>1, <2>1, <2>2, TableBooks
<1>3. NetQuantity(M) = SumOver(Moved, M) /\ NetQuantity(M) \in Int
  <2>1. M \in SUBSET DOMAIN movements
    BY DEF OfStores
  <2> HIDE DEF M
  <2> QED BY <1>1, <2>1, NetIs
<1>4. MovesIn(scope, AllTime) = M
  BY MovesOfScope DEF OfStores
<1> HIDE DEF M
<1> QED BY <1>2, <1>3, <1>4, Zenon

\* ... and that of a past day the sum of the movements up to it.
LEMMA PastBooked ==
  ASSUME ShopAssumption, ShopTypes, Past, NEW scope \in SUBSET Stores,
         NEW c \in DOMAIN closing, NEW day \in {closing[c].first, closing[c].last}
  PROVE  /\ AllStock(scope, closing[c].stock)
              = NetQuantity({k \in MovesIn(scope, AllTime) : ~(Day(movements[k].at) > day)})
         /\ AllStock(scope, closing[c].stock) \in Int
<1> DEFINE D == UpTo(DOMAIN movements, day)
           M == OfStores(D, scope)
           table == closing[c].stock
<1>1. movements \in Seq(MovementRow)
  BY DEF ShopTypes
<1>2. D \in SUBSET DOMAIN movements /\ M \in SUBSET DOMAIN movements
  BY DEF UpTo, OfStores
<1>3. \A s \in scope, v \in Variants : table[s][v] = SumOver(Moved, OfRow(D, s, v))
  <2> TAKE s \in scope, v \in Variants
  <2>1. OfRow(D, s, v) = UpTo(RowMoves(s, v), day)
    BY DEF UpTo, RowMoves, OfRow
  <2>2. table[s][v] = SumOver(Moved, UpTo(RowMoves(s, v), day))
    BY PastRow
  <2> HIDE DEF table, D
  <2> QED BY <2>1, <2>2, Zenon
<1>4. {k \in MovesIn(scope, AllTime) : ~(Day(movements[k].at) > day)} = M
  <2>1. day \in Int
    <3>1. closing[c] \in ClosedDays
      BY DEF ShopTypes
    <3> QED BY <3>1 DEF ClosedDays
  <2>2. \A k \in DOMAIN movements : Day(movements[k].at) \in Int
    <3>1. \A k \in DOMAIN movements : movements[k] \in MovementRow
      BY <1>1
    <3> QED BY <3>1 DEF MovementRow, Day
  <2>3. \A k \in DOMAIN movements : ~(Day(movements[k].at) > day) <=> Day(movements[k].at) <= day
    BY <2>1, <2>2
  <2> QED BY <2>3, MovesOfScope DEF UpTo, OfStores
<1> HIDE DEF table, D
<1>5. AllStock(scope, table) = SumOver(Moved, M)
  BY <1>1, <1>2, <1>3, TableBooks DEF M
<1> HIDE DEF M
<1>6. NetQuantity(M) = SumOver(Moved, M) /\ NetQuantity(M) \in Int
  BY <1>1, <1>2, NetIs
<1> QED BY <1>4, <1>5, <1>6, Zenon DEF table

\* The stock of open rows is a natural number.
LEMMA LinkedStock ==
  ASSUME ShopAssumption, ShopTypes, NEW scope \in SUBSET Stores, NEW R \in SUBSET LinkedRows(scope)
  PROVE  /\ IsFiniteSet(R) /\ StockOf(R) \in Nat
         /\ StockOf(R) = SumOver([r \in R |-> stock[r[1]][r[2]]], R)
         /\ \A r \in R : r[1] \in scope /\ r[1] \in Stores /\ r[2] \in Variants /\ stock[r[1]][r[2]] \in Nat
<1> DEFINE f == [r \in R |-> stock[r[1]][r[2]]]
<1>1. IsFiniteSet(R)
  <2>1. IsFiniteSet(scope) /\ IsFiniteSet(Variants)
    BY FS_Subset DEF ShopAssumption
  <2>2. IsFiniteSet(scope \X Variants)
    BY <2>1, FS_Product
  <2>3. R \in SUBSET (scope \X Variants)
    BY DEF LinkedRows
  <2> QED BY <2>2, <2>3, FS_Subset
<1>2. \A r \in R : r[1] \in scope /\ r[1] \in Stores /\ r[2] \in Variants
  BY DEF LinkedRows
<1>3. \A r \in R : stock[r[1]][r[2]] \in Nat
  BY <1>2 DEF ShopTypes
<1>4. StockOf(R) = SumOver(f, R)
  BY <1>1, RowQuantities
<1>5. \A r \in R : f[r] \in Nat
  BY <1>3
<1>6. SumOver(f, R) \in Nat
  <2> HIDE DEF f
  <2> QED BY <1>1, <1>5, SumNat
<1> HIDE DEF f
<1> QED BY <1>1, <1>2, <1>3, <1>4, <1>6 DEF f

\* getTotalStockQuantityReport: the stock of a past day, computed backwards from today, is the
\* stock of that day less what is in closed rows.
LEMMA PastRebuilt ==
  ASSUME ShopAssumption, ShopTypes, Ledger, Past, NEW scope \in SUBSET Stores
  PROVE  PastIsRebuilt(scope)
<1> SUFFICES ASSUME NEW c \in DOMAIN closing, NEW day \in {closing[c].first, closing[c].last}
             PROVE  TotalStockQuantity(scope, day) = AllStock(scope, closing[c].stock) - ClosedStock(scope)
  BY DEF PastIsRebuilt
<1> DEFINE M == MovesIn(scope, AllTime)
           A == {k \in M : ~(Day(movements[k].at) > day)}
           B == {k \in M : Day(movements[k].at) > day}
           open == StockOf(LinkedRows(scope))
<1>1. movements \in Seq(MovementRow) /\ M \in SUBSET DOMAIN movements
  BY DEF ShopTypes, MovesIn
<1>2. AllStock(scope, stock) = NetQuantity(M)
  BY StockIsBooked
<1>3. AllStock(scope, closing[c].stock) = NetQuantity(A)
  BY PastBooked
<1>4. open \in Nat
  BY LinkedStock
<1>5. NetQuantity(M) = NetQuantity(A) + NetQuantity(B) /\ NetQuantity(A) \in Int /\ NetQuantity(B) \in Int
  <2>1. A \in SUBSET M /\ B \in SUBSET M /\ A \cap B = {} /\ A \cup B = M
        /\ A \in SUBSET DOMAIN movements /\ B \in SUBSET DOMAIN movements
    BY <1>1
  <2> HIDE DEF A, B, M
  <2>2. /\ NetQuantity(A) = SumOver(Moved, A) /\ NetQuantity(A) \in Int
        /\ NetQuantity(B) = SumOver(Moved, B) /\ NetQuantity(B) \in Int
        /\ NetQuantity(M) = SumOver(Moved, M)
    BY <1>1, <2>1, NetIs
  <2>3. IsFiniteSet(DOMAIN movements) /\ \A k \in DOMAIN movements : Moved[k] \in Int
    BY <1>1, MovedType
  <2>4. SumOver(Moved, A \cup B) = SumOver(Moved, A) + SumOver(Moved, B)
    BY <2>1, <2>3, SumUnion
  <2>5. SumOver(Moved, M) = SumOver(Moved, A) + SumOver(Moved, B)
    BY <2>1, <2>4, Zenon
  <2> QED BY <2>2, <2>5, Zenon
<1>6. TotalStockQuantity(scope, day) = open - NetQuantity(B)
  BY Zenon DEF TotalStockQuantity
<1>7. ClosedStock(scope) = AllStock(scope, stock) - open
  BY DEF ClosedStock
<1> HIDE DEF M, A, B, open
<1> QED BY <1>2, <1>3, <1>4, <1>5, <1>6, <1>7

\* Movements that are grouped add up to those that are not.
LEMMA GroupedNet ==
  ASSUME movements \in Seq(MovementRow), NEW C \in SUBSET DOMAIN movements, NEW key, NEW rows, NEW part,
         \A k \in C : key[k] \in DOMAIN rows /\ k \in part[key[k]],
         \A t \in DOMAIN rows : \E k \in C : t = key[k],
         \A t \in DOMAIN rows : part[t] \in SUBSET C /\ \A k \in part[t] : key[k] = t,
         \A t \in DOMAIN rows : rows[t].totalQuantity = NetQuantity(part[t])
  PROVE  Column(rows, LAMBDA r : r.totalQuantity) = NetQuantity(C)
<1> DEFINE T == DOMAIN rows
           f == Moved
           g == [t \in T |-> rows[t].totalQuantity]
<1>1. IsFiniteSet(DOMAIN movements) /\ \A k \in DOMAIN movements : f[k] \in Int
  BY MovedType
<1>2. IsFiniteSet(C) /\ \A k \in C : f[k] \in Int
  BY <1>1, FS_Subset
<1>3. IsFiniteSet(T)
  <2> HIDE DEF T
  <2>1. \A t \in T : \E k \in C : t = key[k]
    BY DEF T
  <2> QED BY <1>2, <2>1, FiniteImage
<1>4. Column(rows, LAMBDA r : r.totalQuantity) = SumOver(g, T)
  BY <1>3, ColumnTotal, Zenon
<1>5. /\ \A t \in T : part[t] \in SUBSET C
      /\ \A k \in C : \E t \in T : k \in part[t]
      /\ \A t, u \in T : \A k \in C : k \in part[t] /\ k \in part[u] => t = u
  OBVIOUS
<1>6. \A t \in T : g[t] = SumOver(f, part[t])
  <2> TAKE t \in T
  <2>1. g[t] = NetQuantity(part[t]) /\ part[t] \in SUBSET DOMAIN movements
    OBVIOUS
  <2> HIDE DEF g, T
  <2> QED BY <2>1, NetIs
<1> HIDE DEF T, f, g
<1>7. SumOver(g, T) = SumOver(f, C)
  BY ONLY <1>2, <1>3, <1>5, <1>6, SumParts
<1>8. NetQuantity(C) = SumOver(f, C)
  BY NetIs DEF f
<1> QED BY <1>4, <1>7, <1>8, Zenon

\* getInventoryMovementsSummaryReport: the movements by type add up to the stock;
\* getCOGSMovementReport: those by variant to the receipts.
LEMMA MovementsAdded ==
  ASSUME ShopAssumption, ShopTypes, Ledger, NEW scope \in SUBSET Stores
  PROVE  MovementsAddUp(scope)
<1> DEFINE M == MovesIn(scope, AllTime)
           C == {k \in M : movements[k].type = "IN"}
           summary == InventoryMovementsSummary(scope, AllTime)
           costs == COGSMovement(scope, AllTime)
           type == [k \in M |-> movements[k].type]
           variant == [k \in C |-> movements[k].variant]
           ofType == [t \in DOMAIN summary |-> {k \in M : movements[k].type = t}]
           ofVariant == [v \in DOMAIN costs |-> {k \in C : movements[k].variant = v}]
<1>1. movements \in Seq(MovementRow) /\ M \in SUBSET DOMAIN movements /\ C \in SUBSET DOMAIN movements
  BY DEF ShopTypes, MovesIn
<1>2. /\ DOMAIN summary = {movements[k].type : k \in M}
      /\ \A t \in DOMAIN summary : summary[t].totalQuantity = NetQuantity(ofType[t])
  <2>1. summary = [t \in {movements[k].type : k \in M} |->
                     [movementCount |-> Cardinality({k \in M : movements[k].type = t}),
                      totalQuantity |-> NetQuantity({k \in M : movements[k].type = t})]]
    BY Zenon DEF InventoryMovementsSummary, Grouped
  <2>2. DOMAIN summary = {movements[k].type : k \in M}
    BY <2>1, Zenon
  <2>3. ASSUME NEW t \in DOMAIN summary
        PROVE  summary[t].totalQuantity = NetQuantity(ofType[t])
    <3>1. summary[t] = [movementCount |-> Cardinality({k \in M : movements[k].type = t}),
                        totalQuantity |-> NetQuantity({k \in M : movements[k].type = t})]
      BY <2>1, <2>2, Zenon
    <3>2. ofType[t] = {k \in M : movements[k].type = t}
      BY Zenon
    <3> HIDE DEF M, summary, ofType
    <3>3. summary[t].totalQuantity = NetQuantity({k \in M : movements[k].type = t})
      BY <3>1
    <3> QED BY <3>2, <3>3, Zenon
  <2> QED BY <2>2, <2>3, Zenon
<1>3. /\ DOMAIN costs = {movements[k].variant : k \in C}
      /\ \A v \in DOMAIN costs : costs[v].totalQuantity = NetQuantity(ofVariant[v])
  <2>1. costs = [v \in {movements[k].variant : k \in C} |->
                     [totalQuantity |-> NetQuantity({k \in C : movements[k].variant = v}),
                      totalCost |-> TotalOf(LAMBDA k : Price(k) * movements[k].quantity, {k \in C : movements[k].variant = v})]]
    BY Zenon DEF COGSMovement, Grouped
  <2>2. DOMAIN costs = {movements[k].variant : k \in C}
    BY <2>1, Zenon
  <2>3. ASSUME NEW v \in DOMAIN costs
        PROVE  costs[v].totalQuantity = NetQuantity(ofVariant[v])
    <3>1. costs[v] = [totalQuantity |-> NetQuantity({k \in C : movements[k].variant = v}),
                      totalCost |-> TotalOf(LAMBDA k : Price(k) * movements[k].quantity, {k \in C : movements[k].variant = v})]
      BY <2>1, <2>2, Zenon
    <3>2. ofVariant[v] = {k \in C : movements[k].variant = v}
      BY Zenon
    <3> HIDE DEF C, costs, ofVariant
    <3>3. \A q, c : costs[v] = [totalQuantity |-> q, totalCost |-> c] => costs[v].totalQuantity = q
      OBVIOUS
    <3>4. costs[v].totalQuantity = NetQuantity({k \in C : movements[k].variant = v})
      BY <3>1, <3>3, Zenon
    <3> QED BY <3>2, <3>4, Zenon
  <2> QED BY <2>2, <2>3, Zenon
<1>4. Column(summary, LAMBDA r : r.totalQuantity) = AllStock(scope, stock)
  <2>1. AllStock(scope, stock) = NetQuantity(M)
    BY StockIsBooked
  <2>2. /\ \A k \in M : type[k] \in DOMAIN summary /\ k \in ofType[type[k]]
        /\ \A t \in DOMAIN summary : \E k \in M : t = type[k]
        /\ \A t \in DOMAIN summary : ofType[t] \in SUBSET M /\ \A k \in ofType[t] : type[k] = t
    <3> HIDE DEF summary, M
    <3> QED BY <1>2
  <2> HIDE DEF summary, M, type, ofType
  <2>3. Column(summary, LAMBDA r : r.totalQuantity) = NetQuantity(M)
    BY ONLY <1>1, <1>2, <2>2, GroupedNet
  <2> QED BY <2>1, <2>3, Zenon
<1>5. Column(costs, LAMBDA r : r.totalQuantity) = NetQuantity(C)
  <2>2. /\ \A k \in C : variant[k] \in DOMAIN costs /\ k \in ofVariant[variant[k]]
        /\ \A v \in DOMAIN costs : \E k \in C : v = variant[k]
        /\ \A v \in DOMAIN costs : ofVariant[v] \in SUBSET C /\ \A k \in ofVariant[v] : variant[k] = v
    <3> HIDE DEF costs, C
    <3> QED BY <1>3
  <2> HIDE DEF costs, C, variant, ofVariant
  <2> QED BY ONLY <1>1, <1>3, <2>2, GroupedNet
<1>6. CASE "IN" \in DOMAIN summary
  <2>1. summary["IN"].totalQuantity = NetQuantity(ofType["IN"])
    BY <1>2, <1>6
  <2>2. ofType["IN"] = C
    BY <1>6
  <2> HIDE DEF C, M, ofType, summary
  <2>3. summary["IN"].totalQuantity = NetQuantity(C)
    BY <2>1, <2>2, Zenon
  <2> QED BY <1>4, <1>5, <1>6, <2>3, Zenon DEF MovementsAddUp, summary, costs
<1>7. CASE "IN" \notin DOMAIN summary
  <2>1. C = {}
    BY <1>2, <1>7
  <2>2. NetQuantity({}) = SumOver(Moved, {})
    BY <1>1, NetIs
  <2>3. SumOver(Moved, {}) = 0
    BY SumEmpty
  <2> HIDE DEF C, summary
  <2>4. NetQuantity(C) = 0
    BY <2>1, <2>2, <2>3, Zenon
  <2> QED BY <1>4, <1>5, <1>7, <2>4, Zenon DEF MovementsAddUp, summary, costs
<1> QED BY <1>6, <1>7

\* The stock, by row.
Shelf == [r \in Stores \X Variants |-> stock[r[1]][r[2]]]

\* The stock of open rows as a sum over one function, whatever the scope.
LEMMA ShelfStock ==
  ASSUME ShopAssumption, ShopTypes, NEW scope \in SUBSET Stores, NEW R \in SUBSET LinkedRows(scope)
  PROVE  /\ IsFiniteSet(R) /\ StockOf(R) = SumOver(Shelf, R) /\ StockOf(R) \in Nat
         /\ \A r \in R : /\ r \in Stores \X Variants /\ r[1] \in scope
                         /\ Shelf[r] \in Nat /\ Shelf[r] = stock[r[1]][r[2]]
<1> DEFINE f == [r \in R |-> stock[r[1]][r[2]]]
<1>1. /\ IsFiniteSet(R) /\ StockOf(R) \in Nat /\ StockOf(R) = SumOver(f, R)
      /\ \A r \in R : r[1] \in scope /\ r[1] \in Stores /\ r[2] \in Variants /\ stock[r[1]][r[2]] \in Nat
  BY LinkedStock
<1>2. \A r \in R : r \in Stores \X Variants
  BY DEF LinkedRows
<1>3. \A r \in R : Shelf[r] \in Nat /\ Shelf[r] = stock[r[1]][r[2]] /\ f[r] = Shelf[r]
  BY <1>1, <1>2 DEF Shelf
<1> HIDE DEF f
<1>4. SumOver(Shelf, R) = SumOver(f, R)
  BY ONLY <1>1, <1>3, SumSame
<1> QED BY <1>1, <1>2, <1>3, <1>4

\* getStockSummaryReport: the products share the open rows.
LEMMA ProductsAddUp ==
  ASSUME ShopAssumption, ShopTypes, NEW scope \in SUBSET Stores
  PROVE  TotalOf(LAMBDA p : StockSummary(scope)[p], DOMAIN StockSummary(scope)) = StockOf(LinkedRows(scope))
<1> DEFINE L == LinkedRows(scope)
           summary == StockSummary(scope)
           P == DOMAIN summary
           g == [p \in P |-> summary[p]]
           part == [p \in P |-> {r \in L : Product[r[2]] = p}]
           key == [r \in L |-> Product[r[2]]]
<1>1. /\ IsFiniteSet(L) /\ StockOf(L) = SumOver(Shelf, L)
      /\ \A r \in L : Shelf[r] \in Int
  <2>1. L \in SUBSET LinkedRows(scope)
    OBVIOUS
  <2> HIDE DEF L
  <2>2. /\ IsFiniteSet(L) /\ StockOf(L) = SumOver(Shelf, L)
        /\ \A r \in L : Shelf[r] \in Nat
    BY <2>1, ShelfStock, Zenon
  <2> QED BY <2>2
<1>2. summary = [p \in {Product[r[2]] : r \in L} |-> StockOf({r \in L : Product[r[2]] = p})]
  BY Zenon DEF StockSummary, Grouped
<1>3. P = {Product[r[2]] : r \in L}
  BY <1>2, Zenon
<1>4. \A p \in P : g[p] = SumOver(Shelf, part[p])
  <2> SUFFICES ASSUME NEW p \in P PROVE g[p] = SumOver(Shelf, part[p])
    OBVIOUS
  <2>1. summary[p] = StockOf({r \in L : Product[r[2]] = p})
    BY <1>2, <1>3, Zenon
  <2>2. {r \in L : Product[r[2]] = p} = part[p] /\ part[p] \in SUBSET LinkedRows(scope)
    OBVIOUS
  <2>3. g[p] = summary[p]
    BY Zenon
  <2>4. StockOf(part[p]) = SumOver(Shelf, part[p])
    <3> HIDE DEF part, g, P, L, summary
    <3> QED BY <2>2, ShelfStock
  <2> QED BY <2>1, <2>2, <2>3, <2>4, Zenon
<1>5. /\ \A p \in P : part[p] \in SUBSET L
      /\ \A r \in L : \E p \in P : r \in part[p]
      /\ \A p, q \in P : \A r \in L : r \in part[p] /\ r \in part[q] => p = q
      /\ \A p \in P : \E r \in L : p = key[r]
  <2> HIDE DEF L, P
  <2> QED BY <1>3 DEF part, key
<1>6. IsFiniteSet(P)
  <2> HIDE DEF L, P, key
  <2> QED BY ONLY <1>1, <1>5, FiniteImage
<1>7. TotalOf(LAMBDA p : StockSummary(scope)[p], DOMAIN StockSummary(scope)) = SumOver(g, P)
  BY <1>6, ProductTotal, Zenon
<1>8. SumOver(g, P) = SumOver(Shelf, L)
  <2> HIDE DEF L, P, g, part, key
  <2>1. IsFiniteSet(L) /\ \A r \in L : Shelf[r] \in Int
    BY <1>1
  <2>2. /\ \A p \in P : part[p] \in SUBSET L
        /\ \A r \in L : \E p \in P : r \in part[p]
        /\ \A p, q \in P : \A r \in L : r \in part[p] /\ r \in part[q] => p = q
    BY <1>5
  <2> QED BY ONLY <1>4, <1>6, <2>1, <2>2, SumParts
<1> QED BY <1>1, <1>7, <1>8, Zenon DEF L

\* getLowStockReport with a threshold of zero shows rows that hold nothing.
LEMMA LowIsEmpty ==
  ASSUME ShopAssumption, ShopTypes, NEW scope \in SUBSET Stores
  PROVE  StockOf(LowStock(scope, 0)) = 0
<1> DEFINE R == LowStock(scope, 0)
<1>1. R \in SUBSET LinkedRows(scope) /\ \A r \in R : stock[r[1]][r[2]] <= 0
  BY DEF LowStock
<1> HIDE DEF R
<1>2. /\ IsFiniteSet(R) /\ StockOf(R) = SumOver(Shelf, R)
      /\ \A r \in R : Shelf[r] \in Nat /\ Shelf[r] = stock[r[1]][r[2]]
  <2>1. R \in SUBSET LinkedRows(scope)
    BY <1>1
  <2>2. /\ IsFiniteSet(R) /\ StockOf(R) = SumOver(Shelf, R) /\ StockOf(R) \in Nat
        /\ \A r \in R : /\ r \in Stores \X Variants /\ r[1] \in scope
                        /\ Shelf[r] \in Nat /\ Shelf[r] = stock[r[1]][r[2]]
    BY <2>1, ShelfStock
  <2> QED BY <2>2
<1>3. \A r \in R \ {} : Shelf[r] = 0
  BY <1>1, <1>2
<1>4. SumOver(Shelf, R) = SumOver(Shelf, {})
  <2>1. \A r \in R : Shelf[r] \in Int
    BY <1>2
  <2> QED BY ONLY <1>2, <1>3, <2>1, SumWithout
<1> QED BY <1>2, <1>4, SumEmpty DEF R

\* The stock of a variant is that of its rows, and zero when each of them is empty.
LEMMA VariantRows ==
  ASSUME ShopAssumption, ShopTypes, NEW scope \in SUBSET Stores, NEW v
  PROVE  /\ VariantStock(scope, v) \in Nat
         /\ VariantStock(scope, v) = SumOver(Shelf, {r \in LinkedRows(scope) : r[2] = v})
         /\ (VariantStock(scope, v) = 0) <=> \A r \in LinkedRows(scope) : r[2] = v => stock[r[1]][r[2]] = 0
<1> DEFINE R == {r \in LinkedRows(scope) : r[2] = v}
<1>1. R \in SUBSET LinkedRows(scope) /\ VariantStock(scope, v) = StockOf(R)
  BY DEF VariantStock
<1>2. \A r \in LinkedRows(scope) : r[2] = v <=> r \in R
  OBVIOUS
<1> HIDE DEF R
<1>3. /\ IsFiniteSet(R) /\ StockOf(R) = SumOver(Shelf, R) /\ StockOf(R) \in Nat
      /\ \A r \in R : Shelf[r] \in Nat /\ Shelf[r] = stock[r[1]][r[2]]
  <2>1. R \in SUBSET LinkedRows(scope)
    BY <1>1
  <2>2. /\ IsFiniteSet(R) /\ StockOf(R) = SumOver(Shelf, R) /\ StockOf(R) \in Nat
        /\ \A r \in R : /\ r \in Stores \X Variants /\ r[1] \in scope
                        /\ Shelf[r] \in Nat /\ Shelf[r] = stock[r[1]][r[2]]
    BY <2>1, ShelfStock
  <2> QED BY <2>2
<1>4. ASSUME StockOf(R) = 0, NEW r \in R PROVE stock[r[1]][r[2]] = 0
  <2>1. Shelf[r] <= SumOver(Shelf, R)
    BY ONLY <1>3, <1>4, SumPositive
  <2> QED BY <1>3, <1>4, <2>1
<1>5. ASSUME \A r \in R : stock[r[1]][r[2]] = 0 PROVE StockOf(R) = 0
  <2>1. \A r \in R \ {} : Shelf[r] = 0
    BY <1>3, <1>5
  <2>2. \A r \in R : Shelf[r] \in Int
    BY <1>3
  <2>3. SumOver(Shelf, R) = SumOver(Shelf, {})
    BY ONLY <1>3, <2>1, <2>2, SumWithout
  <2> QED BY <1>3, <2>3, SumEmpty
<1>6. (StockOf(R) = 0) <=> \A r \in LinkedRows(scope) : r[2] = v => stock[r[1]][r[2]] = 0
  <2>1. \A r \in R : r \in LinkedRows(scope) /\ r[2] = v
    BY DEF R
  <2> QED BY <1>2, <1>4, <1>5, <2>1
<1> QED BY <1>1, <1>3, <1>6 DEF R

\* The ages are finitely many.
LEMMA Fives == IsFiniteSet(1..5)
<1>1. 1 \in Int /\ 5 \in Int
  OBVIOUS
<1> QED BY <1>1, FS_Interval, Zenon

\* getStockAgingReport: the ages share the variants.
LEMMA AgesAddUp ==
  ASSUME ShopAssumption, ShopTypes, NEW scope \in SUBSET Stores
  PROVE  TotalOf(LAMBDA b : StockAging(scope)[b], 1..5) = StockOf(LinkedRows(scope))
<1> DEFINE L == LinkedRows(scope)
           V == LinkedVariants(scope)
           W == {v \in V : VariantStock(scope, v) > 0}
           age(v) == AgingBucket(DaysInStock(scope, v))
           h == [v \in V |-> VariantStock(scope, v)]
           g == [b \in 1..5 |-> StockAging(scope)[b]]
           old == [b \in 1..5 |-> {v \in V : VariantStock(scope, v) > 0 /\ age(v) = b}]
           part == [v \in V |-> {r \in L : r[2] = v}]
           key == [r \in L |-> r[2]]
<1>1. /\ IsFiniteSet(L) /\ StockOf(L) = SumOver(Shelf, L)
      /\ \A r \in L : Shelf[r] \in Int
  <2>1. L \in SUBSET LinkedRows(scope)
    OBVIOUS
  <2> HIDE DEF L
  <2>2. /\ IsFiniteSet(L) /\ StockOf(L) = SumOver(Shelf, L)
        /\ \A r \in L : Shelf[r] \in Nat
    BY <2>1, ShelfStock, Zenon
  <2> QED BY <2>2
<1>2. V = {r[2] : r \in L}
  BY DEF LinkedVariants
<1>3. /\ \A v \in V : part[v] \in SUBSET L
      /\ \A r \in L : \E v \in V : r \in part[v]
      /\ \A v, w \in V : \A r \in L : r \in part[v] /\ r \in part[w] => v = w
      /\ \A v \in V : \E r \in L : v = key[r]
  <2> HIDE DEF L, V
  <2> QED BY <1>2 DEF part, key
<1>4. IsFiniteSet(V)
  <2> HIDE DEF L, V, key
  <2> QED BY ONLY <1>1, <1>3, FiniteImage
<1>5. \A v \in V : /\ h[v] \in Int /\ h[v] = SumOver(Shelf, part[v])
                   /\ h[v] = VariantStock(scope, v)
                   /\ v \notin W => h[v] = 0
  <2> SUFFICES ASSUME NEW v \in V
               PROVE  /\ h[v] \in Int /\ h[v] = SumOver(Shelf, part[v])
                      /\ h[v] = VariantStock(scope, v)
                      /\ v \notin W => h[v] = 0
    OBVIOUS
  <2>1. /\ VariantStock(scope, v) \in Nat
        /\ VariantStock(scope, v) = SumOver(Shelf, {r \in LinkedRows(scope) : r[2] = v})
    BY VariantRows
  <2>2. VariantStock(scope, v) \in Int /\ (VariantStock(scope, v) > 0 \/ VariantStock(scope, v) = 0)
    BY <2>1
  <2>3. part[v] = {r \in LinkedRows(scope) : r[2] = v} /\ h[v] = VariantStock(scope, v)
    BY Zenon
  <2>4. VariantStock(scope, v) > 0 => v \in W
    BY Zenon
  <2> QED BY <2>1, <2>2, <2>3, <2>4, Zenon
<1>6. SumOver(h, V) = StockOf(L)
  <2> HIDE DEF L, V, h, part, key
  <2>1. \A v \in V : h[v] = SumOver(Shelf, part[v])
    BY <1>5
  <2>2. SumOver(h, V) = SumOver(Shelf, L)
    <3>1. IsFiniteSet(L) /\ \A r \in L : Shelf[r] \in Int
      BY <1>1
    <3>2. /\ \A v \in V : part[v] \in SUBSET L
          /\ \A r \in L : \E v \in V : r \in part[v]
          /\ \A v, w \in V : \A r \in L : r \in part[v] /\ r \in part[w] => v = w
      BY <1>3
    <3> QED BY ONLY <1>4, <2>1, <3>1, <3>2, SumParts
  <2> QED BY <1>1, <2>2
<1>7. W \in SUBSET V /\ IsFiniteSet(W) /\ (\A v \in W : h[v] \in Int) /\ (\A v \in V \ W : h[v] = 0)
  <2>1. W \in SUBSET V
    OBVIOUS
  <2>2. IsFiniteSet(W)
    <3> HIDE DEF V, W
    <3> QED BY <1>4, <2>1, FS_Subset
  <2> HIDE DEF V, W, h
  <2> QED BY <1>5, <2>1, <2>2, Zenon
<1>8. SumOver(h, V) = SumOver(h, W)
  <2> HIDE DEF V, W, h
  <2>1. \A v \in V : h[v] \in Int
    BY <1>5, Zenon
  <2> QED BY ONLY <1>4, <1>7, <2>1, SumWithout
<1>9. /\ \A b \in 1..5 : old[b] \in SUBSET W
      /\ \A v \in W : \E b \in 1..5 : v \in old[b]
      /\ \A b, c \in 1..5 : \A v \in W : v \in old[b] /\ v \in old[c] => b = c
  <2>1. \A v \in V : age(v) \in 1..5
    BY DEF AgingBucket
  <2> HIDE DEF V, age
  <2> QED BY <2>1
<1>10. \A b \in 1..5 : g[b] = SumOver(h, old[b])
  <2> SUFFICES ASSUME NEW b \in 1..5 PROVE g[b] = SumOver(h, old[b])
    OBVIOUS
  <2> DEFINE f == [v \in old[b] |-> VariantStock(scope, v)]
  <2>1. old[b] \in SUBSET V /\ IsFiniteSet(old[b])
    <3>1. old[b] \in SUBSET V
      OBVIOUS
    <3> HIDE DEF V, old
    <3> QED BY <1>4, <3>1, FS_Subset
  <2>2. g[b] = TotalOf(LAMBDA v : VariantStock(scope, v), old[b])
    <3>1. StockAging(scope)[b]
            = TotalOf(LAMBDA v : VariantStock(scope, v),
                      {v \in LinkedVariants(scope) : /\ VariantStock(scope, v) > 0
                                                     /\ AgingBucket(DaysInStock(scope, v)) = b})
      BY Zenon DEF StockAging
    <3>2. old[b] = {v \in LinkedVariants(scope) : /\ VariantStock(scope, v) > 0
                                                     /\ AgingBucket(DaysInStock(scope, v)) = b}
      BY Zenon
    <3>3. g[b] = StockAging(scope)[b]
      BY Zenon
    <3> QED BY <3>1, <3>2, <3>3, Zenon
  <2>3. TotalOf(LAMBDA v : VariantStock(scope, v), old[b]) = SumOver(f, old[b])
    BY <2>1, VariantTotal, Zenon
  <2>4. \A v \in old[b] : f[v] \in Int /\ h[v] = f[v]
    <3>1. \A v \in old[b] : f[v] = VariantStock(scope, v)
      BY Zenon
    <3> HIDE DEF old, f, V, h
    <3> QED BY <1>5, <2>1, <3>1, Zenon
  <2> HIDE DEF f, old, h
  <2>5. SumOver(f, old[b]) = SumOver(h, old[b])
    BY ONLY <2>1, <2>4, SumSame
  <2> QED BY <2>2, <2>3, <2>5, Zenon
<1>11. IsFiniteSet(1..5)
  BY Fives
<1>12. TotalOf(LAMBDA b : StockAging(scope)[b], 1..5) = SumOver(g, 1..5)
  BY <1>11, AgeTotal, Zenon
<1>13. SumOver(g, 1..5) = SumOver(h, W)
  <2> HIDE DEF g, h, W, old
  <2> QED BY ONLY <1>7, <1>9, <1>10, <1>11, SumParts
<1> QED BY <1>6, <1>8, <1>12, <1>13, Zenon DEF L

\* The reports of open rows agree.
LEMMA RowsAdded ==
  ASSUME ShopAssumption, ShopTypes, NEW scope \in SUBSET Stores
  PROVE  RowsAddUp(scope)
<1> DEFINE summary == StockSummary(scope)
           ranking == ProductPerformanceRanking(scope, AllTime)
<1>1. TotalOf(LAMBDA p : summary[p], DOMAIN summary)
        = StockOf(LowStock(scope, 0)) + TotalOf(LAMBDA b : StockAging(scope)[b], 1..5)
  <2>1. TotalOf(LAMBDA p : StockSummary(scope)[p], DOMAIN StockSummary(scope)) = StockOf(LinkedRows(scope))
    BY ProductsAddUp
  <2>2. TotalOf(LAMBDA b : StockAging(scope)[b], 1..5) = StockOf(LinkedRows(scope))
    BY AgesAddUp
  <2>3. StockOf(LowStock(scope, 0)) = 0 /\ StockOf(LinkedRows(scope)) \in Nat
    BY LowIsEmpty, ShelfStock
  <2>4. StockOf(LinkedRows(scope)) = StockOf(LowStock(scope, 0)) + StockOf(LinkedRows(scope))
    BY <2>3
  <2> QED BY <2>1, <2>2, <2>4, Zenon
<1>2. ASSUME NEW v \in DOMAIN ranking \cap Variants
      PROVE  (ranking[v].stockStatus = "OUT_OF_STOCK")
               = ({r \in LinkedRows(scope) : r[2] = v} \subseteq LowStock(scope, 0))
  <2>1. v \notin Packages
    BY DEF ShopAssumption
  <2>2. ranking[v].stockStatus
          = IF VariantStock(scope, v) <= 0 THEN "OUT_OF_STOCK"
            ELSE IF VariantStock(scope, v) <= 10 THEN "LOW" ELSE "IN_STOCK"
    BY <2>1 DEF ProductPerformanceRanking
  <2>3. /\ VariantStock(scope, v) \in Nat
        /\ (VariantStock(scope, v) = 0) <=> \A r \in LinkedRows(scope) : r[2] = v => stock[r[1]][r[2]] = 0
    BY VariantRows
  <2> HIDE DEF ranking
  <2>4. (ranking[v].stockStatus = "OUT_OF_STOCK") <=> VariantStock(scope, v) = 0
    BY <2>2, <2>3
  <2>5. \A r \in LinkedRows(scope) : stock[r[1]][r[2]] \in Nat
    <3>1. LinkedRows(scope) \in SUBSET LinkedRows(scope)
      OBVIOUS
    <3> QED BY <3>1, LinkedStock
  <2>6. ({r \in LinkedRows(scope) : r[2] = v} \subseteq LowStock(scope, 0))
          <=> \A r \in LinkedRows(scope) : r[2] = v => stock[r[1]][r[2]] = 0
    BY <2>5 DEF LowStock
  <2>7. (ranking[v].stockStatus = "OUT_OF_STOCK") <=> ({r \in LinkedRows(scope) : r[2] = v} \subseteq LowStock(scope, 0))
    BY <2>3, <2>4, <2>6, Zenon
  <2>8. (ranking[v].stockStatus = "OUT_OF_STOCK") \in BOOLEAN
        /\ ({r \in LinkedRows(scope) : r[2] = v} \subseteq LowStock(scope, 0)) \in BOOLEAN
    BY Zenon
  <2> QED BY <2>7, <2>8, Zenon
<1> QED BY <1>1, <1>2, Zenon DEF RowsAddUp

-----------------------------------------------------------------------------
(* Lines with no discount above their price. *)

\* A larger factor has a larger product.
LEMMA TimesAtMost ==
  ASSUME NEW a \in Nat, NEW b \in Nat, a <= b, NEW q \in Nat
  PROVE  a * q <= b * q
<1>1. PICK e \in Nat : b = a + e
  <2>1. b - a \in Nat /\ b = a + (b - a)
    OBVIOUS
  <2> QED BY <2>1
<1>2. b * q = a * q + e * q
  BY <1>1
<1>3. a * q \in Nat /\ e * q \in Nat
  BY <1>1, TimesNat
<1> QED BY <1>2, <1>3

\* A line with no discount above its price has a total that is not negative ...
LEMMA FairAmount ==
  ASSUME NEW l \in LineRow, FairLine(l)
  PROVE  AmountOf(l) \in Nat
<1>1. /\ l.quantity \in Nat /\ l.unitPrice \in Nat
      /\ l.discountAmount \in OrNull(Nat) /\ l.discountPercent \in OrNull(Nat)
      /\ l.taxAmount \in OrNull(Nat) /\ l.taxPercent \in OrNull(Nat)
  BY DEF LineRow
<1>2. Net(l) \in Nat
  BY <1>1, TimesNat DEF Net
<1>3. Discount(l, Net(l)) \in Nat /\ Discount(l, Net(l)) <= Net(l)
  <2>1. CASE l.discountAmount # Null
    BY <1>1, <2>1 DEF Discount, FairLine, OrNull
  <2>2. CASE l.discountAmount = Null /\ l.discountPercent # Null
    <3> DEFINE p == l.discountPercent
               n == Net(l)
    <3>1. p \in Nat /\ p <= 100 /\ n \in Nat
      BY <1>1, <1>2, <2>2 DEF FairLine, OrNull
    <3>2. Discount(l, Net(l)) = (n * p) \div 100
      BY <2>2 DEF Discount
    <3> HIDE DEF p, n
    <3>3. p * n <= 100 * n /\ n * p \in Nat /\ n * p = p * n
      BY <3>1, TimesAtMost, TimesNat
    <3>4. (n * p) \div 100 \in Nat /\ (n * p) \div 100 <= n
      BY <3>1, <3>3, DivAtMost, DivNat
    <3> QED BY <3>2, <3>4 DEF n
  <2>3. CASE l.discountAmount = Null /\ l.discountPercent = Null
    BY <1>2, <2>3 DEF Discount
  <2> QED BY <2>1, <2>2, <2>3
<1>4. Taxable(l) \in Nat
  BY <1>2, <1>3 DEF Taxable
<1>5. Tax(l, Taxable(l)) \in Nat
  <2>1. l.taxPercent # Null => Taxable(l) * l.taxPercent \in Nat
    BY <1>1, <1>4, TimesNat DEF OrNull
  <2>2. \A n \in Nat : n \div 100 \in Nat
    OBVIOUS
  <2> QED BY <1>1, <2>1, <2>2 DEF Tax, OrNull
<1> QED BY <1>4, <1>5 DEF AmountOf

\* ... for every quantity it is scaled to ...
LEMMA FairScaled ==
  ASSUME NEW l \in LineRow, FairLine(l), NEW q \in Nat
  PROVE  FairLine(ForQuantity(l, q)) /\ ForQuantity(l, q).lineTotal \in Nat
<1> DEFINE n == l.quantity
           p == l.unitPrice
           a == l.discountAmount
           b == Scaled(a, l.discountPercent, l, q)
           m == [l EXCEPT !.quantity = q,
                     !.discountAmount = Scaled(@, l.discountPercent, l, q),
                     !.taxAmount = Scaled(@, l.taxPercent, l, q)]
<1>1. /\ n \in Nat /\ p \in Nat /\ a \in OrNull(Nat) /\ l.discountPercent \in OrNull(Nat)
      /\ l.taxAmount \in OrNull(Nat) /\ l.taxPercent \in OrNull(Nat)
  BY DEF LineRow
<1>2. b # Null => b <= q * p
  <2>1. ASSUME a # Null, l.discountPercent = Null, n > 0 PROVE (a * q) \div n <= q * p
    <3>1. a \in Nat /\ a <= n * p
      BY <1>1, <2>1 DEF FairLine, OrNull, Net
    <3> HIDE DEF a, n, p
    <3>2. n * p \in Nat /\ q * p \in Nat /\ a * q \in Nat
      BY <1>1, <3>1, TimesNat
    <3>3. a * q <= (n * p) * q
      BY <3>1, <3>2, TimesAtMost
    <3>4. (n * p) * q = n * (q * p)
      BY <1>1
    <3>5. n \in Nat \ {0} /\ a * q <= n * (q * p)
      BY <1>1, <2>1, <3>3, <3>4
    <3> QED BY ONLY <3>2, <3>5, DivAtMost
  <2>2. 0 <= q * p
    <3> HIDE DEF p
    <3> QED BY <1>1, TimesNat
  <2>3. b = IF a = Null \/ l.discountPercent # Null THEN Null
            ELSE IF n > 0 THEN (a * q) \div n ELSE 0
    BY DEF Scaled
  <2> HIDE DEF a, b, n, p
  <2> QED BY <2>1, <2>2, <2>3
<1>3. /\ b \in OrNull(Nat) /\ Scaled(l.taxAmount, l.taxPercent, l, q) \in OrNull(Nat)
  BY <1>1, ScaledType
<1>4. /\ m \in LineRow /\ m.quantity = q /\ m.unitPrice = p /\ m.discountAmount = b
      /\ m.discountPercent = l.discountPercent
  BY <1>3 DEF LineRow
<1>5. ForQuantity(l, q) = [m EXCEPT !.lineTotal = AmountOf(m)]
  BY DEF ForQuantity
<1> HIDE DEF b, m, n, p, a
<1>6. FairLine(m)
  BY <1>2, <1>4 DEF FairLine, Net
<1>7. AmountOf(m) \in Nat
  BY <1>4, <1>6, FairAmount
<1> DEFINE r == [m EXCEPT !.lineTotal = AmountOf(m)]
<1>8. /\ r.lineTotal = AmountOf(m) /\ r.quantity = m.quantity /\ r.unitPrice = m.unitPrice
      /\ r.discountAmount = m.discountAmount /\ r.discountPercent = m.discountPercent
  BY <1>4 DEF LineRow
<1> HIDE DEF r
<1>9. FairLine(r)
  BY <1>6, <1>8 DEF FairLine, Net
<1> QED BY <1>5, <1>7, <1>8, <1>9 DEF r

\* ... as have the lines of a sale ...
FairSale(order) == \A j \in DOMAIN order.lines : FairLine(order.lines[j]) /\ order.lines[j].lineTotal \in Nat

\* A line with another total, which is not negative.
LEMMA FairTotal ==
  ASSUME NEW l \in LineRow, FairLine(l), NEW n \in Nat
  PROVE  LET r == [l EXCEPT !.lineTotal = n] IN FairLine(r) /\ r.lineTotal \in Nat
<1> DEFINE r == [l EXCEPT !.lineTotal = n]
<1>1. /\ r.lineTotal = n /\ r.quantity = l.quantity /\ r.unitPrice = l.unitPrice
      /\ r.discountAmount = l.discountAmount /\ r.discountPercent = l.discountPercent
  BY DEF LineRow
<1> HIDE DEF r
<1> QED BY <1>1 DEF FairLine, Net, r

\* ... of which a return changes one ...
LEMMA FairChange ==
  ASSUME NEW order \in SaleRow, FairSale(order), NEW j \in DOMAIN order.lines, NEW l \in LineRow,
         FairLine(l), l.lineTotal \in Nat, NEW q, NEW back, NEW refund
  PROVE  FairSale(Returned(WithLines(order, [order.lines EXCEPT ![j] = l]), j, q, back, refund))
<1> DEFINE lines == [order.lines EXCEPT ![j] = l]
           with == WithLines(order, lines)
<1>1. order.lines \in Seq(LineRow)
  BY DEF SaleRow
<1>2. lines \in Seq(LineRow) /\ DOMAIN lines = DOMAIN order.lines
  BY <1>1
<1>3. \A k \in DOMAIN lines : FairLine(lines[k]) /\ lines[k].lineTotal \in Nat
  <2> TAKE k \in DOMAIN lines
  <2>1. k \in DOMAIN order.lines
    BY <1>2
  <2>2. CASE k = j
    <3>1. lines[k] = l
      BY <2>1, <2>2
    <3> HIDE DEF lines
    <3> QED BY <3>1
  <2>3. CASE k # j
    <3>1. lines[k] = order.lines[k]
      BY <2>1, <2>3
    <3> HIDE DEF lines
    <3> QED BY <2>1, <3>1 DEF FairSale
  <2> QED BY <2>2, <2>3
<1> HIDE DEF lines
<1>4. with \in SaleRow /\ with.lines = lines
  BY <1>2, WithLinesType
<1> HIDE DEF with
<1>5. Returned(with, j, q, back, refund).lines = lines
  BY <1>4 DEF Returned, SaleRow
<1> QED BY <1>3, <1>5 DEF FairSale, with, lines

\* ... and so all that is sold.
FairSales == \A i \in DOMAIN sales : FairSale(sales[i])

\* A request that replaces one fair sale.
LEMMA FairAt ==
  ASSUME ShopTypes, FairSales, NEW i \in DOMAIN sales, NEW order, FairSale(order),
         sales' = [sales EXCEPT ![i] = order]
  PROVE  FairSales'
<1>1. DOMAIN sales' = DOMAIN sales /\ \A k \in DOMAIN sales : sales'[k] = order \/ sales'[k] = sales[k]
  BY DEF ShopTypes
<1> QED BY <1>1 DEF FairSales, FairSale

\* createSale of a fair basket.
LEMMA SellFair ==
  ASSUME ShopAssumption, FairPrices, ShopTypes, FairSales, NEW b \in Baskets, Sell(b)
  PROVE  FairSales'
<1> DEFINE lines == [j \in DOMAIN b.lines |-> ForQuantity(b.lines[j], b.lines[j].quantity)]
           order  == [store |-> b.store, customer |-> b.customer, by |-> b.by, at |-> now,
                status |-> "CONFIRMED", cancelledAt |-> NotCancelled, lines |-> <<>>,
                returns |-> <<>>, unitPrice |-> 0, lineTotal |-> 0]
           after == WithLines(order, lines)
<1>1. b.lines \in Seq(LineRow)
  BY DEF ShopAssumption, Basket
<1>2. \A j \in DOMAIN b.lines : b.lines[j] \in LineRow /\ FairLine(b.lines[j]) /\ b.lines[j].quantity \in Nat
  <2>1. \A j \in DOMAIN b.lines : b.lines[j] \in LineRow
    BY <1>1
  <2> QED BY <2>1 DEF FairPrices, LineRow
<1>3. DOMAIN lines = DOMAIN b.lines /\ \A j \in DOMAIN b.lines : lines[j] = ForQuantity(b.lines[j], b.lines[j].quantity)
  OBVIOUS
<1>4. sales' = Append(sales, after)
  BY Zenon DEF Sell
<1>5. after.lines = lines
  <2> HIDE DEF lines
  <2> QED BY DEF WithLines
<1> HIDE DEF lines, after
<1>6. FairSale(after)
  <2> SUFFICES ASSUME NEW j \in DOMAIN lines PROVE FairLine(lines[j]) /\ lines[j].lineTotal \in Nat
    BY <1>5 DEF FairSale
  <2>1. b.lines[j] \in LineRow /\ FairLine(b.lines[j]) /\ b.lines[j].quantity \in Nat
        /\ lines[j] = ForQuantity(b.lines[j], b.lines[j].quantity)
    BY <1>2, <1>3
  <2> QED BY <2>1, FairScaled
<1>7. \A k \in DOMAIN sales' : sales'[k] = after \/ (k \in DOMAIN sales /\ sales'[k] = sales[k])
  <2>1. sales \in Seq(SaleRow)
    BY DEF ShopTypes
  <2> QED BY <1>4, <2>1
<1> QED BY <1>6, <1>7 DEF FairSales, FairSale

\* cancelSale changes no amount.
LEMMA CancelFair ==
  ASSUME ShopTypes, FairSales, NEW i \in DOMAIN sales, Cancel(i)
  PROVE  FairSales'
<1> DEFINE after == [sales[i] EXCEPT !.status = "CANCELLED", !.cancelledAt = now]
<1>1. sales \in Seq(SaleRow) /\ sales[i] \in SaleRow
  BY DEF ShopTypes
<1>2. sales' = [sales EXCEPT ![i].status = "CANCELLED", ![i].cancelledAt = now]
  BY DEF Cancel
<1>3. sales' = [sales EXCEPT ![i] = after]
  BY <1>1, <1>2
<1>4. after.lines = sales[i].lines
  BY <1>1 DEF SaleRow
<1> HIDE DEF after
<1>5. FairSale(after)
  BY <1>4 DEF FairSales, FairSale
<1> QED BY <1>3, <1>5, FairAt

\* createSaleReturn of whole units scales the line.
LEMMA UnitsFair ==
  ASSUME ShopTypes, FairSales, NEW i \in DOMAIN sales, NEW j \in DOMAIN sales[i].lines, NEW q \in Nat,
         ReturnUnits(i, j, q)
  PROVE  FairSales'
<1> DEFINE order == sales[i]
           l == order.lines[j]
           after == Returned(WithLines(order, [order.lines EXCEPT ![j] = Reduced(l, q)]), j, q, NoParts, 0)
<1>1. order \in SaleRow /\ l \in LineRow /\ j \in DOMAIN order.lines /\ FairSale(order)
  BY SaleType DEF FairSales
<1>2. FairLine(l)
  BY <1>1 DEF FairSale
<1>3. q <= l.quantity /\ sales' = [sales EXCEPT ![i] = after]
  BY Zenon DEF ReturnUnits
<1> HIDE DEF order, l
<1>4. Reduced(l, q) \in LineRow /\ FairLine(Reduced(l, q)) /\ Reduced(l, q).lineTotal \in Nat
  <2> DEFINE rest == ForQuantity(l, l.quantity - q)
             n == AtLeast0(l.lineTotal - ForQuantity(l, q).lineTotal)
  <2>1. l.quantity - q \in Nat /\ l.lineTotal \in Int
    BY <1>1, <1>3 DEF LineRow
  <2>2. rest \in LineRow /\ FairLine(rest) /\ rest.lineTotal \in Nat
    BY <1>1, <1>2, <2>1, ForQuantityType, FairScaled
  <2>3. n \in Nat
    <3>1. ForQuantity(l, q).lineTotal \in Nat
      BY <1>1, <1>2, FairScaled
    <3> QED BY <2>1, <3>1 DEF AtLeast0
  <2>4. Reduced(l, q) = IF l.item \in Variants THEN rest ELSE [rest EXCEPT !.lineTotal = n]
    BY DEF Reduced
  <2>5. Reduced(l, q) \in LineRow
    BY <1>1, <1>3, ReducedType
  <2> HIDE DEF rest, n
  <2>6. FairLine([rest EXCEPT !.lineTotal = n]) /\ [rest EXCEPT !.lineTotal = n].lineTotal \in Nat
    BY <2>2, <2>3, FairTotal
  <2> QED BY <2>2, <2>4, <2>5, <2>6
<1>5. FairSale(after)
  BY <1>1, <1>4, FairChange
<1> HIDE DEF after
<1> QED BY <1>3, <1>5, FairAt

\* createSaleReturn of a part takes what it paid for from the line, down to zero.
LEMMA PartFair ==
  ASSUME ShopAssumption, ShopTypes, FairSales, NEW i \in DOMAIN sales, NEW j \in DOMAIN sales[i].lines,
         NEW v \in Variants, NEW n \in Nat, ReturnPart(i, j, v, n)
  PROVE  FairSales'
<1> DEFINE order == sales[i]
           l == order.lines[j]
           refund == n * PartPrice[l.item][v]
           left == [l EXCEPT !.lineTotal = AtLeast0(@ - refund)]
           back == [NoParts EXCEPT ![v] = n]
           after == Returned(WithLines(order, [order.lines EXCEPT ![j] = left]), j, 0, back, refund)
<1>1. order \in SaleRow /\ l \in LineRow /\ j \in DOMAIN order.lines /\ FairSale(order)
  BY SaleType DEF FairSales
<1>2. FairLine(l) /\ l.lineTotal \in Nat
  BY <1>1 DEF FairSale
<1>3. l.item \in Packages /\ sales' = [sales EXCEPT ![i] = after]
  BY Zenon DEF ReturnPart
<1>4. refund \in Nat
  <2>1. PartPrice[l.item][v] \in Nat
    BY <1>3 DEF ShopAssumption
  <2> HIDE DEF l
  <2> QED BY <2>1, TimesNat
<1> HIDE DEF order, l, refund
<1>5. left \in LineRow /\ FairLine(left) /\ left.lineTotal \in Nat
  <2> DEFINE m == AtLeast0(l.lineTotal - refund)
  <2>1. m \in Nat
    BY <1>2, <1>4 DEF AtLeast0
  <2>2. left = [l EXCEPT !.lineTotal = m]
    OBVIOUS
  <2> HIDE DEF m, left
  <2>3. FairLine([l EXCEPT !.lineTotal = m]) /\ [l EXCEPT !.lineTotal = m].lineTotal \in Nat
    BY <1>1, <1>2, <2>1, FairTotal
  <2>4. left \in LineRow
    BY <1>1, <2>1, <2>2 DEF LineRow
  <2> QED BY <2>2, <2>3, <2>4
<1> HIDE DEF left, back
<1>6. FairSale(after)
  BY <1>1, <1>5, FairChange
<1> HIDE DEF after
<1> QED BY <1>3, <1>6, FairAt

\* Every step keeps the sales fair.
LEMMA StepFair ==
  ASSUME ShopAssumption, FairPrices, ShopTypes, FairSales, ShopNext
  PROVE  FairSales'
<1>1. CASE UNCHANGED sales
  BY <1>1 DEF FairSales, FairSale
<1>2. CASE \E b \in Baskets : Sell(b)
  BY <1>2, SellFair
<1>3. CASE \E i \in DOMAIN sales : Cancel(i)
  BY <1>3, CancelFair
<1>4. CASE \E i \in DOMAIN sales : \E j \in DOMAIN sales[i].lines :
             ReturnUnits(i, j, 1) \/ \E v \in Variants : ReturnPart(i, j, v, 1)
  BY <1>4, UnitsFair, PartFair
<1>5. ShopNext => \/ UNCHANGED sales
                  \/ \E b \in Baskets : Sell(b)
                  \/ \E i \in DOMAIN sales : Cancel(i)
                  \/ \E i \in DOMAIN sales : \E j \in DOMAIN sales[i].lines :
                       ReturnUnits(i, j, 1) \/ \E v \in Variants : ReturnPart(i, j, v, 1)
  BY Zenon DEF ShopNext, Pass, ReceiveGoods, Adjust, Transfer, SwitchLink
<1> QED BY <1>1, <1>2, <1>3, <1>4, <1>5

\* With fair sales, the types of the model hold.
LEMMA TypesHold ==
  ASSUME ShopTypes, FairSales
  PROVE  ShopTypeOK
<1>1. /\ now \in Moments \cup {0}
      /\ stock \in [Stores -> [Variants -> Nat]] /\ linked \in [Stores -> [Variants -> BOOLEAN]]
      /\ sales \in Seq(SaleRow) /\ movements \in Seq(MovementRow)
      /\ \A i \in DOMAIN movements : movements[i].at <= now
      /\ \A k \in DOMAIN balances : k[1] \in Stores /\ k[2] \in Variants /\ balances[k] \in Nat
      /\ \A i \in DOMAIN closing : closing[i].last < Day(now)
  BY DEF ShopTypes
<1>2. ASSUME NEW i \in DOMAIN sales
      PROVE  LET order == sales[i] IN
             /\ order.at <= now
             /\ (order.status = "CANCELLED") = (order.cancelledAt \in order.at..now)
             /\ \A j \in DOMAIN order.lines : order.lines[j].lineTotal \in Nat
             /\ \A k \in DOMAIN order.returns :
                  order.returns[k].at \in order.at..now /\ order.returns[k].line \in DOMAIN order.lines
  <2> DEFINE order == sales[i]
  <2>1. SaleFits(order, now) /\ FairSale(order) /\ order \in SaleRow
    BY DEF ShopTypes, FairSales
  <2> HIDE DEF order
  <2>2. order.at \in Nat
    BY <2>1 DEF SaleRow
  <2>3. (order.status = "CANCELLED") <=> (order.cancelledAt \in order.at..now)
    BY <2>1, <2>2 DEF SaleFits, NotCancelled
  <2>4. (order.status = "CANCELLED") = (order.cancelledAt \in order.at..now)
    BY <2>3
  <2> QED BY <2>1, <2>4 DEF SaleFits, FairSale, order
<1> QED BY <1>1, <1>2 DEF ShopTypeOK

\* The reports of stock agree with the rows in every state, for any prices and discounts: a past
\* day computed backwards, the movements by type and by variant, and the open rows by product,
\* by age and by threshold (getTotalStockQuantityReport, getInventoryMovementsSummaryReport,
\* getCOGSMovementReport, getStockSummaryReport, getStockAgingReport, getLowStockReport).
THEOREM StockReportsAddUp ==
  ShopSpec => [](\A scope \in Scopes :
                   PastIsRebuilt(scope) /\ MovementsAddUp(scope) /\ RowsAddUp(scope))
<1> USE ShopAssumption
<1>1. \A scope \in Scopes : scope \in SUBSET Stores
  BY DEF Scopes, ScopeOf
<1>2. ShopTypes /\ Ledger /\ Past
        => \A scope \in Scopes : PastIsRebuilt(scope) /\ MovementsAddUp(scope) /\ RowsAddUp(scope)
  BY <1>1, PastRebuilt, MovementsAdded, RowsAdded
<1> QED BY <1>2, LedgerHolds, PTL

\* With baskets of no discount above the price, which createSale does not check, StockAgrees
\* holds in every state: the types, no total below zero among them, and the reports of stock.
THEOREM StockReportsAgree ==
  ASSUME FairPrices
  PROVE  ShopSpec => []StockAgrees
<1> USE ShopAssumption
<1> DEFINE Inv == ShopTypes /\ Ledger /\ Past /\ FairSales
<1>1. ShopInit => FairSales
  BY DEF ShopInit, FairSales
<1>2. ShopTypes /\ FairSales /\ [ShopNext]_shopVars => FairSales'
  <2>1. CASE UNCHANGED shopVars
    BY <2>1 DEF shopVars, FairSales, FairSale
  <2> QED BY <2>1, StepFair
<1>3. \A scope \in Scopes : scope \in SUBSET Stores
  BY DEF Scopes, ScopeOf
<1>4. ShopTypes /\ Ledger /\ Past /\ FairSales => StockAgrees
  BY <1>3, TypesHold, PastRebuilt, MovementsAdded, RowsAdded DEF StockAgrees
<1>5. ShopSpec => []ShopTypes
  BY LedgerHolds, PTL
<1> QED BY <1>1, <1>2, <1>4, <1>5, LedgerHolds, PTL DEF ShopSpec

-----------------------------------------------------------------------------
(* The reports of demand. *)

\* The lines of every sale and the units of each.
AllLines == LinesOf(DOMAIN sales)
Units == [x \in AllLines |-> LineAt(x).quantity]

\* A line is of a sale that has been made.
LEMMA LineIs ==
  ASSUME ShopTypes, NEW x \in AllLines
  PROVE  /\ x[1] \in DOMAIN sales /\ x[2] \in DOMAIN sales[x[1]].lines
         /\ LineAt(x) \in LineRow /\ Units[x] = LineAt(x).quantity /\ Units[x] \in Nat
         /\ sales[x[1]] \in SaleRow /\ sales[x[1]].at \in Nat /\ sales[x[1]].at <= now
<1>1. PICK i \in DOMAIN sales : x \in {<<i, j>> : j \in DOMAIN sales[i].lines}
  BY DEF AllLines, LinesOf
<1>2. PICK j \in DOMAIN sales[i].lines : x = <<i, j>>
  BY <1>1
<1>3. /\ sales[i] \in SaleRow /\ SaleFits(sales[i], now)
      /\ sales[i].lines[j] \in LineRow /\ sales[i].lines[j].quantity \in Nat
  BY SaleType
<1>4. sales[i].at \in Nat /\ sales[i].at <= now
  BY <1>3 DEF SaleRow, SaleFits
<1>5. x[1] = i /\ x[2] = j
  BY <1>2
<1>6. LineAt(x) = sales[i].lines[j]
  BY <1>5 DEF LineAt
<1>7. Units[x] = LineAt(x).quantity
  BY DEF Units
<1> QED BY <1>3, <1>4, <1>5, <1>6, <1>7

\* There are finitely many.
LEMMA LinesFinite ==
  ASSUME ShopTypes
  PROVE  IsFiniteSet(AllLines)
<1> DEFINE D == DOMAIN sales
           h == [i \in D |-> {<<i, j>> : j \in DOMAIN sales[i].lines}]
           U == {h[i] : i \in D}
<1>1. IsFiniteSet(D)
  <2>1. sales \in Seq(SaleRow)
    BY DEF ShopTypes
  <2> QED BY <2>1, FS_Interval
<1>2. ASSUME NEW i \in D PROVE IsFiniteSet(h[i])
  <2> DEFINE L == DOMAIN sales[i].lines
             g == [j \in L |-> <<i, j>>]
             R == h[i]
  <2>1. IsFiniteSet(L)
    BY SaleType
  <2>2. R = {<<i, j>> : j \in L}
    BY Zenon
  <2>3. \A x \in R : \E j \in L : x = g[j]
    <3> HIDE DEF L, R
    <3> QED BY <2>2
  <2> HIDE DEF L, R, g
  <2>4. IsFiniteSet(R)
    BY ONLY <2>1, <2>3, FiniteImage
  <2> QED BY <2>4 DEF R
<1>3. \A y \in U : \E i \in D : y = h[i]
  OBVIOUS
<1>4. AllLines = UNION U
  BY DEF AllLines, LinesOf
<1> HIDE DEF D, h, U
<1>5. IsFiniteSet(U)
  BY <1>1, <1>3, FiniteImage
<1>6. \A y \in U : IsFiniteSet(y)
  BY <1>2, <1>3
<1> QED BY <1>4, <1>5, <1>6, FS_UNION

\* The units of a set of lines as a sum over one function, whatever the scope and the range.
LEMMA QuantityIs ==
  ASSUME ShopTypes, NEW L \in SUBSET AllLines
  PROVE  /\ IsFiniteSet(L) /\ Quantity(L) = SumOver(Units, L) /\ Quantity(L) \in Nat
         /\ \A x \in L : Units[x] \in Nat /\ Units[x] = LineAt(x).quantity
<1> DEFINE f == [x \in L |-> LineAt(x).quantity]
<1>1. IsFiniteSet(L)
  BY LinesFinite, FS_Subset
<1>2. \A x \in L : Units[x] \in Nat /\ Units[x] = LineAt(x).quantity
  BY LineIs
<1>3. \A x \in L : f[x] \in Int /\ Units[x] = f[x]
  BY <1>2
<1>4. Quantity(L) = SumOver(f, L)
  BY <1>1, LineQuantities
<1> HIDE DEF f
<1>5. SumOver(Units, L) = SumOver(f, L)
  BY ONLY <1>1, <1>3, SumSame
<1>6. SumOver(Units, L) \in Nat
  BY ONLY <1>1, <1>2, SumNat
<1> QED BY <1>1, <1>2, <1>4, <1>5, <1>6

\* The last 30 days, and the lines sold of a variant in them.
Month30 == Since(24 * 30)
Recent(scope, v) == LinesOfVariant(Confirmed(scope, Month30), v)

\* Which lines are sold of a variant.
LEMMA SoldLines ==
  ASSUME ShopTypes, NEW scope, NEW range, NEW v, NEW x
  PROVE  x \in LinesOfVariant(Confirmed(scope, range), v)
           <=> /\ x \in AllLines /\ LineAt(x).item = v
               /\ sales[x[1]].status = "CONFIRMED" /\ sales[x[1]].store \in scope
               /\ In(sales[x[1]].at, range)
<1> DEFINE S == Confirmed(scope, range)
<1>1. \A i : i \in S <=> /\ i \in DOMAIN sales /\ sales[i].status = "CONFIRMED"
                         /\ sales[i].store \in scope /\ In(sales[i].at, range)
  BY DEF Confirmed, OfStatus, Orders
<1> HIDE DEF S
<1>2. x \in LinesOf(S) <=> x \in AllLines /\ x[1] \in S
  <2>1. ASSUME x \in LinesOf(S) PROVE x \in AllLines /\ x[1] \in S
    <3>1. PICK i \in S : \E j \in DOMAIN sales[i].lines : x = <<i, j>>
      BY <2>1 DEF LinesOf
    <3>2. i \in DOMAIN sales
      BY <1>1
    <3>3. x \in AllLines
      BY <3>1, <3>2 DEF AllLines, LinesOf
    <3>4. x[1] = i
      BY <3>1
    <3> QED BY <3>1, <3>3, <3>4
  <2>2. ASSUME x \in AllLines, x[1] \in S PROVE x \in LinesOf(S)
    <3>1. PICK i \in DOMAIN sales : \E j \in DOMAIN sales[i].lines : x = <<i, j>>
      BY <2>2 DEF AllLines, LinesOf
    <3>2. x[1] = i
      BY <3>1
    <3> QED BY <2>2, <3>1, <3>2 DEF LinesOf
  <2> QED BY <2>1, <2>2
<1>3. x \in LinesOfVariant(S, v) <=> x \in LinesOf(S) /\ LineAt(x).item = v
  BY DEF LinesOfVariant
<1>4. x \in AllLines => x[1] \in DOMAIN sales
  BY LineIs
<1> QED BY <1>1, <1>2, <1>3, <1>4 DEF S

\* The last sale of a variant is the newest of its lines (getDeadStockReport).
LEMMA LastIs ==
  ASSUME ShopAssumption, ShopTypes, NEW scope, NEW v
  PROVE  LET L == LinesOfVariant(Confirmed(scope, AllTime), v) IN
         /\ L = {} => LastSold(scope, v) = Null
         /\ L # {} => /\ LastSold(scope, v) \in Nat /\ LastSold(scope, v) <= now
                      /\ \E x \in L : sales[x[1]].at = LastSold(scope, v)
                      /\ \A x \in L : sales[x[1]].at <= LastSold(scope, v)
<1> DEFINE L == LinesOfVariant(Confirmed(scope, AllTime), v)
           T == {sales[x[1]].at : x \in L}
           g == [x \in L |-> sales[x[1]].at]
<1>1. \A x \in L : x \in AllLines /\ sales[x[1]].at \in Nat /\ sales[x[1]].at <= now
  <2>1. \A x \in L : x \in AllLines
    BY SoldLines
  <2> HIDE DEF L
  <2> QED BY <2>1, LineIs
<1>2. LastSold(scope, v) = IF L = {} THEN Null ELSE Max(T)
  BY Zenon DEF LastSold
<1>3. /\ \A t \in T : \E x \in L : t = g[x]
      /\ \A x \in L : g[x] = sales[x[1]].at /\ g[x] \in T
  OBVIOUS
<1> HIDE DEF L, T, g
<1>4. IsFiniteSet(T)
  <2>1. IsFiniteSet(L)
    BY <1>1, LinesFinite, FS_Subset
  <2> QED BY <1>3, <2>1, FiniteImage
<1>5. T \in SUBSET Nat /\ T \in SUBSET Int /\ \A t \in T : t <= now
  BY <1>1, <1>3
<1>6. ASSUME L # {}
      PROVE  /\ LastSold(scope, v) \in Nat /\ LastSold(scope, v) <= now
             /\ \E x \in L : sales[x[1]].at = LastSold(scope, v)
             /\ \A x \in L : sales[x[1]].at <= LastSold(scope, v)
  <2>1. T # {}
    BY <1>3, <1>6
  <2>2. Max(T) \in T /\ \A t \in T : Max(T) >= t
    BY <1>4, <1>5, <2>1, MaxOf
  <2>3. LastSold(scope, v) = Max(T)
    BY <1>2, <1>6
  <2>4. Max(T) \in Nat /\ Max(T) <= now
    BY <1>5, <2>2
  <2>5. \E x \in L : sales[x[1]].at = Max(T)
    BY <1>3, <2>2
  <2>6. \A x \in L : sales[x[1]].at <= Max(T)
    BY <1>1, <1>3, <2>2, <2>4
  <2> QED BY <2>3, <2>4, <2>5, <2>6
<1> QED BY <1>2, <1>6 DEF L

\* A line is of the last 30 days when it is at most 720 hours old.
LEMMA RecentLines ==
  ASSUME ShopAssumption, ShopTypes, NEW scope, NEW v
  PROVE  /\ Recent(scope, v) \in SUBSET AllLines
         /\ \A x : x \in Recent(scope, v)
              <=> /\ x \in LinesOfVariant(Confirmed(scope, AllTime), v)
                  /\ now - sales[x[1]].at <= 720
<1>1. \A x : x \in Recent(scope, v) <=> /\ x \in AllLines /\ LineAt(x).item = v
               /\ sales[x[1]].status = "CONFIRMED" /\ sales[x[1]].store \in scope
               /\ In(sales[x[1]].at, Month30)
  BY SoldLines DEF Recent
<1>2. \A x : x \in LinesOfVariant(Confirmed(scope, AllTime), v)
          <=> /\ x \in AllLines /\ LineAt(x).item = v
               /\ sales[x[1]].status = "CONFIRMED" /\ sales[x[1]].store \in scope
               /\ In(sales[x[1]].at, AllTime)
  BY SoldLines
<1>3. \A x \in AllLines : /\ In(sales[x[1]].at, AllTime)
                          /\ In(sales[x[1]].at, Month30) <=> now - sales[x[1]].at <= 720
  <2> TAKE x \in AllLines
  <2>1. sales[x[1]].at \in Nat /\ sales[x[1]].at <= now /\ now \in Moments \cup {0} /\ now \in Nat
    BY LineIs, NowType DEF ShopTypes
  <2>2. In(sales[x[1]].at, AllTime)
    BY <2>1, AllOfTime
  <2>3. In(sales[x[1]].at, Month30) <=> now - sales[x[1]].at <= 720
    BY <2>1 DEF In, Month30, Since
  <2> QED BY <2>2, <2>3
<1> QED BY <1>1, <1>2, <1>3

\* A quantity of lines bounds that of each of them, and is zero of none.
LEMMA SoldIs ==
  ASSUME ShopTypes, NEW L \in SUBSET AllLines
  PROVE  /\ Quantity(L) \in Nat
         /\ L = {} => Quantity(L) = 0
         /\ \A x \in L : LineAt(x).quantity \in Nat /\ LineAt(x).quantity <= Quantity(L)
<1>1. /\ IsFiniteSet(L) /\ Quantity(L) = SumOver(Units, L) /\ Quantity(L) \in Nat
      /\ \A x \in L : Units[x] \in Nat /\ Units[x] = LineAt(x).quantity
  BY QuantityIs
<1>2. L = {} => Quantity(L) = 0
  BY <1>1, SumEmpty
<1>3. \A x \in L : Units[x] <= SumOver(Units, L)
  BY ONLY <1>1, SumPositive
<1> QED BY <1>1, <1>2, <1>3

\* A row of getStockTurnoverReport: what was sold in 30 days, which is never fast.
LEMMA TurnoverRow ==
  ASSUME ShopAssumption, ShopTypes, NEW scope \in SUBSET Stores, NEW v \in LinkedVariants(scope)
  PROVE  LET row == StockTurnover(scope, 30)[v] IN
         /\ row.soldQuantity = Quantity(Recent(scope, v))
         /\ row.classification # "FAST"
<1> DEFINE row == StockTurnover(scope, 30)[v]
           sold == Quantity(Recent(scope, v))
           have == VariantStock(scope, v)
           days == SupplyDays(have, sold, 30)
           class == IF sold = 0 THEN "SLOW"
                            ELSE IF 2 * sold >= 4 * (2 * have + sold) THEN "FAST"
                            ELSE IF 2 * sold >= 2 * have + sold THEN "NORMAL" ELSE "SLOW"
<1>1. row = [soldQuantity |-> sold, supplyDays |-> days, classification |-> class]
  BY Zenon DEF StockTurnover, Recent, Month30
<1>2. sold \in Nat /\ have \in Nat
  BY RecentLines, SoldIs, VariantRows
<1> HIDE DEF sold, have, days
<1>3. class # "FAST"
  BY <1>2
<1> HIDE DEF class, row
<1>4. row.soldQuantity = sold /\ row.classification = class
  BY <1>1
<1> QED BY <1>3, <1>4, Zenon DEF row, sold

\* Dead stock sold nothing in 30 days, but for a sale exactly that old.
LEMMA DeadSoldNothing ==
  ASSUME ShopAssumption, ShopTypes, NEW scope, NEW v,
         LastSold(scope, v) = Null \/ DaysSince(LastSold(scope, v)) >= 30
  PROVE  Quantity(Recent(scope, v)) = 0 \/ now - LastSold(scope, v) = 24 * 30
<1> DEFINE L == LinesOfVariant(Confirmed(scope, AllTime), v)
           last == LastSold(scope, v)
           R == Recent(scope, v)
<1>1. R \in SUBSET AllLines /\ \A x : x \in R <=> x \in L /\ now - sales[x[1]].at <= 720
  BY RecentLines
<1>2. L # {} => last \in Nat /\ last <= now /\ \A x \in L : sales[x[1]].at <= last
  BY LastIs
<1>3. now \in Nat /\ \A x \in R : sales[x[1]].at \in Nat
  BY <1>1, LineIs, NowType DEF ShopTypes
<1>4. R = {} => Quantity(R) = 0
  BY <1>1, SoldIs
<1>5. (L # {} /\ DaysSince(last) >= 30) => now - last >= 720
  BY <1>2, <1>3 DEF DaysSince
<1>6. (L # {} /\ last = Null) => FALSE
  BY <1>2 DEF Null
<1> HIDE DEF L, R, last
<1>7. L = {} => R = {}
  BY <1>1
<1>8. (L # {} /\ now - last > 720) => R = {}
  BY <1>1, <1>2, <1>3
<1>9. now - last > 720 \/ now - last = 720 \/ L = {}
  BY <1>2, <1>3, <1>5, <1>6 DEF last
<1> QED BY <1>4, <1>7, <1>8, <1>9 DEF last, R

\* Stock that is not dead sold something, or all of it came back.
LEMMA LiveSold ==
  ASSUME ShopAssumption, ShopTypes, NEW scope, NEW v,
         ~(LastSold(scope, v) = Null \/ DaysSince(LastSold(scope, v)) >= 30)
  PROVE  Quantity(Recent(scope, v)) > 0 \/ \E x \in Recent(scope, v) : LineAt(x).quantity = 0
<1> DEFINE L == LinesOfVariant(Confirmed(scope, AllTime), v)
           last == LastSold(scope, v)
           R == Recent(scope, v)
<1>1. R \in SUBSET AllLines /\ \A x : x \in R <=> x \in L /\ now - sales[x[1]].at <= 720
  BY RecentLines
<1>2. L # {}
  BY LastIs
<1>3. last \in Nat /\ last <= now /\ \E x \in L : sales[x[1]].at = last
  BY <1>2, LastIs
<1>4. now \in Nat
  BY NowType DEF ShopTypes
<1>5. now - last < 720
  BY <1>3, <1>4 DEF DaysSince
<1> HIDE DEF L, R, last
<1>6. PICK x \in R : TRUE
  BY <1>1, <1>3, <1>4, <1>5
<1>7. LineAt(x).quantity \in Nat /\ LineAt(x).quantity <= Quantity(R) /\ Quantity(R) \in Nat
  BY <1>1, SoldIs
<1> QED BY <1>7 DEF R

\* What the stores sold of a variant adds up.
LEMMA StoresShareSold ==
  ASSUME ShopAssumption, ShopTypes, NEW scope \in SUBSET Stores, NEW v, NEW g,
         \A s \in scope : g[s] = Quantity(Recent({s}, v))
  PROVE  SumOver(g, scope) = Quantity(Recent(scope, v))
<1> DEFINE R == Recent(scope, v)
           part == [s \in scope |-> Recent({s}, v)]
<1>1. R \in SUBSET AllLines
  BY RecentLines
<1>2. IsFiniteSet(R) /\ Quantity(R) = SumOver(Units, R) /\ \A x \in R : Units[x] \in Nat
  BY <1>1, QuantityIs
<1>3. \A x \in R : Units[x] \in Int
  BY <1>2
<1>4. IsFiniteSet(scope)
  BY FS_Subset DEF ShopAssumption
<1>5. \A x : x \in R <=> /\ x \in AllLines /\ LineAt(x).item = v
               /\ sales[x[1]].status = "CONFIRMED" /\ sales[x[1]].store \in scope
               /\ In(sales[x[1]].at, Month30)
  BY SoldLines DEF Recent
<1>6. \A s \in scope : \A x : x \in part[s] <=> x \in R /\ sales[x[1]].store = s
  <2> TAKE s \in scope
  <2>1. \A x : x \in Recent({s}, v) <=> /\ x \in AllLines /\ LineAt(x).item = v
               /\ sales[x[1]].status = "CONFIRMED" /\ sales[x[1]].store \in {s}
               /\ In(sales[x[1]].at, Month30)
    BY SoldLines DEF Recent
  <2>2. part[s] = Recent({s}, v)
    OBVIOUS
  <2> HIDE DEF R, part
  <2>3. \A x : sales[x[1]].store = s => sales[x[1]].store \in scope
    OBVIOUS
  <2>4. \A x : sales[x[1]].store \in {s} <=> sales[x[1]].store = s
    OBVIOUS
  <2>5. \A x : x \in Recent({s}, v) <=> x \in R /\ sales[x[1]].store = s
    BY <1>5, <2>1, <2>3, <2>4, Zenon
  <2> TAKE x
  <2>6. x \in part[s] <=> x \in Recent({s}, v)
    BY <2>2, Zenon
  <2> QED BY <2>5, <2>6, Zenon
<1>7. \A x \in R : sales[x[1]].store \in scope
  BY <1>5
<1>8. \A s \in scope : g[s] = SumOver(Units, part[s])
  <2> TAKE s \in scope
  <2>1. Quantity(Recent({s}, v)) = SumOver(Units, Recent({s}, v))
    BY RecentLines, QuantityIs
  <2>2. part[s] = Recent({s}, v)
    OBVIOUS
  <2> HIDE DEF part
  <2> QED BY <2>1, <2>2, Zenon
<1> HIDE DEF R, part
<1>9. /\ \A s \in scope : part[s] \in SUBSET R
      /\ \A x \in R : \E s \in scope : x \in part[s]
      /\ \A s, t \in scope : \A x \in R : x \in part[s] /\ x \in part[t] => s = t
  BY <1>6, <1>7
<1>10. SumOver(g, scope) = SumOver(Units, R)
  BY ONLY <1>2, <1>3, <1>4, <1>8, <1>9, SumParts
<1> QED BY <1>2, <1>10 DEF R

\* A quotient is at most b below n * (b + 1).
LEMMA DivBelow ==
  ASSUME NEW a \in Nat, NEW b \in Nat, NEW n \in Nat \ {0}, a < n * (b + 1)
  PROVE  a \div n <= b
<1> DEFINE d == a \div n
<1>1. d \in Nat /\ n * d <= a
  OBVIOUS
<1> HIDE DEF d
<1>2. d <= b
  <2> SUFFICES ASSUME d > b PROVE FALSE
    BY <1>1
  <2>1. b + 1 <= d
    BY <1>1
  <2>2. (b + 1) * n <= d * n
    BY <1>1, <2>1, TimesAtMost
  <2>3. (b + 1) * n = n * (b + 1) /\ d * n = n * d /\ n * (b + 1) \in Nat /\ n * d \in Nat
    BY <1>1, TimesNat
  <2> QED BY <1>1, <2>2, <2>3
<1> QED BY <1>2 DEF d

\* Stock below the units sold in 7 days, rounded up, lasts at most 7 days.
LEMMA BelowIsCritical ==
  ASSUME NEW have \in Nat, NEW sold \in Nat, have < (sold * 7 + 29) \div 30
  PROVE  SupplyDays(have, sold, 30) # Null /\ SupplyDays(have, sold, 30) <= 7
<1>1. 30 * have + 30 <= sold * 7 + 29
  OBVIOUS
<1>2. sold > 0 /\ 60 * have + sold < (2 * sold) * 8
  BY <1>1
<1> DEFINE a == 2 * (have * 30) + sold
           n == 2 * sold
<1>3. SupplyDays(have, sold, 30) = a \div n
  BY <1>2 DEF SupplyDays, Rounded
<1>4. a \in Nat /\ n \in Nat \ {0} /\ a < n * (7 + 1)
  BY <1>2
<1> HIDE DEF a, n
<1>5. a \div n \in Nat /\ a \div n <= 7
  BY <1>4, DivNat, DivBelow
<1> QED BY <1>3, <1>5 DEF Null

\* A row of getReorderAnalysisReport: what the store sold in 30 days; below the reorder point it
\* is critical.
LEMMA ReorderRow ==
  ASSUME ShopAssumption, ShopTypes, NEW scope \in SUBSET Stores, NEW r \in LinkedRows(scope)
  PROVE  LET row == ReorderAnalysis(scope, 7)[r] IN
         /\ row.soldLast30 = Quantity(Recent({r[1]}, r[2]))
         /\ stock[r[1]][r[2]] < row.reorderPoint => row.urgency = "CRITICAL"
<1> DEFINE row == ReorderAnalysis(scope, 7)[r]
           sold == Quantity(Recent({r[1]}, r[2]))
           have == stock[r[1]][r[2]]
           days == SupplyDays(have, sold, 30)
           point == (sold * 7 + 29) \div 30
           urgency == IF days # Null /\ days <= 7 THEN "CRITICAL"
                       ELSE IF days # Null /\ days <= 2 * 7 THEN "WARNING" ELSE "NORMAL"
<1>1. row = [soldLast30 |-> sold, reorderPoint |-> point, urgency |-> urgency]
  BY Zenon DEF ReorderAnalysis, Recent, Month30
<1>2. sold \in Nat /\ have \in Nat
  <2>1. LinkedRows(scope) \in SUBSET LinkedRows(scope)
    OBVIOUS
  <2>2. have \in Nat
    BY <2>1, LinkedStock
  <2> QED BY <2>2, RecentLines, SoldIs
<1> HIDE DEF sold, have
<1>3. have < point => urgency = "CRITICAL"
  BY <1>2, BelowIsCritical
<1> HIDE DEF point, urgency, row
<1>4. row.soldLast30 = sold /\ row.reorderPoint = point /\ row.urgency = urgency
  BY <1>1
<1> QED BY <1>3, <1>4, Zenon DEF row, sold, have

\* The reports of one scope read the demand in one way.
LEMMA DemandRead ==
  ASSUME ShopAssumption, ShopTypes, NEW scope \in SUBSET Stores
  PROVE  DemandAgreesIn(scope)
<1> DEFINE turnover == StockTurnover(scope, 30)
           reorder  == ReorderAnalysis(scope, 7)
           dead     == DeadStock(scope, 30)
           recent(v) == LinesOfVariant(Confirmed(scope, Since(24 * 30)), v)
<1>1. DOMAIN turnover = LinkedVariants(scope) /\ DOMAIN reorder = LinkedRows(scope)
  BY Zenon DEF StockTurnover, ReorderAnalysis
<1>2. \A v : v \in dead <=> /\ v \in LinkedVariants(scope) /\ VariantStock(scope, v) > 0
                            /\ LastSold(scope, v) = Null \/ DaysSince(LastSold(scope, v)) >= 30
  BY DEF DeadStock
<1>3. \A v \in LinkedVariants(scope) :
        turnover[v].soldQuantity = Quantity(Recent(scope, v)) /\ turnover[v].classification # "FAST"
  BY TurnoverRow
<1>4. \A r \in LinkedRows(scope) :
        /\ reorder[r].soldLast30 = Quantity(Recent({r[1]}, r[2]))
        /\ stock[r[1]][r[2]] < reorder[r].reorderPoint => reorder[r].urgency = "CRITICAL"
  BY ReorderRow
<1>5. \A v : recent(v) = Recent(scope, v)
  BY Zenon DEF Recent, Month30
<1> HIDE DEF turnover, reorder, dead, recent
<1>6. ASSUME NEW v \in dead
      PROVE  turnover[v].soldQuantity = 0 \/ now - LastSold(scope, v) = 24 * 30
  <2>1. /\ turnover[v].soldQuantity = Quantity(Recent(scope, v))
        /\ LastSold(scope, v) = Null \/ DaysSince(LastSold(scope, v)) >= 30
    BY <1>2, <1>3
  <2>2. Quantity(Recent(scope, v)) = 0 \/ now - LastSold(scope, v) = 24 * 30
    BY <2>1, DeadSoldNothing
  <2> QED BY <2>1, <2>2, Zenon
<1>7. ASSUME NEW v \in DOMAIN turnover \ dead, VariantStock(scope, v) > 0
      PROVE  turnover[v].soldQuantity > 0 \/ \E x \in recent(v) : LineAt(x).quantity = 0
  <2>1. /\ turnover[v].soldQuantity = Quantity(Recent(scope, v))
        /\ ~(LastSold(scope, v) = Null \/ DaysSince(LastSold(scope, v)) >= 30)
    BY <1>1, <1>2, <1>3, <1>7
  <2>2. Quantity(Recent(scope, v)) > 0 \/ \E x \in Recent(scope, v) : LineAt(x).quantity = 0
    BY <2>1, LiveSold
  <2> QED BY <1>5, <2>1, <2>2, Zenon
<1>8. ASSUME NEW v \in DOMAIN turnover, {s \in scope : linked[s][v]} = scope
      PROVE  StoresSold(reorder, v, {s \in scope : linked[s][v]})
               = turnover[v].soldQuantity
  <2> DEFINE open == {s \in scope : linked[s][v]}
             g == [s \in open |-> reorder[<<s, v>>].soldLast30]
  <2>1. IsFiniteSet(open)
    BY FS_Subset DEF ShopAssumption
  <2>2. StoresSold(reorder, v, open) = SumOver(g, open)
    <3> HIDE DEF open
    <3> QED BY ONLY <2>1, SoldTotal
  <2>3. v \in Variants
    BY <1>1 DEF LinkedVariants, LinkedRows
  <2>4. \A s \in scope : g[s] = Quantity(Recent({s}, v))
    <3> TAKE s \in scope
    <3>1. s \in open
      BY <1>8
    <3>2. g[s] = reorder[<<s, v>>].soldLast30
      BY <3>1
    <3>3. <<s, v>> \in LinkedRows(scope) /\ <<s, v>>[1] = s /\ <<s, v>>[2] = v
      BY <2>3, <3>1 DEF LinkedRows
    <3>4. reorder[<<s, v>>].soldLast30 = Quantity(Recent({<<s, v>>[1]}, <<s, v>>[2]))
      BY <1>4, <3>3, Zenon
    <3> HIDE DEF g, open
    <3>5. reorder[<<s, v>>].soldLast30 = Quantity(Recent({s}, v))
      BY <3>3, <3>4, Zenon
    <3> QED BY <3>2, <3>5, Zenon
  <2> HIDE DEF g
  <2>5. SumOver(g, scope) = Quantity(Recent(scope, v))
    BY <2>4, StoresShareSold
  <2>6. turnover[v].soldQuantity = Quantity(Recent(scope, v))
    BY <1>1, <1>3
  <2> QED BY <1>8, <2>2, <2>5, <2>6, Zenon
<1>9. \A r \in DOMAIN reorder :
        stock[r[1]][r[2]] < reorder[r].reorderPoint => reorder[r].urgency = "CRITICAL"
  BY <1>1, <1>4
<1>10. \A v \in DOMAIN turnover : turnover[v].classification # "FAST" \/ VariantStock(scope, v) = 0
  BY <1>1, <1>3
<1> QED BY <1>6, <1>7, <1>8, <1>9, <1>10, Zenon DEF DemandAgreesIn, turnover, reorder, dead, recent

\* DemandAgrees holds in every state: getDeadStockReport, getStockTurnoverReport and
\* getReorderAnalysisReport read one demand from the sales, whatever is returned and cancelled.
THEOREM DemandIsReadOnce == ShopSpec => []DemandAgrees
<1> USE ShopAssumption
<1>1. \A scope \in Scopes : scope \in SUBSET Stores
  BY DEF Scopes, ScopeOf
<1>2. ShopTypes => DemandAgrees
  BY <1>1, DemandRead, Zenon DEF DemandAgrees
<1> QED BY <1>2, LedgerHolds, PTL

-----------------------------------------------------------------------------
(* What only time changes. *)

\* What the three reports that age are read from: the customers with their orders, the receipts
\* and the sales of a variant, and its open rows.
Buyers == {sales[i].customer : i \in OrdersOfCustomers(Stores, AllTime)}
OrdersBy(c) == {i \in OrdersOfCustomers(Stores, AllTime) : sales[i].customer = c}
OrderTimes(c) == {sales[i].at : i \in OrdersBy(c)}
ReceiptTimes(v) ==
  {movements[k].at : k \in {k \in MovesIn(Stores, AllTime) : movements[k].type = "IN" /\ movements[k].variant = v}}
SaleTimes(v) == {sales[x[1]].at : x \in LinesOfVariant(Confirmed(Stores, AllTime), v)}
OpenRows(v) == {r \in LinkedRows(Stores) : r[2] = v}
OpenStock(v) == SumOver(Shelf, OpenRows(v))

\* A finite set of times that have come.
Come(T) == T \in SUBSET Nat /\ IsFiniteSet(T) /\ \A t \in T : t <= now

\* What the three reports show, told from what they are read from.
Readings ==
  /\ DOMAIN CustomerFrequency(Stores, AllTime) = Buyers
  /\ \A c \in Buyers :
       /\ CustomerFrequency(Stores, AllTime)[c].segment
            = Segment(Cardinality(OrdersBy(c)), DaysSince(Max(OrderTimes(c))))
       /\ Cardinality(OrdersBy(c)) \in Nat /\ OrderTimes(c) # {} /\ Come(OrderTimes(c))
  /\ \A v : /\ DaysInStock(Stores, v) = IF ReceiptTimes(v) = {} THEN 999 ELSE DaysSince(Max(ReceiptTimes(v)))
            /\ Come(ReceiptTimes(v))
  /\ \A v : /\ v \in DeadStock(Stores, 30)
                 <=> /\ v \in LinkedVariants(Stores) /\ OpenStock(v) > 0
                     /\ SaleTimes(v) = {} \/ DaysSince(Max(SaleTimes(v))) >= 30
            /\ Come(SaleTimes(v))

\* The segment of a customer: the number of the orders and the days since the last
\* (getCustomerFrequencyReport).
LEMMA SegmentReading ==
  ASSUME ShopAssumption, ShopTypes
  PROVE  /\ DOMAIN CustomerFrequency(Stores, AllTime) = Buyers
         /\ \A c \in Buyers :
              /\ CustomerFrequency(Stores, AllTime)[c].segment
                   = Segment(Cardinality(OrdersBy(c)), DaysSince(Max(OrderTimes(c))))
              /\ Cardinality(OrdersBy(c)) \in Nat /\ OrderTimes(c) # {} /\ Come(OrderTimes(c))
<1> DEFINE O == OrdersOfCustomers(Stores, AllTime)
           rows == CustomerFrequency(Stores, AllTime)
           Mine(k) == {i \in O : sales[i].customer = k}
           Row(S) == [orderCount |-> Cardinality(S), bucket |-> Bucket(Cardinality(S)),
                      segment |-> Segment(Cardinality(S), DaysSince(Max({sales[i].at : i \in S})))]
<1>1. rows = [k \in {sales[i].customer : i \in O} |-> Row(Mine(k))]
  BY Zenon DEF CustomerFrequency, Grouped
<1>2. DOMAIN rows = Buyers
  BY <1>1, Zenon DEF Buyers
<1>3. IsFiniteSet(O) /\ \A i \in O : sales[i].at \in Nat /\ sales[i].at <= now
  <2>1. O \in SUBSET DOMAIN sales
    BY DEF OrdersOfCustomers, Orders
  <2>2. IsFiniteSet(DOMAIN sales)
    <3>1. sales \in Seq(SaleRow)
      BY DEF ShopTypes
    <3> QED BY <3>1, FS_Interval
  <2>3. \A i \in DOMAIN sales : sales[i].at \in Nat /\ sales[i].at <= now
    BY SaleType DEF SaleRow, SaleFits
  <2> HIDE DEF O
  <2> QED BY <2>1, <2>2, <2>3, FS_Subset
<1>4. ASSUME NEW c \in Buyers
      PROVE  /\ rows[c].segment = Segment(Cardinality(OrdersBy(c)), DaysSince(Max(OrderTimes(c))))
             /\ Cardinality(OrdersBy(c)) \in Nat /\ OrderTimes(c) # {} /\ Come(OrderTimes(c))
  <2> DEFINE S == OrdersBy(c)
             T == OrderTimes(c)
             g == [i \in S |-> sales[i].at]
  <2>1. rows[c] = Row(Mine(c))
    BY <1>1, <1>2, Zenon
  <2>2. Mine(c) = S /\ {sales[i].at : i \in S} = T
    BY Zenon DEF OrdersBy, OrderTimes
  <2>3. rows[c] = [orderCount |-> Cardinality(S), bucket |-> Bucket(Cardinality(S)),
                   segment |-> Segment(Cardinality(S), DaysSince(Max(T)))]
    BY <2>1, <2>2, Zenon
  <2>4. S \in SUBSET O /\ \E i \in O : i \in S
    BY DEF Buyers, OrdersBy
  <2>5. (\A t \in T : \E i \in S : t = g[i]) /\ (\A i \in S : g[i] \in T /\ g[i] = sales[i].at)
    BY DEF OrderTimes
  <2> HIDE DEF S, T, O, rows, g
  <2>6. rows[c].segment = Segment(Cardinality(S), DaysSince(Max(T)))
    BY <2>3
  <2>7. IsFiniteSet(S) /\ Cardinality(S) \in Nat
    BY <1>3, <2>4, FS_Subset, FS_CardinalityType
  <2>8. IsFiniteSet(T)
    BY ONLY <2>5, <2>7, FiniteImage
  <2>9. T \in SUBSET Nat /\ (\A t \in T : t <= now) /\ T # {}
    BY <1>3, <2>4, <2>5
  <2> QED BY <2>6, <2>7, <2>8, <2>9 DEF S, T, rows, Come
<1> QED BY <1>2, <1>4

\* The age of a variant's stock: the days since the last receipt (getStockAgingReport).
LEMMA AgeReading ==
  ASSUME ShopAssumption, ShopTypes, NEW v
  PROVE  /\ DaysInStock(Stores, v) = IF ReceiptTimes(v) = {} THEN 999 ELSE DaysSince(Max(ReceiptTimes(v)))
         /\ Come(ReceiptTimes(v))
<1> DEFINE K == {k \in MovesIn(Stores, AllTime) : movements[k].type = "IN" /\ movements[k].variant = v}
           T == ReceiptTimes(v)
           g == [k \in K |-> movements[k].at]
<1>1. T = {movements[k].at : k \in K}
  BY Zenon DEF ReceiptTimes
<1>2. DaysInStock(Stores, v) = IF K = {} THEN 999 ELSE DaysSince(Max({movements[k].at : k \in K}))
  BY Zenon DEF DaysInStock
<1>3. IsFiniteSet(K) /\ \A k \in K : movements[k].at \in Nat /\ movements[k].at <= now
  <2>1. K \in SUBSET DOMAIN movements
    BY DEF MovesIn
  <2>2. IsFiniteSet(DOMAIN movements)
    BY MovedType DEF ShopTypes
  <2>3. \A k \in DOMAIN movements : movements[k].at \in Nat /\ movements[k].at <= now
    <3>1. \A k \in DOMAIN movements : movements[k] \in MovementRow /\ movements[k].at <= now
      BY DEF ShopTypes
    <3> QED BY <3>1 DEF MovementRow
  <2> HIDE DEF K
  <2> QED BY <2>1, <2>2, <2>3, FS_Subset
<1>4. DaysInStock(Stores, v) = IF K = {} THEN 999 ELSE DaysSince(Max(T))
  BY <1>1, <1>2, Zenon
<1>5. (\A t \in T : \E k \in K : t = g[k]) /\ (\A k \in K : g[k] \in T /\ g[k] = movements[k].at)
  BY <1>1
<1> HIDE DEF K, T, g
<1>6. IsFiniteSet(T)
  BY ONLY <1>3, <1>5, FiniteImage
<1>7. T \in SUBSET Nat /\ (\A t \in T : t <= now) /\ (T = {} <=> K = {})
  BY <1>3, <1>5
<1> QED BY <1>4, <1>6, <1>7 DEF T, Come

\* Dead stock: open stock that was never sold, or not for 30 days (getDeadStockReport).
LEMMA DeadReading ==
  ASSUME ShopAssumption, ShopTypes, NEW v
  PROVE  /\ v \in DeadStock(Stores, 30)
              <=> /\ v \in LinkedVariants(Stores) /\ OpenStock(v) > 0
                  /\ SaleTimes(v) = {} \/ DaysSince(Max(SaleTimes(v))) >= 30
         /\ Come(SaleTimes(v))
<1> DEFINE L == LinesOfVariant(Confirmed(Stores, AllTime), v)
           T == SaleTimes(v)
           g == [x \in L |-> sales[x[1]].at]
<1>1. T = {sales[x[1]].at : x \in L}
  BY Zenon DEF SaleTimes
<1>2. LastSold(Stores, v) = IF L = {} THEN Null ELSE Max({sales[x[1]].at : x \in L})
  BY Zenon DEF LastSold
<1>3. LastSold(Stores, v) = IF L = {} THEN Null ELSE Max(T)
  BY <1>1, <1>2, Zenon
<1>4. L # {} => LastSold(Stores, v) \in Nat
  BY LastIs
<1>5. IsFiniteSet(L) /\ \A x \in L : sales[x[1]].at \in Nat /\ sales[x[1]].at <= now
  <2>1. \A x \in L : x \in AllLines
    BY SoldLines
  <2> HIDE DEF L
  <2>2. IsFiniteSet(L)
    BY <2>1, LinesFinite, FS_Subset
  <2> QED BY <2>1, <2>2, LineIs
<1>6. (\A t \in T : \E x \in L : t = g[x]) /\ (\A x \in L : g[x] \in T /\ g[x] = sales[x[1]].at)
  BY <1>1
<1> HIDE DEF L, T, g
<1>7. IsFiniteSet(T)
  BY ONLY <1>5, <1>6, FiniteImage
<1>8. T \in SUBSET Nat /\ (\A t \in T : t <= now) /\ (T = {} <=> L = {})
  <2>1. \A t \in T : t \in Nat /\ t <= now
    <3> TAKE t \in T
    <3>1. PICK x \in L : t = g[x]
      BY <1>6
    <3>2. g[x] = sales[x[1]].at /\ sales[x[1]].at \in Nat /\ sales[x[1]].at <= now
      BY <1>5, <1>6
    <3> QED BY <3>1, <3>2
  <2>2. T = {} <=> L = {}
    <3>1. T = {} => L = {}
      BY <1>6, Zenon
    <3>2. L = {} => T = {}
      BY <1>6, Zenon
    <3> QED BY <3>1, <3>2
  <2>3. \A t \in T : t <= now
    BY <2>1, Zenon
  <2>4. T \in SUBSET Nat
    BY <2>1, Zenon
  <2> QED BY <2>2, <2>3, <2>4, Zenon
<1>9. VariantStock(Stores, v) = OpenStock(v)
  <2>1. Stores \in SUBSET Stores
    OBVIOUS
  <2>2. VariantStock(Stores, v) = SumOver(Shelf, {r \in LinkedRows(Stores) : r[2] = v})
    BY <2>1, VariantRows
  <2> QED BY <2>2, Zenon DEF OpenStock, OpenRows
<1>10. (LastSold(Stores, v) = Null \/ DaysSince(LastSold(Stores, v)) >= 30)
         <=> (T = {} \/ DaysSince(Max(T)) >= 30)
  <2>1. Null \notin Nat
    BY DEF Null
  <2> QED BY <1>3, <1>4, <1>8, <2>1
<1>11. v \in DeadStock(Stores, 30)
         <=> /\ v \in LinkedVariants(Stores) /\ VariantStock(Stores, v) > 0
             /\ LastSold(Stores, v) = Null \/ DaysSince(LastSold(Stores, v)) >= 30
  BY DEF DeadStock
<1> QED BY <1>7, <1>8, <1>9, <1>10, <1>11 DEF T, Come

\* The readings are right in every state.
LEMMA ReadingsHold == ASSUME ShopAssumption, ShopTypes PROVE Readings
BY SegmentReading, AgeReading, DeadReading DEF Readings

\* The order of the segments.
LEMMA RankIs ==
  /\ Rank("LOST") = 1 /\ Rank("AT_RISK") = 2 /\ Rank("LOYAL") = 3 /\ Rank("CHAMPION") = 4
<1> DEFINE names == <<"LOST", "AT_RISK", "LOYAL", "CHAMPION">>
<1>1. \A k \in 1..4 : /\ names[k] = "LOST" <=> k = 1
                      /\ names[k] = "AT_RISK" <=> k = 2
                      /\ names[k] = "LOYAL" <=> k = 3
                      /\ names[k] = "CHAMPION" <=> k = 4
  OBVIOUS
<1>2. \A s : Rank(s) = CHOOSE k \in 1..4 : names[k] = s
  BY Zenon DEF Rank
<1> HIDE DEF names
<1> QED BY <1>1, <1>2

\* With the same orders and more days since the last, the segment is no better.
LEMMA SegmentFalls ==
  ASSUME NEW n \in Nat, NEW d \in Nat, NEW e \in Nat, d <= e
  PROVE  Rank(Segment(n, e)) <= Rank(Segment(n, d))
<1>1. /\ Segment(n, d) = "CHAMPION" <=> n >= 4 /\ d <= 30
      /\ Segment(n, d) = "LOYAL" <=> ~(n >= 4 /\ d <= 30) /\ n >= 2 /\ d <= 60
      /\ Segment(n, d) = "AT_RISK" <=> n >= 2 /\ d > 60 /\ d <= 120
      /\ Segment(n, d) \in {"CHAMPION", "LOYAL", "AT_RISK", "LOST"}
  BY DEF Segment
<1>2. /\ Segment(n, e) = "CHAMPION" <=> n >= 4 /\ e <= 30
      /\ Segment(n, e) = "LOYAL" <=> ~(n >= 4 /\ e <= 30) /\ n >= 2 /\ e <= 60
      /\ Segment(n, e) = "AT_RISK" <=> n >= 2 /\ e > 60 /\ e <= 120
      /\ Segment(n, e) \in {"CHAMPION", "LOYAL", "AT_RISK", "LOST"}
  BY DEF Segment
<1> QED BY <1>1, <1>2, RankIs

\* The days since the newest of some times grow with the clock.
LEMMA OldestLater ==
  ASSUME ShopAssumption, ShopTypes, NEW T, Come(T), T # {}, NEW later \in Nat, later >= now
  PROVE  /\ DaysSince(Max(T)) \in Nat /\ (later - Max(T)) \div 24 \in Nat
         /\ DaysSince(Max(T)) <= (later - Max(T)) \div 24
<1>1. T \in SUBSET Int
  BY DEF Come
<1>2. Max(T) \in T
  BY <1>1, MaxOf DEF Come
<1>3. Max(T) \in Nat /\ Max(T) <= now
  BY <1>2 DEF Come
<1>4. now \in Nat
  BY NowType DEF ShopTypes
<1> DEFINE t == Max(T)
<1> HIDE DEF t
<1>5. t \in Nat /\ t <= now
  BY <1>3 DEF t
<1>6. (now - t) \div 24 \in Nat /\ (later - t) \div 24 \in Nat /\ (now - t) \div 24 <= (later - t) \div 24
  BY <1>4, <1>5
<1> QED BY <1>6 DEF t, DaysSince

\* The clock changes nothing that the reports are read from ...
LEMMA PassReadings ==
  ASSUME ShopAssumption, UNCHANGED <<sales, movements, stock, linked>>
  PROVE  /\ Buyers' = Buyers
         /\ \A c : OrdersBy(c)' = OrdersBy(c) /\ OrderTimes(c)' = OrderTimes(c)
         /\ \A v : /\ ReceiptTimes(v)' = ReceiptTimes(v) /\ SaleTimes(v)' = SaleTimes(v)
                   /\ OpenStock(v)' = OpenStock(v)
         /\ LinkedVariants(Stores)' = LinkedVariants(Stores)
<1>1. OrdersOfCustomers(Stores, AllTime)' = OrdersOfCustomers(Stores, AllTime)
  BY DEF OrdersOfCustomers, Orders
<1>2. Buyers' = Buyers /\ \A c : OrdersBy(c)' = OrdersBy(c)
  BY <1>1 DEF Buyers, OrdersBy
<1>3. \A c : OrderTimes(c)' = OrderTimes(c)
  BY <1>2 DEF OrderTimes
<1>4. MovesIn(Stores, AllTime)' = MovesIn(Stores, AllTime)
  BY DEF MovesIn
<1>5. \A v : ReceiptTimes(v)' = ReceiptTimes(v)
  BY <1>4 DEF ReceiptTimes
<1>6. Confirmed(Stores, AllTime)' = Confirmed(Stores, AllTime)
  BY DEF Confirmed, OfStatus, Orders
<1>7. LinesOf(Confirmed(Stores, AllTime))' = LinesOf(Confirmed(Stores, AllTime))
  BY <1>6 DEF LinesOf
<1>8. \A v : LinesOfVariant(Confirmed(Stores, AllTime), v)' = LinesOfVariant(Confirmed(Stores, AllTime), v)
  BY <1>7 DEF LinesOfVariant, LineAt
<1>9. \A v : SaleTimes(v)' = SaleTimes(v)
  BY <1>8 DEF SaleTimes
<1>10. LinkedRows(Stores)' = LinkedRows(Stores)
  BY DEF LinkedRows
<1>11. LinkedVariants(Stores)' = LinkedVariants(Stores)
  BY <1>10 DEF LinkedVariants
<1>12. Shelf' = Shelf /\ \A v : OpenRows(v)' = OpenRows(v)
  BY <1>10 DEF Shelf, OpenRows
<1>13. \A v : OpenStock(v)' = OpenStock(v)
  BY <1>12, Zenon DEF OpenStock
<1> QED BY <1>2, <1>3, <1>5, <1>9, <1>11, <1>13

\* ... so that all three can only age.
LEMMA PassAges ==
  ASSUME ShopAssumption, ShopTypes, Readings, Readings', NEW hour \in Moments, Pass(hour)
  PROVE  /\ \A c \in DOMAIN CustomerFrequency(Stores, AllTime) :
            Rank(CustomerFrequency(Stores, AllTime)'[c].segment)
              <= Rank(CustomerFrequency(Stores, AllTime)[c].segment)
         /\ \A v \in Variants : AgingBucket(DaysInStock(Stores, v)) <= AgingBucket(DaysInStock(Stores, v))'
         /\ DeadStock(Stores, 30) \subseteq DeadStock(Stores, 30)'
<1>1. hour \in Nat /\ hour >= now /\ now' = hour /\ UNCHANGED <<sales, movements, stock, linked>>
  <2>1. now \in Nat /\ hour \in Nat
    BY NowType DEF ShopAssumption, ShopTypes
  <2>2. hour > now /\ now' = hour /\ UNCHANGED <<sales, movements, stock, linked>>
    BY DEF Pass
  <2> QED BY <2>1, <2>2
<1>2. /\ Buyers' = Buyers
      /\ \A c : OrdersBy(c)' = OrdersBy(c) /\ OrderTimes(c)' = OrderTimes(c)
      /\ \A v : /\ ReceiptTimes(v)' = ReceiptTimes(v) /\ SaleTimes(v)' = SaleTimes(v)
                /\ OpenStock(v)' = OpenStock(v)
      /\ LinkedVariants(Stores)' = LinkedVariants(Stores)
  BY <1>1, PassReadings
<1>3. ASSUME NEW c \in DOMAIN CustomerFrequency(Stores, AllTime)
      PROVE  Rank(CustomerFrequency(Stores, AllTime)'[c].segment)
               <= Rank(CustomerFrequency(Stores, AllTime)[c].segment)
  <2> DEFINE n == Cardinality(OrdersBy(c))
             T == OrderTimes(c)
             d == DaysSince(Max(T))
             e == (hour - Max(T)) \div 24
  <2>1. c \in Buyers
    BY DEF Readings
  <2>2. /\ CustomerFrequency(Stores, AllTime)[c].segment = Segment(n, d)
        /\ n \in Nat /\ T # {} /\ Come(T)
    BY <2>1 DEF Readings
  <2>3. CustomerFrequency(Stores, AllTime)'[c].segment = Segment(n, e)
    <3>1. CustomerFrequency(Stores, AllTime)'[c].segment
            = Segment(Cardinality(OrdersBy(c)'), (now' - Max(OrderTimes(c)')) \div 24)
      BY <1>2, <2>1, Zenon DEF Readings, DaysSince
    <3> QED BY <1>1, <1>2, <3>1, Zenon
  <2>4. d \in Nat /\ e \in Nat /\ d <= e
    <3> HIDE DEF T
    <3> QED BY <1>1, <2>2, OldestLater
  <2> HIDE DEF n, d, e, T
  <2>5. Rank(Segment(n, e)) <= Rank(Segment(n, d))
    BY <2>2, <2>4, SegmentFalls
  <2> QED BY <2>2, <2>3, <2>5, Zenon
<1>4. ASSUME NEW v \in Variants
      PROVE  AgingBucket(DaysInStock(Stores, v)) <= AgingBucket(DaysInStock(Stores, v))'
  <2> DEFINE T == ReceiptTimes(v)
             d == DaysSince(Max(T))
             e == (hour - Max(T)) \div 24
  <2>1. DaysInStock(Stores, v) = (IF T = {} THEN 999 ELSE d) /\ Come(T)
    BY Zenon DEF Readings
  <2>2. DaysInStock(Stores, v)' = IF T = {} THEN 999 ELSE e
    <3>1. DaysInStock(Stores, v)' = IF ReceiptTimes(v)' = {} THEN 999 ELSE (now' - Max(ReceiptTimes(v)')) \div 24
      BY Zenon DEF Readings, DaysSince
    <3> QED BY <1>1, <1>2, <3>1, Zenon
  <2>3. T # {} => d \in Nat /\ e \in Nat /\ d <= e
    <3> HIDE DEF T
    <3> QED BY <1>1, <2>1, OldestLater
  <2> HIDE DEF T, d, e
  <2>4. AgingBucket(DaysInStock(Stores, v)) <= AgingBucket(DaysInStock(Stores, v)')
    BY <2>1, <2>2, <2>3 DEF AgingBucket
  <2> QED BY <2>4 DEF AgingBucket
<1>5. ASSUME NEW v \in DeadStock(Stores, 30) PROVE v \in DeadStock(Stores, 30)'
  <2> DEFINE T == SaleTimes(v)
             d == DaysSince(Max(T))
             e == (hour - Max(T)) \div 24
  <2>1. v \in LinkedVariants(Stores) /\ OpenStock(v) > 0 /\ (T = {} \/ d >= 30) /\ Come(T)
    BY Zenon DEF Readings
  <2>2. v \in DeadStock(Stores, 30)'
          <=> v \in LinkedVariants(Stores) /\ OpenStock(v) > 0 /\ (T = {} \/ e >= 30)
    <3>1. v \in DeadStock(Stores, 30)'
            <=> /\ v \in LinkedVariants(Stores)' /\ OpenStock(v)' > 0
                /\ SaleTimes(v)' = {} \/ (now' - Max(SaleTimes(v)')) \div 24 >= 30
      BY Zenon DEF Readings, DaysSince
    <3> QED BY <1>1, <1>2, <3>1, Zenon
  <2>3. T # {} => d \in Nat /\ e \in Nat /\ d <= e
    <3> HIDE DEF T
    <3> QED BY <1>1, <2>1, OldestLater
  <2> HIDE DEF T, d, e
  <2>4. T = {} \/ e >= 30
    BY <2>1, <2>3
  <2> QED BY <2>1, <2>2, <2>4, Zenon
<1> QED BY <1>3, <1>4, <1>5, Zenon

\* Only the clock moves the time.
LEMMA OnlyPassTicks ==
  ASSUME ShopNext, now' # now
  PROVE  \E hour \in Moments : Pass(hour)
<1>1. \A d : ReceiveGoods(d) => now' = now
  BY Zenon DEF ReceiveGoods
<1>2. \A s, v, diff : Adjust(s, v, diff) => now' = now
  BY Zenon DEF Adjust
<1>3. \A from, to, v : Transfer(from, to, v) => now' = now
  BY Zenon DEF Transfer
<1>4. \A s, v : SwitchLink(s, v) => now' = now
  BY Zenon DEF SwitchLink
<1>5. \A b : Sell(b) => now' = now
  BY Zenon DEF Sell
<1>6. \A i : Cancel(i) => now' = now
  BY Zenon DEF Cancel
<1>7. \A i, j, q : ReturnUnits(i, j, q) => now' = now
  BY Zenon DEF ReturnUnits
<1>8. \A i, j, v, n : ReturnPart(i, j, v, n) => now' = now
  <2> SUFFICES ASSUME NEW i, NEW j, NEW v, NEW n, ReturnPart(i, j, v, n) PROVE now' = now
    BY Zenon
  <2>1. UNCHANGED <<now, balances, linked, closing>>
    BY ONLY ReturnPart(i, j, v, n), Zenon DEF ReturnPart
  <2> QED BY <2>1, Zenon
<1> QED BY <1>1, <1>2, <1>3, <1>4, <1>5, <1>6, <1>7, <1>8, Zenon DEF ShopNext

\* TimeOnlyAges: a step of the clock makes no customer's segment better, no stock younger and no
\* dead stock alive, in any history of the shop.
THEOREM ReportsOnlyAge == ShopSpec => TimeOnlyAges
<1> USE ShopAssumption
<1> DEFINE Aged ==
       /\ \A c \in DOMAIN CustomerFrequency(Stores, AllTime) :
            Rank(CustomerFrequency(Stores, AllTime)'[c].segment)
              <= Rank(CustomerFrequency(Stores, AllTime)[c].segment)
       /\ \A v \in Variants : AgingBucket(DaysInStock(Stores, v)) <= AgingBucket(DaysInStock(Stores, v))'
       /\ DeadStock(Stores, 30) \subseteq DeadStock(Stores, 30)'
<1>1. ShopTypes => Readings
  BY ReadingsHold
<1>2. ShopTypes /\ Readings /\ Readings' /\ [ShopNext]_shopVars => [now' # now => Aged]_shopVars
  <2> SUFFICES ASSUME ShopTypes, Readings, Readings', ShopNext, now' # now PROVE Aged
    BY DEF shopVars
  <2> PICK hour \in Moments : Pass(hour)
    BY OnlyPassTicks
  <2> QED BY PassAges
<1> HIDE DEF Aged
<1>3. ShopSpec => [][now' # now => Aged]_shopVars
  BY <1>1, <1>2, LedgerHolds, PTL DEF ShopSpec
<1> QED BY <1>3 DEF TimeOnlyAges, Aged
=============================================================================
