---------------------------- MODULE Prices_proofs ---------------------------
(***************************************************************************)
(* Proofs about prices and where they hold.  Approval requests and store   *)
(* prices (Approvals), for every number of requests, users, stores and     *)
(* handlers, whatever overlaps and wherever a process stops: nothing is    *)
(* carried out without its reviews, what one handler at a time decides is  *)
(* carried out once, one request of a subject waits, and prices add up and *)
(* are changed in all stores or in none.  The variants of a product        *)
(* (Catalogue), for any values, names, selections and stores: no price is in *)
(* force where the variant is closed, a sync that is alone finds free codes, *)
(* opens no closed store and leaves nothing on sale but its selection.  The *)
(* two are specifications of their own and share no state.                 *)
(***************************************************************************)
EXTENDS Approvals, Catalogue, FiniteSetTheorems, WellFoundedInduction, TLAPS

RequestRow ==
  [status : {"PENDING_L1", "PENDING_L2", "APPROVED", "REJECTED", "CANCELLED"},
   subject : Subjects, by : Users]

Places == {"idle", "read", "execute", "pricing", "end"}
HandlerRow ==
  [op : Decisions \cup {"none", "create"}, at : Places, req : Requests \cup {"none"},
   copy : RequestRow \cup {NoRequest}, by : Users \cup {"none"}]

Exists(r) == request[r] \in RequestRow
IsPrice(r) == TypeOf[request[r].subject] = "PRICE_OVERRIDE"
Needed(r) == IF IsPrice(r) THEN {1, 2} ELSE {1}

Types ==
  /\ request \in [Requests -> RequestRow \cup {NoRequest}]
  /\ handler \in [Handlers -> HandlerRow]
  /\ applied \in [Requests -> Nat]
  /\ granted \in [Requests -> SUBSET {1, 2}]

\* A handler that creates holds a new request; one that decides or carries out holds a copy
\* of a request that exists, of the same subject.
Holds(h) ==
  LET d == handler[h] IN
  /\ d.op = "create" /\ d.at = "read" => d.copy \in RequestRow /\ d.copy.status = "PENDING_L1"
  /\ d.at \in {"execute", "pricing"} => d.op \in {"approveL1", "approveL2"}
  /\ d.op \in Decisions /\ d.at \in {"read", "execute", "pricing"} =>
       /\ d.req \in Requests /\ Exists(d.req)
       /\ d.copy \in RequestRow /\ d.copy.subject = request[d.req].subject

\* The second review is about a price that has had its first; what is carried out has had
\* all its reviews.
Reviewed(h) ==
  LET d == handler[h] IN
  /\ d.op \in {"approveL2", "rejectL2"} /\ d.at = "read" => IsPrice(d.req) /\ 1 \in granted[d.req]
  /\ d.at \in {"execute", "pricing"} => granted[d.req] = Needed(d.req)

\* No request is reviewed at a level it does not have, or before it exists.
Granted(r) ==
  /\ ~Exists(r) => granted[r] = {} /\ applied[r] = 0
  /\ Exists(r) => granted[r] \subseteq Needed(r)
  /\ request[r].status = "PENDING_L2" => IsPrice(r) /\ 1 \in granted[r]
  /\ applied[r] > 0 => granted[r] = Needed(r)

Sound ==
  /\ Types
  /\ \A h \in Handlers : Holds(h) /\ Reviewed(h)
  /\ \A r \in Requests : Granted(r)

LEMMA RowsDiffer == NoRequest \notin RequestRow
<1>1. NoRequest.status = "none"
  BY DEF NoRequest
<1> QED
  BY <1>1 DEF RequestRow

LEMMA InitSound == Init => Sound
<1> SUFFICES ASSUME Init PROVE Sound
  OBVIOUS
<1>1. Types
  BY DEF Init, Types, Idle, HandlerRow, Places
<1>2. \A h \in Handlers : Holds(h) /\ Reviewed(h)
  BY DEF Init, Holds, Reviewed, Idle, Decisions
<1>3. \A r \in Requests : Granted(r)
  BY RowsDiffer DEF Init, Granted, Exists, NoRequest
<1> QED
  BY <1>1, <1>2, <1>3 DEF Sound

\* A handler is undisturbed when others change neither the subjects of requests nor take
\* reviews away.
LEMMA HandlerKept ==
  ASSUME Sound, NEW g \in Handlers, handler'[g] = handler[g],
         \A r \in Requests : Exists(r) => Exists(r)' /\ request'[r].subject = request[r].subject,
         \A r \in Requests : granted[r] \subseteq granted'[r],
         \A r \in Requests : Exists(r) => granted'[r] \subseteq Needed(r)
  PROVE  Holds(g)' /\ Reviewed(g)'
<1> DEFINE d == handler[g]
<1>1. Holds(g) /\ Reviewed(g) /\ d \in HandlerRow
  BY DEF Sound, Types
<1>2. Holds(g)'
  <2>1. d.op \in Decisions /\ d.at \in {"read", "execute", "pricing"} =>
          Exists(d.req)' /\ d.copy.subject = request'[d.req].subject
    BY <1>1 DEF Holds
  <2> QED
    BY <1>1, <2>1 DEF Holds
<1>3. ASSUME d.op \in Decisions, d.at \in {"read", "execute", "pricing"}
      PROVE  /\ IsPrice(d.req)' = IsPrice(d.req) /\ Needed(d.req)' = Needed(d.req)
             /\ granted[d.req] \subseteq granted'[d.req] /\ granted'[d.req] \subseteq Needed(d.req)
  BY <1>1, <1>3 DEF Holds, IsPrice, Needed
<1>4. /\ d.op \in {"approveL2", "rejectL2"} => d.op \in Decisions
      /\ d.at \in {"execute", "pricing"} => d.op \in Decisions
  BY <1>1 DEF Holds, Decisions
<1>5. d.op \in {"approveL2", "rejectL2"} /\ d.at = "read" =>
        IsPrice(d.req)' /\ 1 \in granted'[d.req]
  BY <1>1, <1>3, <1>4 DEF Reviewed
<1>6. d.at \in {"execute", "pricing"} => granted'[d.req] = Needed(d.req)'
  BY <1>1, <1>3, <1>4 DEF Reviewed
<1> QED
  BY <1>2, <1>5, <1>6 DEF Reviewed

\* Steps that leave requests, reviews and what is carried out alone.
LEMMA QuietStep ==
  ASSUME Sound, NEW h \in Handlers, UNCHANGED <<request, applied, granted>>,
         handler' \in [Handlers -> HandlerRow],
         \A g \in Handlers \ {h} : handler'[g] = handler[g],
         Holds(h)' /\ Reviewed(h)'
  PROVE  Sound'
<1>1. Types'
  BY DEF Sound, Types
<1>2. \A r \in Requests : Granted(r) => Granted(r)' /\ granted[r] \subseteq granted'[r]
  BY DEF Granted, Exists, IsPrice, Needed
<1>3. \A r \in Requests : Exists(r) => Exists(r)' /\ granted'[r] \subseteq Needed(r)
  BY DEF Exists, Sound, Granted
<1>4. \A g \in Handlers \ {h} : Holds(g)' /\ Reviewed(g)'
  BY <1>2, <1>3, HandlerKept DEF Sound
<1> QED
  BY <1>1, <1>2, <1>4 DEF Sound

LEMMA CheckNewStep ==
  ASSUME Sound, NEW h \in Handlers, CheckNew(h)
  PROVE  Sound'
<1>1. PICK k \in Subjects, u \in Users :
        handler' = [handler EXCEPT ![h] = [Idle EXCEPT !.op = "create", !.at = "read",
            !.by = u, !.copy = [status |-> "PENDING_L1", subject |-> k, by |-> u]]]
  BY DEF CheckNew
<1> DEFINE d == [Idle EXCEPT !.op = "create", !.at = "read",
                   !.by = u, !.copy = [status |-> "PENDING_L1", subject |-> k, by |-> u]]
<1>2. /\ d \in HandlerRow /\ d.op = "create" /\ d.at = "read"
      /\ d.copy \in RequestRow /\ d.copy.status = "PENDING_L1"
  BY DEF Idle, HandlerRow, Places, RequestRow
<1>3. handler' = [handler EXCEPT ![h] = d]
  BY <1>1
<1> HIDE DEF d
<1>4. handler' \in [Handlers -> HandlerRow] /\ handler'[h] = d
      /\ \A g \in Handlers \ {h} : handler'[g] = handler[g]
  BY <1>2, <1>3 DEF Sound, Types
<1>5. Holds(h)' /\ Reviewed(h)'
  BY <1>2, <1>4 DEF Holds, Reviewed, Decisions
<1> QED
  BY <1>4, <1>5, QuietStep DEF CheckNew

LEMMA ReadStep ==
  ASSUME Sound, NEW h \in Handlers, Read(h)
  PROVE  Sound'
<1>1. PICK r \in Requests, u \in Users, op \in Decisions :
        /\ request[r] # NoRequest /\ Allowed(op, r, u)
        /\ handler' = [handler EXCEPT ![h] = [Idle EXCEPT !.op = op, !.at = "read", !.req = r,
                                                          !.copy = request[r], !.by = u]]
  BY DEF Read
<1> DEFINE d == [Idle EXCEPT !.op = op, !.at = "read", !.req = r, !.copy = request[r], !.by = u]
<1>2. /\ d \in HandlerRow /\ d.op = op /\ d.at = "read" /\ d.req = r /\ d.copy = request[r]
      /\ request[r] \in RequestRow
  BY <1>1 DEF Sound, Types, Idle, HandlerRow, Places
<1>3. handler' = [handler EXCEPT ![h] = d]
  BY <1>1
<1> HIDE DEF d
<1>4. handler' \in [Handlers -> HandlerRow] /\ handler'[h] = d
      /\ \A g \in Handlers \ {h} : handler'[g] = handler[g]
  BY <1>2, <1>3 DEF Sound, Types
<1>5. request' = request /\ granted' = granted /\ applied' = applied
  BY DEF Read
<1>6. Holds(h)'
  BY <1>2, <1>4, <1>5 DEF Holds, Exists, Decisions
<1>7. op \in {"approveL2", "rejectL2"} => request[r].status = "PENDING_L2"
  BY <1>1 DEF Allowed
<1>8. Reviewed(h)'
  <2>1. op \in {"approveL2", "rejectL2"} => IsPrice(r) /\ 1 \in granted[r]
    BY <1>7 DEF Sound, Granted
  <2> QED
    BY <1>2, <1>4, <1>5, <2>1 DEF Reviewed, IsPrice
<1> QED
  BY <1>4, <1>5, <1>6, <1>8, QuietStep

LEMMA InsertStep ==
  ASSUME Sound, NEW h \in Handlers, Insert(h)
  PROVE  Sound'
<1>1. PICK r \in Requests :
        /\ request[r] = NoRequest
        /\ request' = [request EXCEPT ![r] = handler[h].copy]
        /\ handler' = [handler EXCEPT ![h].at = "end", ![h].req = r]
  BY DEF Insert
<1>2. /\ handler[h].op = "create" /\ handler[h].at = "read"
      /\ handler[h].copy \in RequestRow /\ handler[h].copy.status = "PENDING_L1"
      /\ handler[h] \in HandlerRow /\ granted' = granted /\ applied' = applied
  BY DEF Insert, Sound, Types, Holds
<1>3. handler' \in [Handlers -> HandlerRow] /\ handler'[h].at = "end"
      /\ handler'[h].op = "create" /\ \A g \in Handlers \ {h} : handler'[g] = handler[g]
  BY <1>1, <1>2 DEF Sound, Types, HandlerRow, Places
<1>4. \A q \in Requests \ {r} : request'[q] = request[q]
  BY <1>1 DEF Sound, Types
<1>5. request'[r] = handler[h].copy /\ ~Exists(r) /\ Exists(r)'
  BY <1>1, <1>2, RowsDiffer DEF Sound, Types, Exists
<1>6. Types'
  BY <1>1, <1>2, <1>3 DEF Sound, Types
<1>7. \A q \in Requests : Granted(q)'
  <2>1. \A q \in Requests \ {r} : Granted(q)'
    BY <1>2, <1>4 DEF Sound, Granted, Exists, IsPrice, Needed
  <2>2. granted[r] = {} /\ applied[r] = 0
    BY <1>5 DEF Sound, Granted
  <2>3. request'[r].status # "PENDING_L2"
    BY <1>2, <1>5
  <2> QED
    BY <1>2, <1>5, <2>1, <2>2, <2>3 DEF Granted
<1>8. Holds(h)' /\ Reviewed(h)'
  BY <1>3 DEF Holds, Reviewed, Decisions
<1>9. \A g \in Handlers \ {h} : Holds(g)' /\ Reviewed(g)'
  <2>1. \A q \in Requests : Exists(q) =>
          /\ Exists(q)' /\ request'[q].subject = request[q].subject
          /\ granted'[q] \subseteq Needed(q)
    BY <1>2, <1>4, <1>5 DEF Exists, Sound, Granted
  <2> QED
    BY <1>2, <1>3, <2>1, HandlerKept
<1> QED
  BY <1>6, <1>7, <1>8, <1>9 DEF Sound

\* A decision is saved: the heart of the proof.  The copy that is written has the subject of
\* the request, and the review it adds completes those the request needs exactly when the
\* decision is the last one.
LEMMA SaveStep ==
  ASSUME Sound, NEW h \in Handlers, Save(h)
  PROVE  Sound'
<1> DEFINE d == handler[h]
<1>0. PICK r \in Requests : r = d.req
  BY DEF Save, Sound, Holds
<1> DEFINE level == IF d.op = "approveL1" THEN {1} ELSE IF d.op = "approveL2" THEN {2} ELSE {}
           status == Decided(d.op, r)
<1>1. /\ d \in HandlerRow /\ d.op \in Decisions /\ d.at = "read" /\ r = d.req
      /\ Exists(r) /\ d.copy \in RequestRow /\ d.copy.subject = request[r].subject
      /\ Reviewed(h) /\ Granted(r) /\ granted[r] \in SUBSET {1, 2}
  BY <1>0 DEF Save, Sound, Types, Holds
<1>2. /\ request' = [request EXCEPT ![r] = [d.copy EXCEPT !.status = status]]
      /\ handler' = [handler EXCEPT ![h].at = IF Executes(d.op, r) THEN "execute" ELSE "end"]
      /\ granted' = [granted EXCEPT ![r] = @ \cup level]
      /\ applied' = applied
  BY <1>0 DEF Save
<1>3. status \in {"PENDING_L2", "APPROVED", "REJECTED", "CANCELLED"}
  BY <1>1 DEF Decided, Decisions
<1>4. \A q \in Requests \ {r} : request'[q] = request[q] /\ granted'[q] = granted[q]
  BY <1>2 DEF Sound, Types
<1>5. /\ request'[r] \in RequestRow /\ request'[r].subject = request[r].subject
      /\ request'[r].status = status
  <2>1. request'[r] = [d.copy EXCEPT !.status = status]
    BY <1>1, <1>2 DEF Sound, Types
  <2> DEFINE c == d.copy
             saved == request'[r]
  <2>2. /\ c \in RequestRow /\ c.subject = request[r].subject
        /\ saved = [c EXCEPT !.status = status]
    BY <1>1, <2>1
  <2> HIDE DEF status, c, saved
  <2>3. saved \in RequestRow /\ saved.subject = c.subject /\ saved.status = status
    BY <1>3, <2>2 DEF RequestRow
  <2> QED
    BY <2>2, <2>3 DEF saved
<1>6. Exists(r)' /\ IsPrice(r)' = IsPrice(r) /\ Needed(r)' = Needed(r)
  BY <1>5 DEF Exists, IsPrice, Needed
<1>7. granted'[r] = granted[r] \cup level
  BY <1>1, <1>2 DEF Sound, Types
<1>8. level \subseteq Needed(r)
  BY <1>1 DEF Reviewed, Needed
<1>9. Last(d.op, r) => granted'[r] = Needed(r)
  <2>1. CASE d.op = "approveL2"
    BY <1>1, <1>7, <1>8, <2>1 DEF Reviewed, Needed
  <2>2. CASE d.op = "approveL1" /\ ~IsPrice(r)
    BY <1>1, <1>7, <2>2 DEF Granted, Needed
  <2>3. Last(d.op, r) => d.op = "approveL2" \/ (d.op = "approveL1" /\ ~IsPrice(r))
    BY DEF Last, MaxLevel, IsPrice
  <2> QED
    BY <2>1, <2>2, <2>3
<1>10. status = "PENDING_L2" => IsPrice(r) /\ level = {1}
  BY <1>1 DEF Decided, Decisions, Last, MaxLevel, IsPrice
<1>11. /\ handler' \in [Handlers -> HandlerRow]
       /\ handler'[h] = [d EXCEPT !.at = IF Executes(d.op, r) THEN "execute" ELSE "end"]
       /\ \A g \in Handlers \ {h} : handler'[g] = handler[g]
  <2>1. [d EXCEPT !.at = IF Executes(d.op, r) THEN "execute" ELSE "end"] \in HandlerRow
    BY <1>1 DEF HandlerRow, Places
  <2> QED
    BY <1>2, <2>1 DEF Sound, Types
<1> HIDE DEF level, status
<1>12. Types'
  <2>1. request' \in [Requests -> RequestRow \cup {NoRequest}]
    BY <1>1, <1>2, <1>5 DEF Sound, Types
  <2>2. granted' \in [Requests -> SUBSET {1, 2}]
    BY <1>1, <1>2, <1>7, <1>8 DEF Sound, Types, Needed
  <2> QED
    BY <1>2, <1>11, <2>1, <2>2 DEF Sound, Types
<1>13. \A q \in Requests : Granted(q)'
  <2>1. \A q \in Requests \ {r} : Granted(q)'
    BY <1>2, <1>4 DEF Sound, Granted, Exists, IsPrice, Needed
  <2>2. granted'[r] \subseteq Needed(r)
    BY <1>1, <1>7, <1>8 DEF Granted
  <2>3. applied[r] > 0 => granted'[r] = Needed(r)
    BY <1>1, <1>7, <2>2 DEF Granted
  <2>4. status = "PENDING_L2" => IsPrice(r) /\ 1 \in granted'[r]
    BY <1>7, <1>10
  <2> QED
    BY <1>2, <1>5, <1>6, <2>1, <2>2, <2>3, <2>4 DEF Granted
<1>14. Holds(h)'
  <2>1. handler'[h].at = "execute" => d.op \in {"approveL1", "approveL2"}
    BY <1>1, <1>11 DEF Executes, Last, HandlerRow
  <2>2. /\ handler'[h].op = d.op /\ handler'[h].req = r /\ handler'[h].copy = d.copy
        /\ handler'[h].at \in {"execute", "end"}
    BY <1>1, <1>11 DEF HandlerRow
  <2>3. d.op # "create"
    BY <1>1 DEF Decisions
  <2> QED
    BY <1>1, <1>5, <1>6, <2>1, <2>2, <2>3 DEF Holds
<1>15. Reviewed(h)'
  <2>1. handler'[h].at = "execute" => Last(d.op, r)
    BY <1>1, <1>11 DEF Executes, HandlerRow
  <2>2. handler'[h].req = r /\ handler'[h].at \in {"execute", "end"}
    BY <1>1, <1>11 DEF HandlerRow
  <2> QED
    BY <1>6, <1>9, <2>1, <2>2 DEF Reviewed
<1>16. \A g \in Handlers \ {h} : Holds(g)' /\ Reviewed(g)'
  <2>1. \A q \in Requests : Exists(q) =>
          Exists(q)' /\ request'[q].subject = request[q].subject
    BY <1>4, <1>5, <1>6 DEF Exists
  <2>2. \A q \in Requests : granted[q] \subseteq granted'[q]
    BY <1>4, <1>7
  <2>3. \A q \in Requests : Exists(q) => granted'[q] \subseteq Needed(q)
    BY <1>1, <1>4, <1>7, <1>8 DEF Sound, Granted
  <2> QED
    BY <1>11, <2>1, <2>2, <2>3, HandlerKept
<1> QED
  BY <1>12, <1>13, <1>14, <1>15, <1>16 DEF Sound

\* A handler that has only moved on, from where it may carry out or not.
LEMMA MoveStep ==
  ASSUME Sound, NEW h \in Handlers, NEW p \in Places,
         handler' = [handler EXCEPT ![h].at = p],
         p = "end" \/ (p = "pricing" /\ handler[h].at = "execute"),
         request' = request, granted' = granted,
         applied' \in [Requests -> Nat],
         \A r \in Requests : applied'[r] = applied[r]
            \/ (r = handler[h].req /\ handler[h].at \in {"execute", "pricing"})
  PROVE  Sound'
<1> DEFINE d == handler[h]
<1>1. d \in HandlerRow /\ Holds(h) /\ Reviewed(h)
  BY DEF Sound, Types
<1>2. [d EXCEPT !.at = p] \in HandlerRow
  BY <1>1 DEF HandlerRow
<1>3. /\ handler' \in [Handlers -> HandlerRow] /\ handler'[h] = [d EXCEPT !.at = p]
      /\ \A g \in Handlers \ {h} : handler'[g] = handler[g]
  BY <1>2 DEF Sound, Types
<1>4. /\ handler'[h].at = p /\ handler'[h].op = d.op /\ handler'[h].req = d.req
      /\ handler'[h].copy = d.copy
  BY <1>1, <1>3 DEF HandlerRow
<1>5. Holds(h)' /\ Reviewed(h)'
  <2>1. CASE p = "end"
    BY <1>4, <2>1 DEF Holds, Reviewed
  <2>2. CASE p = "pricing" /\ d.at = "execute"
    <3>1. Holds(h)'
      BY <1>1, <1>4, <2>2 DEF Holds, Exists
    <3>2. Reviewed(h)'
      BY <1>1, <1>4, <2>2 DEF Reviewed, IsPrice, Needed
    <3> QED
      BY <3>1, <3>2
  <2> QED
    BY <2>1, <2>2
<1>6. \A r \in Requests : Granted(r)'
  <2> SUFFICES ASSUME NEW r \in Requests PROVE Granted(r)'
    OBVIOUS
  <2>1. Granted(r) /\ Exists(r)' = Exists(r) /\ IsPrice(r)' = IsPrice(r) /\ Needed(r)' = Needed(r)
    BY DEF Sound, Exists, IsPrice, Needed
  <2>2. CASE applied'[r] = applied[r]
    BY <2>1, <2>2 DEF Granted
  <2>3. CASE r = d.req /\ d.at \in {"execute", "pricing"}
    <3>1. Exists(r) /\ granted[r] = Needed(r)
      BY <1>1, <2>3 DEF Holds, Reviewed, Decisions
    <3> QED
      BY <2>1, <3>1 DEF Granted
  <2> QED
    BY <2>2, <2>3
<1>7. \A g \in Handlers \ {h} : Holds(g)' /\ Reviewed(g)'
  <2>1. \A q \in Requests : Exists(q) => Exists(q)' /\ granted'[q] \subseteq Needed(q)
    BY DEF Exists, Sound, Granted
  <2> QED
    BY <1>3, <2>1, HandlerKept
<1>8. Types'
  BY <1>3 DEF Sound, Types
<1> QED
  BY <1>5, <1>6, <1>7, <1>8 DEF Sound

LEMMA ExecuteStep ==
  ASSUME Sound, NEW h \in Handlers,
         ExecuteStock(h) \/ ExecutePrice(h) \/ PriceDone(h) \/ ExecuteNothing(h) \/ Crash(h)
  PROVE  Sound'
<1> DEFINE r == handler[h].req
<1>1. /\ applied \in [Requests -> Nat] /\ "end" \in Places /\ "pricing" \in Places
      /\ handler[h].at \in {"execute", "pricing"} => r \in Requests
  BY DEF Sound, Types, Holds, Places, Decisions
<1>2. CASE ExecuteStock(h)
  <2>1. applied' \in [Requests -> Nat] /\ \A q \in Requests \ {r} : applied'[q] = applied[q]
    BY <1>1, <1>2 DEF ExecuteStock
  <2>2. handler' = [handler EXCEPT ![h].at = "end"] /\ handler[h].at = "execute"
    BY <1>2 DEF ExecuteStock
  <2> QED
    BY <1>1, <1>2, <2>1, <2>2, MoveStep DEF ExecuteStock
<1>3. CASE ExecutePrice(h)
  BY <1>1, <1>3, MoveStep DEF ExecutePrice
<1>4. CASE PriceDone(h)
  <2>1. applied' \in [Requests -> Nat] /\ \A q \in Requests \ {r} : applied'[q] = applied[q]
    BY <1>1, <1>4 DEF PriceDone
  <2>2. handler' = [handler EXCEPT ![h].at = "end"] /\ handler[h].at = "pricing"
    BY <1>4 DEF PriceDone
  <2> QED
    BY <1>1, <1>4, <2>1, <2>2, MoveStep DEF PriceDone
<1>5. CASE ExecuteNothing(h)
  BY <1>1, <1>5, MoveStep DEF ExecuteNothing
<1>6. CASE Crash(h)
  BY <1>1, <1>6, MoveStep DEF Crash
<1> QED
  BY <1>2, <1>3, <1>4, <1>5, <1>6

LEMMA SoundStep == Sound /\ [Next]_vars => Sound'
<1> SUFFICES ASSUME Sound, [Next]_vars PROVE Sound'
  OBVIOUS
<1>1. CASE UNCHANGED approvalVars
  BY <1>1 DEF approvalVars, Sound, Types, Holds, Reviewed, Granted, Exists, IsPrice, Needed
<1>2. ASSUME NEW h \in Handlers, CheckNew(h) \/ Insert(h) \/ Read(h) \/ Save(h) PROVE Sound'
  BY <1>2, CheckNewStep, InsertStep, ReadStep, SaveStep
<1>3. ASSUME NEW h \in Handlers,
             Crash(h) \/ ExecuteStock(h) \/ ExecutePrice(h) \/ PriceDone(h) \/ ExecuteNothing(h)
      PROVE  Sound'
  BY <1>3, ExecuteStep
<1> QED
  BY <1>1, <1>2, <1>3 DEF Next, SetPrice, vars

\* A price is overridden only after both its reviews were saved, a stock adjustment only
\* after its one (reviewL1, reviewL2, executeApproval), whatever decisions overlap.
THEOREM NothingUnreviewed == Spec => []ReviewedFirst
<1>1. Init => Sound
  BY InitSound
<1>2. Sound /\ [Next]_vars => Sound'
  BY SoundStep
<1>3. Sound => ReviewedFirst
  BY DEF Sound, Granted, ReviewedFirst, IsPrice, Needed
<1> QED
  BY <1>1, <1>2, <1>3, PTL DEF Spec

-----------------------------------------------------------------------------
(* One decision at a time. *)

Executing(h, r) == handler[h].req = r /\ handler[h].at \in {"execute", "pricing"}
Creating(h, k) ==
  handler[h].op = "create" /\ handler[h].at = "read" /\ handler[h].copy.subject = k
Waits(r, k) == request[r].status \in Pending /\ request[r].subject = k
ToCarryOut(r) ==
  request[r].status = "APPROVED" /\ TypeOf[request[r].subject] # "PURCHASE_ORDER"

\* A request on which no decisions have clashed has one handler at most, whose copy is the
\* request as it is; once approved, it is being carried out, or has been, or that failed.
DecidedOnce(r) ==
  r \notin clashed =>
    /\ \A g, h \in Handlers : Deciding(g, r) /\ Deciding(h, r) => g = h
    /\ \A h \in Handlers : Deciding(h, r) =>
         handler[h].copy = request[r] /\ Allowed(handler[h].op, r, handler[h].by)
    /\ \A h \in Handlers : Executing(h, r) => request[r].status = "APPROVED" /\ applied[r] = 0
    /\ \A g, h \in Handlers : Executing(g, r) /\ Executing(h, r) => g = h
    /\ applied[r] <= 1 /\ (request[r].status # "APPROVED" => applied[r] = 0)
    /\ ToCarryOut(r) =>
         applied[r] = 1 \/ r \in failed \/ \E h \in Handlers : Executing(h, r)

\* A subject for which no two requests were created at once has one that waits, or one
\* handler that is about to create one.
WaitsOnce(k) ==
  k \notin clashed =>
    /\ \A g, h \in Handlers : Creating(g, k) /\ Creating(h, k) => g = h
    /\ \A h \in Handlers, r \in Requests \ clashed : Creating(h, k) => ~Waits(r, k)
    /\ \A q, r \in Requests \ clashed : Waits(q, k) /\ Waits(r, k) => q = r

Once ==
  /\ \A r \in Requests : DecidedOnce(r)
  /\ \A k \in Subjects : WaitsOnce(k)

LEMMA InitOnce == Init => Once
BY DEF Init, Once, DecidedOnce, WaitsOnce, Deciding, Executing, Creating, Waits, ToCarryOut,
       Idle, NoRequest, Decisions, Pending

\* A step that takes h nowhere near request r, and leaves the request as it is.
LEMMA DecidedElsewhere ==
  ASSUME NEW r \in Requests, DecidedOnce(r), NEW h \in Handlers,
         \A g \in Handlers \ {h} : handler'[g] = handler[g],
         request'[r] = request[r], applied'[r] = applied[r],
         clashed \subseteq clashed', failed \subseteq failed',
         ~Deciding(h, r)', ~Executing(h, r)',
         ~Executing(h, r)
  PROVE  DecidedOnce(r)'
<1> SUFFICES ASSUME r \notin clashed' PROVE DecidedOnce(r)'
  BY DEF DecidedOnce
<1>1. \A g \in Handlers : Deciding(g, r)' => g # h /\ Deciding(g, r) /\ handler'[g] = handler[g]
  BY DEF Deciding
<1>2. \A g \in Handlers : Executing(g, r)' <=> Executing(g, r)
  BY DEF Executing
<1>3. ToCarryOut(r)' => ToCarryOut(r)
  BY DEF ToCarryOut
<1>4. r \notin clashed
  OBVIOUS
<1>5. \A g \in Handlers : Deciding(g, r)' =>
        handler'[g].copy = request'[r] /\ Allowed(handler[g].op, r, handler[g].by)'
  BY <1>1, <1>4 DEF DecidedOnce, Allowed
<1>6. \A x, g \in Handlers : Deciding(x, r)' /\ Deciding(g, r)' => x = g
  BY <1>1, <1>4 DEF DecidedOnce
<1>7. /\ \A g \in Handlers : Executing(g, r)' => request'[r].status = "APPROVED" /\ applied'[r] = 0
      /\ \A x, g \in Handlers : Executing(x, r)' /\ Executing(g, r)' => x = g
      /\ applied'[r] <= 1 /\ (request'[r].status # "APPROVED" => applied'[r] = 0)
  BY <1>2, <1>4 DEF DecidedOnce
<1>8. ToCarryOut(r)' =>
        applied'[r] = 1 \/ r \in failed' \/ \E g \in Handlers : Executing(g, r)'
  BY <1>2, <1>3, <1>4 DEF DecidedOnce
<1> QED
  BY <1>5, <1>6, <1>7, <1>8 DEF DecidedOnce

LEMMA CheckNewOnce ==
  ASSUME Sound, Once, NEW h \in Handlers, CheckNew(h)
  PROVE  Once'
<1>1. PICK k \in Subjects, u \in Users :
       /\ ~Waiting(k)
       /\ handler' = [handler EXCEPT ![h] = [Idle EXCEPT !.op = "create", !.at = "read",
            !.by = u, !.copy = [status |-> "PENDING_L1", subject |-> k, by |-> u]]]
       /\ clashed' = clashed \cup
            {x \in {k} : \E g \in Handlers : handler[g].op = "create" /\ handler[g].at = "read"
                                             /\ handler[g].copy.subject = k}
  BY DEF CheckNew
<1>2. handler[h] = Idle /\ UNCHANGED <<request, applied, failed, granted>>
  BY DEF CheckNew
<1>3. /\ handler'[h].op = "create" /\ handler'[h].at = "read" /\ handler'[h].copy.subject = k
      /\ \A g \in Handlers \ {h} : handler'[g] = handler[g]
  BY <1>1 DEF Sound, Types, Idle
<1>4. \A r \in Requests : DecidedOnce(r)'
  <2> SUFFICES ASSUME NEW r \in Requests PROVE DecidedOnce(r)'
    OBVIOUS
  <2>1. ~Deciding(h, r)' /\ ~Executing(h, r)' /\ ~Executing(h, r)
    BY <1>2, <1>3 DEF Deciding, Executing, Decisions, Idle
  <2> QED
    BY <1>1, <1>2, <1>3, <2>1, DecidedElsewhere DEF Once
<1>5. ASSUME NEW l \in Subjects, l \notin clashed' PROVE WaitsOnce(l)'
  <2>1. WaitsOnce(l) /\ l \notin clashed /\ \A r : Waits(r, l)' <=> Waits(r, l)
    BY <1>1, <1>2, <1>5 DEF Once, Waits
  <2>2. \A g \in Handlers \ {h} : Creating(g, l)' <=> Creating(g, l)
    BY <1>3 DEF Creating
  <2>3. CASE l = k
    <3>1. \A g \in Handlers \ {h} : ~Creating(g, l)
      BY <1>1, <1>5, <2>3 DEF Creating
    <3>2. \A r \in Requests : ~Waits(r, l)
      BY <1>1, <2>3 DEF Waiting, Waits
    <3> QED
      BY <2>1, <2>2, <3>1, <3>2 DEF WaitsOnce
  <2>4. CASE l # k
    <3>1. ~Creating(h, l)'
      BY <1>3, <2>4 DEF Creating
    <3> QED
      BY <1>1, <2>1, <2>2, <3>1 DEF WaitsOnce
  <2> QED
    BY <2>3, <2>4
<1> QED
  BY <1>4, <1>5 DEF Once, WaitsOnce

LEMMA InsertOnce ==
  ASSUME Sound, Once, NEW h \in Handlers, Insert(h)
  PROVE  Once'
<1>1. PICK r \in Requests :
        /\ request[r] = NoRequest
        /\ request' = [request EXCEPT ![r] = handler[h].copy]
        /\ handler' = [handler EXCEPT ![h].at = "end", ![h].req = r]
  BY DEF Insert
<1>2. PICK k : k = handler[h].copy.subject
  OBVIOUS
<1>3. /\ Creating(h, k) /\ handler[h].copy \in RequestRow /\ handler[h].copy.status = "PENDING_L1"
      /\ handler[h] \in HandlerRow /\ UNCHANGED <<applied, failed, clashed>>
  BY <1>2 DEF Insert, Creating, Sound, Types, Holds
<1>4. /\ handler'[h].op = "create" /\ handler'[h].at = "end"
      /\ \A g \in Handlers \ {h} : handler'[g] = handler[g]
  BY <1>1, <1>3 DEF Sound, Types, HandlerRow, Creating
<1>5. /\ request'[r] = handler[h].copy /\ request'[r].status = "PENDING_L1" /\ ~Exists(r)
      /\ \A q \in Requests \ {r} : request'[q] = request[q]
  BY <1>1, <1>3, RowsDiffer DEF Sound, Types, Exists
<1>6. \A g \in Handlers : ~Deciding(g, r)' /\ ~Executing(g, r)'
  <2>1. \A g \in Handlers : ~Deciding(g, r) /\ ~Executing(g, r)
    BY <1>5 DEF Sound, Holds, Deciding, Executing, Decisions
  <2> QED
    BY <1>4, <2>1 DEF Deciding, Executing, Decisions
<1>7. DecidedOnce(r)'
  <2>1. applied'[r] = 0
    BY <1>3, <1>5 DEF Sound, Granted
  <2> QED
    BY <1>5, <1>6, <2>1 DEF DecidedOnce, ToCarryOut
<1>8. ASSUME NEW q \in Requests \ {r} PROVE DecidedOnce(q)'
  <2>1. ~Deciding(h, q)' /\ ~Executing(h, q)' /\ ~Executing(h, q)
    BY <1>3, <1>4 DEF Deciding, Executing, Creating
  <2>2. DecidedOnce(q) /\ request'[q] = request[q]
    BY <1>5 DEF Once
  <2> QED
    BY <1>3, <1>4, <2>1, <2>2, DecidedElsewhere
<1>9. ASSUME NEW l \in Subjects, l \notin clashed' PROVE WaitsOnce(l)'
  <2>1. WaitsOnce(l) /\ l \notin clashed
    BY <1>3, <1>9 DEF Once
  <2>2. \A g \in Handlers : Creating(g, l)' => g # h /\ Creating(g, l)
    BY <1>4 DEF Creating
  <2>3. \A q \in Requests \ {r} : Waits(q, l)' <=> Waits(q, l)
    BY <1>5 DEF Waits
  <2>4. CASE l = k
    <3>1. \A g \in Handlers : ~Creating(g, l)'
      BY <1>3, <2>1, <2>2, <2>4 DEF WaitsOnce
    <3>2. \A q \in Requests \ clashed : Waits(q, l)' => q = r
      BY <1>3, <2>1, <2>3, <2>4 DEF WaitsOnce
    <3> QED
      BY <1>3, <3>1, <3>2 DEF WaitsOnce
  <2>5. CASE l # k
    <3>1. ~Waits(r, l)'
      BY <1>2, <1>5, <2>5 DEF Waits
    <3> QED
      BY <1>3, <2>1, <2>2, <2>3, <3>1 DEF WaitsOnce
  <2> QED
    BY <2>4, <2>5
<1> QED
  BY <1>7, <1>8, <1>9 DEF Once, WaitsOnce

LEMMA ReadOnce ==
  ASSUME Sound, Once, NEW h \in Handlers, Read(h)
  PROVE  Once'
<1>1. PICK r \in Requests, u \in Users, op \in Decisions :
        /\ request[r] # NoRequest /\ Allowed(op, r, u)
        /\ handler' = [handler EXCEPT ![h] = [Idle EXCEPT !.op = op, !.at = "read", !.req = r,
                                                          !.copy = request[r], !.by = u]]
        /\ clashed' = clashed \cup {x \in {r} : \E g \in Handlers : Deciding(g, r)}
  BY DEF Read
<1>2. handler[h] = Idle /\ UNCHANGED <<request, applied, failed, granted>>
  BY DEF Read
<1>3. /\ handler'[h].op = op /\ handler'[h].at = "read" /\ handler'[h].req = r
      /\ handler'[h].copy = request[r] /\ handler'[h].by = u
      /\ \A g \in Handlers \ {h} : handler'[g] = handler[g]
  BY <1>1 DEF Sound, Types, Idle
<1>4. ASSUME NEW q \in Requests PROVE ~Executing(h, q)' /\ ~Executing(h, q) /\ ~Deciding(h, q)
  BY <1>2, <1>3 DEF Executing, Idle, Deciding, Decisions
<1>5. ASSUME NEW q \in Requests \ {r} PROVE DecidedOnce(q)'
  <2>1. ~Deciding(h, q)'
    BY <1>3 DEF Deciding
  <2> QED
    BY <1>1, <1>2, <1>3, <1>4, <2>1, DecidedElsewhere DEF Once
<1>6. ASSUME r \notin clashed' PROVE DecidedOnce(r)'
  <2>1. DecidedOnce(r) /\ r \notin clashed /\ \A g \in Handlers : ~Deciding(g, r)
    BY <1>1, <1>6 DEF Once
  <2>2. \A g \in Handlers : Deciding(g, r)' => g = h
    BY <1>3, <2>1 DEF Deciding
  <2>3. \A g \in Handlers : Executing(g, r)' <=> Executing(g, r)
    BY <1>3, <1>4 DEF Executing
  <2>4. Allowed(op, r, u)'
    BY <1>1, <1>2 DEF Allowed
  <2>5. Allowed(handler[h].op, r, handler[h].by)'
    BY <1>3, <2>4
  <2>6. ToCarryOut(r)' <=> ToCarryOut(r)
    BY <1>2 DEF ToCarryOut
  <2>7. \A g \in Handlers : Deciding(g, r)' =>
          (handler[g].copy = request[r] /\ Allowed(handler[g].op, r, handler[g].by))'
    BY <1>2, <1>3, <2>2, <2>5
  <2> QED
    BY <1>2, <2>1, <2>2, <2>3, <2>6, <2>7 DEF DecidedOnce
<1>7. ASSUME NEW l \in Subjects PROVE WaitsOnce(l)'
  <2>1. WaitsOnce(l) /\ \A q : Waits(q, l)' <=> Waits(q, l)
    BY <1>2 DEF Once, Waits
  <2>2. \A g \in Handlers : Creating(g, l)' => Creating(g, l)
    BY <1>3 DEF Creating, Decisions
  <2> QED
    BY <1>1, <2>1, <2>2 DEF WaitsOnce
<1> QED
  BY <1>5, <1>6, <1>7 DEF Once, DecidedOnce

\* The only decision on a request takes it from where its copy was read.
LEMMA SaveOnce ==
  ASSUME Sound, Once, NEW h \in Handlers, Save(h)
  PROVE  Once'
<1>0. PICK r \in Requests, op \in Decisions, c \in RequestRow :
        r = handler[h].req /\ op = handler[h].op /\ c = handler[h].copy
  BY DEF Save, Sound, Holds
<1>1. PICK s : s = Decided(op, r)
  OBVIOUS
<1>2. /\ Deciding(h, r) /\ Exists(r) /\ c.subject = request[r].subject /\ handler[h] \in HandlerRow
      /\ UNCHANGED <<applied, failed, clashed>>
  BY <1>0 DEF Save, Deciding, Sound, Types, Holds
<1>3. /\ s \in {"PENDING_L2", "APPROVED", "REJECTED", "CANCELLED"} /\ (s = "APPROVED" <=> Last(op, r))
      /\ (s = "PENDING_L2" => op = "approveL1")
  BY <1>1 DEF Decided, Decisions, Last
<1>4. /\ request'[r].status = s /\ request'[r].subject = request[r].subject
      /\ \A q \in Requests \ {r} : request'[q] = request[q]
  <2>1. request' = [request EXCEPT ![r] = [c EXCEPT !.status = s]]
    BY <1>0, <1>1 DEF Save
  <2>2. [c EXCEPT !.status = s].status = s /\ [c EXCEPT !.status = s].subject = c.subject
    BY DEF RequestRow
  <2> QED
    BY <1>2, <2>1, <2>2 DEF Sound, Types
<1>5. /\ handler'[h].at = (IF Last(op, r) THEN "execute" ELSE "end") /\ handler'[h].op = op
      /\ handler'[h].req = r /\ \A g \in Handlers \ {h} : handler'[g] = handler[g]
  <2>1. handler' = [handler EXCEPT ![h].at = IF Last(op, r) THEN "execute" ELSE "end"]
    BY <1>0 DEF Save, Executes
  <2> QED
    BY <1>0, <1>2, <2>1 DEF Sound, Types, HandlerRow
<1>6. ASSUME NEW q \in Requests \ {r} PROVE DecidedOnce(q)'
  <2>1. ~Deciding(h, q)' /\ ~Executing(h, q)' /\ ~Executing(h, q)
    BY <1>0, <1>5 DEF Deciding, Executing
  <2> QED
    BY <1>2, <1>4, <1>5, <2>1, DecidedElsewhere DEF Once
<1>7. r \notin clashed => /\ request[r].status \in Pending /\ applied[r] = 0
                          /\ \A g \in Handlers : ~Executing(g, r) /\ (Deciding(g, r) => g = h)
  <2> SUFFICES ASSUME r \notin clashed
               PROVE  /\ request[r].status \in Pending /\ applied[r] = 0
                      /\ \A g \in Handlers : ~Executing(g, r) /\ (Deciding(g, r) => g = h)
    OBVIOUS
  <2>1. DecidedOnce(r)
    BY DEF Once
  <2>2. Allowed(op, r, handler[h].by)
    BY <1>0, <1>2, <2>1 DEF DecidedOnce
  <2>3. request[r].status \in Pending
    BY <2>2 DEF Allowed, Pending, Decisions
  <2>4. request[r].status # "APPROVED"
    BY <2>3 DEF Pending
  <2> QED
    BY <1>2, <2>1, <2>3, <2>4 DEF DecidedOnce
<1>8. ASSUME r \notin clashed' PROVE DecidedOnce(r)'
  <2>1. applied'[r] = 0 /\ \A g \in Handlers : ~Deciding(g, r)' /\ (Executing(g, r)' => g = h)
    BY <1>2, <1>5, <1>7, <1>8 DEF Deciding, Executing
  <2>2. Executing(h, r)' <=> s = "APPROVED"
    BY <1>3, <1>5 DEF Executing
  <2> QED
    BY <1>4, <2>1, <2>2 DEF DecidedOnce, ToCarryOut
<1>9. ASSUME NEW l \in Subjects PROVE WaitsOnce(l)'
  <2>1. WaitsOnce(l)
    BY DEF Once
  <2>2. \A g \in Handlers : Creating(g, l)' => Creating(g, l)
    BY <1>5 DEF Creating, Decisions
  <2>3. \A q \in Requests \ clashed : Waits(q, l)' => Waits(q, l)
    BY <1>4, <1>7 DEF Waits
  <2> QED
    BY <1>2, <2>1, <2>2, <2>3 DEF WaitsOnce
<1> QED
  BY <1>6, <1>8, <1>9 DEF Once, DecidedOnce

\* A handler that moves on with a request that is approved, carries it out or gives it up.
LEMMA MoveOnce ==
  ASSUME Sound, Once, NEW h \in Handlers, NEW p \in Places,
         handler' = [handler EXCEPT ![h].at = p],
         p = "end" \/ (p = "pricing" /\ handler[h].at = "execute"),
         request' = request, clashed' = clashed, failed \subseteq failed',
         \A r \in Requests : applied'[r] = applied[r]
            \/ (applied'[r] = applied[r] + 1 /\ Executing(h, r) /\ p = "end"),
         \A r \in Requests : Executing(h, r) /\ p = "end" =>
            applied'[r] = applied[r] + 1 \/ r \in failed' \/ ~ToCarryOut(r)
  PROVE  Once'
<1>1. handler[h] \in HandlerRow /\ Holds(h)
  BY DEF Sound, Types
<1>2. /\ handler'[h].at = p /\ handler'[h].op = handler[h].op /\ handler'[h].req = handler[h].req
      /\ \A g \in Handlers \ {h} : handler'[g] = handler[g]
  BY <1>1 DEF Sound, Types, HandlerRow
<1>3. ASSUME NEW r \in Requests PROVE DecidedOnce(r)'
  <2>1. ~Deciding(h, r)' /\ (Executing(h, r)' <=> Executing(h, r) /\ p = "pricing")
    BY <1>2 DEF Deciding, Executing
  <2>2. CASE ~Executing(h, r)
    BY <1>2, <2>1, <2>2, DecidedElsewhere DEF Once
  <2>3. CASE Executing(h, r) /\ r \notin clashed
    <3>1. /\ DecidedOnce(r) /\ request[r].status = "APPROVED" /\ applied[r] = 0
          /\ \A g \in Handlers : Executing(g, r) => g = h
      BY <2>3 DEF Once, DecidedOnce
    <3>2. \A g \in Handlers : ~Deciding(g, r)
      BY <2>3, <3>1 DEF DecidedOnce, Allowed, Deciding, Decisions, Pending
    <3>3. \A g \in Handlers : ~Deciding(g, r)' /\ (Executing(g, r)' => g = h)
      BY <1>2, <2>1, <3>1, <3>2 DEF Deciding, Executing
    <3>4. applied'[r] = 0 \/ (applied'[r] = 1 /\ ~Executing(h, r)')
      BY <2>1, <3>1
    <3>5. ToCarryOut(r)' =>
            applied'[r] = 1 \/ r \in failed' \/ \E g \in Handlers : Executing(g, r)'
      <4>1. ToCarryOut(r)' <=> ToCarryOut(r)
        BY DEF ToCarryOut
      <4> QED
        BY <2>1, <2>3, <3>1, <4>1
    <3> QED
      BY <2>3, <3>1, <3>3, <3>4, <3>5 DEF DecidedOnce
  <2> QED
    BY <2>2, <2>3 DEF DecidedOnce
<1>4. ASSUME NEW l \in Subjects PROVE WaitsOnce(l)'
  <2>1. WaitsOnce(l) /\ \A q : Waits(q, l)' <=> Waits(q, l)
    BY DEF Once, Waits
  <2>2. \A g \in Handlers : Creating(g, l)' => Creating(g, l)
    BY <1>2 DEF Creating
  <2> QED
    BY <2>1, <2>2 DEF WaitsOnce
<1> QED
  BY <1>3, <1>4 DEF Once

LEMMA ExecuteOnce ==
  ASSUME Sound, Once, NEW h \in Handlers,
         ExecuteStock(h) \/ ExecutePrice(h) \/ PriceDone(h) \/ ExecuteNothing(h) \/ Crash(h)
  PROVE  Once'
<1>0. PICK r : r = handler[h].req
  OBVIOUS
<1>1. /\ applied \in [Requests -> Nat] /\ "end" \in Places /\ "pricing" \in Places
      /\ \A q \in Requests : Executing(h, q) => q = r
  BY <1>0 DEF Sound, Types, Places, Executing
<1>2. handler[h].at \in {"execute", "pricing"} => r \in Requests /\ Executing(h, r)
  BY <1>0 DEF Sound, Holds, Decisions, Executing
<1>3. CASE ExecuteStock(h)
  <2>1. /\ r \in Requests /\ Executing(h, r) /\ handler' = [handler EXCEPT ![h].at = "end"]
        /\ \/ applied' = [applied EXCEPT ![r] = @ + 1] /\ failed' = failed
           \/ failed' = failed \cup {r} /\ applied' = applied
        /\ UNCHANGED <<request, clashed>>
    BY <1>0, <1>2, <1>3 DEF ExecuteStock
  <2>2. /\ \A q \in Requests : applied'[q] = applied[q] \/ (applied'[q] = applied[q] + 1 /\ q = r)
        /\ applied'[r] = applied[r] + 1 \/ r \in failed'
    BY <1>1, <2>1
  <2> QED
    BY <1>1, <2>1, <2>2, MoveOnce
<1>4. CASE ExecutePrice(h)
  <2>1. /\ handler' = [handler EXCEPT ![h].at = "pricing"] /\ handler[h].at = "execute"
        /\ UNCHANGED <<request, applied, failed, clashed>>
    BY <1>4 DEF ExecutePrice
  <2> QED
    BY <1>1, <2>1, MoveOnce
<1>5. CASE PriceDone(h)
  <2>1. /\ r \in Requests /\ Executing(h, r) /\ handler' = [handler EXCEPT ![h].at = "end"]
        /\ applied' = [applied EXCEPT ![r] = IF job[h].at = "done" THEN @ + 1 ELSE @]
        /\ failed' = IF job[h].at = "failed" THEN failed \cup {r} ELSE failed
        /\ job[h].at \in {"done", "failed"}
        /\ UNCHANGED <<request, clashed>>
    BY <1>0, <1>2, <1>5 DEF PriceDone
  <2>2. /\ \A q \in Requests : applied'[q] = applied[q] \/ (applied'[q] = applied[q] + 1 /\ q = r)
        /\ applied'[r] = applied[r] + 1 \/ r \in failed'
    BY <1>1, <2>1
  <2> QED
    BY <1>1, <2>1, <2>2, MoveOnce
<1>6. CASE ExecuteNothing(h)
  <2>1. /\ r \in Requests /\ ~ToCarryOut(r) /\ handler' = [handler EXCEPT ![h].at = "end"]
        /\ UNCHANGED <<request, applied, failed, clashed>>
    BY <1>0, <1>2, <1>6 DEF ExecuteNothing, TypeOfRequest, ToCarryOut
  <2> QED
    BY <1>1, <2>1, MoveOnce
<1>7. CASE Crash(h)
  <2>1. /\ handler' = [handler EXCEPT ![h].at = "end"]
        /\ failed' = IF handler[h].at = "execute" THEN failed \cup {r} ELSE failed
        /\ handler[h].at \in {"read", "execute"}
        /\ UNCHANGED <<request, applied, clashed>>
    BY <1>0, <1>7 DEF Crash
  <2>2. \A q \in Requests : Executing(h, q) => q \in failed'
    BY <1>0, <2>1 DEF Executing
  <2> QED
    BY <1>1, <2>1, <2>2, MoveOnce
<1> QED
  BY <1>3, <1>4, <1>5, <1>6, <1>7

LEMMA OnceStep == Sound /\ Once /\ [Next]_vars => Once'
<1> SUFFICES ASSUME Sound, Once, [Next]_vars PROVE Once'
  OBVIOUS
<1>1. CASE UNCHANGED approvalVars
  <2>1. \A r \in Requests : DecidedOnce(r) => DecidedOnce(r)'
    BY <1>1 DEF approvalVars, DecidedOnce, Deciding, Executing, ToCarryOut, Allowed
  <2>2. \A k \in Subjects : WaitsOnce(k) => WaitsOnce(k)'
    BY <1>1 DEF approvalVars, WaitsOnce, Creating, Waits
  <2> QED
    BY <2>1, <2>2 DEF Once
<1>2. ASSUME NEW h \in Handlers, CheckNew(h) \/ Insert(h) \/ Read(h) \/ Save(h) PROVE Once'
  BY <1>2, CheckNewOnce, InsertOnce, ReadOnce, SaveOnce
<1>3. ASSUME NEW h \in Handlers,
             Crash(h) \/ ExecuteStock(h) \/ ExecutePrice(h) \/ PriceDone(h) \/ ExecuteNothing(h)
      PROVE  Once'
  BY <1>3, ExecuteOnce
<1> QED
  BY <1>1, <1>2, <1>3 DEF Next, SetPrice, vars

\* cancel, reviewL1, reviewL2: an approved request is carried out once or has failed, and no
\* other request is, unless two handlers decided it at once.
THEOREM DecisionsAreCarriedOut == Spec => []CarriedOutAsDecided
<1>1. Init => Sound /\ Once
  BY InitSound, InitOnce
<1>2. Sound /\ Once /\ [Next]_vars => (Sound /\ Once)'
  BY SoundStep, OnceStep
<1>3. Sound /\ Once => CarriedOutAsDecided
  <2> SUFFICES ASSUME Sound, Once, NEW r \in Requests \ clashed
               PROVE  /\ applied[r] <= 1
                      /\ applied[r] = 1 => request[r].status = "APPROVED"
                      /\ /\ ToCarryOut(r)
                         /\ \A h \in Handlers : handler[h].req = r => handler[h].at = "end"
                         => applied[r] = 1 \/ r \in failed
    BY DEF CarriedOutAsDecided, ToCarryOut
  <2>1. DecidedOnce(r) /\ r \notin clashed
    BY DEF Once
  <2> QED
    BY <2>1 DEF DecidedOnce, Executing
<1> QED
  BY <1>1, <1>2, <1>3, PTL DEF Spec

-----------------------------------------------------------------------------
(* Prices: what a handler has read, holds and has written of a row. *)

Val == {v \in [Columns -> Int \cup BOOLEAN] : \A f \in Fields : v[f] \in Int}
PriceRow == [id : Handlers \cup {"product"}, val : Val]
Patch == UNION {[S -> Nat \cup {Null}] : S \in SUBSET Fields}
Held == UNION {[S -> PriceRow \cup {NoRow}] : S \in SUBSET Rows}
JobPlaces == {"idle", "find", "compare", "write", "commit", "done", "failed"}
JobRow ==
  [kind : {"none", "set", "multi", "clear"}, todo : Seq(Rows), patch : Patch, at : JobPlaces,
   copy : PriceRow \cup {NoRow}, cols : SUBSET Columns]

PriceTypes ==
  /\ row \in [Rows -> PriceRow \cup {NoRow}]
  /\ job \in [Handlers -> JobRow]
  /\ pending \in [Handlers -> Held]
  /\ writers \in [Rows -> Seq(Handlers)]

Elements(q) == {q[i] : i \in DOMAIN q}
NoRepeats(q) == \A i, k \in DOMAIN q : q[i] = q[k] => i = k
Ahead(h) == Elements(job[h].todo)
Has(h) == {s \in Rows : h \in Elements(writers[s])}

AddsUp(v) ==
  /\ v["lineTotal"] = LineTotal(v, 1)
  /\ v["isActive"] = (\E f \in Fields : v[f] # Null)

\* Row x has what the job of h has asked for.
Shows(x, h) ==
  /\ x \in PriceRow /\ AddsUp(x.val)
  /\ \A f \in DOMAIN job[h].patch : x.val[f] = job[h].patch[f]

\* Where a handler is in its job; only a transaction holds rows, which it has done with.
JobControl(h) ==
  LET j == job[h] IN
  /\ j.at \in {"find", "compare", "write"} => j.todo # <<>> /\ j.kind # "none"
  /\ j.at = "compare" => j.kind # "clear"
  /\ j.at \in {"compare", "write"} /\ j.kind # "clear" => j.copy \in PriceRow
  /\ j.at = "commit" => j.todo = <<>> /\ j.kind = "multi"
  /\ ~Working(h) \/ j.kind # "multi" => DOMAIN pending[h] = {}
  /\ j.kind # "multi" => Len(j.todo) <= 1
  /\ NoRepeats(j.todo)
  /\ Ahead(h) \cap DOMAIN pending[h] = {}

\* The row is as the handler has read it, and its copy has what the job asks for.
SeenRow(h) ==
  LET j == job[h]  s == Store(h) IN
  j.at \in {"compare", "write"} /\ j.kind # "clear" /\ s \notin disturbed =>
    /\ Shows(j.copy, h)
    /\ row[s] # NoRow => row[s].id = j.copy.id
    /\ j.at = "write" => j.cols = Differing(j.copy, row[s])

HoldsRows(h) == \A s \in DOMAIN pending[h] \ disturbed : Shows(pending[h][s], h)

\* The rows of a change for several stores are ahead of its handler, held by it, or written.
AllRows(h) ==
  job[h].kind = "multi" =>
    /\ Working(h) => \E k \in Jobs[h] :
         k.patch = job[h].patch /\ Elements(k.todo) = Ahead(h) \cup DOMAIN pending[h]
    /\ job[h].at = "done" => \E k \in Jobs[h] :
         k.patch = job[h].patch /\ Elements(k.todo) = Has(h)

AloneOn(s) == s \notin disturbed =>
  \A g, h \in Handlers : WorksOn(g, s) /\ WorksOn(h, s) => g = h

Written(s) == \A h \in Elements(writers[s]) : job[h].at = "done"

\* What is in a row adds up and is what its last writer asked for.
RowIs(s) == s \notin disturbed =>
  /\ row[s] # NoRow => AddsUp(row[s].val)
  /\ writers[s] # <<>> =>
       LET h == writers[s][Len(writers[s])] IN job[h].kind # "clear" => Shows(row[s], h)

PricesInv ==
  /\ PriceTypes
  /\ \A h \in Handlers : JobControl(h) /\ SeenRow(h) /\ HoldsRows(h) /\ AllRows(h)
  /\ \A s \in Rows : AloneOn(s) /\ Written(s) /\ RowIs(s)

LEMMA TailOf ==
  ASSUME NEW S, NEW q \in Seq(S), q # <<>>, NoRepeats(q)
  PROVE  /\ Head(q) \in S /\ Head(q) \in Elements(q)
         /\ Tail(q) \in Seq(S) /\ NoRepeats(Tail(q)) /\ Len(Tail(q)) = Len(q) - 1
         /\ Elements(Tail(q)) = Elements(q) \ {Head(q)}
         /\ Tail(q) = <<>> <=> Len(q) <= 1
<1>1. /\ Len(q) \in Nat \ {0} /\ DOMAIN q = 1 .. Len(q) /\ Head(q) = q[1] /\ 1 \in DOMAIN q
      /\ Tail(q) \in Seq(S) /\ Len(Tail(q)) = Len(q) - 1
      /\ \A i \in 1 .. Len(q) - 1 : Tail(q)[i] = q[i + 1]
  OBVIOUS
<1>2. DOMAIN Tail(q) = 1 .. Len(q) - 1
  BY <1>1
<1>3. Head(q) \in S /\ Head(q) \in Elements(q)
  BY <1>1 DEF Elements
<1>4. NoRepeats(Tail(q))
  BY <1>1, <1>2 DEF NoRepeats
<1>5. ASSUME NEW x \in Elements(Tail(q)) PROVE x \in Elements(q) /\ x # Head(q)
  <2>1. PICK i \in 1 .. Len(q) - 1 : x = q[i + 1]
    BY <1>1, <1>2 DEF Elements
  <2>2. i + 1 \in DOMAIN q /\ i + 1 # 1
    BY <1>1
  <2> QED
    BY <1>1, <2>1, <2>2 DEF Elements, NoRepeats
<1>6. ASSUME NEW x \in Elements(q), x # Head(q) PROVE x \in Elements(Tail(q))
  <2>1. PICK i \in 1 .. Len(q) : x = q[i] /\ i # 1
    BY <1>1, <1>6 DEF Elements
  <2>2. i - 1 \in DOMAIN Tail(q) /\ Tail(q)[i - 1] = q[i]
    BY <1>1, <1>2, <2>1
  <2> QED
    BY <2>1, <2>2 DEF Elements
<1>7. Tail(q) = <<>> <=> Len(q) <= 1
  BY <1>1
<1> QED
  BY <1>1, <1>3, <1>4, <1>5, <1>6, <1>7

LEMMA OneMore ==
  ASSUME NEW S, NEW q \in Seq(S), NEW x \in S
  PROVE  /\ Append(q, x) \in Seq(S) /\ Append(q, x) # q
         /\ Append(q, x)[Len(Append(q, x))] = x
         /\ Elements(Append(q, x)) = Elements(q) \cup {x}
<1>1. /\ Len(q) \in Nat /\ DOMAIN q = 1 .. Len(q) /\ Append(q, x) \in Seq(S)
      /\ Len(Append(q, x)) = Len(q) + 1 /\ DOMAIN Append(q, x) = 1 .. Len(q) + 1
      /\ \A i \in 1 .. Len(q) : Append(q, x)[i] = q[i]
      /\ Append(q, x)[Len(q) + 1] = x
  OBVIOUS
<1>2. ASSUME NEW y \in Elements(Append(q, x)) PROVE y \in Elements(q) \cup {x}
  <2>1. PICK i \in 1 .. Len(q) + 1 : y = Append(q, x)[i]
    BY <1>1 DEF Elements
  <2>2. i \in DOMAIN q \/ i = Len(q) + 1
    BY <1>1
  <2> QED
    BY <1>1, <2>1, <2>2 DEF Elements
<1>3. Elements(q) \subseteq Elements(Append(q, x))
  BY <1>1 DEF Elements
<1>4. Len(q) + 1 \in DOMAIN Append(q, x)
  BY <1>1
<1>5. x \in Elements(Append(q, x))
  BY <1>1, <1>4 DEF Elements
<1>6. Elements(Append(q, x)) = Elements(q) \cup {x}
  BY <1>2, <1>3, <1>5
<1>7. Len(Append(q, x)) # Len(q)
  <2>1. \A n \in Nat : n + 1 # n
    OBVIOUS
  <2> QED
    BY <1>1, <2>1, Zenon
<1> QED
  BY <1>1, <1>6, <1>7

LEMMA LastIn ==
  ASSUME NEW S, NEW q \in Seq(S), q # <<>>
  PROVE  q[Len(q)] \in S /\ q[Len(q)] \in Elements(q)
<1>1. Len(q) \in DOMAIN q
  OBVIOUS
<1> QED
  BY <1>1 DEF Elements

LEMMA TotalIsInt ==
  ASSUME NEW v \in Val
  PROVE  LineTotal(v, 1) \in Int
<1>1. /\ v.unitPrice \in Int /\ v.discountAmount \in Int /\ v.discountPercent \in Int
      /\ v.taxAmount \in Int /\ v.taxPercent \in Int
  BY DEF Val, Fields
<1>2. PICK net : net = 1 * Or(v.unitPrice, 0)
  OBVIOUS
<1>3. PICK d : d = Or(v.discountAmount, (net * Or(v.discountPercent, 0)) \div 100)
  OBVIOUS
<1>4. PICK base : base = net - d
  OBVIOUS
<1>5. net \in Int /\ Or(v.discountPercent, 0) \in Int /\ Or(v.taxPercent, 0) \in Int
  BY <1>1, <1>2 DEF Or
<1>6. \A x, y \in Int : (x * y) \div 100 \in Int
  OBVIOUS
<1>7. d \in Int
  BY <1>1, <1>3, <1>5, <1>6 DEF Or
<1>8. base \in Int
  BY <1>4, <1>5, <1>7
<1>9. Or(v.taxAmount, (base * Or(v.taxPercent, 0)) \div 100) \in Int
  BY <1>1, <1>5, <1>6, <1>8 DEF Or
<1>10. base + Or(v.taxAmount, (base * Or(v.taxPercent, 0)) \div 100) \in Int
  BY <1>8, <1>9
<1> QED
  BY <1>2, <1>3, <1>4, <1>10 DEF LineTotal

\* LineTotal reads the fields alone, so it may be taken before or after the total is set.
LEMMA PatchedRow ==
  ASSUME NEW v \in Val, NEW p \in Patch
  PROVE  /\ Patched(v, p) \in Val /\ AddsUp(Patched(v, p))
         /\ \A f \in DOMAIN p : Patched(v, p)[f] = p[f]
<1>1. PICK w : w = [f \in Columns |-> IF f \in DOMAIN p THEN p[f] ELSE v[f]]
  OBVIOUS
<1>2. DOMAIN p \subseteq Fields /\ \A f \in DOMAIN p : p[f] \in Int
  BY DEF Patch, Null
<1>3. w \in Val
  BY <1>1, <1>2 DEF Val, Columns
<1>4. PICK t \in Int : t = LineTotal(w, 1)
  BY <1>3, TotalIsInt
<1>5. PICK b \in BOOLEAN : b = \E f \in Fields : w[f] # Null
  OBVIOUS
<1>6. PICK x : x = [w EXCEPT !.lineTotal = t, !.isActive = b]
  OBVIOUS
<1>7. x = Patched(v, p)
  BY <1>1, <1>4, <1>5, <1>6 DEF Patched
<1>8. /\ x \in [Columns -> Int \cup BOOLEAN] /\ \A f \in Fields : x[f] = w[f]
      /\ x["lineTotal"] = t /\ x["isActive"] = b
  BY <1>3, <1>6 DEF Val, Columns, Fields
<1>9. LineTotal(x, 1) = LineTotal(w, 1)
  BY <1>8 DEF LineTotal, Fields
<1>10. x \in Val /\ AddsUp(x)
  BY <1>3, <1>4, <1>5, <1>8, <1>9 DEF Val, AddsUp
<1>11. \A f \in DOMAIN p : x[f] = p[f]
  BY <1>1, <1>2, <1>8 DEF Columns
<1> QED
  BY <1>7, <1>10, <1>11

LEMMA BlankIsVal == Blank \in Val
<1>1. -1 \in Int
  OBVIOUS
<1> QED
  BY <1>1 DEF Blank, Val, Columns, Fields, Null

LEMMA RowIsSome ==
  ASSUME NEW x \in PriceRow
  PROVE  x # NoRow
BY DEF PriceRow, NoRow

LEMMA InitPrices == Init => PricesInv
<1> SUFFICES ASSUME Init PROVE PricesInv
  OBVIOUS
<1>1. /\ row = [s \in Rows |-> IF s = Product THEN ProductRow ELSE NoRow]
      /\ job = [h \in Handlers |-> NoJob] /\ pending = [h \in Handlers |-> <<>>]
      /\ writers = [s \in Rows |-> <<>>]
  BY DEF Init, PriceInit
<1>2. ProductRow \in PriceRow /\ AddsUp(ProductRow.val)
  <2>1. PICK p : p = [unitPrice |-> DefaultUnit, taxPercent |-> DefaultTax]
    OBVIOUS
  <2>2. p \in [{"unitPrice", "taxPercent"} -> Nat \cup {Null}]
    BY <2>1, PriceAssumption
  <2>3. {"unitPrice", "taxPercent"} \in SUBSET Fields
    BY DEF Fields
  <2>4. p \in Patch
    BY <2>2, <2>3 DEF Patch
  <2>5. Patched(Blank, p) \in Val /\ AddsUp(Patched(Blank, p))
    BY <2>4, BlankIsVal, PatchedRow
  <2> QED
    BY <2>1, <2>5 DEF ProductRow, PriceRow
<1>3. <<>> \in Patch /\ <<>> \in Held
  <2>1. <<>> \in [{} -> Nat \cup {Null}] /\ <<>> \in [{} -> PriceRow \cup {NoRow}]
    OBVIOUS
  <2> QED
    BY <2>1 DEF Patch, Held
<1>4. NoJob \in JobRow
  BY <1>3 DEF NoJob, JobRow, JobPlaces
<1>5. PriceTypes
  BY <1>1, <1>2, <1>3, <1>4 DEF PriceTypes
<1>6. ASSUME NEW h \in Handlers
      PROVE  JobControl(h) /\ SeenRow(h) /\ HoldsRows(h) /\ AllRows(h)
  <2>1. job[h] = NoJob /\ pending[h] = <<>> /\ DOMAIN pending[h] = {}
    BY <1>1
  <2>2. NoRepeats(NoJob.todo) /\ Len(NoJob.todo) <= 1
    BY DEF NoRepeats, NoJob
  <2>3. JobControl(h)
    BY <2>1, <2>2 DEF JobControl, NoJob, Working
  <2> QED
    BY <2>1, <2>3 DEF SeenRow, HoldsRows, AllRows, NoJob
<1>7. ASSUME NEW s \in Rows PROVE AloneOn(s) /\ Written(s) /\ RowIs(s)
  <2>1. writers[s] = <<>> /\ Elements(writers[s]) = {}
    BY <1>1 DEF Elements
  <2>2. \A h \in Handlers : ~WorksOn(h, s)
    BY <1>1 DEF WorksOn, Working, NoJob
  <2>3. row[s] # NoRow => AddsUp(row[s].val)
    BY <1>1, <1>2
  <2> QED
    BY <2>1, <2>2, <2>3 DEF AloneOn, Written, RowIs
<1> QED
  BY <1>5, <1>6, <1>7 DEF PricesInv

\* A row that handlers of other rows work on stays as it is for those who work on it alone.
LEMMA PriceFrame ==
  ASSUME PricesInv, NEW g \in Handlers, PriceTypes',
         \A h \in Handlers \ {g} : job'[h] = job[h] /\ pending'[h] = pending[h],
         disturbed \subseteq disturbed',
         job[g].at # "done",
         \A s \in Rows : \/ row'[s] = row[s] /\ writers'[s] = writers[s]
                         \/ /\ WorksOn(g, s) /\ writers'[s] = Append(writers[s], g)
                            /\ job'[g].at = "done" /\ RowIs(s)',
         JobControl(g)' /\ SeenRow(g)' /\ HoldsRows(g)' /\ AllRows(g)',
         \A s \in Rows : AloneOn(s)'
  PROVE  PricesInv'
<1>1. ASSUME NEW s \in Rows PROVE Written(s)' /\ RowIs(s)'
  <2>1. CASE row'[s] = row[s] /\ writers'[s] = writers[s]
    <3>1. Written(s) /\ RowIs(s) /\ writers[s] \in Seq(Handlers)
      BY DEF PricesInv, PriceTypes
    <3>2. \A h \in Elements(writers[s]) : h \in Handlers /\ h # g
      BY <3>1 DEF Written, Elements
    <3>3. Written(s)'
      BY <2>1, <3>1, <3>2 DEF Written
    <3>4. writers[s] # <<>> => job'[writers[s][Len(writers[s])]] = job[writers[s][Len(writers[s])]]
      BY <3>1, <3>2, LastIn
    <3>5. RowIs(s)'
      BY <2>1, <3>1, <3>4 DEF RowIs, Shows
    <3> QED
      BY <3>3, <3>5
  <2>2. CASE /\ WorksOn(g, s) /\ writers'[s] = Append(writers[s], g)
             /\ job'[g].at = "done" /\ RowIs(s)'
    <3>1. Written(s) /\ writers[s] \in Seq(Handlers)
      BY DEF PricesInv, PriceTypes
    <3>2. Elements(writers'[s]) = Elements(writers[s]) \cup {g}
      BY <2>2, <3>1, OneMore
    <3>3. \A h \in Elements(writers[s]) : h \in Handlers
      BY <3>1 DEF Elements
    <3> QED
      BY <2>2, <3>1, <3>2, <3>3 DEF Written
  <2> QED
    BY <2>1, <2>2
<1>2. ASSUME NEW h \in Handlers \ {g}
      PROVE  JobControl(h)' /\ SeenRow(h)' /\ HoldsRows(h)' /\ AllRows(h)'
  <2>1. /\ JobControl(h) /\ SeenRow(h) /\ HoldsRows(h) /\ AllRows(h)
        /\ job'[h] = job[h] /\ pending'[h] = pending[h] /\ (Working(h)' <=> Working(h))
    BY DEF PricesInv, Working
  <2>2. JobControl(h)'
    BY <2>1 DEF JobControl, Ahead
  <2>3. HoldsRows(h)'
    BY <2>1 DEF HoldsRows, Shows
  <2>4. \A s \in Rows : h \in Elements(writers'[s]) <=> h \in Elements(writers[s])
    <3> TAKE s \in Rows
    <3>1. writers[s] \in Seq(Handlers)
      BY DEF PricesInv, PriceTypes
    <3>2. Elements(Append(writers[s], g)) = Elements(writers[s]) \cup {g}
      BY <3>1, OneMore
    <3> QED
      BY <3>2
  <2>5. Has(h)' = Has(h) /\ Ahead(h)' = Ahead(h)
    BY <2>1, <2>4 DEF Has, Ahead
  <2>6. AllRows(h)'
    BY <2>1, <2>5 DEF AllRows
  <2>7. ASSUME job[h].at \in {"compare", "write"} PROVE SeenRow(h)'
    <3>1. job[h].todo # <<>> /\ job[h].todo \in Seq(Rows)
      BY <2>1, <2>7 DEF JobControl, PricesInv, PriceTypes, JobRow
    <3>2. PICK s \in Rows : s = Store(h) /\ s = Head(job[h].todo) /\ s \in Ahead(h)
      <4>1. Head(job[h].todo) \in Rows /\ Head(job[h].todo) \in Elements(job[h].todo)
        BY <2>1, <3>1, TailOf DEF JobControl
      <4> QED
        BY <4>1 DEF Store, Ahead
    <3>3. WorksOn(h, s)
      BY <2>7, <3>2 DEF WorksOn, Working, Ahead, Elements
    <3>4. s \notin disturbed => row'[s] = row[s]
      BY <3>3 DEF PricesInv, AloneOn
    <3>5. Store(h)' = s
      BY <2>1, <3>2 DEF Store
    <3> QED
      BY <2>1, <3>2, <3>4, <3>5 DEF SeenRow, Shows
  <2>8. job[h].at \notin {"compare", "write"} => SeenRow(h)'
    BY <2>1 DEF SeenRow
  <2> QED
    BY <2>2, <2>3, <2>6, <2>7, <2>8
<1> QED
  BY <1>1, <1>2 DEF PricesInv

\* Nobody starts to work on a row.
LEMMA StayAlone ==
  ASSUME PricesInv, NEW g \in Handlers, NEW s \in Rows, disturbed' = disturbed,
         \A h \in Handlers \ {g} : job'[h] = job[h] /\ pending'[h] = pending[h],
         WorksOn(g, s)' => WorksOn(g, s)
  PROVE  AloneOn(s)'
<1>1. \A h \in Handlers : WorksOn(h, s)' => WorksOn(h, s)
  BY DEF WorksOn, Working
<1> QED
  BY <1>1 DEF AloneOn, PricesInv

LEMMA StartJobPrices ==
  ASSUME PricesInv, NEW g \in Handlers, NEW j, StartJob(g, j),
         j.kind \in {"set", "multi", "clear"}, j.todo \in Seq(Rows), j.todo # <<>>,
         NoRepeats(j.todo), j.kind = "multi" => j \in Jobs[g],
         j.kind # "multi" => Len(j.todo) = 1, j.patch \in Patch
  PROVE  PricesInv'
<1>1. /\ job[g].at = "idle" /\ job[g] \in JobRow /\ JobControl(g)
      /\ UNCHANGED <<row, pending, writers>>
  BY DEF StartJob, PricesInv, PriceTypes
<1>2. PICK n : n = [NoJob EXCEPT !.kind = j.kind, !.todo = j.todo, !.patch = j.patch, !.at = "find"]
  OBVIOUS
<1>3. /\ n.kind = j.kind /\ n.todo = j.todo /\ n.patch = j.patch /\ n.at = "find" /\ n \in JobRow
  BY <1>2 DEF NoJob, JobRow, JobPlaces
<1>4. job' = [job EXCEPT ![g] = n] /\ job'[g] = n /\ \A h \in Handlers \ {g} : job'[h] = job[h]
  BY <1>2 DEF StartJob, PricesInv, PriceTypes
<1>5. PriceTypes'
  BY <1>1, <1>3, <1>4 DEF PricesInv, PriceTypes
<1>6. DOMAIN pending[g] = {}
  BY <1>1 DEF JobControl, Working
<1>7. JobControl(g)' /\ SeenRow(g)' /\ HoldsRows(g)' /\ AllRows(g)'
  <2>1. JobControl(g)'
    <3>1. /\ NoRepeats(n.todo) /\ n.todo # <<>> /\ n.kind # "none"
          /\ n.kind # "multi" => Len(n.todo) = 1
      BY <1>3, Zenon
    <3>2. DOMAIN pending'[g] = {} /\ job'[g] = n /\ n.at = "find"
      BY <1>1, <1>3, <1>4, <1>6
    <3>3. NoRepeats(job'[g].todo)
      BY <3>1, <3>2, Zenon
    <3>4. n.kind # "multi" => Len(n.todo) <= 1
      <4>1. \A x : x = 1 => x <= 1
        OBVIOUS
      <4> QED
        BY <3>1, <4>1, Zenon
    <3> QED
      BY <3>1, <3>2, <3>3, <3>4 DEF JobControl
  <2>2. SeenRow(g)' /\ HoldsRows(g)'
    BY <1>1, <1>3, <1>4, <1>6 DEF SeenRow, HoldsRows
  <2>3. AllRows(g)'
    BY <1>1, <1>3, <1>4, <1>6 DEF AllRows, Ahead
  <2> QED
    BY <2>1, <2>2, <2>3
<1>8. ASSUME NEW s \in Rows PROVE AloneOn(s)'
  <2>1. disturbed' = disturbed \cup {t \in Elements(j.todo) : \E h \in Handlers : WorksOn(h, t)}
    BY DEF StartJob, Elements
  <2>2. \A h \in Handlers \ {g} : WorksOn(h, s)' <=> WorksOn(h, s)
    BY <1>1, <1>4 DEF WorksOn, Working
  <2>3. WorksOn(g, s)' => s \in Elements(j.todo)
    BY <1>1, <1>3, <1>4, <1>6 DEF WorksOn, Elements
  <2>4. AloneOn(s)
    BY DEF PricesInv
  <2> QED
    BY <2>1, <2>2, <2>3, <2>4 DEF AloneOn
<1>9. disturbed \subseteq disturbed'
  BY DEF StartJob
<1> QED
  BY <1>1, <1>4, <1>5, <1>7, <1>8, <1>9, PriceFrame

\* A handler that moves on in its job and writes no row.
LEMMA StayStep ==
  ASSUME PricesInv, NEW g \in Handlers, UNCHANGED <<row, writers, disturbed>>, PriceTypes',
         \A h \in Handlers \ {g} : job'[h] = job[h] /\ pending'[h] = pending[h],
         Working(g), Ahead(g)' \cup DOMAIN pending'[g] \subseteq Ahead(g) \cup DOMAIN pending[g],
         JobControl(g)' /\ SeenRow(g)' /\ HoldsRows(g)' /\ AllRows(g)'
  PROVE  PricesInv'
<1>1. job[g].at # "done"
  BY DEF Working
<1>2. ASSUME NEW s \in Rows PROVE AloneOn(s)'
  <2>1. WorksOn(g, s)' => WorksOn(g, s)
    BY DEF WorksOn, Ahead, Elements
  <2> QED
    BY <2>1, StayAlone
<1> QED
  BY <1>1, <1>2, PriceFrame

\* The handler's row in the typed job, and which it is.
LEMMA AtRow ==
  ASSUME PricesInv, NEW g \in Handlers, job[g].at \in {"find", "compare", "write"}
  PROVE  /\ Working(g) /\ job[g] \in JobRow /\ JobControl(g) /\ SeenRow(g) /\ AllRows(g)
         /\ job[g].todo \in Seq(Rows) /\ job[g].todo # <<>> /\ NoRepeats(job[g].todo)
         /\ Store(g) \in Rows /\ Store(g) \in Ahead(g) /\ WorksOn(g, Store(g))
<1>1. /\ job[g] \in JobRow /\ JobControl(g) /\ SeenRow(g) /\ AllRows(g) /\ Working(g)
  BY DEF PricesInv, PriceTypes, Working
<1>2. job[g].todo \in Seq(Rows) /\ job[g].todo # <<>> /\ NoRepeats(job[g].todo)
  BY <1>1 DEF JobRow, JobControl
<1>3. Store(g) \in Rows /\ Store(g) \in Ahead(g)
  BY <1>2, TailOf DEF Store, Ahead
<1> QED
  BY <1>1, <1>2, <1>3 DEF WorksOn, Ahead, Elements

LEMMA FindPrices ==
  ASSUME PricesInv, NEW g \in Handlers, Find(g)
  PROVE  PricesInv'
<1>0. PICK s, old, val : /\ s = Store(g) /\ old = row[s]
                         /\ val = IF old = NoRow THEN Blank ELSE old.val
  OBVIOUS
<1>1. /\ job[g].at = "find" /\ job[g] \in JobRow /\ JobControl(g) /\ AllRows(g) /\ Working(g)
      /\ s \in Rows /\ old \in PriceRow \cup {NoRow} /\ UNCHANGED <<row, pending, writers, disturbed>>
  BY <1>0, AtRow DEF Find, PricesInv, PriceTypes
<1>2. CASE job[g].kind = "clear"
  <2>1. PICK p \in {"done", "write"} : job' = [job EXCEPT ![g].at = p, ![g].copy = old]
    BY <1>0, <1>2 DEF Find
  <2>2. PICK n : n = [job[g] EXCEPT !.at = p, !.copy = old]
    OBVIOUS
  <2>3. /\ n \in JobRow /\ n.at = p /\ n.kind = "clear" /\ n.todo = job[g].todo
    BY <1>1, <1>2, <2>2 DEF JobRow, JobPlaces
  <2>4. job' = [job EXCEPT ![g] = n] /\ job'[g] = n /\ \A h \in Handlers \ {g} : job'[h] = job[h]
    BY <2>1, <2>2 DEF PricesInv, PriceTypes
  <2>5. PriceTypes'
    BY <1>1, <2>3, <2>4 DEF PricesInv, PriceTypes
  <2>6. JobControl(g)'
    BY <1>1, <1>2, <2>3, <2>4 DEF JobControl, Ahead
  <2>7. SeenRow(g)' /\ HoldsRows(g)' /\ AllRows(g)'
    BY <1>1, <1>2, <2>3, <2>4 DEF SeenRow, HoldsRows, AllRows, JobControl
  <2> QED
    BY <1>1, <2>3, <2>4, <2>5, <2>6, <2>7, StayStep DEF Ahead
<1>3. CASE job[g].kind # "clear"
  <2>1. PICK c : c = [id |-> IF old = NoRow THEN g ELSE old.id, val |-> Patched(val, job[g].patch)]
    OBVIOUS
  <2>2. val \in Val /\ job[g].patch \in Patch
    BY <1>0, <1>1, BlankIsVal DEF PriceRow, JobRow
  <2>3. /\ c \in PriceRow /\ AddsUp(c.val) /\ \A f \in DOMAIN job[g].patch : c.val[f] = job[g].patch[f]
        /\ old # NoRow => old.id = c.id
    BY <1>1, <2>1, <2>2, PatchedRow DEF PriceRow
  <2>4. PICK n : n = [job[g] EXCEPT !.at = "compare", !.copy = c]
    OBVIOUS
  <2>5. /\ n \in JobRow /\ n.at = "compare" /\ n.kind = job[g].kind /\ n.todo = job[g].todo
        /\ n.patch = job[g].patch /\ n.copy = c
    BY <1>1, <2>3, <2>4 DEF JobRow, JobPlaces
  <2>6. job' = [job EXCEPT ![g] = n] /\ job'[g] = n /\ \A h \in Handlers \ {g} : job'[h] = job[h]
    BY <1>0, <1>3, <2>1, <2>4 DEF Find, PricesInv, PriceTypes
  <2>7. PriceTypes'
    BY <1>1, <2>5, <2>6 DEF PricesInv, PriceTypes
  <2>8. Working(g)' /\ Ahead(g)' = Ahead(g) /\ Store(g)' = s /\ Has(g)' = Has(g)
    BY <1>0, <1>1, <2>5, <2>6 DEF Working, Ahead, Store, Has
  <2>9. JobControl(g)'
    BY <1>1, <1>3, <2>3, <2>5, <2>6, <2>8 DEF JobControl
  <2>10. SeenRow(g)'
    BY <1>0, <1>1, <2>3, <2>5, <2>6, <2>8 DEF SeenRow, Shows
  <2>11. HoldsRows(g)'
    BY <1>1, <2>5, <2>6 DEF HoldsRows, Shows, PricesInv
  <2>12. AllRows(g)'
    BY <1>1, <2>5, <2>6, <2>8 DEF AllRows
  <2> QED
    BY <1>1, <2>6, <2>7, <2>8, <2>9, <2>10, <2>11, <2>12, StayStep
<1> QED
  BY <1>2, <1>3

LEMMA ComparePrices ==
  ASSUME PricesInv, NEW g \in Handlers, Compare(g)
  PROVE  PricesInv'
<1>0. PICK s, old, d : s = Store(g) /\ old = row[s] /\ d = Differing(job[g].copy, old)
  OBVIOUS
<1>1. /\ job[g].at = "compare" /\ job[g] \in JobRow /\ JobControl(g) /\ AllRows(g) /\ Working(g)
      /\ SeenRow(g) /\ HoldsRows(g)
      /\ s \in Rows /\ UNCHANGED <<row, pending, writers, disturbed>>
  BY <1>0, AtRow DEF Compare, PricesInv
<1>2. d \in SUBSET Columns
  BY <1>0 DEF Differing
<1>3. PICK n : n = [job[g] EXCEPT !.at = "write", !.cols = d]
  OBVIOUS
<1>4. /\ n \in JobRow /\ n.at = "write" /\ n.kind = job[g].kind /\ n.todo = job[g].todo
      /\ n.patch = job[g].patch /\ n.copy = job[g].copy /\ n.cols = d
  BY <1>1, <1>2, <1>3 DEF JobRow, JobPlaces
<1>5. job' = [job EXCEPT ![g] = n] /\ job'[g] = n /\ \A h \in Handlers \ {g} : job'[h] = job[h]
  BY <1>0, <1>3 DEF Compare, PricesInv, PriceTypes
<1>6. PriceTypes'
  BY <1>1, <1>4, <1>5 DEF PricesInv, PriceTypes
<1>7. Working(g)' /\ Ahead(g)' = Ahead(g) /\ Store(g)' = s /\ Has(g)' = Has(g)
  BY <1>0, <1>1, <1>4, <1>5 DEF Working, Ahead, Store, Has
<1>8. JobControl(g)'
  BY <1>1, <1>4, <1>5, <1>7 DEF JobControl
<1>9. SeenRow(g)'
  BY <1>0, <1>1, <1>4, <1>5, <1>7 DEF SeenRow, Shows
<1>10. HoldsRows(g)'
  BY <1>1, <1>4, <1>5 DEF HoldsRows, Shows
<1>11. AllRows(g)'
  BY <1>1, <1>4, <1>5, <1>7 DEF AllRows
<1> QED
  BY <1>1, <1>5, <1>6, <1>7, <1>8, <1>9, <1>10, <1>11, StayStep

LEMMA FailPrices ==
  ASSUME PricesInv, NEW g \in Handlers, FailJob(g)
  PROVE  PricesInv'
<1>1. /\ Working(g) /\ job[g] \in JobRow /\ UNCHANGED <<row, writers, disturbed>>
      /\ pending' = [pending EXCEPT ![g] = <<>>]
  BY DEF FailJob, PricesInv, PriceTypes
<1>2. PICK n : n = [job[g] EXCEPT !.at = "failed", !.todo = <<>>]
  OBVIOUS
<1>3. n \in JobRow /\ n.at = "failed" /\ n.todo = <<>>
  <2>0. <<>> \in Seq(Rows)
    OBVIOUS
  <2>1. PICK e \in Seq(Rows) : e = <<>>
    BY <2>0, Zenon
  <2>2. n = [job[g] EXCEPT !.at = "failed", !.todo = e]
    BY <1>2, <2>1
  <2>3. n \in JobRow /\ n.at = "failed" /\ n.todo = e
    BY <1>1, <2>2 DEF JobRow, JobPlaces
  <2> QED
    BY <2>1, <2>3
<1>4. job' = [job EXCEPT ![g] = n] /\ job'[g] = n /\ \A h \in Handlers \ {g} : job'[h] = job[h]
  BY <1>2 DEF FailJob, PricesInv, PriceTypes
<1>5. /\ <<>> \in Held /\ DOMAIN pending'[g] = {}
      /\ \A h \in Handlers \ {g} : pending'[h] = pending[h]
  <2>1. <<>> \in [{} -> PriceRow \cup {NoRow}]
    OBVIOUS
  <2> QED
    BY <1>1, <2>1 DEF Held, PricesInv, PriceTypes
<1>6. PriceTypes'
  BY <1>1, <1>3, <1>4, <1>5 DEF PricesInv, PriceTypes
<1>7. JobControl(g)'
  <2>1. NoRepeats(<<>>) /\ Len(<<>>) <= 1
    BY DEF NoRepeats
  <2> QED
    BY <1>3, <1>4, <1>5, <2>1 DEF JobControl
<1>8. SeenRow(g)' /\ HoldsRows(g)' /\ AllRows(g)'
  BY <1>3, <1>4, <1>5 DEF SeenRow, HoldsRows, AllRows, Working
<1>9. Ahead(g)' = {}
  BY <1>3, <1>4 DEF Ahead, Elements
<1> QED
  BY <1>1, <1>4, <1>5, <1>6, <1>7, <1>8, <1>9, StayStep

\* save, second half: where the handler is alone, the row becomes its copy.
LEMMA WrittenRow ==
  ASSUME PricesInv, NEW g \in Handlers, Write(g)
  PROVE  /\ Saved(row[Store(g)], job[g].copy, job[g].cols) \in PriceRow \cup {NoRow}
         /\ Store(g) \notin disturbed =>
              ~Nothing(g) /\ Shows(Saved(row[Store(g)], job[g].copy, job[g].cols), g)
<1>0. PICK s, old, copy, cols : s = Store(g) /\ old = row[s] /\ copy = job[g].copy /\ cols = job[g].cols
  OBVIOUS
<1>1. /\ job[g].at = "write" /\ job[g].kind # "clear" /\ SeenRow(g) /\ s \in Rows
      /\ copy \in PriceRow /\ old \in PriceRow \cup {NoRow} /\ cols \in SUBSET Columns
  BY <1>0, AtRow DEF Write, PricesInv, PriceTypes, JobRow, JobControl
<1>2. PICK x : x = Saved(old, copy, cols)
  OBVIOUS
<1>3. CASE old = NoRow \/ cols = Columns
  <2>1. x = copy
    BY <1>2, <1>3 DEF Saved
  <2>2. s \notin disturbed => Shows(copy, g) /\ ~Nothing(g)
    BY <1>0, <1>1, <1>3 DEF SeenRow, Nothing, Differing
  <2> QED
    BY <1>0, <1>1, <1>2, <2>1, <2>2
<1>4. CASE ~(old = NoRow \/ cols = Columns)
  <2>1. PICK v : v = [c \in Columns |-> IF c \in cols THEN copy.val[c] ELSE old.val[c]]
    OBVIOUS
  <2>2. x = [id |-> old.id, val |-> v] /\ old \in PriceRow
    BY <1>1, <1>2, <1>4, <2>1 DEF Saved
  <2>3. old.val \in Val /\ copy.val \in Val
    BY <1>1, <2>2 DEF PriceRow
  <2>4. v \in Val
    BY <2>1, <2>3 DEF Val, Columns
  <2>5. x \in PriceRow
    BY <2>2, <2>4 DEF PriceRow
  <2>6. ASSUME s \notin disturbed PROVE ~Nothing(g) /\ Shows(x, g)
    <3>1. Shows(copy, g) /\ old.id = copy.id /\ cols = Differing(copy, old)
      BY <1>0, <1>1, <1>4, <2>6 DEF SeenRow
    <3>2. cols = {c \in Columns : copy.val[c] # old.val[c]}
      BY <1>4, <3>1 DEF Differing
    <3>3. v = copy.val
      BY <2>1, <2>3, <3>2 DEF Val
    <3>4. x.val = copy.val
      BY <2>2, <3>3
    <3> QED
      BY <1>0, <1>4, <2>5, <3>1, <3>4 DEF Shows, Nothing
  <2> QED
    BY <1>0, <1>2, <2>5, <2>6
<1> QED
  BY <1>3, <1>4

\* A handler ends its job with its only row.
LEMMA DoneRow ==
  ASSUME PricesInv, NEW g \in Handlers, NEW s \in Rows, NEW x \in PriceRow \cup {NoRow},
         job[g].at = "write", job[g].kind # "multi", WorksOn(g, s),
         row' = [row EXCEPT ![s] = x], writers' = [writers EXCEPT ![s] = Append(@, g)],
         job' = [job EXCEPT ![g].at = "done", ![g].todo = <<>>],
         UNCHANGED <<pending, disturbed>>,
         s \notin disturbed => /\ x # NoRow => AddsUp(x.val)
                               /\ job[g].kind # "clear" => Shows(x, g)
  PROVE  PricesInv'
<1>1. /\ JobControl(g) /\ job[g] \in JobRow /\ Working(g)
      /\ row \in [Rows -> PriceRow \cup {NoRow}] /\ writers \in [Rows -> Seq(Handlers)]
      /\ writers[s] \in Seq(Handlers)
  BY DEF PricesInv, PriceTypes, Working
<1>2. row'[s] = x /\ \A t \in Rows \ {s} : row'[t] = row[t]
  BY <1>1
<1>3. PICK n : n = [job[g] EXCEPT !.at = "done", !.todo = <<>>]
  OBVIOUS
<1>4. n \in JobRow /\ n.at = "done" /\ n.todo = <<>> /\ n.kind = job[g].kind /\ n.patch = job[g].patch
  <2>0. <<>> \in Seq(Rows)
    OBVIOUS
  <2>1. PICK e \in Seq(Rows) : e = <<>>
    BY <2>0, Zenon
  <2>2. n = [job[g] EXCEPT !.at = "done", !.todo = e]
    BY <1>3, <2>1
  <2> QED
    BY <1>1, <2>1, <2>2 DEF JobRow, JobPlaces
<1>5. job' = [job EXCEPT ![g] = n] /\ job'[g] = n /\ \A h \in Handlers \ {g} : job'[h] = job[h]
  BY <1>3 DEF PricesInv, PriceTypes
<1>6. /\ writers'[s] = Append(writers[s], g) /\ writers' \in [Rows -> Seq(Handlers)]
      /\ \A t \in Rows \ {s} : writers'[t] = writers[t]
  BY <1>1, OneMore
<1>7. PriceTypes'
  <2>1. row' \in [Rows -> PriceRow \cup {NoRow}]
    BY <1>1
  <2>2. job' \in [Handlers -> JobRow]
    BY <1>4, <1>5 DEF PricesInv, PriceTypes
  <2>3. pending' \in [Handlers -> Held]
    BY DEF PricesInv, PriceTypes
  <2> QED
    BY <1>6, <2>1, <2>2, <2>3 DEF PriceTypes
<1>8. RowIs(s)'
  <2>1. writers'[s][Len(writers'[s])] = g
    BY <1>1, <1>6, OneMore
  <2>2. s \notin disturbed' =>
          /\ row'[s] # NoRow => AddsUp(row'[s].val)
          /\ job'[g].kind # "clear" =>
               /\ row'[s] \in PriceRow /\ AddsUp(row'[s].val)
               /\ \A f \in DOMAIN job'[g].patch : row'[s].val[f] = job'[g].patch[f]
    BY <1>2, <1>4, <1>5 DEF Shows
  <2> QED
    BY <2>1, <2>2 DEF RowIs, Shows
<1>9. ASSUME NEW t \in Rows PROVE AloneOn(t)'
  <2>1. ~WorksOn(g, t)'
    BY <1>4, <1>5 DEF WorksOn, Working
  <2> QED
    BY <1>5, <2>1, StayAlone
<1>10. JobControl(g)' /\ SeenRow(g)' /\ HoldsRows(g)' /\ AllRows(g)'
  <2>1. DOMAIN pending'[g] = {} /\ NoRepeats(<<>>) /\ Len(<<>>) <= 1
    BY <1>1 DEF JobControl, NoRepeats
  <2>2. JobControl(g)'
    BY <1>4, <1>5, <2>1 DEF JobControl
  <2> QED
    BY <1>4, <1>5, <2>1, <2>2 DEF SeenRow, HoldsRows, AllRows
<1> QED
  BY <1>2, <1>4, <1>5, <1>6, <1>7, <1>8, <1>9, <1>10, PriceFrame

\* save outside a transaction.
LEMMA WriteAlone ==
  ASSUME PricesInv, NEW g \in Handlers, Write(g), job[g].kind # "multi"
  PROVE  PricesInv'
<1>0. PICK s, x : /\ s = Store(g)
                  /\ x = IF Nothing(g) THEN row[s] ELSE Saved(row[s], job[g].copy, job[g].cols)
  OBVIOUS
<1>1. /\ job[g].at = "write" /\ job[g].kind # "clear" /\ JobControl(g)
      /\ job[g].todo \in Seq(Rows) /\ job[g].todo # <<>> /\ NoRepeats(job[g].todo)
      /\ s \in Rows /\ WorksOn(g, s) /\ row[s] \in PriceRow \cup {NoRow}
  BY <1>0, AtRow DEF Write, PricesInv, PriceTypes
<1>2. /\ UNCHANGED <<pending, disturbed>>
      /\ row' = [row EXCEPT ![s] = x]
      /\ writers' = [writers EXCEPT ![s] = Append(@, g)]
  BY <1>0 DEF Write, InTransaction
<1>3. /\ x \in PriceRow \cup {NoRow}
      /\ s \notin disturbed => Shows(x, g)
  BY <1>0, <1>1, WrittenRow
<1>4. Tail(job[g].todo) = <<>> /\ Len(job[g].todo) <= 1
  BY <1>1, TailOf DEF JobControl
<1>5. job' = [job EXCEPT ![g].at = "done", ![g].todo = <<>>]
  <2>1. After(g) = "done"
    BY <1>1, <1>4 DEF After
  <2> QED
    BY <1>4, <2>1 DEF Write, PricesInv, PriceTypes
<1> QED
  BY <1>1, <1>2, <1>3, <1>5, DoneRow DEF Shows

LEMMA RemovePrices ==
  ASSUME PricesInv, NEW g \in Handlers, Remove(g)
  PROVE  PricesInv'
<1>0. PICK s, x : /\ s = Store(g)
                  /\ x = IF row[s] # NoRow /\ row[s].id = job[g].copy.id THEN NoRow ELSE row[s]
  OBVIOUS
<1>1. /\ job[g].at = "write" /\ job[g].kind = "clear" /\ s \in Rows /\ WorksOn(g, s)
      /\ x \in PriceRow \cup {NoRow} /\ RowIs(s)
  BY <1>0, AtRow DEF Remove, PricesInv, PriceTypes
<1>2. /\ UNCHANGED <<pending, disturbed>>
      /\ row' = [row EXCEPT ![s] = x]
      /\ writers' = [writers EXCEPT ![s] = Append(@, g)]
      /\ job' = [job EXCEPT ![g].at = "done", ![g].todo = <<>>]
  BY <1>0 DEF Remove
<1>3. s \notin disturbed /\ x # NoRow => AddsUp(x.val)
  BY <1>0, <1>1 DEF RowIs
<1> QED
  BY <1>1, <1>2, <1>3, DoneRow

\* save in a transaction: the row goes from those ahead to those held.
LEMMA WriteHeld ==
  ASSUME PricesInv, NEW g \in Handlers, Write(g), job[g].kind = "multi"
  PROVE  PricesInv'
<1>0. PICK s, x, p : /\ s = Store(g) /\ p = pending[g]
                     /\ x = IF Nothing(g) THEN row[s] ELSE Saved(row[s], job[g].copy, job[g].cols)
  OBVIOUS
<1>1. /\ job[g].at = "write" /\ job[g] \in JobRow /\ JobControl(g) /\ AllRows(g) /\ Working(g)
      /\ HoldsRows(g) /\ s \in Rows /\ s \in Ahead(g) /\ row[s] \in PriceRow \cup {NoRow}
  BY <1>0, AtRow DEF Write, PricesInv, PriceTypes
<1>2. PICK t : t = Tail(job[g].todo)
  OBVIOUS
<1>3. /\ t \in Seq(Rows) /\ NoRepeats(t) /\ Elements(t) = Ahead(g) \ {s}
      /\ t = <<>> <=> Len(job[g].todo) <= 1
  <2>1. job[g].todo \in Seq(Rows) /\ job[g].todo # <<>> /\ NoRepeats(job[g].todo)
    BY <1>1, AtRow
  <2> QED
    BY <1>0, <1>2, <2>1, TailOf DEF Store, Ahead
<1>4. PICK q : q = [r \in DOMAIN p \cup {s} |-> IF r # s THEN p[r] ELSE x]
  OBVIOUS
<1>5. /\ UNCHANGED <<row, writers, disturbed>>
      /\ pending' = [pending EXCEPT ![g] = q]
  BY <1>0, <1>4 DEF Write, InTransaction
<1>6. /\ x \in PriceRow \cup {NoRow}
      /\ s \notin disturbed => Shows(x, g)
  BY <1>0, <1>1, WrittenRow
<1>7. p \in Held /\ DOMAIN p \in SUBSET Rows /\ \A r \in DOMAIN p : p[r] \in PriceRow \cup {NoRow}
  <2>1. p \in Held
    BY <1>0 DEF PricesInv, PriceTypes
  <2> QED
    BY <2>1 DEF Held
<1>8. q \in Held /\ DOMAIN q = DOMAIN p \cup {s}
  <2>1. DOMAIN p \cup {s} \in SUBSET Rows
    BY <1>1, <1>7
  <2>2. q \in [DOMAIN p \cup {s} -> PriceRow \cup {NoRow}]
    BY <1>4, <1>6, <1>7
  <2> QED
    BY <2>1, <2>2 DEF Held
<1>9. PICK a \in {"find", "commit"} :
        /\ job' = [job EXCEPT ![g].at = a, ![g].todo = Tail(@)]
        /\ a = "commit" <=> Len(job[g].todo) <= 1
  <2>1. job[g].todo \in Seq(Rows)
    BY <1>1 DEF JobRow
  <2>2. Len(job[g].todo) > 1 <=> ~(Len(job[g].todo) <= 1)
    BY <2>1
  <2> QED
    BY <1>1, <2>2 DEF Write, After
<1>10. PICK n : n = [job[g] EXCEPT !.at = a, !.todo = t]
  OBVIOUS
<1>11. /\ n \in JobRow /\ n.at = a /\ n.todo = t /\ n.kind = "multi" /\ n.patch = job[g].patch
  BY <1>1, <1>3, <1>10 DEF JobRow, JobPlaces
<1>12. job' = [job EXCEPT ![g] = n] /\ job'[g] = n /\ \A h \in Handlers \ {g} : job'[h] = job[h]
  BY <1>2, <1>9, <1>10 DEF PricesInv, PriceTypes
<1>13. /\ pending'[g] = q /\ pending' \in [Handlers -> Held]
       /\ \A h \in Handlers \ {g} : pending'[h] = pending[h]
  BY <1>5, <1>8 DEF PricesInv, PriceTypes
<1>14. PriceTypes'
  BY <1>5, <1>11, <1>12, <1>13 DEF PricesInv, PriceTypes
<1>15. Working(g)' /\ Ahead(g)' = Ahead(g) \ {s} /\ DOMAIN pending'[g] = DOMAIN pending[g] \cup {s}
  BY <1>0, <1>3, <1>8, <1>11, <1>12, <1>13 DEF Working, Ahead
<1>16. JobControl(g)'
  <2>1. NoRepeats(job'[g].todo)
    BY <1>3, <1>11, <1>12, Zenon
  <2>2. a = "commit" <=> t = <<>>
    BY <1>3, <1>9
  <2>3. Ahead(g)' \cap DOMAIN pending'[g] = {}
    BY <1>1, <1>15 DEF JobControl
  <2> QED
    BY <1>11, <1>12, <1>15, <2>1, <2>2, <2>3 DEF JobControl
<1>17. SeenRow(g)'
  BY <1>11, <1>12 DEF SeenRow
<1>18. HoldsRows(g)'
  <2> SUFFICES ASSUME NEW r \in DOMAIN q \ disturbed
               PROVE  /\ q[r] \in PriceRow /\ AddsUp(q[r].val)
                      /\ \A f \in DOMAIN job[g].patch : q[r].val[f] = job[g].patch[f]
    BY <1>5, <1>11, <1>12, <1>13 DEF HoldsRows, Shows
  <2>1. CASE r = s
    BY <1>4, <1>6, <1>8, <2>1 DEF Shows
  <2>2. CASE r # s
    <3>1. q[r] = p[r] /\ r \in DOMAIN p
      BY <1>4, <1>8, <2>2
    <3>2. Shows(p[r], g)
      BY <1>0, <1>1, <3>1 DEF HoldsRows
    <3> QED
      BY <3>1, <3>2 DEF Shows
  <2> QED
    BY <2>1, <2>2
<1>19. AllRows(g)'
  <2>1. Ahead(g)' \cup DOMAIN pending'[g] = Ahead(g) \cup DOMAIN pending[g]
    BY <1>1, <1>15
  <2>2. PICK k \in Jobs[g] :
          k.patch = job[g].patch /\ Elements(k.todo) = Ahead(g) \cup DOMAIN pending[g]
    BY <1>1 DEF AllRows
  <2> QED
    BY <1>11, <1>12, <2>1, <2>2 DEF AllRows
<1> QED
  BY <1>1, <1>5, <1>12, <1>13, <1>14, <1>15, <1>16, <1>17, <1>18, <1>19, StayStep

LEMMA CommitPrices ==
  ASSUME PricesInv, NEW g \in Handlers, Commit(g)
  PROVE  PricesInv'
<1>0. PICK p : p = pending[g]
  OBVIOUS
<1>1. /\ job[g].at = "commit" /\ job[g].kind = "multi" /\ job[g].todo = <<>> /\ job[g] \in JobRow
      /\ JobControl(g) /\ AllRows(g) /\ HoldsRows(g) /\ Working(g) /\ UNCHANGED disturbed
      /\ row \in [Rows -> PriceRow \cup {NoRow}] /\ writers \in [Rows -> Seq(Handlers)]
  BY DEF Commit, PricesInv, PriceTypes, JobControl, Working
<1>2. /\ row' = [s \in Rows |-> IF s \in DOMAIN p THEN p[s] ELSE row[s]]
      /\ writers' = [s \in Rows |-> IF s \in DOMAIN p THEN Append(writers[s], g) ELSE writers[s]]
      /\ pending' = [pending EXCEPT ![g] = <<>>]
  BY <1>0 DEF Commit
<1>3. DOMAIN p \in SUBSET Rows /\ \A r \in DOMAIN p : p[r] \in PriceRow \cup {NoRow}
  <2>1. p \in Held
    BY <1>0 DEF PricesInv, PriceTypes
  <2> QED
    BY <2>1 DEF Held
<1>4. PICK n : n = [job[g] EXCEPT !.at = "done"]
  OBVIOUS
<1>5. n \in JobRow /\ n.at = "done" /\ n.todo = <<>> /\ n.kind = "multi" /\ n.patch = job[g].patch
  BY <1>1, <1>4 DEF JobRow, JobPlaces
<1>6. job' = [job EXCEPT ![g] = n] /\ job'[g] = n /\ \A h \in Handlers \ {g} : job'[h] = job[h]
  BY <1>4 DEF Commit, PricesInv, PriceTypes
<1>7. /\ pending' \in [Handlers -> Held] /\ DOMAIN pending'[g] = {}
      /\ \A h \in Handlers \ {g} : pending'[h] = pending[h]
  <2>1. <<>> \in [{} -> PriceRow \cup {NoRow}]
    OBVIOUS
  <2> QED
    BY <1>2, <2>1 DEF Held, PricesInv, PriceTypes
<1>8. /\ row' \in [Rows -> PriceRow \cup {NoRow}]
      /\ \A s \in Rows \ DOMAIN p : row'[s] = row[s] /\ writers'[s] = writers[s]
      /\ \A s \in DOMAIN p : row'[s] = p[s] /\ writers'[s] = Append(writers[s], g)
  BY <1>1, <1>2, <1>3
<1>9. \A s \in Rows : writers[s] \in Seq(Handlers) /\ Append(writers[s], g) \in Seq(Handlers)
  BY <1>1, OneMore
<1>10. PriceTypes'
  <2>1. writers' \in [Rows -> Seq(Handlers)]
    BY <1>2, <1>9
  <2> QED
    BY <1>5, <1>6, <1>7, <1>8, <2>1 DEF PricesInv, PriceTypes
<1>11. ASSUME NEW s \in DOMAIN p PROVE RowIs(s)' /\ WorksOn(g, s) /\ s \in Rows
  <2>1. s \in Rows /\ WorksOn(g, s) /\ writers[s] \in Seq(Handlers)
    BY <1>0, <1>1, <1>3, <1>9 DEF WorksOn
  <2>2. writers'[s][Len(writers'[s])] = g
    BY <1>8, <2>1, OneMore
  <2>3. s \notin disturbed' =>
          /\ row'[s] \in PriceRow /\ AddsUp(row'[s].val)
          /\ \A f \in DOMAIN job'[g].patch : row'[s].val[f] = job'[g].patch[f]
    BY <1>0, <1>1, <1>5, <1>6, <1>8 DEF HoldsRows, Shows
  <2> QED
    BY <2>1, <2>2, <2>3 DEF RowIs, Shows
<1>12. ASSUME NEW t \in Rows PROVE AloneOn(t)'
  <2>1. ~WorksOn(g, t)'
    BY <1>5, <1>6 DEF WorksOn, Working
  <2> QED
    BY <1>1, <1>6, <1>7, <2>1, StayAlone
<1>13. JobControl(g)' /\ SeenRow(g)' /\ HoldsRows(g)'
  <2>1. NoRepeats(<<>>) /\ Len(<<>>) <= 1
    BY DEF NoRepeats
  <2>2. JobControl(g)'
    BY <1>5, <1>6, <1>7, <2>1 DEF JobControl
  <2> QED
    BY <1>5, <1>6, <1>7, <2>2 DEF SeenRow, HoldsRows
<1>14. AllRows(g)'
  <2>1. ASSUME NEW s \in Rows PROVE g \in Elements(writers'[s]) <=> s \in DOMAIN p
    <3>1. g \notin Elements(writers[s])
      BY <1>1 DEF PricesInv, Written
    <3>2. Elements(Append(writers[s], g)) = Elements(writers[s]) \cup {g}
      BY <1>9, OneMore
    <3> QED
      BY <1>8, <3>1, <3>2
  <2>2. Has(g)' = DOMAIN p
    BY <1>3, <2>1 DEF Has
  <2>3. Ahead(g) = {}
    BY <1>1 DEF Ahead, Elements
  <2>4. PICK k \in Jobs[g] : k.patch = job[g].patch /\ Elements(k.todo) = DOMAIN p
    BY <1>0, <1>1, <2>3 DEF AllRows
  <2> QED
    BY <1>5, <1>6, <2>2, <2>4 DEF AllRows, Working
<1>15. \A s \in Rows : \/ row'[s] = row[s] /\ writers'[s] = writers[s]
                       \/ /\ WorksOn(g, s) /\ writers'[s] = Append(writers[s], g)
                          /\ job'[g].at = "done" /\ RowIs(s)'
  BY <1>5, <1>6, <1>8, <1>11
<1> QED
  BY <1>1, <1>6, <1>7, <1>10, <1>12, <1>13, <1>14, <1>15, PriceFrame

LEMMA PatchOf ==
  ASSUME NEW p, DOMAIN p \subseteq Fields, p \in [DOMAIN p -> Nat \cup {Null}]
  PROVE  p \in Patch
<1>1. DOMAIN p \in SUBSET Fields
  OBVIOUS
<1> QED
  BY <1>1 DEF Patch

LEMMA SetPricePrices ==
  ASSUME PricesInv, NEW h \in Handlers, SetPrice(h)
  PROVE  PricesInv'
<1>1. PICK j \in Jobs[h] : StartJob(h, j)
  BY DEF SetPrice
<1>2. /\ j.kind \in {"set", "multi", "clear"} /\ j.todo \in Seq(Rows) /\ j.todo # <<>>
      /\ j.kind # "multi" => Len(j.todo) = 1
      /\ DOMAIN j.patch \subseteq Fields /\ j.patch \in [DOMAIN j.patch -> Nat \cup {Null}]
  BY PriceAssumption
<1>3. NoRepeats(j.todo)
  BY PriceAssumption DEF NoRepeats
<1>4. j.patch \in Patch
  BY <1>2, PatchOf
<1> QED
  BY <1>1, <1>2, <1>3, <1>4, StartJobPrices

LEMMA ExecutePricePrices ==
  ASSUME Sound, PricesInv, NEW h \in Handlers, ExecutePrice(h)
  PROVE  PricesInv'
<1>1. PICK r \in Requests : r = handler[h].req /\ Exists(r)
  BY DEF ExecutePrice, Sound, Holds, Decisions
<1>2. PICK k \in Subjects : k = request[r].subject
  BY <1>1 DEF Exists, RequestRow
<1>3. PICK j : j = PriceOf[k]
  OBVIOUS
<1>4. /\ StartJob(h, j) /\ j.kind = "set" /\ j.todo \in Seq(Stores) /\ Len(j.todo) = 1
      /\ DOMAIN j.patch \subseteq Fields /\ j.patch \in [DOMAIN j.patch -> Nat \cup {Null}]
  BY <1>1, <1>2, <1>3, ApprovalAssumption DEF ExecutePrice
<1>5. j.todo \in Seq(Rows) /\ j.todo # <<>>
  <2>1. PICK q \in Seq(Stores) : q = j.todo /\ Len(q) = 1
    BY <1>4
  <2>2. Stores \subseteq Rows
    BY DEF Rows
  <2>3. q \in Seq(Rows)
    BY <2>2
  <2>4. q # <<>>
    <3>1. Len(<<>>) = 0 /\ 0 # 1
      OBVIOUS
    <3> QED
      BY <2>1, <3>1, Zenon
  <2> QED
    BY <2>1, <2>3, <2>4
<1>6. NoRepeats(j.todo)
  BY <1>4 DEF NoRepeats
<1>7. j.patch \in Patch
  BY <1>4, PatchOf
<1> QED
  BY <1>4, <1>5, <1>6, <1>7, StartJobPrices

LEMMA PricesStep == Sound /\ PricesInv /\ [Next]_vars => PricesInv'
<1> SUFFICES ASSUME Sound, PricesInv, [Next]_vars PROVE PricesInv'
  OBVIOUS
<1>1. CASE UNCHANGED priceVars
  <2>1. UNCHANGED <<row, job, pending, disturbed, writers>>
    BY <1>1 DEF priceVars
  <2>2. PriceTypes'
    BY <2>1 DEF PricesInv, PriceTypes
  <2>3. ASSUME NEW h \in Handlers
        PROVE  JobControl(h)' /\ SeenRow(h)' /\ HoldsRows(h)' /\ AllRows(h)'
    <3>1. JobControl(h) /\ SeenRow(h) /\ HoldsRows(h) /\ AllRows(h)
      BY DEF PricesInv
    <3>2. JobControl(h)'
      BY <2>1, <3>1 DEF JobControl, Working, Ahead
    <3>3. SeenRow(h)'
      BY <2>1, <3>1 DEF SeenRow, Store, Shows
    <3>4. HoldsRows(h)' /\ AllRows(h)'
      BY <2>1, <3>1 DEF HoldsRows, Shows, AllRows, Working, Ahead, Has
    <3> QED
      BY <3>2, <3>3, <3>4
  <2>4. ASSUME NEW s \in Rows PROVE AloneOn(s)' /\ Written(s)' /\ RowIs(s)'
    <3>1. AloneOn(s) /\ Written(s) /\ RowIs(s)
      BY DEF PricesInv
    <3> QED
      BY <2>1, <3>1 DEF AloneOn, WorksOn, Working, Written, RowIs, Shows
  <2> QED
    BY <2>2, <2>3, <2>4 DEF PricesInv
<1>2. ASSUME NEW h \in Handlers,
             CheckNew(h) \/ Insert(h) \/ Read(h) \/ Save(h) \/ Crash(h) \/ ExecuteStock(h)
               \/ PriceDone(h) \/ ExecuteNothing(h)
      PROVE  PricesInv'
  BY <1>1, <1>2 DEF CheckNew, Insert, Read, Save, Crash, ExecuteStock, PriceDone, ExecuteNothing
<1>3. ASSUME NEW h \in Handlers, Write(h) PROVE PricesInv'
  BY <1>3, WriteAlone, WriteHeld
<1>4. ASSUME NEW h \in Handlers, JobStep(h) PROVE PricesInv'
  BY <1>3, <1>4, FindPrices, ComparePrices, RemovePrices, CommitPrices, FailPrices DEF JobStep
<1> QED
  BY <1>1, <1>2, <1>4, SetPricePrices, ExecutePricePrices DEF Next, vars

\* Where a row is alone, its effective price is the one that is set, or the default.
LEMMA EffectivePrice ==
  ASSUME PricesInv, NEW s \in Rows \ disturbed, row[s] # NoRow
  PROVE  /\ row[s].val.unitPrice \in Int
         /\ row[s].val.unitPrice # Null =>
              Effective(s).unitPrice = row[s].val.unitPrice /\ Effective(s).isStoreOverride
         /\ row[s].val.unitPrice = Null => Effective(s).unitPrice = DefaultUnit
<1>1. PICK v \in Val : v = row[s].val /\ AddsUp(v)
  BY DEF PricesInv, PriceTypes, PriceRow, RowIs
<1>2. v.unitPrice \in Int
  BY DEF Val, Fields
<1>3. v.unitPrice # Null => v.isActive
  BY <1>1 DEF AddsUp, Fields
<1>4. Blank.unitPrice = Null
  BY DEF Blank, Columns, Fields
<1>5. PICK r : r = IF v.isActive THEN v ELSE Blank
  OBVIOUS
<1>6. Effective(s).unitPrice = Or(r.unitPrice, DefaultUnit) /\ Effective(s).isStoreOverride = (r # Blank)
  BY <1>1, <1>5 DEF Effective
<1>7. v.unitPrice # Null => r = v /\ r # Blank
  BY <1>3, <1>4, <1>5
<1>8. v.unitPrice = Null => r.unitPrice = Null
  BY <1>4, <1>5
<1> QED
  BY <1>1, <1>2, <1>6, <1>7, <1>8 DEF Or

\* PriceService: rows add up, a change for several stores is in all of them or in none, and
\* the comparison report shows what the stores charge.
THEOREM PricesAreWhole == Spec => []PricesHold
<1>1. Init => Sound /\ PricesInv
  BY InitSound, InitPrices
<1>2. Sound /\ PricesInv /\ [Next]_vars => (Sound /\ PricesInv)'
  BY SoundStep, PricesStep
<1>3. PricesInv => PricesHold
  <2> SUFFICES ASSUME PricesInv PROVE PricesHold
    OBVIOUS
  <2>1. RowsAddUp
    BY DEF PricesInv, RowIs, AddsUp, RowsAddUp
  <2>2. AllStoresOrNone
    <3> SUFFICES ASSUME NEW h \in Handlers, job[h].kind = "multi", NEW has,
                        has = {s \in Rows : \E i \in DOMAIN writers[s] : writers[s][i] = h}
                 PROVE  /\ job[h].at # "done" => has = {}
                        /\ job[h].at = "done" => \E k \in Jobs[h] :
                             /\ k.patch = job[h].patch /\ has = {k.todo[i] : i \in DOMAIN k.todo}
                             /\ \A s \in (has \cap Stores) \ disturbed :
                                  /\ writers[s][Len(writers[s])] = h
                                  /\ "unitPrice" \in DOMAIN k.patch /\ k.patch.unitPrice # Null
                                  => Effective(s).unitPrice = k.patch.unitPrice
      BY DEF AllStoresOrNone
    <3>0. has = Has(h)
      BY DEF Has, Elements
    <3>1. job[h].at # "done" => has = {}
      BY <3>0 DEF PricesInv, Written, Has
    <3>2. ASSUME job[h].at = "done"
          PROVE  \E k \in Jobs[h] : k.patch = job[h].patch /\ has = {k.todo[i] : i \in DOMAIN k.todo}
      <4>1. PICK k \in Jobs[h] : k.patch = job[h].patch /\ Elements(k.todo) = Has(h)
        BY <3>2 DEF PricesInv, AllRows
      <4> QED
        BY <3>0, <4>1 DEF Elements
    <3>3. ASSUME NEW s \in (has \cap Stores) \ disturbed, writers[s][Len(writers[s])] = h,
                 "unitPrice" \in DOMAIN job[h].patch, job[h].patch.unitPrice # Null
          PROVE  Effective(s).unitPrice = job[h].patch.unitPrice
      <4>1. s \in Rows \ disturbed /\ writers[s] # <<>>
        BY <3>0, <3>3 DEF Has, Elements
      <4>2. Shows(row[s], h)
        BY <3>3, <4>1 DEF PricesInv, RowIs
      <4>3. row[s] # NoRow /\ row[s].val.unitPrice = job[h].patch.unitPrice
        BY <3>3, <4>2, RowIsSome DEF Shows
      <4> QED
        BY <3>3, <4>1, <4>3, EffectivePrice
    <3> QED
      BY <3>1, <3>2, <3>3
  <2>3. ComparisonIsCharged
    <3> SUFFICES ASSUME NEW s \in Stores \ disturbed, row[s] # NoRow
                 PROVE  LET own == row[s].val.unitPrice IN
                        /\ Effective(s).unitPrice =
                             DefaultUnit + (IF own # Null THEN own - DefaultUnit ELSE 0)
                        /\ own # Null => Effective(s).isStoreOverride
      BY DEF ComparisonIsCharged, StorePriceComparison
    <3>1. s \in Rows \ disturbed
      BY DEF Rows
    <3>2. PICK own \in Int : own = row[s].val.unitPrice
      BY <3>1, EffectivePrice
    <3>3. /\ own # Null => Effective(s).unitPrice = own /\ Effective(s).isStoreOverride
          /\ own = Null => Effective(s).unitPrice = DefaultUnit
      BY <3>1, <3>2, EffectivePrice
    <3>4. DefaultUnit + (own - DefaultUnit) = own /\ DefaultUnit + 0 = DefaultUnit
      BY PriceAssumption
    <3> QED
      BY <3>2, <3>3, <3>4
  <2> QED
    BY <2>1, <2>2, <2>3 DEF PricesHold
<1> QED
  BY <1>1, <1>2, <1>3, PTL DEF Spec

-----------------------------------------------------------------------------
(* A job runs for somebody, and one request of a subject waits. *)

RunsFor(h) == Working(h) => h \in work.pricers \/ handler[h].at = "pricing"

LEMMA RunsForStep ==
  ASSUME Sound, PricesInv, \A h \in Handlers : RunsFor(h), [Next]_vars
  PROVE  \A h \in Handlers : RunsFor(h)'
<1>0. handler \in [Handlers -> HandlerRow] /\ job \in [Handlers -> JobRow]
  BY DEF Sound, Types, PricesInv, PriceTypes
<1>1. CASE UNCHANGED vars
  BY <1>1 DEF vars, approvalVars, priceVars, RunsFor, Working
<1>2. ASSUME NEW g \in Handlers, UNCHANGED <<work, job>>,
             \A h \in Handlers \ {g} : handler'[h] = handler[h],
             handler[g].at # "pricing" \/ job[g].at \in {"done", "failed"}
      PROVE  \A h \in Handlers : RunsFor(h)'
  BY <1>2 DEF RunsFor, Working
<1>3. ASSUME NEW g \in Handlers,
             CheckNew(g) \/ Insert(g) \/ Read(g) \/ Save(g) \/ Crash(g) \/ ExecuteStock(g)
               \/ PriceDone(g) \/ ExecuteNothing(g)
      PROVE  \A h \in Handlers : RunsFor(h)'
  <2>1. UNCHANGED <<work, job>>
    BY <1>3 DEF CheckNew, Insert, Read, Save, Crash, ExecuteStock, PriceDone, ExecuteNothing,
          priceVars
  <2>2. \A h \in Handlers \ {g} : handler'[h] = handler[h]
    BY <1>0, <1>3 DEF CheckNew, Insert, Read, Save, Crash, ExecuteStock, PriceDone, ExecuteNothing
  <2>3. handler[g].at # "pricing" \/ job[g].at \in {"done", "failed"}
    <3>1. CheckNew(g) \/ Read(g) => handler[g].at = "idle"
      <4>1. Idle.at = "idle"
        BY DEF Idle
      <4> QED
        BY <4>1 DEF CheckNew, Read
    <3>2. Insert(g) \/ Save(g) => handler[g].at = "read"
      BY DEF Insert, Save
    <3>3. Crash(g) \/ ExecuteStock(g) \/ ExecuteNothing(g) => handler[g].at \in {"read", "execute"}
      BY DEF Crash, ExecuteStock, ExecuteNothing
    <3>4. PriceDone(g) => job[g].at \in {"done", "failed"}
      BY DEF PriceDone
    <3> QED
      BY <1>3, <3>1, <3>2, <3>3, <3>4
  <2> QED
    BY <1>2, <2>1, <2>2, <2>3
<1>4. ASSUME NEW g \in Handlers, UNCHANGED <<work, handler>>,
             \A h \in Handlers \ {g} : job'[h] = job[h],
             Working(g) \/ g \in work.pricers
      PROVE  \A h \in Handlers : RunsFor(h)'
  BY <1>4 DEF RunsFor, Working
<1>5. ASSUME NEW g \in Handlers, JobStep(g), UNCHANGED approvalVars
      PROVE  \A h \in Handlers : RunsFor(h)'
  <2>1. \A h \in Handlers \ {g} : job'[h] = job[h]
    BY <1>0, <1>5 DEF JobStep, Find, Compare, Write, Remove, Commit, FailJob
  <2>2. Working(g)
    BY <1>5 DEF JobStep, Find, Compare, Write, Remove, Commit, FailJob, Working
  <2>3. UNCHANGED <<work, handler>>
    BY <1>5 DEF approvalVars
  <2> QED
    BY <1>4, <2>1, <2>2, <2>3
<1>6. ASSUME NEW g \in Handlers, SetPrice(g) PROVE \A h \in Handlers : RunsFor(h)'
  BY <1>0, <1>4, <1>6 DEF SetPrice, StartJob, approvalVars
<1>7. ASSUME NEW g \in Handlers, ExecutePrice(g) PROVE \A h \in Handlers : RunsFor(h)'
  <2>1. /\ handler' = [handler EXCEPT ![g].at = "pricing"] /\ UNCHANGED work
        /\ \A h \in Handlers \ {g} : job'[h] = job[h]
    BY <1>0, <1>7 DEF ExecutePrice, StartJob
  <2>2. handler'[g].at = "pricing" /\ \A h \in Handlers \ {g} : handler'[h] = handler[h]
    BY <1>0, <2>1 DEF HandlerRow
  <2> QED
    BY <2>1, <2>2 DEF RunsFor, Working
<1> QED
  BY <1>1, <1>3, <1>5, <1>6, <1>7 DEF Next

\* create: a subject has one pending request, unless two were created at once or decided at
\* once; and prices are changed only for a clerk of prices or for an approved request.
THEOREM OneWaits == Spec => []OnePending
<1> DEFINE Inv == Sound /\ Once /\ PricesInv /\ \A h \in Handlers : RunsFor(h)
<1>1. Init => Inv
  <2>1. Init => \A h \in Handlers : RunsFor(h)
    BY DEF Init, PriceInit, RunsFor, Working, NoJob
  <2> QED
    BY <2>1, InitSound, InitOnce, InitPrices
<1>2. Inv /\ [Next]_vars => Inv'
  BY SoundStep, OnceStep, PricesStep, RunsForStep
<1>3. Inv => OnePending
  <2> SUFFICES ASSUME Inv PROVE OnePending
    OBVIOUS
  <2>1. ASSUME NEW r \in Requests
        PROVE  /\ request[r].status \in Statuses
               /\ request[r].status = "PENDING_L2" => MaxLevel(TypeOf[request[r].subject]) = 2
    <3>1. Granted(r) /\ request[r] \in RequestRow \cup {NoRequest}
      BY DEF Sound, Types
    <3> QED
      BY <3>1 DEF Granted, IsPrice, MaxLevel, RequestRow, NoRequest, Statuses
  <2>2. ASSUME NEW h \in Handlers, handler[h].at \in {"execute", "pricing"}
        PROVE  request[handler[h].req] # NoRequest
    BY <2>2, RowsDiffer DEF Sound, Holds, Exists, Decisions
  <2>3. TypeOK
    BY <2>1, <2>2 DEF TypeOK, RunsFor, Sound, Types
  <2>4. ASSUME NEW q \in Requests \ clashed, NEW r \in Requests \ clashed,
               request[q].status \in Pending, request[r].status \in Pending,
               request[q].subject = request[r].subject, request[q].subject \notin clashed
        PROVE  q = r
    <3>1. PICK k \in Subjects : k = request[q].subject
      BY <2>4 DEF Sound, Types, RequestRow, NoRequest, Pending
    <3>2. WaitsOnce(k) /\ Waits(q, k) /\ Waits(r, k)
      BY <2>4, <3>1 DEF Once, Waits
    <3> QED
      BY <2>4, <3>1, <3>2 DEF WaitsOnce
  <2> QED
    BY <2>3, <2>4 DEF OnePending
<1> QED
  BY <1>1, <1>2, <1>3, PTL DEF Spec
-----------------------------------------------------------------------------
(* The catalogue.  Facts about numbers: least, greatest, and what holds up *)
(* to a number.                                                            *)

\* A set of naturals has a least element.
LEMMA LeastOf ==
  ASSUME NEW S \in SUBSET Nat, S # {}
  PROVE  \E m \in S : \A n \in S : m <= n
<1>1. PICK m \in S : \A n \in S : <<n, m>> \notin OpToRel(<, Nat)
  BY NatLessThanWellFounded, WFMin, Zenon
<1>2. \A n \in S : <<n, m>> \in OpToRel(<, Nat) <=> (n \in Nat /\ m \in Nat /\ n < m)
  BY Zenon DEF OpToRel
<1>3. \A n \in S : ~ (n < m)
  BY <1>1, <1>2, Zenon
<1> QED BY <1>3

\* One of them is greatest, if they are bounded.
LEMMA MaxIn ==
  ASSUME NEW n \in Nat, NEW S \in SUBSET (1..n), S # {}
  PROVE  Max(S) \in S
<1> DEFINE T == {n - i : i \in S}
<1>1. T \in SUBSET Nat /\ T # {}
  <2>1. \A i \in S : n - i \in Nat
    OBVIOUS
  <2> QED BY <2>1
<1>2. PICK m \in T : \A k \in T : m <= k
  <2> HIDE DEF T
  <2> QED BY <1>1, LeastOf
<1>3. PICK i \in S : m = n - i
  BY <1>2
<1>4. \A k \in S : i >= k
  <2> TAKE k \in S
  <2>1. n - k \in T
    OBVIOUS
  <2>2. m <= n - k
    BY <1>2, <2>1
  <2> QED BY <1>3, <2>2
<1>5. \E x \in S : \A y \in S : x >= y
  BY <1>4
<1> QED BY <1>5, Zenon DEF Max

LEMMA MinIn ==
  ASSUME NEW S \in SUBSET Nat, S # {}
  PROVE  Min(S) \in S
<1>1. \E x \in S : \A y \in S : x <= y
  BY LeastOf
<1> QED BY <1>1, Zenon DEF Min

\* What holds of 0, and of a number if of the one before, holds up to N.
LEMMA UpTo ==
  ASSUME NEW N \in Nat, NEW G, 0 \in G, \A n \in 1..N : n - 1 \in G => n \in G
  PROVE  \A n \in 0..N : n \in G
<1> DEFINE Bad == {n \in 0..N : n \notin G}
<1> SUFFICES ASSUME Bad # {} PROVE FALSE
  OBVIOUS
<1>1. Bad \in SUBSET Nat
  OBVIOUS
<1>2. PICK m \in Bad : \A n \in Bad : m <= n
  <2> HIDE DEF Bad
  <2> QED BY <1>1, LeastOf
<1>3. m \in 1..N /\ m - 1 \in 0..N
  BY <1>2
<1>4. m - 1 \notin Bad
  <2>1. ~(m <= m - 1)
    BY <1>3
  <2> HIDE DEF Bad
  <2> QED BY <1>2, <2>1
<1> QED BY <1>2, <1>3, <1>4

-----------------------------------------------------------------------------
(* Sequences joined, and the choices of a selection. *)

IsJoined(f, seqs, n) == f = [m \in 0..n |-> IF m = 0 THEN <<>> ELSE f[m - 1] \o seqs[m]]

LEMMA JoinedExists ==
  ASSUME NEW seqs, NEW N \in Nat
  PROVE  \E f : IsJoined(f, seqs, N)
<1> DEFINE G == {n \in 0..N : \E f : IsJoined(f, seqs, n)}
<1>1. 0 \in G
  <2>1. IsJoined([m \in 0..0 |-> <<>>], seqs, 0)
    BY DEF IsJoined
  <2> QED BY <2>1
<1>2. ASSUME NEW n \in 1..N, n - 1 \in G PROVE n \in G
  <2>1. PICK f : IsJoined(f, seqs, n - 1)
    BY <1>2
  <2> DEFINE g == [m \in 0..n |-> IF m = n THEN f[n - 1] \o seqs[n] ELSE f[m]]
  <2>2. \A m \in 0..(n - 1) : f[m] = IF m = 0 THEN <<>> ELSE f[m - 1] \o seqs[m]
    BY <2>1, Zenon DEF IsJoined
  <2>3. \A m \in 0..n : g[m] = IF m = 0 THEN <<>> ELSE g[m - 1] \o seqs[m]
    <3> TAKE m \in 0..n
    <3>1. CASE m = n
      <4>1. n # 0 /\ n - 1 \in 0..n /\ n - 1 # n
        OBVIOUS
      <4>2. g[n] = f[n - 1] \o seqs[n] /\ g[n - 1] = f[n - 1]
        BY <4>1
      <4> HIDE DEF g
      <4> QED BY <3>1, <4>1, <4>2, Zenon
    <3>2. CASE m # n /\ m # 0
      <4>1. m \in 0..(n - 1) /\ m - 1 \in 0..n /\ m - 1 # n
        BY <3>2
      <4>2. g[m] = f[m] /\ g[m - 1] = f[m - 1]
        BY <3>2, <4>1
      <4> HIDE DEF g
      <4> QED BY <2>2, <3>2, <4>1, <4>2, Zenon
    <3>3. CASE m = 0
      <4>1. 0 # n /\ 0 \in 0..(n - 1)
        OBVIOUS
      <4>2. g[m] = f[m]
        BY <3>3, <4>1
      <4> HIDE DEF g
      <4> QED BY <2>2, <3>3, <4>1, <4>2, Zenon
    <3> QED BY <3>1, <3>2, <3>3, Zenon
  <2>4. g = [m \in 0..n |-> g[m]]
    OBVIOUS
  <2> HIDE DEF g
  <2>5. IsJoined(g, seqs, n)
    BY <2>3, <2>4 DEF IsJoined
  <2> QED BY <2>5
<1> HIDE DEF G
<1>3. N \in G
  BY <1>1, <1>2, UpTo
<1> QED BY <1>3 DEF G

LEMMA ItemType ==
  ASSUME NEW S, NEW s \in Seq(S)
  PROVE  Len(s) \in Nat /\ 0 \in 0..Len(s) /\ Len(s) \in 0..Len(s) /\ \A i \in 1..Len(s) : s[i] \in S
OBVIOUS

\* Sequences over a set, joined, are one over it.
LEMMA JoinedType ==
  ASSUME NEW S, NEW seqs \in Seq(Seq(S))
  PROVE  Joined(seqs) \in Seq(S)
<1> DEFINE f == CHOOSE g : IsJoined(g, seqs, Len(seqs))
<1>1. IsJoined(f, seqs, Len(seqs))
  <2>1. Len(seqs) \in Nat
    BY ItemType
  <2> QED BY <2>1, JoinedExists, Zenon
<1>2. Joined(seqs) = f[Len(seqs)]
  BY Zenon DEF Joined, IsJoined
<1> HIDE DEF f
<1> DEFINE G == {n \in 0..Len(seqs) : f[n] \in Seq(S)}
<1>3. \A n \in 0..Len(seqs) : f[n] = IF n = 0 THEN <<>> ELSE f[n - 1] \o seqs[n]
  BY <1>1, Zenon DEF IsJoined
<1>4. Len(seqs) \in Nat /\ 0 \in 0..Len(seqs) /\ \A n \in 1..Len(seqs) : seqs[n] \in Seq(S)
  BY ItemType
<1>5. 0 \in G
  <2>1. f[0] = <<>>
    BY <1>3, <1>4, Zenon
  <2>2. <<>> \in Seq(S)
    OBVIOUS
  <2> QED BY <1>4, <2>1, <2>2
<1>6. ASSUME NEW n \in 1..Len(seqs), n - 1 \in G PROVE n \in G
  <2>1. n \in 0..Len(seqs) /\ n # 0
    BY <1>4
  <2>2. f[n] = f[n - 1] \o seqs[n]
    BY <1>3, <2>1, Zenon
  <2>3. f[n - 1] \in Seq(S) /\ seqs[n] \in Seq(S)
    BY <1>4, <1>6
  <2>4. f[n - 1] \o seqs[n] \in Seq(S)
    BY <2>3
  <2> QED BY <2>1, <2>2, <2>4
<1> HIDE DEF G
<1>7. Len(seqs) \in G
  <2>1. Len(seqs) \in 0..Len(seqs)
    BY <1>4
  <2> QED BY <1>4, <1>5, <1>6, <2>1, UpTo
<1> QED BY <1>2, <1>7 DEF G

LEMMA WidenedType ==
  ASSUME NEW keys \in Seq(Seq(Values)), NEW group \in Seq(Values)
  PROVE  Widened(keys, group) \in Seq(Seq(Values))
<1> DEFINE each == [i \in 1..Len(keys) |-> [j \in 1..Len(group) |-> Append(keys[i], group[j])]]
<1>1. \A i \in 1..Len(keys) : [j \in 1..Len(group) |-> Append(keys[i], group[j])] \in Seq(Seq(Values))
  <2> TAKE i \in 1..Len(keys)
  <2>1. \A j \in 1..Len(group) : Append(keys[i], group[j]) \in Seq(Values)
    OBVIOUS
  <2> QED BY <2>1
<1>2. each \in Seq(Seq(Seq(Values)))
  BY <1>1
<1> HIDE DEF each
<1>3. Joined(each) \in Seq(Seq(Values))
  BY <1>2, JoinedType
<1> QED BY <1>3, Zenon DEF Widened, each

IsWide(f, groups, n) == f = [m \in 0..n |-> IF m = 0 THEN <<<<>>>> ELSE Widened(f[m - 1], groups[m])]

LEMMA WideExists ==
  ASSUME NEW groups, NEW N \in Nat
  PROVE  \E f : IsWide(f, groups, N)
<1> DEFINE G == {n \in 0..N : \E f : IsWide(f, groups, n)}
<1>1. 0 \in G
  <2>1. IsWide([m \in 0..0 |-> <<<<>>>>], groups, 0)
    BY DEF IsWide
  <2> QED BY <2>1
<1>2. ASSUME NEW n \in 1..N, n - 1 \in G PROVE n \in G
  <2>1. PICK f : IsWide(f, groups, n - 1)
    BY <1>2
  <2> DEFINE g == [m \in 0..n |-> IF m = n THEN Widened(f[n - 1], groups[n]) ELSE f[m]]
  <2>2. \A m \in 0..(n - 1) : f[m] = IF m = 0 THEN <<<<>>>> ELSE Widened(f[m - 1], groups[m])
    BY <2>1, Zenon DEF IsWide
  <2>3. \A m \in 0..n : g[m] = IF m = 0 THEN <<<<>>>> ELSE Widened(g[m - 1], groups[m])
    <3> TAKE m \in 0..n
    <3>1. CASE m = n
      <4>1. n # 0 /\ n - 1 \in 0..n /\ n - 1 # n
        OBVIOUS
      <4>2. g[n] = Widened(f[n - 1], groups[n]) /\ g[n - 1] = f[n - 1]
        BY <4>1
      <4> HIDE DEF g
      <4> QED BY <3>1, <4>1, <4>2, Zenon
    <3>2. CASE m # n /\ m # 0
      <4>1. m \in 0..(n - 1) /\ m - 1 \in 0..n /\ m - 1 # n
        BY <3>2
      <4>2. g[m] = f[m] /\ g[m - 1] = f[m - 1]
        BY <3>2, <4>1
      <4> HIDE DEF g
      <4> QED BY <2>2, <3>2, <4>1, <4>2, Zenon
    <3>3. CASE m = 0
      <4>1. 0 # n /\ 0 \in 0..(n - 1)
        OBVIOUS
      <4>2. g[m] = f[m]
        BY <3>3, <4>1
      <4> HIDE DEF g
      <4> QED BY <2>2, <3>3, <4>1, <4>2, Zenon
    <3> QED BY <3>1, <3>2, <3>3, Zenon
  <2>4. g = [m \in 0..n |-> g[m]]
    OBVIOUS
  <2> HIDE DEF g
  <2>5. IsWide(g, groups, n)
    BY <2>3, <2>4 DEF IsWide
  <2> QED BY <2>5
<1> HIDE DEF G
<1>3. N \in G
  BY <1>1, <1>2, UpTo
<1> QED BY <1>3 DEF G

\* The choices of a selection are sequences of values.
LEMMA ChoicesType ==
  ASSUME NEW groups \in Seq(Seq(Values))
  PROVE  Combinations(groups) \in Seq(Seq(Values))
<1> DEFINE f == CHOOSE g : IsWide(g, groups, Len(groups))
<1>1. IsWide(f, groups, Len(groups))
  <2>1. Len(groups) \in Nat
    BY ItemType
  <2> QED BY <2>1, WideExists, Zenon
<1>2. Combinations(groups) = IF groups = <<>> THEN <<>> ELSE f[Len(groups)]
  BY Zenon DEF Combinations, IsWide
<1> HIDE DEF f
<1> DEFINE G == {n \in 0..Len(groups) : f[n] \in Seq(Seq(Values))}
<1>3. \A n \in 0..Len(groups) : f[n] = IF n = 0 THEN <<<<>>>> ELSE Widened(f[n - 1], groups[n])
  BY <1>1, Zenon DEF IsWide
<1>4. Len(groups) \in Nat /\ 0 \in 0..Len(groups) /\ \A n \in 1..Len(groups) : groups[n] \in Seq(Values)
  BY ItemType
<1>5. 0 \in G
  <2>1. f[0] = <<<<>>>>
    BY <1>3, <1>4, Zenon
  <2>2. <<<<>>>> \in Seq(Seq(Values))
    OBVIOUS
  <2> QED BY <1>4, <2>1, <2>2
<1>6. ASSUME NEW n \in 1..Len(groups), n - 1 \in G PROVE n \in G
  <2>1. n \in 0..Len(groups) /\ n # 0
    BY <1>4
  <2>2. f[n] = Widened(f[n - 1], groups[n])
    BY <1>3, <2>1, Zenon
  <2>3. f[n - 1] \in Seq(Seq(Values)) /\ groups[n] \in Seq(Values)
    BY <1>4, <1>6
  <2> QED BY <2>1, <2>2, <2>3, WidenedType
<1> HIDE DEF G
<1>7. Len(groups) \in G
  <2>1. Len(groups) \in 0..Len(groups)
    BY <1>4
  <2> QED BY <1>4, <1>5, <1>6, <2>1, UpTo
<1>8. <<>> \in Seq(Seq(Values))
  OBVIOUS
<1> QED BY <1>2, <1>7, <1>8 DEF G

-----------------------------------------------------------------------------
(* Codes. *)

Code == Seq(Texts \cup Nat)

LEMMA BaseCodeType ==
  ASSUME NEW key \in Seq(Values), NEW names \in [Values -> Names]
  PROVE  BaseCode(key, names) \in Code
<1> DEFINE each == [k \in 1..Len(key) |-> Words[names[key[k]]]]
<1>1. \A k \in 1..Len(key) : Words[names[key[k]]] \in Code
  BY CatalogueAssumption DEF Code
<1>2. each \in Seq(Code)
  BY <1>1
<1> HIDE DEF each
<1>3. Joined(each) \in Code
  BY <1>2, JoinedType DEF Code
<1>4. <<VARIANT>> \in Code
  BY CatalogueAssumption DEF Code
<1> QED BY <1>3, <1>4, Zenon DEF BaseCode, each

\* getNextUniqueCode returns a code that is not reserved: of the base and as many suffixes
\* as there are codes, no two are the same, so that one is free.
LEMMA NextIsFree ==
  ASSUME NEW base \in Code, NEW reserved, IsFiniteSet(reserved)
  PROVE  NextUniqueCode(base, reserved) \in Code \ reserved
<1> DEFINE tried == 1..(Cardinality(reserved) + 1)
           frees == {n \in tried : Candidate(base, n) \notin reserved}
           f == [n \in tried |-> Candidate(base, n)]
<1>1. Cardinality(reserved) \in Nat
  BY FS_CardinalityType
<1>2. IsFiniteSet(tried) /\ Cardinality(tried) = Cardinality(reserved) + 1
  BY <1>1, FS_Interval
<1>3. \A n, m \in tried : n # m => Candidate(base, n) # Candidate(base, m)
  <2>1. ASSUME NEW n \in Nat, NEW m \in Nat, n # m, n # 1, m # 1 PROVE Append(base, n) # Append(base, m)
    <3>1. Append(base, n)[Len(base) + 1] = n /\ Append(base, m)[Len(base) + 1] = m
      BY DEF Code
    <3> QED BY <2>1, <3>1
  <2>2. ASSUME NEW n \in Nat PROVE Append(base, n) # base
    <3>1. Len(Append(base, n)) = Len(base) + 1 /\ Len(base) \in Nat
      BY DEF Code
    <3> QED BY <3>1
  <2> TAKE n, m \in tried
  <2> HAVE n # m
  <2>3. n \in Nat /\ m \in Nat
    BY <1>1
  <2> QED BY <2>1, <2>2, <2>3, Zenon DEF Candidate
<1>4. frees # {}
  <2> SUFFICES ASSUME \A n \in tried : Candidate(base, n) \in reserved PROVE FALSE
    OBVIOUS
  <2>1. f \in [tried -> reserved]
    OBVIOUS
  <2>2. \E n, m \in tried : n # m /\ f[n] = f[m]
    <3>1. Cardinality(reserved) < Cardinality(tried)
      BY <1>1, <1>2
    <3> HIDE DEF tried, f
    <3> QED BY <1>2, <2>1, <3>1, FS_PigeonHole
  <2> QED BY <1>3, <2>2
<1>5. Min(frees) \in frees
  <2>1. frees \in SUBSET Nat
    BY <1>1
  <2> HIDE DEF frees
  <2> QED BY <1>4, <2>1, MinIn
<1>6. NextUniqueCode(base, reserved) = Candidate(base, Min(frees))
  BY DEF NextUniqueCode
<1>7. \A n \in tried : Candidate(base, n) \in Code
  BY <1>1 DEF Candidate, Code
<1> HIDE DEF tried
<1>8. Min(frees) \in tried /\ Candidate(base, Min(frees)) \notin reserved
  BY <1>5
<1> QED BY <1>6, <1>7, <1>8

-----------------------------------------------------------------------------
(* Rows of a variant, when the stores of the tenant are S. *)

StoreRow == [linked : BOOLEAN, active : BOOLEAN, price : BOOLEAN, there : BOOLEAN]

\* A row that opens a store is there, and its store's; a price is in force where the store
\* is open.
StoreRows(S) ==
  {r \in [AllStores -> StoreRow] : \A s \in AllStores :
     /\ r[s].linked => r[s].there /\ s \in S
     /\ r[s].price => r[s].linked}

\* What a missing row is created with.
Made == {r \in [AllStores -> StoreRow] : \A s \in AllStores : r[s].there /\ r[s].price = r[s].linked}

LEMMA RowFields ==
  ASSUME NEW l \in BOOLEAN, NEW a \in BOOLEAN, NEW p \in BOOLEAN
  PROVE  /\ Row(l, a, p) \in StoreRow
         /\ Row(l, a, p).linked = l /\ Row(l, a, p).active = a /\ Row(l, a, p).price = p
         /\ Row(l, a, p).there
BY DEF Row, StoreRow

LEMMA OpenRowMade == OpenRow \in Made
<1>1. \A s \in AllStores : OpenRow[s] = Row(TRUE, TRUE, TRUE)
  BY DEF OpenRow
<1>2. OpenRow = [s \in AllStores |-> Row(TRUE, TRUE, TRUE)]
  BY DEF OpenRow
<1> QED BY <1>1, <1>2, RowFields DEF Made

LEMMA NewRowMade ==
  ASSUME NEW known, NEW token
  PROVE  NewRow(known, token) \in Made
<1> DEFINE There(s) == \E i \in DOMAIN known : known[i][s].there
           Link(s)  == IF There(s) THEN \E i \in DOMAIN known : known[i][s].linked
                       ELSE token \in {NoStore, s}
           Open(s)  == {i \in DOMAIN known : known[i][s].linked}
           On(s)    == IF Open(s) # {} THEN \E i \in Open(s) : known[i][s].active
                       ELSE token \in {NoStore, s}
<1>1. NewRow(known, token) = [s \in AllStores |-> Row(Link(s), On(s), Link(s))]
  BY Zenon DEF NewRow
<1>2. ASSUME NEW s \in AllStores PROVE Link(s) \in BOOLEAN /\ On(s) \in BOOLEAN
  <2>1. (\E i \in DOMAIN known : known[i][s].linked) \in BOOLEAN
    OBVIOUS
  <2>2. (\E i \in Open(s) : known[i][s].active) \in BOOLEAN
    OBVIOUS
  <2>3. (token \in {NoStore, s}) \in BOOLEAN
    OBVIOUS
  <2> QED BY <2>1, <2>2, <2>3, Zenon
<1> HIDE DEF Link, On
<1>3. \A s \in AllStores :
        /\ Row(Link(s), On(s), Link(s)) \in StoreRow
        /\ Row(Link(s), On(s), Link(s)).linked = Link(s)
        /\ Row(Link(s), On(s), Link(s)).price = Link(s)
        /\ Row(Link(s), On(s), Link(s)).there
  BY <1>2, RowFields
<1> QED BY <1>1, <1>3 DEF Made

LEMMA NoRowsType ==
  ASSUME NEW S
  PROVE  NoRows \in StoreRows(S)
BY DEF NoRows, NoStoreRow, StoreRows, StoreRow

LEMMA MoreStores ==
  ASSUME NEW S, NEW T, S \subseteq T, NEW r \in StoreRows(S)
  PROVE  r \in StoreRows(T)
BY DEF StoreRows

\* Rows that are created keep what is there.
LEMMA EnsuredType ==
  ASSUME NEW S, NEW T, T \subseteq S, NEW r \in StoreRows(S), NEW made \in Made
  PROVE  /\ Ensured(r, T, made) \in StoreRows(S)
         /\ \A s \in T \cap AllStores : Ensured(r, T, made)[s].there
         /\ \A s \in AllStores : r[s].there => Ensured(r, T, made)[s] = r[s]
         /\ \A s \in AllStores : Ensured(r, T, made)[s] \in {r[s], made[s]}
<1> DEFINE e == Ensured(r, T, made)
<1>1. e = [s \in AllStores |-> IF s \in T /\ ~r[s].there THEN made[s] ELSE r[s]]
  BY DEF Ensured
<1> HIDE DEF e
<1>2. \A s \in AllStores : e[s] = IF s \in T /\ ~r[s].there THEN made[s] ELSE r[s]
  BY <1>1
<1>3. r \in [AllStores -> StoreRow] /\ made \in [AllStores -> StoreRow]
  BY DEF StoreRows, Made
<1>4. e \in [AllStores -> StoreRow]
  BY <1>1, <1>3
<1>5. ASSUME NEW s \in AllStores
      PROVE  (e[s].linked => e[s].there /\ s \in S) /\ (e[s].price => e[s].linked)
  BY <1>2, <1>5 DEF StoreRows, Made
<1>6. e \in StoreRows(S)
  BY <1>4, <1>5 DEF StoreRows
<1>7. \A s \in T \cap AllStores : e[s].there
  BY <1>2, Zenon DEF Made
<1> QED BY <1>2, <1>6, <1>7 DEF e

LEMMA SwitchedType ==
  ASSUME NEW r \in StoreRows(stores), NEW on \in BOOLEAN, NEW token \in Tokens, stores \subseteq AllStores
  PROVE  Switched(r, token, on) \in StoreRows(stores)
<1>1. ASSUME NEW f \in StoreRows(stores)
      PROVE  [s \in AllStores |-> IF f[s].linked THEN [f[s] EXCEPT !.active = on] ELSE f[s]]
               \in StoreRows(stores)
  BY DEF StoreRows, StoreRow
<1>2. CASE token = NoStore
  <2>1. Ensured(r, stores, OpenRow) \in StoreRows(stores)
    BY EnsuredType, OpenRowMade
  <2> QED BY <1>1, <1>2, <2>1 DEF Switched, SwitchedEverywhere
<1>3. CASE token # NoStore
  <2>1. token \in stores /\ token \in AllStores
    BY <1>3 DEF Tokens
  <2>2. Ensured(r, {token}, OpenRow) \in StoreRows(stores) /\ Ensured(r, {token}, OpenRow)[token].there
    <3>1. {token} \subseteq stores /\ token \in {token} \cap AllStores
      BY <2>1
    <3> QED BY <3>1, EnsuredType, OpenRowMade
  <2>3. ASSUME NEW f \in StoreRows(stores), f[token].there
        PROVE  [f EXCEPT ![token].active = on, ![token].linked = TRUE] \in StoreRows(stores)
    BY <2>1, <2>3 DEF StoreRows, StoreRow
  <2> QED BY <1>3, <2>2, <2>3 DEF Switched, SwitchedIn
<1> QED BY <1>2, <1>3

LEMMA ScopedType ==
  ASSUME NEW r \in StoreRows(stores), NEW target, target \subseteq stores, NEW closes \in BOOLEAN
  PROVE  Scoped(r, target, closes) \in StoreRows(stores)
<1> DEFINE f == Ensured(r, stores, OpenRow)
<1>1. f \in StoreRows(stores) /\ \A s \in stores \cap AllStores : f[s].there
  BY EnsuredType, OpenRowMade
<1> HIDE DEF f
<1> DEFINE New(s) == IF s \in target THEN [f[s] EXCEPT !.linked = TRUE, !.price = TRUE]
                     ELSE IF closes /\ f[s].there THEN [f[s] EXCEPT !.linked = FALSE, !.price = FALSE]
                     ELSE f[s]
<1>2. ASSUME NEW s \in AllStores
      PROVE  /\ New(s) \in StoreRow
             /\ New(s).linked => New(s).there /\ s \in stores
             /\ New(s).price => New(s).linked
  <2>1. f[s] \in StoreRow /\ (f[s].linked => f[s].there /\ s \in stores) /\ (f[s].price => f[s].linked)
        /\ (s \in target => f[s].there)
    BY <1>1 DEF StoreRows
  <2>2. CASE s \in target
    BY <2>1, <2>2 DEF StoreRow
  <2>3. CASE s \notin target /\ closes /\ f[s].there
    BY <2>1, <2>3 DEF StoreRow
  <2>4. CASE s \notin target /\ ~(closes /\ f[s].there)
    BY <2>1, <2>4
  <2> QED BY <2>2, <2>3, <2>4
<1>3. Scoped(r, target, closes) = [s \in AllStores |-> New(s)]
  BY DEF Scoped, f
<1> HIDE DEF New
<1> QED BY <1>2, <1>3 DEF StoreRows

\* Switched off everywhere, a variant is on sale in no store, and open where it was if all
\* its rows were there.
LEMMA SwitchedOff ==
  ASSUME NEW r \in StoreRows(stores)
  PROVE  /\ SwitchedEverywhere(r, FALSE) \in StoreRows(stores)
         /\ \A s \in AllStores : SwitchedEverywhere(r, FALSE)[s].linked
                                => ~SwitchedEverywhere(r, FALSE)[s].active
         /\ \A s \in AllStores : r[s].there => SwitchedEverywhere(r, FALSE)[s].linked = r[s].linked
<1> DEFINE f == Ensured(r, stores, OpenRow)
           e == SwitchedEverywhere(r, FALSE)
<1>1. f \in StoreRows(stores) /\ \A s \in AllStores : r[s].there => f[s] = r[s]
  BY EnsuredType, OpenRowMade
<1>2. e = [s \in AllStores |-> IF f[s].linked THEN [f[s] EXCEPT !.active = FALSE] ELSE f[s]]
  BY DEF SwitchedEverywhere
<1> HIDE DEF f, e
<1>3. ASSUME NEW s \in AllStores
      PROVE  /\ e[s] \in StoreRow /\ (e[s].linked => ~e[s].active)
             /\ e[s].linked = f[s].linked /\ e[s].price = f[s].price /\ e[s].there = f[s].there
  <2>1. f[s] \in StoreRow
    BY <1>1 DEF StoreRows
  <2> QED BY <1>2, <2>1 DEF StoreRow
<1>4. e \in StoreRows(stores)
  <2>1. e \in [AllStores -> StoreRow]
    BY <1>2, <1>3
  <2> QED BY <1>1, <1>3, <2>1 DEF StoreRows
<1> QED BY <1>1, <1>3, <1>4, Zenon DEF e

-----------------------------------------------------------------------------
(* Saving the variants of a selection. *)

Key == Seq(Values)
Variant == [key : Key, code : Code]

Tables(vs, rs) ==
  vs \in Seq(Variant) /\ rs \in Seq(StoreRows(stores)) /\ Len(rs) = Len(vs)
OneCodeEach(vs) == \A i, j \in DOMAIN vs : vs[i].code = vs[j].code => i = j

ReadTypes(read) ==
  /\ read.keys \in Seq(Key) /\ read.name \in [Values -> Names]
  /\ read.variants \in Seq(Variant) /\ Len(read.variants) <= Len(variants)

\* What has been saved: variants are only added, and no code is taken twice.
Acc(read) ==
  [variants : Seq(Variant), rows : Seq(StoreRows(stores)), codes : [DOMAIN read.variants -> Code],
   reserved : SUBSET Code, assigned : SUBSET Nat, ok : BOOLEAN]
SavedSoFar(read, acc) ==
  /\ acc \in Acc(read)
  /\ Len(acc.rows) = Len(acc.variants) /\ Len(variants) <= Len(acc.variants)
  /\ IsFiniteSet(acc.reserved)
  /\ acc.ok => OneCodeEach(acc.variants)

\* A sync that nothing disturbed reserves the codes there are, knows them in memory, and
\* adds no row that is open where all rows are closed.
Lone(read) == read.variants = variants /\ read.rows = rows
KeptRow(acc, i) ==
  /\ acc.codes[i] = acc.variants[i].code /\ acc.variants[i].key = variants[i].key
  /\ \A s \in AllStores : rows[i][s].there => acc.rows[i][s].there
Selected(read, acc, i) == \E k \in DOMAIN read.keys : read.keys[k] = acc.variants[i].key
LoneSoFar(read, acc) ==
  /\ acc.ok
  /\ \A x : x \in acc.reserved <=> \E i \in DOMAIN acc.variants : acc.variants[i].code = x
  /\ \A i \in DOMAIN variants : KeptRow(acc, i)
  /\ \A i \in DOMAIN acc.variants : i \in DOMAIN variants \/ i \in acc.assigned
  /\ \A i \in DOMAIN acc.variants : i \in acc.assigned => Selected(read, acc, i)
  /\ \A s \in AllStores : Closed(s) => \A i \in DOMAIN acc.variants : ~acc.rows[i][s].linked

Found(read, key) == {i \in DOMAIN read.variants : read.variants[i].key = key}
Place(read, acc, key) ==
  IF Found(read, key) = {} THEN Len(acc.variants) + 1 ELSE Max(Found(read, key))
Free(read, acc, key) ==
  IF Found(read, key) = {} THEN acc.reserved
  ELSE acc.reserved \ {acc.codes[Place(read, acc, key)]}
CodeFor(read, acc, key) == NextUniqueCode(BaseCode(key, read.name), Free(read, acc, key))
MadeFor(read) == NewRow(read.rows, read.token)

LEMMA SaveOneIs ==
  ASSUME NEW read, NEW acc, NEW key, NEW at, at = Place(read, acc, key),
         NEW code, code = CodeFor(read, acc, key), NEW made, made = MadeFor(read)
  PROVE  SaveOne(read, acc, key) =
    [variants |-> IF Found(read, key) = {} THEN Append(acc.variants, [key |-> key, code |-> code])
                  ELSE [acc.variants EXCEPT ![at].code = code],
     rows |-> IF Found(read, key) = {} THEN Append(acc.rows, Ensured(NoRows, stores, made))
              ELSE [acc.rows EXCEPT ![at] = Ensured(@, stores, made)],
     codes |-> IF Found(read, key) = {} THEN acc.codes ELSE [acc.codes EXCEPT ![at] = code],
     reserved |-> Free(read, acc, key) \cup {code}, assigned |-> acc.assigned \cup {at},
     ok |-> acc.ok /\ \A i \in DOMAIN acc.variants : i = at \/ acc.variants[i].code # code]
BY Zenon DEF SaveOne, Found, Place, Free, CodeFor, MadeFor

\* The code and the place of a variant that is saved.
LEMMA OneSaved ==
  ASSUME NEW read, ReadTypes(read), NEW acc, SavedSoFar(read, acc), NEW key \in Key,
         variants \in Seq(Variant)
  PROVE  /\ CodeFor(read, acc, key) \in Code \ Free(read, acc, key)
         /\ IsFiniteSet(Free(read, acc, key)) /\ Free(read, acc, key) \in SUBSET acc.reserved
         /\ MadeFor(read) \in Made
         /\ Found(read, key) # {} =>
              /\ Place(read, acc, key) \in Found(read, key)
              /\ Place(read, acc, key) \in DOMAIN read.variants
              /\ Place(read, acc, key) \in 1..Len(variants)
              /\ Place(read, acc, key) \in 1..Len(acc.variants)
<1>1. BaseCode(key, read.name) \in Code
  BY BaseCodeType DEF ReadTypes, Key
<1>2. IsFiniteSet(Free(read, acc, key)) /\ Free(read, acc, key) \in SUBSET acc.reserved
  <2>1. IsFiniteSet(acc.reserved)
    BY DEF SavedSoFar
  <2>2. Free(read, acc, key) \in SUBSET acc.reserved
    BY DEF Free
  <2> QED BY <2>1, <2>2, FS_Subset
<1>3. CodeFor(read, acc, key) \in Code \ Free(read, acc, key)
  BY <1>1, <1>2, NextIsFree DEF CodeFor
<1>4. ASSUME Found(read, key) # {}
      PROVE  /\ Place(read, acc, key) \in Found(read, key)
             /\ Place(read, acc, key) \in DOMAIN read.variants
             /\ Place(read, acc, key) \in 1..Len(variants)
             /\ Place(read, acc, key) \in 1..Len(acc.variants)
  <2>1. Len(read.variants) \in Nat /\ Found(read, key) \in SUBSET (1..Len(read.variants))
        /\ DOMAIN read.variants = 1..Len(read.variants)
    BY DEF Found, ReadTypes
  <2>2. Place(read, acc, key) \in Found(read, key)
    BY <1>4, <2>1, MaxIn DEF Place
  <2>3. Len(read.variants) <= Len(variants) /\ Len(variants) \in Nat
        /\ Len(variants) <= Len(acc.variants) /\ Len(acc.variants) \in Nat
    BY DEF ReadTypes, SavedSoFar, Acc
  <2> QED BY <2>1, <2>2, <2>3
<1>5. MadeFor(read) \in Made
  BY NewRowMade DEF MadeFor
<1> QED BY <1>2, <1>3, <1>4, <1>5

LEMMA SaveKeepsTypes ==
  ASSUME NEW read, ReadTypes(read), NEW acc, SavedSoFar(read, acc), NEW key \in Key,
         variants \in Seq(Variant)
  PROVE  SavedSoFar(read, SaveOne(read, acc, key))
<1> DEFINE at == Place(read, acc, key)
           code == CodeFor(read, acc, key)
           made == MadeFor(read)
           new == SaveOne(read, acc, key)
<1>1. code \in Code /\ made \in Made /\ IsFiniteSet(Free(read, acc, key))
      /\ Free(read, acc, key) \in SUBSET acc.reserved
  BY OneSaved
<1>2. at \in Nat
  <2>1. Len(acc.variants) \in Nat
    BY DEF SavedSoFar, Acc
  <2>2. CASE Found(read, key) = {}
    BY <2>1, <2>2 DEF Place
  <2>3. CASE Found(read, key) # {}
    BY <2>1, <2>3, OneSaved
  <2> QED BY <2>2, <2>3
<1>3. /\ acc.variants \in Seq(Variant) /\ acc.rows \in Seq(StoreRows(stores))
      /\ acc.codes \in [DOMAIN read.variants -> Code] /\ acc.reserved \in SUBSET Code
      /\ acc.assigned \in SUBSET Nat /\ acc.ok \in BOOLEAN
      /\ Len(acc.rows) = Len(acc.variants) /\ Len(variants) <= Len(acc.variants)
      /\ Len(acc.variants) \in Nat /\ Len(variants) \in Nat
      /\ (acc.ok => OneCodeEach(acc.variants))
  BY DEF SavedSoFar, Acc
<1>4. /\ new.variants = IF Found(read, key) = {} THEN Append(acc.variants, [key |-> key, code |-> code])
                        ELSE [acc.variants EXCEPT ![at].code = code]
      /\ new.rows = IF Found(read, key) = {} THEN Append(acc.rows, Ensured(NoRows, stores, made))
                    ELSE [acc.rows EXCEPT ![at] = Ensured(@, stores, made)]
      /\ new.codes = IF Found(read, key) = {} THEN acc.codes ELSE [acc.codes EXCEPT ![at] = code]
      /\ new.reserved = Free(read, acc, key) \cup {code}
      /\ new.assigned = acc.assigned \cup {at}
      /\ new.ok = (acc.ok /\ \A i \in DOMAIN acc.variants : i = at \/ acc.variants[i].code # code)
      /\ new = [variants |-> new.variants, rows |-> new.rows, codes |-> new.codes,
                reserved |-> new.reserved, assigned |-> new.assigned, ok |-> new.ok]
  <2>1. new =
    [variants |-> IF Found(read, key) = {} THEN Append(acc.variants, [key |-> key, code |-> code])
                  ELSE [acc.variants EXCEPT ![at].code = code],
     rows |-> IF Found(read, key) = {} THEN Append(acc.rows, Ensured(NoRows, stores, made))
              ELSE [acc.rows EXCEPT ![at] = Ensured(@, stores, made)],
     codes |-> IF Found(read, key) = {} THEN acc.codes ELSE [acc.codes EXCEPT ![at] = code],
     reserved |-> Free(read, acc, key) \cup {code}, assigned |-> acc.assigned \cup {at},
     ok |-> acc.ok /\ \A i \in DOMAIN acc.variants : i = at \/ acc.variants[i].code # code]
    BY SaveOneIs
  <2> HIDE DEF at, code, made, new
  <2> QED BY <2>1
<1>5. IsFiniteSet(new.reserved) /\ new.reserved \in SUBSET Code
  <2>1. IsFiniteSet(new.reserved)
    BY <1>1, <1>4, FS_AddElement
  <2> QED BY <1>1, <1>3, <1>4, <2>1
<1> HIDE DEF at, code, made, new
<1>6. CASE Found(read, key) = {}
  <2>1. new.variants = Append(acc.variants, [key |-> key, code |-> code])
        /\ new.rows = Append(acc.rows, Ensured(NoRows, stores, made)) /\ new.codes = acc.codes
    BY <1>4, <1>6
  <2>2. [key |-> key, code |-> code] \in Variant
    BY <1>1 DEF Variant
  <2>3. Ensured(NoRows, stores, made) \in StoreRows(stores)
    BY <1>1, NoRowsType, EnsuredType
  <2>4. /\ new.variants \in Seq(Variant) /\ new.rows \in Seq(StoreRows(stores))
        /\ Len(new.variants) = Len(acc.variants) + 1 /\ Len(new.rows) = Len(acc.variants) + 1
    BY <1>3, <2>1, <2>2, <2>3
  <2>5. ASSUME new.ok PROVE OneCodeEach(new.variants)
    <3>1. acc.ok /\ \A i \in DOMAIN acc.variants : i = at \/ acc.variants[i].code # code
      BY <1>4, <2>5
    <3>2. at = Len(acc.variants) + 1
      BY <1>6 DEF Place, at
    <3>3. /\ DOMAIN acc.variants = 1..Len(acc.variants) /\ DOMAIN new.variants = 1..(Len(acc.variants) + 1)
          /\ \A i \in 1..Len(acc.variants) : new.variants[i] = acc.variants[i]
          /\ new.variants[Len(acc.variants) + 1].code = code
      BY <1>3, <2>1
    <3> QED BY <1>3, <3>1, <3>2, <3>3 DEF OneCodeEach
  <2>6. new.assigned \in SUBSET Nat /\ new.ok \in BOOLEAN
    BY <1>2, <1>3, <1>4
  <2>7. new \in Acc(read)
    BY <1>3, <1>4, <1>5, <2>1, <2>4, <2>6 DEF Acc
  <2>8. SavedSoFar(read, new)
    BY <1>3, <1>5, <2>4, <2>5, <2>7 DEF SavedSoFar
  <2> QED BY <2>8 DEF new
<1>7. CASE Found(read, key) # {}
  <2>1. at \in 1..Len(acc.variants) /\ at \in DOMAIN read.variants
    BY <1>7, OneSaved DEF at
  <2>2. new.variants = [acc.variants EXCEPT ![at].code = code]
        /\ new.rows = [acc.rows EXCEPT ![at] = Ensured(@, stores, made)]
        /\ new.codes = [acc.codes EXCEPT ![at] = code]
    BY <1>4, <1>7
  <2>3. /\ new.variants \in Seq(Variant) /\ Len(new.variants) = Len(acc.variants)
        /\ DOMAIN new.variants = DOMAIN acc.variants /\ DOMAIN acc.variants = 1..Len(acc.variants)
        /\ \A i \in DOMAIN acc.variants : i # at => new.variants[i] = acc.variants[i]
        /\ new.variants[at].code = code
    <3>1. acc.variants[at] \in Variant
      BY <1>3, <2>1
    <3>2. [acc.variants[at] EXCEPT !.code = code] \in Variant
          /\ [acc.variants[at] EXCEPT !.code = code].code = code
      BY <1>1, <3>1 DEF Variant
    <3> QED BY <1>3, <2>1, <2>2, <3>2
  <2>4. new.rows \in Seq(StoreRows(stores)) /\ Len(new.rows) = Len(acc.rows)
    <3>1. acc.rows[at] \in StoreRows(stores)
      BY <1>3, <2>1
    <3>2. Ensured(acc.rows[at], stores, made) \in StoreRows(stores)
      BY <1>1, <3>1, EnsuredType
    <3> QED BY <1>3, <2>1, <2>2, <3>2
  <2>5. new.codes \in [DOMAIN read.variants -> Code]
    BY <1>1, <1>3, <2>2
  <2>6. ASSUME new.ok PROVE OneCodeEach(new.variants)
    <3>1. acc.ok /\ \A i \in DOMAIN acc.variants : i = at \/ acc.variants[i].code # code
      BY <1>4, <2>6
    <3> QED BY <1>3, <2>3, <3>1 DEF OneCodeEach
  <2>7. new.assigned \in SUBSET Nat /\ new.ok \in BOOLEAN
    BY <1>2, <1>3, <1>4
  <2>8. new \in Acc(read)
    BY <1>4, <1>5, <2>3, <2>4, <2>5, <2>7 DEF Acc
  <2>9. SavedSoFar(read, new)
    BY <1>3, <1>5, <2>3, <2>4, <2>6, <2>8 DEF SavedSoFar
  <2> QED BY <2>9 DEF new
<1> QED BY <1>6, <1>7 DEF new

\* A sync that nothing disturbed finds a code for every variant.
LEMMA SaveKeepsLone ==
  ASSUME NEW read, ReadTypes(read), NEW acc, SavedSoFar(read, acc), NEW k \in DOMAIN read.keys,
         variants \in Seq(Variant), rows \in Seq(StoreRows(stores)), Len(rows) = Len(variants),
         Lone(read), LoneSoFar(read, acc), stores \subseteq AllStores
  PROVE  LoneSoFar(read, SaveOne(read, acc, read.keys[k]))
<1> DEFINE key == read.keys[k]
           at == Place(read, acc, key)
           code == CodeFor(read, acc, key)
           made == MadeFor(read)
           new == SaveOne(read, acc, key)
<1>1. key \in Key /\ read.keys[k] = key
  BY DEF ReadTypes
<1> HIDE DEF key
<1>2. code \in Code /\ code \notin Free(read, acc, key) /\ made \in Made
  BY <1>1, OneSaved
<1>3. /\ acc.variants \in Seq(Variant) /\ acc.rows \in Seq(StoreRows(stores))
      /\ acc.codes \in [DOMAIN variants -> Code]
      /\ Len(acc.rows) = Len(acc.variants) /\ Len(variants) <= Len(acc.variants)
      /\ Len(acc.variants) \in Nat /\ Len(variants) \in Nat
      /\ OneCodeEach(acc.variants)
      /\ DOMAIN acc.variants = 1..Len(acc.variants) /\ DOMAIN variants = 1..Len(variants)
      /\ read.variants = variants
  BY DEF SavedSoFar, Acc, Lone, LoneSoFar
<1>4. /\ new.variants = IF Found(read, key) = {} THEN Append(acc.variants, [key |-> key, code |-> code])
                        ELSE [acc.variants EXCEPT ![at].code = code]
      /\ new.rows = IF Found(read, key) = {} THEN Append(acc.rows, Ensured(NoRows, stores, made))
                    ELSE [acc.rows EXCEPT ![at] = Ensured(@, stores, made)]
      /\ new.codes = IF Found(read, key) = {} THEN acc.codes ELSE [acc.codes EXCEPT ![at] = code]
      /\ new.reserved = Free(read, acc, key) \cup {code}
      /\ new.assigned = acc.assigned \cup {at}
      /\ new.ok = (acc.ok /\ \A i \in DOMAIN acc.variants : i = at \/ acc.variants[i].code # code)
  <2>1. new =
    [variants |-> IF Found(read, key) = {} THEN Append(acc.variants, [key |-> key, code |-> code])
                  ELSE [acc.variants EXCEPT ![at].code = code],
     rows |-> IF Found(read, key) = {} THEN Append(acc.rows, Ensured(NoRows, stores, made))
              ELSE [acc.rows EXCEPT ![at] = Ensured(@, stores, made)],
     codes |-> IF Found(read, key) = {} THEN acc.codes ELSE [acc.codes EXCEPT ![at] = code],
     reserved |-> Free(read, acc, key) \cup {code}, assigned |-> acc.assigned \cup {at},
     ok |-> acc.ok /\ \A i \in DOMAIN acc.variants : i = at \/ acc.variants[i].code # code]
    BY SaveOneIs
  <2> HIDE DEF at, code, made, new
  <2> QED BY <2>1
<1>5. ASSUME NEW s \in AllStores, Closed(s) PROVE ~made[s].linked
  <2>1. rows # <<>> /\ \A i \in DOMAIN rows : rows[i][s].there /\ ~rows[i][s].linked
    BY <1>5 DEF Closed
  <2>2. \E i \in DOMAIN rows : TRUE
    BY <2>1
  <2>3. made[s].linked = IF \E i \in DOMAIN rows : rows[i][s].there
                         THEN \E i \in DOMAIN rows : rows[i][s].linked
                         ELSE read.token \in {NoStore, s}
    <3> DEFINE There(z) == \E i \in DOMAIN rows : rows[i][z].there
               Link(z)  == IF There(z) THEN \E i \in DOMAIN rows : rows[i][z].linked
                           ELSE read.token \in {NoStore, z}
               Open(z)  == {i \in DOMAIN rows : rows[i][z].linked}
               On(z)    == IF Open(z) # {} THEN \E i \in Open(z) : rows[i][z].active
                           ELSE read.token \in {NoStore, z}
    <3>1. made = [z \in AllStores |-> Row(Link(z), On(z), Link(z))]
      BY Zenon DEF NewRow, MadeFor, Lone
    <3> HIDE DEF made
    <3>2. made[s].linked = Link(s)
      <4> HIDE DEF Link, On
      <4> QED BY <3>1 DEF Row
    <3> QED BY <3>2, Zenon
  <2> QED BY <2>1, <2>2, <2>3, Zenon
<1>6. ASSUME NEW r \in StoreRows(stores), NEW s \in AllStores, Closed(s), ~r[s].linked
      PROVE  ~Ensured(r, stores, made)[s].linked
  <2>1. Ensured(r, stores, made)[s] \in {r[s], made[s]}
    BY <1>2, EnsuredType
  <2> QED BY <1>5, <1>6, <2>1
<1>9. ASSUME NEW r \in StoreRows(stores), NEW s \in AllStores, r[s].there
      PROVE  Ensured(r, stores, made)[s] = r[s]
  <2> HIDE DEF made
  <2> QED BY <1>9 DEF Ensured
<1> HIDE DEF at, code, made, new
<1>7. CASE Found(read, key) = {}
  <2>1. at = Len(acc.variants) + 1 /\ Free(read, acc, key) = acc.reserved
    BY <1>7 DEF Place, Free, at
  <2>2. new.variants = Append(acc.variants, [key |-> key, code |-> code])
        /\ new.rows = Append(acc.rows, Ensured(NoRows, stores, made)) /\ new.codes = acc.codes
    BY <1>4, <1>7
  <2>3. /\ DOMAIN new.variants = 1..(Len(acc.variants) + 1)
        /\ \A i \in DOMAIN acc.variants : new.variants[i] = acc.variants[i] /\ new.rows[i] = acc.rows[i]
        /\ new.variants[at] = [key |-> key, code |-> code]
        /\ new.rows[at] = Ensured(NoRows, stores, made)
    BY <1>3, <2>1, <2>2
  <2>4. new.ok
    <3>1. \A i \in DOMAIN acc.variants : acc.variants[i].code # code
      BY <1>2, <2>1 DEF LoneSoFar
    <3> QED BY <1>4, <3>1 DEF LoneSoFar
  <2>5. \A x : x \in new.reserved <=> \E i \in DOMAIN new.variants : new.variants[i].code = x
    <3>1. \A x : x \in acc.reserved <=> \E i \in DOMAIN acc.variants : acc.variants[i].code = x
      BY DEF LoneSoFar
    <3>2. new.variants[at].code = code
      BY <2>3
    <3>3. \A i : i \in DOMAIN new.variants <=> i \in DOMAIN acc.variants \/ i = at
      BY <1>3, <2>1, <2>3
    <3>4. \A x : x \in new.reserved <=> x \in acc.reserved \/ x = code
      BY <1>4, <2>1
    <3> QED BY <2>3, <3>1, <3>2, <3>3, <3>4, Zenon
  <2>6. \A i \in DOMAIN variants : KeptRow(new, i)
    <3>1. \A i \in DOMAIN variants : KeptRow(acc, i) /\ i \in DOMAIN acc.variants
      BY <1>3 DEF LoneSoFar
    <3> QED BY <2>2, <2>3, <3>1 DEF KeptRow
  <2>7. \A i \in DOMAIN new.variants : i \in DOMAIN variants \/ i \in new.assigned
    BY <1>3, <1>4, <2>1, <2>3 DEF LoneSoFar
  <2>8. \A i \in DOMAIN new.variants : i \in new.assigned => Selected(read, new, i)
    <3>1. Selected(read, new, at)
      BY <1>1, <2>3 DEF Selected
    <3>2. ASSUME NEW i \in DOMAIN acc.variants, i \in acc.assigned PROVE Selected(read, new, i)
      BY <2>3, <3>2 DEF LoneSoFar, Selected
    <3>3. \A i \in DOMAIN new.variants : i \in new.assigned =>
             i = at \/ (i \in DOMAIN acc.variants /\ i \in acc.assigned)
      BY <1>3, <1>4, <2>1, <2>3
    <3> QED BY <3>1, <3>2, <3>3
  <2>9. ASSUME NEW s \in AllStores, Closed(s), NEW i \in DOMAIN new.variants
        PROVE  ~new.rows[i][s].linked
    <3>1. CASE i = at
      <4>1. NoRows \in StoreRows(stores) /\ ~NoRows[s].linked
        BY NoRowsType DEF NoRows, NoStoreRow
      <4> QED BY <1>6, <2>3, <2>9, <3>1, <4>1
    <3>2. CASE i # at
      <4>1. i \in DOMAIN acc.variants
        BY <1>3, <2>1, <2>3, <3>2
      <4> QED BY <2>3, <2>9, <4>1 DEF LoneSoFar
    <3> QED BY <3>1, <3>2
  <2>10. LoneSoFar(read, new)
    BY <2>4, <2>5, <2>6, <2>7, <2>8, <2>9 DEF LoneSoFar
  <2> QED BY <2>10 DEF new, key
<1>8. CASE Found(read, key) # {}
  <2>1. /\ at \in Found(read, key) /\ at \in DOMAIN variants /\ at \in DOMAIN acc.variants
        /\ Free(read, acc, key) = acc.reserved \ {acc.codes[at]}
    BY <1>1, <1>3, <1>8, OneSaved DEF Free, at
  <2>2. variants[at].key = key /\ KeptRow(acc, at)
    BY <1>3, <2>1 DEF Found, LoneSoFar
  <2>3. new.variants = [acc.variants EXCEPT ![at].code = code]
        /\ new.rows = [acc.rows EXCEPT ![at] = Ensured(@, stores, made)]
        /\ new.codes = [acc.codes EXCEPT ![at] = code]
    BY <1>4, <1>8
  <2>4. /\ DOMAIN new.variants = DOMAIN acc.variants
        /\ \A i \in DOMAIN acc.variants : i # at =>
             new.variants[i] = acc.variants[i] /\ new.rows[i] = acc.rows[i]
        /\ \A i \in DOMAIN variants : i # at => new.codes[i] = acc.codes[i]
        /\ new.variants[at].code = code /\ new.codes[at] = code
        /\ new.variants[at].key = acc.variants[at].key
        /\ acc.rows[at] \in StoreRows(stores)
        /\ new.rows[at] = Ensured(acc.rows[at], stores, made)
    <3>1. acc.variants[at] \in Variant
      BY <1>3, <2>1
    <3>2. [acc.variants[at] EXCEPT !.code = code].code = code
          /\ [acc.variants[at] EXCEPT !.code = code].key = acc.variants[at].key
      BY <3>1 DEF Variant
    <3>3. at \in DOMAIN acc.rows /\ DOMAIN acc.rows = DOMAIN acc.variants /\ acc.rows[at] \in StoreRows(stores)
      BY <1>3, <2>1
    <3> QED BY <1>3, <2>1, <2>3, <3>2, <3>3
  <2>5. acc.codes[at] = acc.variants[at].code
    BY <2>2 DEF KeptRow
  <2>6. \A x : x \in Free(read, acc, key) <=> \E i \in DOMAIN acc.variants : i # at /\ acc.variants[i].code = x
    <3>1. \A x : x \in acc.reserved <=> \E i \in DOMAIN acc.variants : acc.variants[i].code = x
      BY DEF LoneSoFar
    <3>2. \A i \in DOMAIN acc.variants : acc.variants[i].code = acc.variants[at].code => i = at
      BY <1>3, <2>1 DEF OneCodeEach
    <3>3. \A x : x \in Free(read, acc, key) <=> x \in acc.reserved /\ x # acc.codes[at]
      BY <2>1
    <3> QED BY <2>5, <3>1, <3>2, <3>3, Zenon
  <2>7. new.ok
    <3>1. \A i \in DOMAIN acc.variants : i = at \/ acc.variants[i].code # code
      BY <1>2, <2>6
    <3> QED BY <1>4, <3>1 DEF LoneSoFar
  <2>8. \A x : x \in new.reserved <=> \E i \in DOMAIN new.variants : new.variants[i].code = x
    <3>1. \A x : x \in new.reserved <=> x \in Free(read, acc, key) \/ x = code
      BY <1>4
    <3> QED BY <2>1, <2>4, <2>6, <3>1
  <2>9. \A i \in DOMAIN variants : KeptRow(new, i)
    <3> SUFFICES ASSUME NEW i \in DOMAIN variants PROVE KeptRow(new, i)
      OBVIOUS
    <3>1. KeptRow(acc, i) /\ i \in DOMAIN acc.variants
      BY <1>3 DEF LoneSoFar
    <3>2. CASE i # at
      BY <2>4, <3>1, <3>2 DEF KeptRow
    <3>3. CASE i = at
      <4>1. \A s \in AllStores : acc.rows[at][s].there => new.rows[at][s] = acc.rows[at][s]
        <5>1. \A s \in AllStores : acc.rows[at][s].there
                 => Ensured(acc.rows[at], stores, made)[s] = acc.rows[at][s]
          BY <1>9, <2>4
        <5> QED BY <2>4, <5>1, Zenon
      <4>2. \A s \in AllStores : rows[i][s].there => new.rows[at][s].there
        BY <3>1, <3>3, <4>1 DEF KeptRow
      <4> QED BY <2>4, <3>1, <3>3, <4>2 DEF KeptRow
    <3> QED BY <3>2, <3>3
  <2>10. \A i \in DOMAIN new.variants : i \in DOMAIN variants \/ i \in new.assigned
    BY <1>4, <2>4 DEF LoneSoFar
  <2>11. \A i \in DOMAIN new.variants : i \in new.assigned => Selected(read, new, i)
    <3>1. new.variants[at].key = key
      BY <2>2, <2>4 DEF KeptRow
    <3>2. Selected(read, new, at)
      BY <1>1, <3>1 DEF Selected
    <3>3. ASSUME NEW i \in DOMAIN acc.variants, i \in acc.assigned, i # at PROVE Selected(read, new, i)
      BY <2>4, <3>3 DEF LoneSoFar, Selected
    <3> QED BY <1>4, <2>4, <3>2, <3>3
  <2>12. ASSUME NEW s \in AllStores, Closed(s), NEW i \in DOMAIN new.variants
        PROVE  ~new.rows[i][s].linked
    <3>1. ~acc.rows[i][s].linked
      BY <2>4, <2>12 DEF LoneSoFar
    <3>2. CASE i = at
      BY <1>6, <2>4, <2>12, <3>1, <3>2
    <3>3. CASE i # at
      BY <2>4, <2>12, <3>1, <3>3
    <3> QED BY <3>2, <3>3
  <2>13. LoneSoFar(read, new)
    BY <2>7, <2>8, <2>9, <2>10, <2>11, <2>12 DEF LoneSoFar
  <2> QED BY <2>13 DEF new, key
<1> QED BY <1>7, <1>8

IsSaved(f, read, n) ==
  f = [m \in 0..n |-> IF m = 0 THEN Unsaved(read) ELSE SaveOne(read, f[m - 1], read.keys[m])]

LEMMA SavedExists ==
  ASSUME NEW read, NEW N \in Nat
  PROVE  \E f : IsSaved(f, read, N)
<1> DEFINE G == {n \in 0..N : \E f : IsSaved(f, read, n)}
<1>1. 0 \in G
  <2>1. IsSaved([m \in 0..0 |-> Unsaved(read)], read, 0)
    BY DEF IsSaved
  <2> QED BY <2>1
<1>2. ASSUME NEW n \in 1..N, n - 1 \in G PROVE n \in G
  <2>1. PICK f : IsSaved(f, read, n - 1)
    BY <1>2
  <2> DEFINE g == [m \in 0..n |-> IF m = n THEN SaveOne(read, f[n - 1], read.keys[n]) ELSE f[m]]
  <2>2. \A m \in 0..(n - 1) : f[m] = IF m = 0 THEN Unsaved(read)
                                     ELSE SaveOne(read, f[m - 1], read.keys[m])
    BY <2>1, Zenon DEF IsSaved
  <2>3. \A m \in 0..n : g[m] = IF m = 0 THEN Unsaved(read)
                               ELSE SaveOne(read, g[m - 1], read.keys[m])
    <3> TAKE m \in 0..n
    <3>1. CASE m = n
      <4>1. n # 0 /\ n - 1 \in 0..n /\ n - 1 # n
        OBVIOUS
      <4>2. g[n] = SaveOne(read, f[n - 1], read.keys[n]) /\ g[n - 1] = f[n - 1]
        BY <4>1
      <4> HIDE DEF g
      <4> QED BY <3>1, <4>1, <4>2, Zenon
    <3>2. CASE m # n /\ m # 0
      <4>1. m \in 0..(n - 1) /\ m - 1 \in 0..n /\ m - 1 # n
        BY <3>2
      <4>2. g[m] = f[m] /\ g[m - 1] = f[m - 1]
        BY <3>2, <4>1
      <4> HIDE DEF g
      <4> QED BY <2>2, <3>2, <4>1, <4>2, Zenon
    <3>3. CASE m = 0
      <4>1. 0 # n /\ 0 \in 0..(n - 1)
        OBVIOUS
      <4>2. g[m] = f[m]
        BY <3>3, <4>1
      <4> HIDE DEF g
      <4> QED BY <2>2, <3>3, <4>1, <4>2, Zenon
    <3> QED BY <3>1, <3>2, <3>3, Zenon
  <2>4. g = [m \in 0..n |-> g[m]]
    OBVIOUS
  <2> HIDE DEF g
  <2>5. IsSaved(g, read, n)
    BY <2>3, <2>4 DEF IsSaved
  <2> QED BY <2>5
<1> HIDE DEF G
<1>3. N \in G
  BY <1>1, <1>2, UpTo
<1> QED BY <1>3 DEF G

LEMMA NothingSaved ==
  ASSUME NEW read, ReadTypes(read), Tables(variants, rows), OneCodeEach(variants)
  PROVE  /\ SavedSoFar(read, Unsaved(read))
         /\ Lone(read) => LoneSoFar(read, Unsaved(read))
<1> DEFINE codes == [i \in DOMAIN read.variants |-> read.variants[i].code]
           acc == Unsaved(read)
<1>1. acc = [variants |-> variants, rows |-> rows, codes |-> codes,
             reserved |-> {codes[i] : i \in DOMAIN codes}, assigned |-> {}, ok |-> TRUE]
  BY DEF Unsaved
<1>2. /\ read.variants \in Seq(Variant) /\ Len(read.variants) \in Nat
      /\ DOMAIN read.variants = 1..Len(read.variants)
  BY DEF ReadTypes
<1>3. codes \in [DOMAIN read.variants -> Code] /\ DOMAIN codes = 1..Len(read.variants)
      /\ \A i \in DOMAIN read.variants : codes[i] = read.variants[i].code
  <2>1. \A i \in DOMAIN read.variants : read.variants[i] \in Variant
    BY <1>2
  <2>2. \A i \in DOMAIN read.variants : read.variants[i].code \in Code
    BY <2>1 DEF Variant
  <2> QED BY <1>2, <2>2
<1> HIDE DEF codes, acc
<1>4. /\ acc.variants = variants /\ acc.rows = rows /\ acc.codes = codes /\ acc.assigned = {} /\ acc.ok
      /\ acc.reserved = {codes[i] : i \in DOMAIN codes}
  BY <1>1
<1>5. IsFiniteSet(acc.reserved)
  <2>1. IsFiniteSet(DOMAIN codes)
    BY <1>2, <1>3, FS_Interval
  <2> DEFINE T == {codes[i] : i \in DOMAIN codes}
  <2>2. codes \in Surjection(DOMAIN codes, T)
    BY <1>3 DEF Surjection
  <2>3. IsFiniteSet(T)
    <3> HIDE DEF T
    <3> QED BY <2>1, <2>2, FS_Surjection
  <2> QED BY <1>4, <2>3
<1>6. acc.reserved \in SUBSET Code
  BY <1>3, <1>4
<1>7. SavedSoFar(read, acc)
  <2>1. acc \in Acc(read)
    BY <1>1, <1>3, <1>4, <1>6 DEF Acc, Tables
  <2>2. Len(acc.rows) = Len(acc.variants) /\ Len(variants) <= Len(acc.variants)
    BY <1>4 DEF Tables
  <2>3. OneCodeEach(acc.variants)
    BY <1>4
  <2> QED BY <1>5, <2>1, <2>2, <2>3 DEF SavedSoFar
<1>8. ASSUME Lone(read) PROVE LoneSoFar(read, acc)
  <2>1. read.variants = variants
    BY <1>8 DEF Lone
  <2>2. \A x : x \in acc.reserved <=> \E i \in DOMAIN acc.variants : acc.variants[i].code = x
    BY <1>2, <1>3, <1>4, <2>1
  <2>3. \A i \in DOMAIN variants : KeptRow(acc, i)
    BY <1>3, <1>4, <2>1 DEF KeptRow
  <2>4. ASSUME NEW s \in AllStores, Closed(s), NEW i \in DOMAIN acc.variants
        PROVE  ~acc.rows[i][s].linked
    <3>1. DOMAIN variants = DOMAIN rows
      BY DEF Tables
    <3> QED BY <1>4, <2>4, <3>1 DEF Closed
  <2> QED BY <1>4, <2>2, <2>3, <2>4 DEF LoneSoFar
<1> QED BY <1>7, <1>8 DEF acc

\* The same holds when all the variants of the selection are saved.
LEMMA AllSaved ==
  ASSUME NEW read, ReadTypes(read), Tables(variants, rows), OneCodeEach(variants),
         stores \subseteq AllStores
  PROVE  /\ SavedSoFar(read, SaveAll(read))
         /\ Lone(read) => LoneSoFar(read, SaveAll(read))
<1> DEFINE f == CHOOSE g : IsSaved(g, read, Len(read.keys))
           Good(acc) == SavedSoFar(read, acc) /\ (Lone(read) => LoneSoFar(read, acc))
           G == {n \in 0..Len(read.keys) : Good(f[n])}
<1>1. Len(read.keys) \in Nat /\ 0 \in 0..Len(read.keys) /\ Len(read.keys) \in 0..Len(read.keys)
      /\ DOMAIN read.keys = 1..Len(read.keys) /\ \A n \in 1..Len(read.keys) : read.keys[n] \in Key
  BY ItemType DEF ReadTypes
<1>2. IsSaved(f, read, Len(read.keys))
  BY <1>1, SavedExists, Zenon
<1>3. SaveAll(read) = f[Len(read.keys)]
  BY Zenon DEF SaveAll, IsSaved
<1> HIDE DEF f
<1>4. \A n \in 0..Len(read.keys) : f[n] = IF n = 0 THEN Unsaved(read)
                                          ELSE SaveOne(read, f[n - 1], read.keys[n])
  BY <1>2, Zenon DEF IsSaved
<1>5. 0 \in G
  <2>1. f[0] = Unsaved(read)
    BY <1>1, <1>4, Zenon
  <2>2. Good(Unsaved(read))
    BY NothingSaved
  <2> HIDE DEF Good
  <2> QED BY <1>1, <2>1, <2>2
<1>6. ASSUME NEW n \in 1..Len(read.keys), n - 1 \in G PROVE n \in G
  <2>1. n \in 0..Len(read.keys) /\ n # 0
    BY <1>1
  <2>2. f[n] = SaveOne(read, f[n - 1], read.keys[n])
    BY <1>4, <2>1, Zenon
  <2>3. Good(f[n - 1])
    <3> HIDE DEF Good
    <3> QED BY <1>6
  <2>4. variants \in Seq(Variant) /\ rows \in Seq(StoreRows(stores)) /\ Len(rows) = Len(variants)
        /\ read.keys[n] \in Key /\ n \in DOMAIN read.keys
    BY <1>1 DEF Tables
  <2>5. SavedSoFar(read, SaveOne(read, f[n - 1], read.keys[n]))
    BY <2>3, <2>4, SaveKeepsTypes
  <2>6. ASSUME Lone(read) PROVE LoneSoFar(read, SaveOne(read, f[n - 1], read.keys[n]))
    BY <2>3, <2>4, <2>6, SaveKeepsLone
  <2> QED BY <2>1, <2>2, <2>5, <2>6
<1> HIDE DEF G, Good
<1>7. Len(read.keys) \in G
  BY <1>1, <1>5, <1>6, UpTo
<1>8. Good(f[Len(read.keys)])
  BY <1>7 DEF G
<1> QED BY <1>3, <1>8 DEF Good

\* What a sync leaves: typed tables; its own selection on sale; nothing open that was closed.
LEMMA WhatASyncLeaves ==
  ASSUME NEW read, ReadTypes(read), Tables(variants, rows), OneCodeEach(variants),
         stores \subseteq AllStores, NEW out, out = Outcome(read)
  PROVE  /\ Tables(out.variants, out.rows) /\ Len(variants) <= Len(out.variants)
         /\ out.ok \in BOOLEAN /\ (out.ok => OneCodeEach(out.variants))
         /\ Lone(read) =>
              /\ out.ok
              /\ \A s \in AllStores : Closed(s) => \A i \in DOMAIN out.rows : ~out.rows[i][s].linked
              /\ \A i \in DOMAIN out.rows : \A s \in AllStores :
                   out.rows[i][s].linked /\ out.rows[i][s].active => Selected(read, out, i)
<1> DEFINE acc == SaveAll(read)
<1>1. SavedSoFar(read, acc) /\ (Lone(read) => LoneSoFar(read, acc))
  BY AllSaved
<1>2. out = [acc EXCEPT !.rows = [i \in DOMAIN acc.rows |->
               IF i \in Dropped(read, acc) THEN SwitchedEverywhere(acc.rows[i], FALSE) ELSE acc.rows[i]]]
  BY DEF Outcome
<1> HIDE DEF acc
<1>3. /\ acc \in Acc(read) /\ Len(acc.rows) = Len(acc.variants) /\ Len(variants) <= Len(acc.variants)
      /\ (acc.ok => OneCodeEach(acc.variants))
      /\ acc.variants \in Seq(Variant) /\ acc.rows \in Seq(StoreRows(stores)) /\ acc.ok \in BOOLEAN
      /\ DOMAIN acc.rows = 1..Len(acc.variants) /\ DOMAIN acc.variants = 1..Len(acc.variants)
      /\ Len(acc.variants) \in Nat
  BY <1>1 DEF SavedSoFar, Acc
<1>4. /\ out.variants = acc.variants /\ out.ok = acc.ok
      /\ out.rows = [i \in DOMAIN acc.rows |->
           IF i \in Dropped(read, acc) THEN SwitchedEverywhere(acc.rows[i], FALSE) ELSE acc.rows[i]]
  BY <1>2, <1>3 DEF Acc
<1>5. \A i \in DOMAIN acc.rows : acc.rows[i] \in StoreRows(stores)
  BY <1>3
<1>6. \A i \in DOMAIN acc.rows : SwitchedEverywhere(acc.rows[i], FALSE) \in StoreRows(stores)
  BY <1>5, SwitchedOff
<1>7. /\ DOMAIN out.rows = DOMAIN acc.rows
      /\ \A i \in DOMAIN acc.rows :
           out.rows[i] = IF i \in Dropped(read, acc) THEN SwitchedEverywhere(acc.rows[i], FALSE)
                         ELSE acc.rows[i]
  BY <1>4
<1>8. out.rows \in Seq(StoreRows(stores)) /\ Len(out.rows) = Len(acc.variants)
  <2>1. \A i \in DOMAIN acc.rows : out.rows[i] \in StoreRows(stores)
    BY <1>5, <1>6, <1>7
  <2>2. out.rows = [i \in 1..Len(acc.variants) |-> out.rows[i]]
    BY <1>3, <1>4
  <2> DEFINE q == [i \in 1..Len(acc.variants) |-> out.rows[i]]
  <2>3. q \in Seq(StoreRows(stores)) /\ Len(q) = Len(acc.variants)
    <3>1. \A i \in 1..Len(acc.variants) : out.rows[i] \in StoreRows(stores)
      BY <1>3, <2>1
    <3> QED BY <1>3, <3>1
  <2> QED BY <2>2, <2>3
<1>9. ASSUME Lone(read)
      PROVE  /\ out.ok
             /\ \A s \in AllStores : Closed(s) => \A i \in DOMAIN out.rows : ~out.rows[i][s].linked
             /\ \A i \in DOMAIN out.rows : \A s \in AllStores :
                  out.rows[i][s].linked /\ out.rows[i][s].active => Selected(read, out, i)
  <2>1. LoneSoFar(read, acc) /\ DOMAIN read.variants = DOMAIN variants
    BY <1>1, <1>9 DEF Lone
  <2>2. out.ok
    BY <1>4, <2>1 DEF LoneSoFar
  <2>3. ASSUME NEW s \in AllStores, Closed(s), NEW i \in DOMAIN out.rows
        PROVE  ~out.rows[i][s].linked
    <3>1. ~acc.rows[i][s].linked /\ i \in DOMAIN acc.rows
      BY <1>3, <1>7, <2>1, <2>3 DEF LoneSoFar
    <3>2. ASSUME i \in Dropped(read, acc) PROVE ~SwitchedEverywhere(acc.rows[i], FALSE)[s].linked
      <4>1. i \in DOMAIN variants /\ i \in DOMAIN rows
        BY <2>1, <3>2 DEF Dropped, Tables
      <4>2. rows[i][s].there
        BY <2>3, <4>1 DEF Closed
      <4>3. acc.rows[i][s].there
        BY <2>1, <4>1, <4>2 DEF LoneSoFar, KeptRow
      <4>4. SwitchedEverywhere(acc.rows[i], FALSE)[s].linked = acc.rows[i][s].linked
        BY <1>5, <3>1, <4>3, SwitchedOff
      <4> QED BY <3>1, <4>4
    <3> QED BY <1>7, <3>1, <3>2
  <2>4. ASSUME NEW i \in DOMAIN out.rows, NEW s \in AllStores,
               out.rows[i][s].linked, out.rows[i][s].active
        PROVE  Selected(read, out, i)
    <3>1. i \in DOMAIN acc.rows /\ i \in DOMAIN acc.variants
      BY <1>3, <1>7
    <3>2. i \notin Dropped(read, acc)
      <4> SUFFICES ASSUME i \in Dropped(read, acc) PROVE FALSE
        OBVIOUS
      <4>1. out.rows[i] = SwitchedEverywhere(acc.rows[i], FALSE)
        BY <1>7, <3>1
      <4> QED BY <1>5, <2>4, <3>1, <4>1, SwitchedOff
    <3>3. i \in acc.assigned
      BY <2>1, <3>1, <3>2 DEF Dropped, LoneSoFar
    <3>4. Selected(read, acc, i)
      BY <2>1, <3>1, <3>3 DEF LoneSoFar
    <3> QED BY <1>4, <3>4 DEF Selected
  <2> QED BY <2>2, <2>3, <2>4
<1> QED BY <1>3, <1>4, <1>8, <1>9 DEF Tables

-----------------------------------------------------------------------------
(* The invariant of the catalogue. *)

ReadingSync ==
  [state : {"read"}, token : AllStores \cup {NoStore}, keys : Seq(Key), name : [Values -> Names],
   variants : Seq(Variant), rows : Seq(StoreRows(AllStores)), alone : BOOLEAN]
FailedSync == [state : {"failed"}, alone : {FALSE}]

\* What a sync has read was there, and is what there is until something disturbs it.
Behind(c) ==
  sync[c].state = "read" =>
    /\ Len(sync[c].variants) <= Len(variants)
    /\ sync[c].alone => Lone(sync[c])

CatalogueInv ==
  /\ stores \in SUBSET AllStores /\ name \in [Values -> Names]
  /\ Tables(variants, rows) /\ OneCodeEach(variants)
  /\ sync \in [Clerks -> ReadingSync \cup FailedSync \cup {NoSync}]
  /\ \A c \in Clerks : Behind(c)

LEMMA SyncStates ==
  ASSUME NEW x \in ReadingSync \cup FailedSync \cup {NoSync}
  PROVE  /\ x.state = "read" <=> x \in ReadingSync
         /\ x.state = "failed" <=> x \in FailedSync
         /\ x = NoSync => x.state = "idle"
<1>1. ASSUME x \in ReadingSync PROVE x.state = "read"
  BY <1>1 DEF ReadingSync
<1>2. ASSUME x \in FailedSync PROVE x.state = "failed"
  BY <1>2 DEF FailedSync
<1>3. ASSUME x = NoSync PROVE x.state = "idle"
  BY <1>3 DEF NoSync
<1>4. "read" # "failed" /\ "read" # "idle" /\ "failed" # "idle"
  OBVIOUS
<1> QED BY <1>1, <1>2, <1>3, <1>4, Zenon

LEMMA ReadTypesOf ==
  ASSUME CatalogueInv, NEW c \in Clerks, sync[c].state = "read"
  PROVE  ReadTypes(sync[c])
<1>1. sync[c] \in ReadingSync
  BY SyncStates DEF CatalogueInv
<1> QED BY <1>1 DEF CatalogueInv, Behind, ReadTypes, ReadingSync

LEMMA CatalogueStart == CatalogueInit => CatalogueInv
<1> SUFFICES ASSUME CatalogueInit PROVE CatalogueInv
  OBVIOUS
<1>1. variants \in Seq(Variant) /\ rows \in Seq(StoreRows(stores)) /\ Len(rows) = Len(variants)
  BY DEF CatalogueInit
<1>2. OneCodeEach(variants)
  BY DEF CatalogueInit, OneCodeEach
<1>3. \A c \in Clerks : Behind(c)
  BY DEF CatalogueInit, Behind, NoSync
<1> QED BY <1>1, <1>2, <1>3, CatalogueAssumption DEF CatalogueInit, CatalogueInv, Tables

\* After another request, nothing that a sync has read counts as what there is.
LEMMA Disturbed ==
  ASSUME CatalogueInv
  PROVE  /\ Disturb \in [Clerks -> ReadingSync \cup FailedSync \cup {NoSync}]
         /\ \A c \in Clerks :
              /\ Disturb[c].state = sync[c].state
              /\ Disturb[c].state = "read" =>
                   ~Disturb[c].alone /\ Disturb[c].variants = sync[c].variants
<1> SUFFICES ASSUME NEW c \in Clerks
             PROVE  /\ Disturb[c] \in ReadingSync \cup FailedSync \cup {NoSync}
                    /\ Disturb[c].state = sync[c].state
                    /\ Disturb[c].state = "read" =>
                         ~Disturb[c].alone /\ Disturb[c].variants = sync[c].variants
  BY DEF Disturb
<1>1. sync[c] \in ReadingSync \cup FailedSync \cup {NoSync}
  BY DEF CatalogueInv
<1>2. Disturb[c] = IF sync[c].state = "read" THEN [sync[c] EXCEPT !.alone = FALSE] ELSE sync[c]
  BY DEF Disturb
<1>3. CASE sync[c].state = "read"
  <2>1. sync[c] \in ReadingSync
    BY <1>1, <1>3, SyncStates
  <2>2. Disturb[c] = [sync[c] EXCEPT !.alone = FALSE]
    BY <1>2, <1>3
  <2> QED BY <2>1, <2>2 DEF ReadingSync
<1>4. CASE sync[c].state # "read"
  BY <1>1, <1>2, <1>4
<1> QED BY <1>3, <1>4

\* A request that changes the tables, keeps their types and adds to the variants keeps the
\* invariant, for every sync it disturbs.
LEMMA OtherRequest ==
  ASSUME CatalogueInv, stores' \in SUBSET AllStores, name' = name,
         Tables(variants, rows)', OneCodeEach(variants)', Len(variants) <= Len(variants'),
         NEW C \in SUBSET Clerks, sync' \in [Clerks -> ReadingSync \cup FailedSync \cup {NoSync}],
         \A c \in C : sync'[c] = Disturb[c], \A c \in Clerks \ C : sync'[c].state # "read"
  PROVE  CatalogueInv'
<1> SUFFICES ASSUME NEW c \in Clerks, sync'[c].state = "read"
             PROVE  Len(sync'[c].variants) <= Len(variants') /\ ~sync'[c].alone
  BY DEF CatalogueInv, Behind
<1>1. c \in C /\ sync'[c] = Disturb[c]
  OBVIOUS
<1>2. sync[c].state = "read" /\ sync'[c].variants = sync[c].variants /\ ~sync'[c].alone
  <2>1. Disturb[c].state = "read"
    BY <1>1, Zenon
  <2>2. Disturb[c].state = sync[c].state /\ Disturb[c].variants = sync[c].variants /\ ~Disturb[c].alone
    BY <2>1, Disturbed
  <2> QED BY <1>1, <2>1, <2>2, Zenon
<1>3. sync[c] \in ReadingSync
  BY <1>2, SyncStates DEF CatalogueInv
<1>4. Len(sync[c].variants) \in Nat /\ Len(variants) \in Nat /\ Len(variants') \in Nat
      /\ Len(sync[c].variants) <= Len(variants)
  <2>1. Len(sync[c].variants) \in Nat
    BY <1>3 DEF ReadingSync
  <2>2. Len(variants) \in Nat /\ Len(variants') \in Nat
    BY DEF CatalogueInv, Tables
  <2>3. Len(sync[c].variants) <= Len(variants)
    BY <1>2 DEF CatalogueInv, Behind
  <2> QED BY <2>1, <2>2, <2>3
<1> QED BY <1>2, <1>4

LEMMA RowsRequest ==
  ASSUME CatalogueInv, UNCHANGED <<stores, name, variants>>, sync' = Disturb,
         rows' \in Seq(StoreRows(stores)), Len(rows') = Len(rows)
  PROVE  CatalogueInv'
<1>1. Tables(variants, rows)' /\ OneCodeEach(variants)' /\ Len(variants) <= Len(variants')
  BY DEF CatalogueInv, Tables, OneCodeEach, StoreRows
<1>2. stores' \in SUBSET AllStores /\ name' = name
      /\ sync' \in [Clerks -> ReadingSync \cup FailedSync \cup {NoSync}]
      /\ \A c \in Clerks : sync'[c] = Disturb[c]
  BY Disturbed DEF CatalogueInv
<1> QED BY <1>1, <1>2, OtherRequest

LEMMA ReadKeeps ==
  ASSUME CatalogueInv, NEW c \in Clerks, NEW token \in Tokens, NEW selection \in Selections,
         SyncRead(c, token, selection)
  PROVE  CatalogueInv'
<1> DEFINE read == Reading(token, selection)
<1>1. UNCHANGED <<stores, name, variants, rows>> /\ sync' = [sync EXCEPT ![c] = read]
  BY DEF SyncRead
<1>2. read \in ReadingSync
  <2>1. Combinations(selection) \in Seq(Key)
    BY ChoicesType, CatalogueAssumption DEF Key
  <2>2. rows \in Seq(StoreRows(AllStores))
    <3>1. \A r \in StoreRows(stores) : r \in StoreRows(AllStores)
      BY MoreStores DEF CatalogueInv
    <3> QED BY <3>1 DEF CatalogueInv, Tables
  <2>3. token \in AllStores \cup {NoStore}
    BY DEF CatalogueInv, Tokens
  <2> QED BY <2>1, <2>2, <2>3 DEF Reading, ReadingSync, CatalogueInv, Tables
<1>3. read.variants = variants /\ read.rows = rows
  BY DEF Reading
<1> HIDE DEF read
<1>4. sync' \in [Clerks -> ReadingSync \cup FailedSync \cup {NoSync}]
  BY <1>1, <1>2 DEF CatalogueInv
<1>5. ASSUME NEW d \in Clerks PROVE Behind(d)'
  <2>1. CASE d = c
    <3>1. sync'[d] = read /\ Len(variants) \in Nat
      BY <1>1, <2>1 DEF CatalogueInv, Tables
    <3> QED BY <1>1, <1>3, <3>1 DEF Behind, Lone
  <2>2. CASE d # c
    <3>1. sync'[d] = sync[d]
      BY <1>1, <2>2 DEF CatalogueInv
    <3> QED BY <1>1, <3>1 DEF CatalogueInv, Behind, Lone
  <2> QED BY <2>1, <2>2
<1> QED BY <1>1, <1>4, <1>5 DEF CatalogueInv, Tables, OneCodeEach, StoreRows

LEMMA WriteKeeps ==
  ASSUME CatalogueInv, NEW c \in Clerks, SyncWrite(c)
  PROVE  CatalogueInv'
<1> DEFINE read == sync[c]
           out == Outcome(read)
<1>1. ReadTypes(read) /\ sync[c] \in ReadingSync
  BY ReadTypesOf, SyncStates DEF SyncWrite, CatalogueInv
<1>2. /\ Tables(out.variants, out.rows) /\ Len(variants) <= Len(out.variants)
      /\ out.ok \in BOOLEAN /\ (out.ok => OneCodeEach(out.variants))
      /\ (Lone(read) => out.ok)
  BY <1>1, WhatASyncLeaves DEF CatalogueInv
<1>3. UNCHANGED <<stores, name>>
  BY DEF SyncWrite
<1>4. /\ sync' = [(IF out.ok THEN Disturb ELSE sync)
                   EXCEPT ![c] = IF out.ok THEN NoSync ELSE [state |-> "failed", alone |-> @.alone]]
      /\ variants' = IF out.ok THEN out.variants ELSE variants
      /\ rows' = IF out.ok THEN out.rows ELSE rows
  BY DEF SyncWrite
<1> HIDE DEF out
<1>5. CASE out.ok
  <2>1. /\ variants' = out.variants /\ rows' = out.rows
        /\ sync' = [Disturb EXCEPT ![c] = NoSync]
    BY <1>4, <1>5
  <2>2. Tables(variants, rows)' /\ OneCodeEach(variants)' /\ Len(variants) <= Len(variants')
    BY <1>2, <1>3, <1>5, <2>1 DEF Tables, OneCodeEach, StoreRows
  <2>3. /\ sync' \in [Clerks -> ReadingSync \cup FailedSync \cup {NoSync}]
        /\ \A d \in Clerks \ {c} : sync'[d] = Disturb[d]
        /\ sync'[c] = NoSync
    BY <2>1, Disturbed
  <2>4. \A d \in Clerks \ (Clerks \ {c}) : sync'[d].state # "read"
    BY <2>3 DEF NoSync
  <2>5. Clerks \ {c} \in SUBSET Clerks /\ stores' \in SUBSET AllStores
    BY <1>3 DEF CatalogueInv
  <2> QED BY <1>3, <2>2, <2>3, <2>4, <2>5, OtherRequest
<1>6. CASE ~out.ok
  <2>1. UNCHANGED <<variants, rows>>
        /\ sync' = [sync EXCEPT ![c] = [state |-> "failed", alone |-> @.alone]]
    BY <1>4, <1>6
  <2>2. ~sync[c].alone /\ sync[c].alone \in BOOLEAN
    <3>1. sync[c].state = "read"
      BY DEF SyncWrite
    <3>2. sync[c].alone => Lone(read)
      BY <3>1 DEF CatalogueInv, Behind
    <3> QED BY <1>1, <1>2, <1>6, <3>2 DEF ReadingSync
  <2>3. [state |-> "failed", alone |-> sync[c].alone] \in FailedSync
    BY <2>2 DEF FailedSync
  <2>4. sync' \in [Clerks -> ReadingSync \cup FailedSync \cup {NoSync}]
    BY <2>1, <2>3 DEF CatalogueInv
  <2>5. ASSUME NEW d \in Clerks PROVE Behind(d)'
    <3>1. CASE d = c
      <4>1. sync'[d].state = "failed"
        BY <2>1, <3>1 DEF CatalogueInv
      <4> QED BY <4>1 DEF Behind
    <3>2. CASE d # c
      <4>1. sync'[d] = sync[d]
        BY <2>1, <3>2 DEF CatalogueInv
      <4> QED BY <2>1, <4>1 DEF CatalogueInv, Behind, Lone
    <3> QED BY <3>1, <3>2
  <2> QED BY <1>3, <2>1, <2>4, <2>5 DEF CatalogueInv, Tables, OneCodeEach, StoreRows
<1> QED BY <1>2, <1>5, <1>6

LEMMA RowsMapped ==
  ASSUME CatalogueInv, NEW new, \A i \in DOMAIN rows : new[i] \in StoreRows(stores),
         new = [i \in DOMAIN rows |-> new[i]]
  PROVE  new \in Seq(StoreRows(stores)) /\ Len(new) = Len(rows)
<1> DEFINE q == [i \in 1..Len(rows) |-> new[i]]
<1>1. DOMAIN rows = 1..Len(rows) /\ Len(rows) \in Nat
  BY DEF CatalogueInv, Tables
<1>2. q \in Seq(StoreRows(stores)) /\ Len(q) = Len(rows)
  BY <1>1
<1> QED BY <1>1, <1>2

LEMMA ScopeTarget ==
  ASSUME CatalogueInv, NEW token \in Tokens, NEW scope \in Scopes, scope.storeIds \subseteq stores
  PROVE  ScopeStores(scope, token) \subseteq stores /\ ClosesOthers(scope) \in BOOLEAN
BY DEF ScopeStores, ClosesOthers, Tokens

LEMMA CatalogueStep ==
  ASSUME CatalogueInv, [CatalogueNext]_catalogueVars
  PROVE  CatalogueInv'
<1>1. ASSUME NEW c \in Clerks, NEW token \in Tokens, NEW selection \in Selections,
             SyncRead(c, token, selection)
      PROVE  CatalogueInv'
  BY <1>1, ReadKeeps
<1>2. ASSUME NEW c \in Clerks, SyncWrite(c) PROVE CatalogueInv'
  BY <1>2, WriteKeeps
<1>3. ASSUME NEW token \in Tokens, NEW on \in BOOLEAN, SetProductActive(token, on)
      PROVE  CatalogueInv'
  <2>1. rows' = [i \in DOMAIN rows |-> Switched(rows[i], token, on)] /\ sync' = Disturb
        /\ UNCHANGED <<stores, name, variants>>
    BY <1>3 DEF SetProductActive
  <2>2. \A i \in DOMAIN rows : rows'[i] \in StoreRows(stores)
    <3>1. \A i \in DOMAIN rows : rows[i] \in StoreRows(stores)
      BY DEF CatalogueInv, Tables
    <3>2. \A i \in DOMAIN rows : Switched(rows[i], token, on) \in StoreRows(stores)
      BY <3>1, SwitchedType DEF CatalogueInv
    <3> QED BY <2>1, <3>2
  <2>3. rows' = [i \in DOMAIN rows |-> rows'[i]]
    BY <2>1
  <2>4. rows' \in Seq(StoreRows(stores)) /\ Len(rows') = Len(rows)
    BY <2>2, <2>3, RowsMapped
  <2> QED BY <2>1, <2>4, RowsRequest
<1>4. ASSUME NEW token \in Tokens, NEW on \in BOOLEAN, NEW i \in DOMAIN variants,
             SetVariantActive(token, i, on)
      PROVE  CatalogueInv'
  <2>1. rows' = [rows EXCEPT ![i] = Switched(@, token, on)] /\ sync' = Disturb
        /\ UNCHANGED <<stores, name, variants>>
    BY <1>4 DEF SetVariantActive
  <2>2. \A k \in DOMAIN rows : rows[k] \in StoreRows(stores)
    BY DEF CatalogueInv, Tables
  <2>3. i \in DOMAIN rows
    BY DEF CatalogueInv, Tables
  <2>4. Switched(rows[i], token, on) \in StoreRows(stores)
    BY <2>2, <2>3, SwitchedType DEF CatalogueInv
  <2>5. \A k \in DOMAIN rows : rows'[k] \in StoreRows(stores)
    BY <2>1, <2>2, <2>4
  <2>6. rows' = [k \in DOMAIN rows |-> rows'[k]]
    BY <2>1
  <2>7. rows' \in Seq(StoreRows(stores)) /\ Len(rows') = Len(rows)
    BY <2>5, <2>6, RowsMapped
  <2> QED BY <2>1, <2>7, RowsRequest
<1>5. ASSUME NEW token \in Tokens, NEW scope \in Scopes, ApplyProductStoresScope(token, scope)
      PROVE  CatalogueInv'
  <2> DEFINE target == ScopeStores(scope, token)
             closes == ClosesOthers(scope)
  <2>1. rows' = [i \in DOMAIN rows |-> Scoped(rows[i], target, closes)] /\ sync' = Disturb
        /\ UNCHANGED <<stores, name, variants>> /\ scope.storeIds \subseteq stores
    BY <1>5 DEF ApplyProductStoresScope
  <2>2. target \subseteq stores /\ closes \in BOOLEAN
    BY <2>1, ScopeTarget
  <2> HIDE DEF target, closes
  <2>3. \A i \in DOMAIN rows : rows'[i] \in StoreRows(stores)
    <3>1. \A i \in DOMAIN rows : rows[i] \in StoreRows(stores)
      BY DEF CatalogueInv, Tables
    <3>2. \A i \in DOMAIN rows : Scoped(rows[i], target, closes) \in StoreRows(stores)
      BY <2>2, <3>1, ScopedType
    <3> QED BY <2>1, <3>2
  <2>4. rows' = [i \in DOMAIN rows |-> rows'[i]]
    BY <2>1
  <2>5. rows' \in Seq(StoreRows(stores)) /\ Len(rows') = Len(rows)
    BY <2>3, <2>4, RowsMapped
  <2> QED BY <2>1, <2>5, RowsRequest
<1>6. ASSUME NEW s \in AllStores, OpenStore(s) PROVE CatalogueInv'
  <2>1. stores' = stores \cup {s} /\ sync' = Disturb /\ UNCHANGED <<name, variants, rows>>
    BY <1>6 DEF OpenStore
  <2>2. Tables(variants, rows)'
    <3>1. \A r \in StoreRows(stores) : r \in StoreRows(stores')
      BY <2>1, MoreStores
    <3>2. rows \in Seq(StoreRows(stores'))
      BY <3>1 DEF CatalogueInv, Tables
    <3>3. rows' \in Seq(StoreRows(stores')) /\ variants' \in Seq(Variant) /\ Len(rows') = Len(variants')
      BY <2>1, <3>2 DEF CatalogueInv, Tables
    <3> QED BY <3>3 DEF Tables, StoreRows
  <2>3. OneCodeEach(variants)' /\ Len(variants) <= Len(variants') /\ stores' \in SUBSET AllStores
    BY <2>1 DEF CatalogueInv, Tables, OneCodeEach
  <2>4. sync' \in [Clerks -> ReadingSync \cup FailedSync \cup {NoSync}]
        /\ \A c \in Clerks : sync'[c] = Disturb[c]
    BY <2>1, Disturbed
  <2> QED BY <2>1, <2>2, <2>3, <2>4, OtherRequest
<1>7. ASSUME NEW v \in Values, NEW n \in Names, RenameValue(v, n) PROVE CatalogueInv'
  <2>1. name' \in [Values -> Names] /\ UNCHANGED <<stores, variants, rows, sync>>
    BY <1>7 DEF RenameValue, CatalogueInv
  <2> QED BY <2>1 DEF CatalogueInv, Behind, Lone, Tables, OneCodeEach, StoreRows
<1>8. CASE UNCHANGED catalogueVars
  BY <1>8 DEF CatalogueInv, Behind, Lone, Tables, OneCodeEach, StoreRows, catalogueVars
<1> QED BY <1>1, <1>2, <1>3, <1>4, <1>5, <1>6, <1>7, <1>8 DEF CatalogueNext

\* However requests about a product overlap, the invariant holds.
LEMMA CatalogueKept == CatalogueSpec => []CatalogueInv
<1>1. CatalogueInv /\ [CatalogueNext]_catalogueVars => CatalogueInv'
  BY CatalogueStep
<1> QED BY <1>1, CatalogueStart, PTL DEF CatalogueSpec

LEMMA PricesAndTables == CatalogueInv => TablesOK /\ PricesFollowLinks
<1> SUFFICES ASSUME CatalogueInv PROVE TablesOK /\ PricesFollowLinks
  OBVIOUS
<1>1. DOMAIN rows = DOMAIN variants /\ \A i \in DOMAIN rows : rows[i] \in StoreRows(stores)
  BY DEF CatalogueInv, Tables
<1>2. \A i \in DOMAIN rows : \A s \in AllStores :
        /\ rows[i][s].linked => rows[i][s].there /\ s \in stores
        /\ rows[i][s].price => rows[i][s].linked
  BY <1>1 DEF StoreRows
<1> QED BY <1>1, <1>2 DEF CatalogueInv, OneCodeEach, TablesOK, PricesFollowLinks

\* The service's rows about prices: wherever requests on one product overlap and whichever
\* stores they open, close, switch or found, no price is in force where the variant is
\* closed (applyProductStoresScope, ensureStoreProductPriceRowsForStoreIds).
THEOREM PricesAreWhereOpen == CatalogueSpec => []PricesFollowLinks
BY CatalogueKept, PricesAndTables, PTL

\* However names change and codes are given back and taken again, a sync fails on a code
\* only if another request came between its read and its write (getNextUniqueCode,
\* syncGeneratedVariants); and no two variants have one code.
THEOREM CodesAreFree == CatalogueSpec => []LoneSyncSucceeds
<1>1. CatalogueInv => LoneSyncSucceeds
  <2> SUFFICES ASSUME CatalogueInv PROVE LoneSyncSucceeds
    OBVIOUS
  <2>1. ASSUME NEW c \in Clerks, sync[c].state = "failed" PROVE ~sync[c].alone
    <3>1. sync[c] \in FailedSync
      BY <2>1, SyncStates DEF CatalogueInv
    <3> QED BY <3>1 DEF FailedSync
  <2> QED BY <2>1, PricesAndTables DEF LoneSyncSucceeds
<1> QED BY <1>1, CatalogueKept, PTL

\* A step that ends a clerk's sync well is its write.
LEMMA EndsByWrite ==
  ASSUME CatalogueInv, [CatalogueNext]_catalogueVars, NEW c \in Clerks,
         sync[c].state = "read", sync'[c] = NoSync
  PROVE  SyncWrite(c)
<1>1. sync'[c].state = "idle"
  BY DEF NoSync
<1>2. sync' # Disturb
  BY <1>1, Disturbed
<1>3. sync' # sync
  BY <1>1
<1>4. \A d \in Clerks, token \in Tokens, selection \in Selections : ~SyncRead(d, token, selection)
  <2> SUFFICES ASSUME NEW d \in Clerks, NEW token \in Tokens, NEW selection \in Selections,
                      SyncRead(d, token, selection)
               PROVE  FALSE
    OBVIOUS
  <2>1. d # c /\ sync' = [sync EXCEPT ![d] = Reading(token, selection)]
    BY DEF SyncRead
  <2>2. sync'[c] = sync[c]
    BY <2>1 DEF CatalogueInv
  <2> QED BY <1>1, <2>2
<1>5. \A d \in Clerks : SyncWrite(d) => d = c
  <2> SUFFICES ASSUME NEW d \in Clerks, SyncWrite(d), d # c PROVE FALSE
    OBVIOUS
  <2>1. sync'[c] = (IF Outcome(sync[d]).ok THEN Disturb ELSE sync)[c]
    BY Disturbed DEF SyncWrite, CatalogueInv
  <2>2. sync'[c].state = "read"
    BY <2>1, Disturbed
  <2> QED BY <1>1, <2>2
<1> QED BY <1>2, <1>3, <1>4, <1>5
        DEF CatalogueNext, catalogueVars, SetProductActive, SetVariantActive,
            ApplyProductStoresScope, OpenStore, RenameValue

LEMMA BoundsKept ==
  ASSUME CatalogueInv, [CatalogueNext]_catalogueVars, NEW c \in Clerks,
         sync[c].state = "read", sync[c].alone, sync'[c] = NoSync
  PROVE  /\ \A s \in AllStores : Closed(s) => ~OpenIn(s)'
         /\ \A i \in DOMAIN rows' : \A s \in AllStores :
              rows'[i][s].linked /\ rows'[i][s].active =>
                \E k \in DOMAIN sync[c].keys : sync[c].keys[k] = variants'[i].key
<1> DEFINE read == sync[c]
           out == Outcome(read)
<1>1. SyncWrite(c)
  BY EndsByWrite
<1>2. ReadTypes(read) /\ Lone(read)
  BY ReadTypesOf DEF CatalogueInv, Behind
<1>3. /\ out.ok
      /\ \A s \in AllStores : Closed(s) => \A i \in DOMAIN out.rows : ~out.rows[i][s].linked
      /\ \A i \in DOMAIN out.rows : \A s \in AllStores :
           out.rows[i][s].linked /\ out.rows[i][s].active => Selected(read, out, i)
  BY <1>2, WhatASyncLeaves DEF CatalogueInv
<1>4. variants' = out.variants /\ rows' = out.rows
  BY <1>1, <1>3 DEF SyncWrite
<1> HIDE DEF out
<1>5. \A s \in AllStores : Closed(s) => ~OpenIn(s)'
  BY <1>3, <1>4 DEF OpenIn
<1>6. \A i \in DOMAIN rows' : \A s \in AllStores :
        rows'[i][s].linked /\ rows'[i][s].active =>
          \E k \in DOMAIN sync[c].keys : sync[c].keys[k] = variants'[i].key
  BY <1>3, <1>4 DEF Selected
<1> QED BY <1>5, <1>6

\* A sync that nothing disturbed opens no store in which the product was closed, and leaves
\* on sale nothing but its selection (buildStoreLinkMapForVariants, syncGeneratedVariants).
THEOREM SyncsKeepTheirBounds == CatalogueSpec => SyncKeepsItsBounds
<1>1. CatalogueInv /\ [CatalogueNext]_catalogueVars =>
        [\A c \in Clerks :
           sync[c].state = "read" /\ sync[c].alone /\ sync'[c] = NoSync =>
             /\ \A s \in AllStores : Closed(s) => ~OpenIn(s)'
             /\ \A i \in DOMAIN rows' : \A s \in AllStores :
                  rows'[i][s].linked /\ rows'[i][s].active =>
                    \E k \in DOMAIN sync[c].keys : sync[c].keys[k] = variants'[i].key]_catalogueVars
  BY BoundsKept
<1> QED BY <1>1, CatalogueKept, PTL DEF CatalogueSpec, SyncKeepsItsBounds

=============================================================================
