----------------------------- MODULE Approvals -----------------------------
(***************************************************************************)
(* ApprovalService: requests to change stock or a price, which one or two  *)
(* reviewers decide.  Each handler reads the request and saves it without  *)
(* a lock; the last approval is saved first and carried out afterwards,    *)
(* a price by PriceService (StorePrices), stock by adjustStock.            *)
(***************************************************************************)
EXTENDS StorePrices

CONSTANTS
  Users,      \* requesters and reviewers
  Requests,   \* ids of approval requests
  Subjects,   \* what requests are about: the dedupe keys
  TypeOf,     \* TypeOf[k]: entityType of subject k
  PriceOf,    \* PriceOf[k]: job that carries a price override out, for one store
  Workloads   \* which of the handlers decide requests, and which set prices

ASSUME ApprovalAssumption ==
  /\ TypeOf \in [Subjects -> {"STOCK_ADJUSTMENT", "PRICE_OVERRIDE", "PURCHASE_ORDER"}]
  /\ Workloads \subseteq [clerks : SUBSET Handlers, pricers : SUBSET Handlers]
  /\ \A k \in Subjects : LET j == PriceOf[k] IN
       /\ j.kind = "set" /\ j.todo \in Seq(Stores) /\ Len(j.todo) = 1
       /\ DOMAIN j.patch \subseteq Fields /\ j.patch \in [DOMAIN j.patch -> Nat \cup {Null}]

VARIABLES
  work,       \* what the handlers do
  request,    \* request[r]: the saved request, or NoRequest
  handler,    \* handler[h]: what h does, to which request, and the copy it has read
  applied,    \* applied[r]: how often the change has been carried out (history)
  failed,     \* requests whose change failed or was given up (history)
  granted,    \* granted[r]: levels at which an approval was saved (history)
  clashed     \* requests and subjects that two handlers decided at once (history)

approvalVars == <<work, request, handler, applied, failed, granted, clashed>>
vars == <<approvalVars, priceVars>>

NoRequest == [status |-> "none"]
Idle == [op |-> "none", at |-> "idle", req |-> "none", copy |-> NoRequest, by |-> "none"]
Pending == {"PENDING_L1", "PENDING_L2"}

Init ==
  /\ work \in Workloads
  /\ request = [r \in Requests |-> NoRequest]
  /\ handler = [h \in Handlers |-> Idle]
  /\ applied = [r \in Requests |-> 0]
  /\ failed = {}
  /\ granted = [r \in Requests |-> {}]
  /\ clashed = {}
  /\ PriceInit

MaxLevel(type) == IF type = "PRICE_OVERRIDE" THEN 2 ELSE 1

-----------------------------------------------------------------------------

\* MUTANT of Waiting: only requests at the first level are looked for.
WaitingL1(k) == \E r \in Requests : request[r].status = "PENDING_L1" /\ request[r].subject = k

Waiting(k) == \E r \in Requests : request[r].status \in Pending /\ request[r].subject = k

\* create: refused while a request of the same dedupe key is pending.
CheckNew(h) ==
  /\ h \in work.clerks /\ handler[h] = Idle
  /\ \E k \in Subjects, u \in Users :
       /\ ~Waiting(k)
       /\ handler' = [handler EXCEPT ![h] = [Idle EXCEPT !.op = "create", !.at = "read",
            !.by = u, !.copy = [status |-> "PENDING_L1", subject |-> k, by |-> u]]]
       /\ clashed' = clashed \cup
            {x \in {k} : \E g \in Handlers : handler[g].op = "create" /\ handler[g].at = "read"
                                             /\ handler[g].copy.subject = k}
  /\ UNCHANGED <<work, request, applied, failed, granted, priceVars>>

Insert(h) ==
  /\ handler[h].op = "create" /\ handler[h].at = "read"
  /\ \E r \in Requests :
       /\ request[r] = NoRequest
       /\ request' = [request EXCEPT ![r] = handler[h].copy]
       /\ handler' = [handler EXCEPT ![h].at = "end", ![h].req = r]
  /\ UNCHANGED <<work, applied, failed, granted, clashed, priceVars>>

\* MUTANT of Allowed: the guard of the second review is the one of the first.
AllowedPending(op, r, u) ==
  CASE op = "cancel" -> request[r].status \in Pending /\ request[r].by = u
    [] OTHER -> request[r].status \in Pending

\* The guards of cancel, reviewL1 and reviewL2.
Allowed(op, r, u) ==
  CASE op = "cancel" -> request[r].status \in Pending /\ request[r].by = u
    [] op \in {"approveL1", "rejectL1"} -> request[r].status = "PENDING_L1"
    [] op \in {"approveL2", "rejectL2"} -> request[r].status = "PENDING_L2"

Decisions == {"cancel", "approveL1", "rejectL1", "approveL2", "rejectL2"}
Deciding(g, r) == handler[g].op \in Decisions /\ handler[g].req = r /\ handler[g].at = "read"

\* A decision reads the request and passes its guard.
Read(h) ==
  /\ h \in work.clerks /\ handler[h] = Idle
  /\ \E r \in Requests, u \in Users, op \in Decisions :
       /\ request[r] # NoRequest /\ Allowed(op, r, u)
       /\ handler' = [handler EXCEPT ![h] = [Idle EXCEPT !.op = op, !.at = "read", !.req = r,
                                                         !.copy = request[r], !.by = u]]
       /\ clashed' = clashed \cup {x \in {r} : \E g \in Handlers : Deciding(g, r)}
  /\ UNCHANGED <<work, request, applied, failed, granted, priceVars>>

Last(op, r) == op = "approveL2" \/ (op = "approveL1" /\ MaxLevel(TypeOf[request[r].subject]) = 1)

Decided(op, r) ==
  CASE op = "cancel" -> "CANCELLED"
    [] op \in {"rejectL1", "rejectL2"} -> "REJECTED"
    [] Last(op, r) -> "APPROVED"
    [] OTHER -> "PENDING_L2"

\* MUTANT of Executes: a rejection at the second level is carried out, too.
ExecutesL2(op, r) == Last(op, r) \/ op = "rejectL2"

Executes(op, r) == Last(op, r)

\* The decision is saved.
Save(h) ==
  LET op == handler[h].op  r == handler[h].req IN
  /\ op \in Decisions /\ handler[h].at = "read"
  /\ request' = [request EXCEPT ![r] = [handler[h].copy EXCEPT !.status = Decided(op, r)]]
  /\ handler' = [handler EXCEPT ![h].at = IF Executes(op, r) THEN "execute" ELSE "end"]
  /\ granted' = [granted EXCEPT ![r] = @ \cup (IF op = "approveL1" THEN {1}
                                               ELSE IF op = "approveL2" THEN {2} ELSE {})]
  /\ UNCHANGED <<work, applied, failed, clashed, priceVars>>

TypeOfRequest(h) == TypeOf[request[handler[h].req].subject]

\* executeStockAdjustment: adjustStock succeeds or throws.
ExecuteStock(h) ==
  LET r == handler[h].req IN
  /\ handler[h].at = "execute" /\ TypeOfRequest(h) = "STOCK_ADJUSTMENT"
  /\ \/ applied' = [applied EXCEPT ![r] = @ + 1] /\ UNCHANGED failed
     \/ failed' = failed \cup {r} /\ UNCHANGED applied
  /\ handler' = [handler EXCEPT ![h].at = "end"]
  /\ UNCHANGED <<work, request, granted, clashed, priceVars>>

\* executePriceOverride: setStorePriceForVariant.
ExecutePrice(h) ==
  /\ handler[h].at = "execute" /\ TypeOfRequest(h) = "PRICE_OVERRIDE"
  /\ StartJob(h, PriceOf[request[handler[h].req].subject])
  /\ handler' = [handler EXCEPT ![h].at = "pricing"]
  /\ UNCHANGED <<work, request, applied, failed, granted, clashed>>

PriceDone(h) ==
  LET r == handler[h].req IN
  /\ handler[h].at = "pricing" /\ job[h].at \in {"done", "failed"}
  /\ applied' = [applied EXCEPT ![r] = IF job[h].at = "done" THEN @ + 1 ELSE @]
  /\ failed' = IF job[h].at = "failed" THEN failed \cup {r} ELSE failed
  /\ handler' = [handler EXCEPT ![h].at = "end"]
  /\ UNCHANGED <<work, request, granted, clashed, priceVars>>

\* The other types are approved and nothing is done (TODO in executeApproval).
ExecuteNothing(h) ==
  /\ handler[h].at = "execute" /\ TypeOfRequest(h) = "PURCHASE_ORDER"
  /\ handler' = [handler EXCEPT ![h].at = "end"]
  /\ UNCHANGED <<work, request, applied, failed, granted, clashed, priceVars>>

\* The process stops: what is saved stays, an approved change may not have been made.
Crash(h) ==
  /\ handler[h].at \in {"read", "execute"}
  /\ handler' = [handler EXCEPT ![h].at = "end"]
  /\ failed' = IF handler[h].at = "execute" THEN failed \cup {handler[h].req} ELSE failed
  /\ UNCHANGED <<work, request, applied, granted, clashed, priceVars>>

\* A clerk sets prices without an approval.
SetPrice(h) ==
  /\ h \in work.pricers
  /\ \E j \in Jobs[h] : StartJob(h, j)
  /\ UNCHANGED approvalVars

Next ==
  \E h \in Handlers :
    \/ CheckNew(h) \/ Insert(h) \/ Read(h) \/ Save(h) \/ Crash(h)
    \/ ExecuteStock(h) \/ ExecutePrice(h) \/ PriceDone(h) \/ ExecuteNothing(h)
    \/ SetPrice(h)
    \/ JobStep(h) /\ UNCHANGED approvalVars

Spec == Init /\ [][Next]_vars

-----------------------------------------------------------------------------
(* Properties. *)

Statuses == {"none", "PENDING_L1", "PENDING_L2", "APPROVED", "REJECTED", "CANCELLED"}

\* Only requests of two levels wait for the second, a handler that carries out has an
\* approved request, and a job runs only for a pricer or a handler that carries out.
TypeOK ==
  /\ \A r \in Requests :
       /\ request[r].status \in Statuses
       /\ request[r].status = "PENDING_L2" => MaxLevel(TypeOf[request[r].subject]) = 2
  /\ \A h \in Handlers :
       /\ handler[h].at \in {"execute", "pricing"} => request[handler[h].req] # NoRequest
       /\ Working(h) => h \in work.pricers \/ handler[h].at = "pricing"
  /\ applied \in [Requests -> Nat]

\* create: a subject has one pending request, unless two were created at once.
OnePending ==
  /\ TypeOK
  /\ \A q, r \in Requests :
       /\ request[q].status \in Pending /\ request[r].status \in Pending
       /\ request[q].subject = request[r].subject /\ request[q].subject \notin clashed
       /\ {q, r} \cap clashed = {}
       => q = r

\* A price is overridden only after both reviews, stock only after one, however the
\* decisions overlap.
ReviewedFirst ==
  \A r \in Requests : applied[r] > 0 =>
    granted[r] = (IF TypeOf[request[r].subject] = "PRICE_OVERRIDE" THEN {1, 2} ELSE {1})

\* reviewL1, reviewL2, cancel: a request decided by one handler at a time is carried out once
\* if it is approved and nothing fails, and never if it is rejected or cancelled.
CarriedOutAsDecided ==
  \A r \in Requests \ clashed :
    /\ applied[r] <= 1
    /\ applied[r] = 1 => request[r].status = "APPROVED"
    /\ /\ request[r].status = "APPROVED" /\ TypeOf[request[r].subject] # "PURCHASE_ORDER"
       /\ \A h \in Handlers : handler[h].req = r => handler[h].at = "end"
       => applied[r] = 1 \/ r \in failed
=============================================================================
