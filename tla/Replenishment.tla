--------------------------- MODULE Replenishment ---------------------------
(***************************************************************************)
(* Replenishment rules: a nightly scan makes a suggestion for each active  *)
(* rule whose stock is below its minimum and that has none pending; a      *)
(* clerk accepts a suggestion, which creates a draft purchase order in a   *)
(* transaction of its own, or dismisses it.  Nothing is locked, and a      *)
(* decision is saved as the entity that was read.                          *)
(***************************************************************************)
EXTENDS Integers, FiniteSets, TLC

CONSTANTS
  Rules,       \* rules, each about one variant in one store
  Settings,    \* settings a rule may have: active, min (minStock), target (targetStock)
  Suggestions, \* ids of suggestions
  Orders,      \* ids of purchase orders made from suggestions
  Schedulers,  \* server processes with the cron job
  Clerks,      \* handlers of a decision; each serves one
  MaxStock,    \* bound on the stock
  MaxFaults,   \* bound on errors and crashes
  MaxChanges,  \* bound on changes of a rule and on sales
  Null

Setting == [active : BOOLEAN, min : Nat, target : Nat \ {0}]

ASSUME RuleAssumption ==
  /\ Settings \subseteq Setting
  /\ MaxStock \in Nat /\ MaxFaults \in Nat /\ MaxChanges \in Nat
  /\ Null \notin Rules \cup Orders \cup Suggestions

VARIABLES
  setting,    \* setting[r]: the replenishment_rules row
  stock,      \* stock[r]: store_variant_stock.quantity of the rule's variant
  suggestion, \* suggestion[s]: rule, status, quantity and order (autoCreatedPoId)
  order,      \* order[o]: the suggestion it was made for, its quantity, whether it came
  scan,       \* scan[p]: the scan of process p: its place, rules left, rule, quantity
  pc, op,
  chosen,     \* chosen[c]: the suggestion c decides about
  entity,     \* entity[c]: that suggestion as c holds it in memory
  dirty,      \* dirty[c]: the columns c is about to write
  raced,      \* suggestions about which decisions have overlapped (history)
  lost,       \* lost[s]: orders made whose decision was not saved (history)
  faults, changes

vars == <<setting, stock, suggestion, order, scan, pc, op, chosen, entity, dirty, raced,
          lost, faults, changes>>
tables == <<setting, stock, suggestion, order>>
clerkVars == <<pc, op, chosen, entity, dirty, raced, lost>>

NoSuggestion == [rule |-> Null, status |-> "NONE", quantity |-> 0, order |-> Null]
NoOrder == [for |-> Null, quantity |-> 0, arrived |-> FALSE]
Idle == [at |-> "idle", rules |-> {}, quantity |-> 0]

Init ==
  /\ setting \in [Rules -> Settings]
  /\ stock \in [Rules -> 0 .. MaxStock]
  /\ suggestion = [s \in Suggestions |-> NoSuggestion]
  /\ order = [o \in Orders |-> NoOrder]
  /\ scan = [p \in Schedulers |-> Idle]
  /\ pc = [c \in Clerks |-> "idle"]
  /\ op = [c \in Clerks |-> "ACCEPT"]
  /\ chosen = [c \in Clerks |-> Null]
  /\ entity = [c \in Clerks |-> NoSuggestion]
  /\ dirty = [c \in Clerks |-> {}]
  /\ raced = {} /\ lost = [s \in Suggestions |-> 0]
  /\ faults = 0 /\ changes = 0

Pending(r) == {s \in Suggestions : suggestion[s].rule = r /\ suggestion[s].status = "PENDING"}
OrdersFor(s) == {o \in Orders : order[o].for = s}

-----------------------------------------------------------------------------
(* The scan.  It loads the active rules once and works through its copies. *)

Copies == {[rule |-> r, min |-> setting[r].min, target |-> setting[r].target]
             : r \in {q \in Rules : setting[q].active}}

StartScan(p) ==
  /\ scan[p].at = "idle"
  /\ Copies # {}
  /\ scan' = [scan EXCEPT ![p] = [at |-> "pending", rules |-> Copies, quantity |-> 0]]
  /\ UNCHANGED <<tables, clerkVars, faults, changes>>

Go(p, rest, at, n) ==
  scan' = [scan EXCEPT ![p] =
             IF rest = {} THEN Idle ELSE [at |-> at, rules |-> rest, quantity |-> n]]

\* The rules come in the order of the table, which never changes here.
Current(p) == CHOOSE c \in scan[p].rules : TRUE
Others(p) == scan[p].rules \ {Current(p)}

\* MUTANT of Waiting: an accepted or dismissed suggestion counts as well.
WaitingAny(r) == {s \in Suggestions : suggestion[s].rule = r} # {}
\* MUTANT of Waiting: suggestions of any rule and state are overlooked.
WaitingNone(r) == FALSE

Waiting(r) == Pending(r) # {}

FindPending(p) ==
  /\ scan[p].at = "pending"
  /\ IF Waiting(Current(p).rule)
     THEN Go(p, Others(p), "pending", 0)
     ELSE Go(p, scan[p].rules, "stock", 0)
  /\ UNCHANGED <<tables, clerkVars, faults, changes>>

Larger(a, b) == IF a > b THEN a ELSE b

ReadStock(p) ==
  LET c == Current(p)  q == stock[c.rule] IN
  /\ scan[p].at = "stock"
  /\ IF q >= c.min THEN Go(p, Others(p), "pending", 0)
     ELSE Go(p, scan[p].rules, "insert", Larger(c.target - q, 1))
  /\ UNCHANGED <<tables, clerkVars, faults, changes>>

InsertSuggestion(p) ==
  /\ scan[p].at = "insert"
  /\ \E s \in Suggestions :
       /\ suggestion[s].status = "NONE"
       /\ suggestion' = [suggestion EXCEPT ![s] =
            [rule |-> Current(p).rule, status |-> "PENDING", quantity |-> scan[p].quantity,
             order |-> Null]]
  /\ Go(p, Others(p), "pending", 0)
  /\ UNCHANGED <<setting, stock, order, clerkVars, faults, changes>>

\* An error skips the rule, a crash ends the scan.
ScanFault(p) ==
  /\ scan[p].at # "idle" /\ faults < MaxFaults
  /\ faults' = faults + 1
  /\ \/ Go(p, Others(p), "pending", 0)
     \/ scan' = [scan EXCEPT ![p] = Idle]
  /\ UNCHANGED <<tables, clerkVars, changes>>

-----------------------------------------------------------------------------
(* Decisions. *)

Goto(c, label) == pc' = [pc EXCEPT ![c] = label]
Deciding(c, s) == chosen[c] = s /\ pc[c] \in {"order", "save", "write"}

\* findSuggestionOrThrow; a suggestion that is not pending is refused.
FindSuggestion(c) ==
  /\ pc[c] = "idle"
  /\ \E s \in Suggestions, o \in {"ACCEPT", "DISMISS"} :
       /\ suggestion[s].status = "PENDING"
       /\ chosen' = [chosen EXCEPT ![c] = s]
       /\ op' = [op EXCEPT ![c] = o]
       /\ entity' = [entity EXCEPT ![c] = [suggestion[s] EXCEPT !.status =
                       IF o = "ACCEPT" THEN "ACCEPTED" ELSE "DISMISSED"]]
       /\ Goto(c, IF o = "ACCEPT" THEN "order" ELSE "save")
       /\ raced' = raced \cup {x \in {s} : \E d \in Clerks \ {c} : Deciding(d, s)}
  /\ UNCHANGED <<tables, scan, dirty, lost, faults, changes>>

\* createPurchaseOrder commits by itself.
CreateOrder(c) ==
  /\ pc[c] = "order"
  /\ \E o \in Orders :
       /\ order[o] = NoOrder
       /\ order' = [order EXCEPT ![o] =
            [for |-> chosen[c], quantity |-> entity[c].quantity, arrived |-> FALSE]]
       /\ entity' = [entity EXCEPT ![c].order = o]
  /\ Goto(c, "save")
  /\ UNCHANGED <<setting, stock, suggestion, scan, op, chosen, dirty, raced, lost, faults,
                 changes>>

\* MUTANT of Changed: a decision leaves the order column alone.
ChangedStatus(c) == {k \in {"status"} : entity[c][k] # suggestion[chosen[c]][k]}

\* save(suggestion): the stored row is read again; the columns that differ are written.
Changed(c) == {k \in {"status", "order"} : entity[c][k] # suggestion[chosen[c]][k]}

Reload(c) ==
  /\ pc[c] = "save"
  /\ dirty' = [dirty EXCEPT ![c] = Changed(c)]
  /\ Goto(c, "write")
  /\ UNCHANGED <<tables, scan, op, chosen, entity, raced, lost, faults, changes>>

Write(c) ==
  /\ pc[c] = "write"
  /\ suggestion' = [suggestion EXCEPT ![chosen[c]] =
       [k \in DOMAIN @ |-> IF k \in dirty[c] THEN entity[c][k] ELSE @[k]]]
  /\ Goto(c, "done")
  /\ UNCHANGED <<setting, stock, order, scan, op, chosen, entity, dirty, raced, lost,
                 faults, changes>>

\* A crash or an error; an order that was created stays.
Fail(c) ==
  /\ pc[c] \in {"order", "save", "write"} /\ faults < MaxFaults
  /\ Goto(c, "failed")
  /\ faults' = faults + 1
  /\ lost' = [lost EXCEPT ![chosen[c]] = @ + (IF entity[c].order = Null THEN 0 ELSE 1)]
  /\ UNCHANGED <<tables, scan, op, chosen, entity, dirty, raced, changes>>

-----------------------------------------------------------------------------
(* Around them: sales, deliveries, and changes of the rules. *)

Sell(r) ==
  /\ stock[r] > 0 /\ changes < MaxChanges
  /\ stock' = [stock EXCEPT ![r] = @ - 1]
  /\ changes' = changes + 1
  /\ UNCHANGED <<setting, suggestion, order, scan, clerkVars, faults>>

\* The goods of an order come in.
Arrive(o) ==
  LET r == suggestion[order[o].for].rule  q == stock[r] + order[o].quantity IN
  /\ order[o] # NoOrder /\ ~order[o].arrived
  /\ q <= MaxStock
  /\ stock' = [stock EXCEPT ![r] = q]
  /\ order' = [order EXCEPT ![o].arrived = TRUE]
  /\ UNCHANGED <<setting, suggestion, scan, clerkVars, faults, changes>>

\* updateRule and deactivateRule.
UpdateRule(r) ==
  /\ changes < MaxChanges
  /\ \E x \in Settings : setting' = [setting EXCEPT ![r] = x]
  /\ changes' = changes + 1
  /\ UNCHANGED <<stock, suggestion, order, scan, clerkVars, faults>>

-----------------------------------------------------------------------------

Scan(p) == StartScan(p) \/ FindPending(p) \/ ReadStock(p) \/ InsertSuggestion(p)
Decide(c) == FindSuggestion(c) \/ CreateOrder(c) \/ Reload(c) \/ Write(c)

Next ==
  \/ \E p \in Schedulers : Scan(p) \/ ScanFault(p)
  \/ \E c \in Clerks : Decide(c) \/ Fail(c)
  \/ \E r \in Rules : Sell(r) \/ UpdateRule(r)
  \/ \E o \in Orders : Arrive(o)

Spec == Init /\ [][Next]_vars

\* The cron job of every process keeps running.
FairSpec == Spec /\ \A p \in Schedulers : WF_vars(Scan(p))

-----------------------------------------------------------------------------
(* Properties. *)

SuggestionRow ==
  [rule : Rules \cup {Null}, status : {"NONE", "PENDING", "ACCEPTED", "DISMISSED"},
   quantity : Nat, order : Orders \cup {Null}]

\* Rows have the types of their columns; a suggestion that exists asks for at least one.
TypeOK ==
  /\ setting \in [Rules -> Setting]
  /\ stock \in [Rules -> 0 .. MaxStock]
  /\ suggestion \in [Suggestions -> SuggestionRow]
  /\ \A s \in Suggestions : suggestion[s].status # "NONE" => suggestion[s].quantity > 0
  /\ order \in [Orders -> [for : Suggestions \cup {Null}, quantity : Nat, arrived : BOOLEAN]]
  /\ pc \in [Clerks -> {"idle", "order", "save", "write", "done", "failed"}]
  /\ entity \in [Clerks -> SuggestionRow]
  /\ raced \subseteq Suggestions /\ lost \in [Suggestions -> Nat]

\* The scan's "no pending suggestion for this rule" still holds when the suggestion is
\* inserted, whatever clerks decide meanwhile: a rule never has two that wait.
OnePendingPerRule ==
  /\ TypeOK
  /\ \A r \in Rules : Cardinality(Pending(r)) <= 1

\* Decisions about one suggestion that do not overlap keep it and its orders together:
\* accepted means one order that it names, plus one for each acceptance that failed
\* after the order was made; dismissed means none but those.
OrdersAccountedFor ==
  \A s \in Suggestions \ raced :
    LET made == OrdersFor(s) IN
    /\ suggestion[s].status = "ACCEPTED" =>
         suggestion[s].order \in made /\ Cardinality(made) = 1 + lost[s]
    /\ suggestion[s].status = "DISMISSED" =>
         suggestion[s].order = Null /\ Cardinality(made) = lost[s]

\* A rule that stays active and short of stock gets a suggestion, although scans fail,
\* skip it or work on old copies of the rules.
ShortageIsSuggested ==
  \A r \in Rules :
    (setting[r].active /\ stock[r] < setting[r].min)
      ~> (Pending(r) # {} \/ ~setting[r].active \/ stock[r] >= setting[r].min)
=============================================================================
