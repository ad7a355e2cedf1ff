------------------------ MODULE Replenishment_proofs ------------------------
(***************************************************************************)
(* Proofs about replenishment, for every number of rules, suggestions and  *)
(* clerks: orders are accounted for as long as decisions do not overlap,   *)
(* and one process with the cron job never makes a second suggestion for a *)
(* rule that has one waiting.                                              *)
(***************************************************************************)
EXTENDS Replenishment, FiniteSetTheorems, TLAPS

\* One process runs the scan.
Solo == \A p, q \in Schedulers : p = q

Copy == [rule : Rules, min : Nat, target : Nat \ {0}]
ScanRow == [at : {"idle", "pending", "stock", "insert"}, rules : SUBSET Copy, quantity : Nat]

Types ==
  /\ setting \in [Rules -> Setting]
  /\ stock \in [Rules -> 0 .. MaxStock]
  /\ suggestion \in [Suggestions -> SuggestionRow]
  /\ order \in [Orders -> [for : Suggestions \cup {Null}, quantity : Nat, arrived : BOOLEAN]]
  /\ scan \in [Schedulers -> ScanRow]
  /\ pc \in [Clerks -> {"idle", "order", "save", "write", "done", "failed"}]
  /\ op \in [Clerks -> {"ACCEPT", "DISMISS"}]
  /\ chosen \in [Clerks -> Suggestions \cup {Null}]
  /\ entity \in [Clerks -> SuggestionRow]
  /\ dirty \in [Clerks -> SUBSET {"status", "order"}]
  /\ raced \subseteq Suggestions /\ lost \in [Suggestions -> Nat]

\* A suggestion that exists asks for at least one and is about a rule.
Rows ==
  \A s \in Suggestions : suggestion[s].status # "NONE" =>
    suggestion[s].quantity > 0 /\ suggestion[s].rule \in Rules

\* A clerk at work has chosen a suggestion that exists, and never makes it wait again.
Decisions ==
  \A c \in Clerks : pc[c] \in {"order", "save", "write"} =>
    /\ chosen[c] \in Suggestions /\ suggestion[chosen[c]].status # "NONE"
    /\ entity[c].status \in {"ACCEPTED", "DISMISSED"}

\* A scan has rules left, and suggests at least one.
Progress ==
  \A p \in Schedulers :
    /\ scan[p].at # "idle" => scan[p].rules # {}
    /\ scan[p].at = "insert" => scan[p].quantity > 0

Basic == Types /\ Rows /\ Decisions /\ Progress

\* A scan has found no suggestion waiting for the rule it is at.
Scans ==
  \A p \in Schedulers :
    scan[p].at \in {"stock", "insert"} => Pending(Current(p).rule) = {}

OneWaits ==
  \A s, t \in Suggestions :
    /\ suggestion[s].status = "PENDING" /\ suggestion[t].status = "PENDING"
    /\ suggestion[s].rule = suggestion[t].rule
    => s = t

Sound == Basic /\ Scans /\ OneWaits

LEMMA InitSound == Init => Sound
<1> SUFFICES ASSUME Init PROVE Sound
  OBVIOUS
<1>1. NoSuggestion \in SuggestionRow /\ NoSuggestion.status = "NONE"
  BY DEF NoSuggestion, SuggestionRow
<1>2. Types
  BY <1>1, RuleAssumption DEF Init, Types, RuleAssumption, Idle, ScanRow, NoOrder
<1>3. Rows /\ Decisions /\ Progress /\ Scans /\ OneWaits
  BY <1>1 DEF Init, Rows, Decisions, Progress, Scans, OneWaits, Idle
<1> QED
  BY <1>2, <1>3 DEF Basic, Sound

\* The copy of a rule that the scan works on.
LEMMA CopiesType ==
  ASSUME setting \in [Rules -> Setting]
  PROVE  Copies \subseteq Copy
BY DEF Copies, Copy, Setting

LEMMA CurrentType ==
  ASSUME Types, NEW p \in Schedulers, scan[p].rules # {}
  PROVE  Current(p) \in Copy /\ Current(p) \in scan[p].rules
BY DEF Types, Current, ScanRow

\* The scan's steps leave everything else alone, and Go keeps the others' scans.
LEMMA GoTypes ==
  ASSUME Types, NEW p \in Schedulers, NEW rest \in SUBSET Copy,
         NEW at \in {"pending", "stock", "insert"}, NEW n \in Nat, Go(p, rest, at, n)
  PROVE  /\ scan' \in [Schedulers -> ScanRow]
         /\ scan'[p] = IF rest = {} THEN Idle ELSE [at |-> at, rules |-> rest, quantity |-> n]
BY DEF Types, Go, Idle, ScanRow

LEMMA ScanStep ==
  ASSUME Basic, NEW p \in Schedulers, Scan(p) \/ ScanFault(p)
  PROVE  Basic'
<1>0. Types /\ Progress /\ scan[p] \in ScanRow
  BY DEF Basic, Types
<1>2. scan[p].at # "idle" =>
        /\ scan[p].rules # {} /\ Current(p) \in Copy /\ Others(p) \in SUBSET Copy
        /\ Current(p).rule \in Rules /\ scan[p].rules \in SUBSET Copy
  BY <1>0, CurrentType DEF Progress, Others, ScanRow, Copy
<1> DEFINE Quiet == UNCHANGED <<tables, clerkVars>>
<1>q. \A q \in Schedulers \ {p} : scan'[q] = scan[q]
  BY <1>0 DEF Types, Scan, StartScan, FindPending, ReadStock, InsertSuggestion, ScanFault, Go
<1>3. ASSUME Quiet, scan' \in [Schedulers -> ScanRow],
             scan'[p].at # "idle" => scan'[p].rules # {},
             scan'[p].at = "insert" => scan'[p].quantity > 0
      PROVE  Basic'
  BY <1>q, <1>3 DEF tables, clerkVars, Basic, Types, Rows, Decisions, Progress
<1>4. ASSUME Quiet, NEW at, NEW n \in Nat, Go(p, Others(p), at, n), at = "pending",
             scan[p].at # "idle"
      PROVE  Basic'
  <2>1. /\ scan' \in [Schedulers -> ScanRow]
        /\ scan'[p] = IF Others(p) = {} THEN Idle ELSE [at |-> at, rules |-> Others(p), quantity |-> n]
    BY <1>0, <1>2, <1>4, GoTypes
  <2> QED
    BY <1>3, <1>4, <2>1 DEF Idle
<1>5. CASE StartScan(p)
  <2>1. scan' = [scan EXCEPT ![p] = [at |-> "pending", rules |-> Copies, quantity |-> 0]]
        /\ Copies # {} /\ Quiet
    BY <1>5 DEF StartScan
  <2>2. Copies \subseteq Copy
    BY <1>0, CopiesType DEF Types
  <2>3. [at |-> "pending", rules |-> Copies, quantity |-> 0] \in ScanRow
    BY <2>2 DEF ScanRow
  <2>4. scan' \in [Schedulers -> ScanRow] /\ scan'[p].at = "pending" /\ scan'[p].rules = Copies
    BY <1>0, <2>1, <2>3 DEF Types
  <2> QED
    BY <1>3, <2>1, <2>4
<1>6. CASE FindPending(p)
  <2>1. CASE Waiting(Current(p).rule)
    BY <1>4, <1>6, <2>1 DEF FindPending
  <2>2. CASE ~Waiting(Current(p).rule)
    <3>1. Go(p, scan[p].rules, "stock", 0) /\ Quiet /\ scan[p].at # "idle"
      BY <1>6, <2>2 DEF FindPending
    <3>2. scan[p].rules \in SUBSET Copy /\ scan[p].rules # {}
      BY <1>2, <3>1, Zenon
    <3>3. /\ scan' \in [Schedulers -> ScanRow]
          /\ scan'[p] = [at |-> "stock", rules |-> scan[p].rules, quantity |-> 0]
      BY <1>0, <3>1, <3>2, GoTypes
    <3> QED
      BY <1>3, <3>1, <3>2, <3>3
  <2> QED
    BY <2>1, <2>2
<1>7. CASE ReadStock(p)
  <2> DEFINE c == Current(p)
             q == stock[c.rule]
             n == Larger(c.target - q, 1)
  <2>0. scan[p].at = "stock" /\ Quiet
    BY <1>7 DEF ReadStock
  <2>1. CASE q >= c.min
    BY <1>4, <1>7, <2>0, <2>1 DEF ReadStock
  <2>2. CASE ~(q >= c.min)
    <3>1. n \in Nat /\ n > 0
      <4>1. c.target \in Nat /\ q \in Int
        BY <1>0, <1>2, <2>0, RuleAssumption DEF Types, Copy, RuleAssumption
      <4> HIDE DEF c, q
      <4> QED
        BY <4>1 DEF Larger
    <3>2. Go(p, scan[p].rules, "insert", n)
      BY <1>7, <2>2 DEF ReadStock
    <3>3. scan[p].rules \in SUBSET Copy /\ scan[p].rules # {}
      BY <1>2, <2>0
    <3>4. /\ scan' \in [Schedulers -> ScanRow]
          /\ scan'[p] = [at |-> "insert", rules |-> scan[p].rules, quantity |-> n]
      BY <1>0, <3>1, <3>2, <3>3, GoTypes
    <3> HIDE DEF n
    <3> QED
      BY <1>3, <2>0, <3>1, <3>3, <3>4
  <2> QED
    BY <2>1, <2>2
<1>8. CASE InsertSuggestion(p)
  <2> DEFINE r == Current(p).rule
             n == scan[p].quantity
             new == [rule |-> r, status |-> "PENDING", quantity |-> n, order |-> Null]
  <2>0. PICK s \in Suggestions :
          suggestion[s].status = "NONE" /\ suggestion' = [suggestion EXCEPT ![s] = new]
    BY <1>8 DEF InsertSuggestion
  <2>1. /\ scan[p].at = "insert" /\ Go(p, Others(p), "pending", 0)
        /\ UNCHANGED <<setting, stock, order, clerkVars>>
    BY <1>8 DEF InsertSuggestion
  <2>2. r \in Rules /\ n \in Nat /\ n > 0
    BY <1>0, <1>2, <2>1 DEF Progress, ScanRow
  <2>3. new \in SuggestionRow /\ new.status = "PENDING" /\ new.rule = r /\ new.quantity = n
    BY <2>2 DEF SuggestionRow
  <2>4. /\ scan' \in [Schedulers -> ScanRow]
        /\ scan'[p] = IF Others(p) = {} THEN Idle
                      ELSE [at |-> "pending", rules |-> Others(p), quantity |-> 0]
    BY <1>0, <1>2, <2>1, GoTypes
  <2> HIDE DEF new
  <2>6. /\ suggestion' \in [Suggestions -> SuggestionRow] /\ suggestion'[s] = new
        /\ \A t \in Suggestions \ {s} : suggestion'[t] = suggestion[t]
    BY <1>0, <2>0, <2>3 DEF Types
  <2>7. Types'
    BY <1>0, <2>1, <2>4, <2>6 DEF Types, clerkVars
  <2>8. Rows'
    BY <2>2, <2>3, <2>6 DEF Basic, Rows
  <2>9. Decisions'
    BY <2>1, <2>3, <2>6 DEF Basic, Decisions, clerkVars
  <2>10. Progress'
    BY <1>0, <1>q, <2>4 DEF Progress, Idle
  <2> QED
    BY <2>7, <2>8, <2>9, <2>10 DEF Basic
<1>9. CASE ScanFault(p)
  <2>1. Quiet /\ scan[p].at # "idle"
    BY <1>9 DEF ScanFault
  <2>2. CASE Go(p, Others(p), "pending", 0)
    BY <1>4, <2>1, <2>2
  <2>3. CASE scan' = [scan EXCEPT ![p] = Idle]
    <3>1. scan' \in [Schedulers -> ScanRow] /\ scan'[p] = Idle
      BY <1>0, <2>3 DEF Types, Idle, ScanRow
    <3> QED
      BY <1>3, <2>1, <3>1 DEF Idle
  <2> QED
    BY <1>9, <2>2, <2>3 DEF ScanFault
<1> QED
  BY <1>5, <1>6, <1>7, <1>8, <1>9 DEF Scan

\* While one process scans, what it has found out about the rule it is at stays true.
LEMMA SoloScanStep ==
  ASSUME Solo, Sound, NEW p \in Schedulers, Scan(p) \/ ScanFault(p)
  PROVE  Scans' /\ OneWaits'
<1>0. Types /\ Progress /\ scan[p] \in ScanRow
  BY DEF Sound, Basic, Types
<1>1. \A q \in Schedulers : q = p
  BY DEF Solo
<1>2. scan[p].at # "idle" =>
        /\ scan[p].rules # {} /\ Current(p) \in Copy /\ Others(p) \in SUBSET Copy
        /\ scan[p].rules \in SUBSET Copy
  BY <1>0, CurrentType DEF Progress, Others, ScanRow, Copy
<1>3. ASSUME suggestion' = suggestion PROVE OneWaits' /\ \A r : Pending(r)' = Pending(r)
  BY <1>3 DEF Sound, OneWaits, Pending
<1>4. ASSUME scan'[p].at \in {"idle", "pending"} PROVE Scans'
  BY <1>1, <1>4 DEF Scans
<1>5. CASE StartScan(p) \/ ScanFault(p)
  <2>1. suggestion' = suggestion
    BY <1>5 DEF StartScan, ScanFault, tables
  <2>2. scan'[p].at \in {"idle", "pending"}
    BY <1>0, <1>5 DEF StartScan, ScanFault, Go, Idle, Types
  <2> QED
    BY <1>3, <1>4, <2>1, <2>2
<1>6. CASE FindPending(p)
  <2>1. suggestion' = suggestion /\ scan[p].at = "pending"
    BY <1>6 DEF FindPending, tables
  <2>2. CASE Waiting(Current(p).rule)
    <3>1. scan'[p].at \in {"idle", "pending"}
      BY <1>0, <1>6, <2>2 DEF FindPending, Go, Idle, Types
    <3> QED
      BY <1>3, <1>4, <2>1, <3>1
  <2>3. CASE ~Waiting(Current(p).rule)
    <3>1. scan'[p] = [at |-> "stock", rules |-> scan[p].rules, quantity |-> 0]
      BY <1>0, <1>2, <1>6, <2>1, <2>3 DEF FindPending, Go, Types
    <3>2. Current(p)' = Current(p)
      BY <3>1 DEF Current
    <3> QED
      BY <1>1, <1>3, <2>1, <2>3, <3>2 DEF Scans, Waiting
  <2> QED
    BY <2>2, <2>3
<1>7. CASE ReadStock(p)
  <2>1. suggestion' = suggestion /\ scan[p].at = "stock"
    BY <1>7 DEF ReadStock, tables
  <2>2. CASE Go(p, Others(p), "pending", 0)
    <3>1. scan'[p].at \in {"idle", "pending"}
      BY <1>0, <2>2 DEF Go, Idle, Types
    <3> QED
      BY <1>3, <1>4, <2>1, <3>1
  <2>3. CASE ~Go(p, Others(p), "pending", 0)
    <3>1. \E n : Go(p, scan[p].rules, "insert", n)
      BY <1>7, <2>3 DEF ReadStock
    <3>2. scan'[p].rules = scan[p].rules
      BY <1>0, <1>2, <2>1, <3>1 DEF Go, Types
    <3>3. Current(p)' = Current(p)
      BY <3>2 DEF Current
    <3> QED
      BY <1>1, <1>3, <2>1, <3>3 DEF Sound, Scans
  <2> QED
    BY <2>2, <2>3
<1>8. CASE InsertSuggestion(p)
  <2> DEFINE r == Current(p).rule
             new == [rule |-> r, status |-> "PENDING", quantity |-> scan[p].quantity,
                     order |-> Null]
  <2>1. PICK s \in Suggestions : suggestion' = [suggestion EXCEPT ![s] = new]
    BY <1>8 DEF InsertSuggestion
  <2>2. PICK rule : rule = r
    OBVIOUS
  <2>3. Pending(rule) = {}
    BY <1>8, <2>2 DEF InsertSuggestion, Sound, Scans
  <2>4. new.rule = rule
    BY <2>2
  <2> HIDE DEF new
  <2>5. suggestion'[s] = new /\ \A t \in Suggestions \ {s} : suggestion'[t] = suggestion[t]
    BY <1>0, <2>1 DEF Types
  <2>6. OneWaits'
    <3>1. \A t \in Suggestions : suggestion[t].status = "PENDING" => suggestion[t].rule # rule
      BY <2>3 DEF Pending
    <3> QED
      BY <2>4, <2>5, <3>1 DEF Sound, OneWaits
  <2>7. scan'[p].at \in {"idle", "pending"}
    BY <1>0, <1>8 DEF InsertSuggestion, Go, Idle, Types
  <2> QED
    BY <1>4, <2>6, <2>7
<1> QED
  BY <1>5, <1>6, <1>7, <1>8 DEF Scan

\* A step that leaves the scans alone and makes no suggestion wait anew.
Calm ==
  /\ scan' = scan
  /\ \A s \in Suggestions : suggestion'[s].status = "PENDING" =>
       suggestion[s].status = "PENDING" /\ suggestion'[s].rule = suggestion[s].rule

LEMMA NoneWaitsAnew ==
  ASSUME Sound, Calm
  PROVE  Scans' /\ OneWaits'
<1>1. OneWaits'
  BY DEF Sound, OneWaits, Calm
<1>2. \A p \in Schedulers : Current(p)' = Current(p)
  BY DEF Current, Calm
<1>3. \A r : Pending(r)' \subseteq Pending(r)
  BY DEF Pending, Calm
<1> QED
  BY <1>1, <1>2, <1>3 DEF Sound, Scans, Calm

LEMMA Decided ==
  ASSUME NEW x \in SuggestionRow, NEW v \in {"ACCEPTED", "DISMISSED"}
  PROVE  [x EXCEPT !.status = v] \in SuggestionRow /\ [x EXCEPT !.status = v].status = v
BY DEF SuggestionRow

LEMMA Ordered ==
  ASSUME NEW x \in SuggestionRow, NEW o \in Orders
  PROVE  /\ [x EXCEPT !.order = o] \in SuggestionRow
         /\ [x EXCEPT !.order = o].status = x.status
<1>1. [x EXCEPT !.order = o] =
        [rule |-> x.rule, status |-> x.status, quantity |-> x.quantity, order |-> o]
  BY DEF SuggestionRow
<1> QED
  BY <1>1 DEF SuggestionRow

LEMMA FindStep ==
  ASSUME Basic, NEW c \in Clerks, FindSuggestion(c)
  PROVE  Basic' /\ Calm
<1>0. Types /\ Rows /\ Decisions /\ Progress
  BY DEF Basic
<1>1. PICK s \in Suggestions, o \in {"ACCEPT", "DISMISS"} :
        /\ suggestion[s].status = "PENDING"
        /\ chosen' = [chosen EXCEPT ![c] = s]
        /\ op' = [op EXCEPT ![c] = o]
        /\ entity' = [entity EXCEPT ![c] = [suggestion[s] EXCEPT !.status =
                        IF o = "ACCEPT" THEN "ACCEPTED" ELSE "DISMISSED"]]
        /\ Goto(c, IF o = "ACCEPT" THEN "order" ELSE "save")
        /\ raced' = raced \cup {x \in {s} : \E d \in Clerks \ {c} : Deciding(d, s)}
  BY DEF FindSuggestion
<1>2. UNCHANGED <<tables, scan, lost>>
  BY DEF FindSuggestion
<1> DEFINE v == IF o = "ACCEPT" THEN "ACCEPTED" ELSE "DISMISSED"
           e == [suggestion[s] EXCEPT !.status = v]
<1>3. v \in {"ACCEPTED", "DISMISSED"} /\ suggestion[s] \in SuggestionRow
  BY <1>0 DEF Types
<1>4. e \in SuggestionRow /\ e.status \in {"ACCEPTED", "DISMISSED"}
  <2> HIDE DEF v
  <2> QED
    BY <1>3, Decided
<1>5. entity' = [entity EXCEPT ![c] = e]
  BY <1>1
<1> HIDE DEF e, v
<1>6. Types'
  <2>1. dirty' = dirty
    BY DEF FindSuggestion
  <2>2. pc' \in [Clerks -> {"idle", "order", "save", "write", "done", "failed"}]
    BY <1>0, <1>1 DEF Types, Goto
  <2>3. /\ op' \in [Clerks -> {"ACCEPT", "DISMISS"}]
        /\ chosen' \in [Clerks -> Suggestions \cup {Null}]
        /\ entity' \in [Clerks -> SuggestionRow]
    BY <1>0, <1>1, <1>4, <1>5 DEF Types
  <2>4. raced' \subseteq Suggestions
    BY <1>0, <1>1 DEF Types
  <2> QED
    BY <1>0, <1>2, <2>1, <2>2, <2>3, <2>4 DEF Types, tables
<1>7. Decisions'
  BY <1>0, <1>1, <1>2, <1>4, <1>5 DEF Types, Decisions, Goto, tables
<1>8. Rows'
  BY <1>0, <1>2 DEF Rows, tables
<1>9. Progress' /\ Calm
  BY <1>0, <1>2 DEF Progress, Calm, tables
<1> QED
  BY <1>6, <1>7, <1>8, <1>9 DEF Basic

LEMMA OrderStep ==
  ASSUME Basic, NEW c \in Clerks, CreateOrder(c)
  PROVE  Basic' /\ Calm
<1>0. Types /\ Rows /\ Decisions /\ Progress
  BY DEF Basic
<1>1. PICK o \in Orders :
        /\ order' = [order EXCEPT ![o] =
              [for |-> chosen[c], quantity |-> entity[c].quantity, arrived |-> FALSE]]
        /\ entity' = [entity EXCEPT ![c].order = o]
  BY DEF CreateOrder
<1>2. /\ Goto(c, "save") /\ pc[c] = "order"
      /\ UNCHANGED <<setting, stock, suggestion, scan, op, chosen, dirty, raced, lost>>
  BY DEF CreateOrder
<1>3. /\ entity[c] \in SuggestionRow /\ [entity[c] EXCEPT !.order = o] \in SuggestionRow
      /\ [entity[c] EXCEPT !.order = o].status = entity[c].status
  <2>1. entity[c] \in SuggestionRow
    BY <1>0 DEF Types
  <2> QED
    BY <2>1, Ordered
<1>4. entity' \in [Clerks -> SuggestionRow] /\ \A d \in Clerks : entity'[d].status = entity[d].status
  BY <1>0, <1>1, <1>3 DEF Types
<1>5. [for |-> chosen[c], quantity |-> entity[c].quantity, arrived |-> FALSE]
        \in [for : Suggestions \cup {Null}, quantity : Nat, arrived : BOOLEAN]
  BY <1>0, <1>3 DEF Types, SuggestionRow
<1>6. Types'
  BY <1>0, <1>1, <1>2, <1>4, <1>5 DEF Types, Goto
<1>7. Decisions' /\ Rows'
  BY <1>0, <1>2, <1>4 DEF Types, Decisions, Rows, Goto
<1>8. Progress' /\ Calm
  BY <1>0, <1>2 DEF Progress, Calm
<1> QED
  BY <1>6, <1>7, <1>8 DEF Basic

\* A decision that is written leaves what is written no longer waiting, and what is not
\* written as it was.
LEMMA WriteStep ==
  ASSUME Basic, NEW c \in Clerks, Write(c)
  PROVE  Basic' /\ Calm
<1>0. Types /\ Rows /\ Decisions /\ Progress
  BY DEF Basic
<1> DEFINE x == suggestion[chosen[c]]
           e == entity[c]
           col(k) == IF k \in dirty[c] THEN e[k] ELSE x[k]
           y == [k \in DOMAIN x |-> col(k)]
<1>1. PICK s \in Suggestions : s = chosen[c]
  BY <1>0 DEF Write, Decisions
<1>2. /\ suggestion' = [suggestion EXCEPT ![s] = y]
      /\ Goto(c, "done")
      /\ UNCHANGED <<setting, stock, order, scan, op, chosen, entity, dirty, raced, lost>>
  BY <1>1 DEF Write
<1>3. /\ x \in SuggestionRow /\ e \in SuggestionRow /\ e.status \in {"ACCEPTED", "DISMISSED"}
      /\ x.status # "NONE" /\ dirty[c] \in SUBSET {"status", "order"}
  BY <1>0, <1>1 DEF Types, Write, Decisions
<1>4. y = [rule |-> x.rule, status |-> col("status"), quantity |-> x.quantity,
           order |-> col("order")]
  BY <1>3 DEF SuggestionRow
<1>5. /\ col("status") \in {x.status, e.status}
      /\ col("order") \in {x.order, e.order}
  OBVIOUS
<1> HIDE DEF y, col
<1>6. y \in SuggestionRow /\ y.rule = x.rule /\ y.quantity = x.quantity
      /\ y.status \in {x.status, e.status}
  BY <1>3, <1>4, <1>5 DEF SuggestionRow
<1>7. /\ suggestion' \in [Suggestions -> SuggestionRow] /\ suggestion'[s] = y
      /\ \A t \in Suggestions \ {s} : suggestion'[t] = suggestion[t]
  BY <1>0, <1>2, <1>6 DEF Types
<1>8. /\ suggestion'[s].status # "NONE" /\ suggestion'[s].rule = suggestion[s].rule
      /\ suggestion'[s].quantity = suggestion[s].quantity
      /\ suggestion'[s].status = "PENDING" => suggestion[s].status = "PENDING"
  BY <1>1, <1>3, <1>6, <1>7
<1>9. Types'
  BY <1>0, <1>2, <1>7 DEF Types, Goto
<1>10. Rows'
  BY <1>0, <1>1, <1>3, <1>7, <1>8 DEF Rows
<1>11. Decisions'
  BY <1>0, <1>2, <1>7, <1>8 DEF Types, Decisions, Goto
<1>12. Progress' /\ Calm
  BY <1>0, <1>2, <1>7, <1>8 DEF Progress, Calm
<1> QED
  BY <1>9, <1>10, <1>11, <1>12 DEF Basic

LEMMA OtherStep ==
  ASSUME Basic,
         \/ \E c \in Clerks : Reload(c) \/ Fail(c)
         \/ \E r \in Rules : Sell(r) \/ UpdateRule(r)
         \/ \E o \in Orders : Arrive(o)
  PROVE  Basic' /\ Calm
<1>0. Types /\ Rows /\ Decisions /\ Progress
  BY DEF Basic
<1>1. suggestion' = suggestion /\ scan' = scan
  BY DEF Reload, Fail, Sell, UpdateRule, Arrive, tables
<1>2. Progress' /\ Calm /\ Rows'
  BY <1>0, <1>1 DEF Progress, Calm, Rows
<1>3. ASSUME NEW c \in Clerks, Reload(c) PROVE Types' /\ Decisions'
  <2>1. dirty' \in [Clerks -> SUBSET {"status", "order"}]
    BY <1>0, <1>3 DEF Reload, Changed, Types
  <2> QED
    BY <1>0, <1>3, <2>1 DEF Reload, Types, Decisions, Goto, tables
<1>4. ASSUME NEW c \in Clerks, Fail(c) PROVE Types' /\ Decisions'
  <2> DEFINE n == IF entity[c].order = Null THEN 0 ELSE 1
  <2>0. n \in Nat
    OBVIOUS
  <2>1. lost' \in [Suggestions -> Nat]
    <3>1. PICK s \in Suggestions : s = chosen[c]
      BY <1>0, <1>4 DEF Fail, Decisions
    <3>2. lost' = [lost EXCEPT ![s] = lost[s] + n]
      BY <1>4, <3>1 DEF Fail
    <3> HIDE DEF n
    <3> QED
      BY <1>0, <2>0, <3>1, <3>2 DEF Types
  <2> QED
    BY <1>0, <1>4, <2>1 DEF Fail, Types, Decisions, Goto, tables
<1>5. ASSUME NEW r \in Rules, Sell(r) PROVE Types' /\ Decisions'
  <2>1. stock' \in [Rules -> 0 .. MaxStock]
    BY <1>0, <1>5, RuleAssumption DEF Sell, Types, RuleAssumption
  <2> QED
    BY <1>0, <1>5, <2>1 DEF Sell, Types, Decisions, clerkVars
<1>6. ASSUME NEW r \in Rules, UpdateRule(r) PROVE Types' /\ Decisions'
  <2>1. setting' \in [Rules -> Setting]
    BY <1>0, <1>6, RuleAssumption DEF UpdateRule, Types, RuleAssumption
  <2> QED
    BY <1>0, <1>6, <2>1 DEF UpdateRule, Types, Decisions, clerkVars
<1>7. ASSUME NEW o \in Orders, Arrive(o) PROVE Types' /\ Decisions'
  <2> DEFINE r == suggestion[order[o].for].rule
             q == stock[r] + order[o].quantity
  <2>1. /\ q <= MaxStock /\ stock' = [stock EXCEPT ![r] = q]
        /\ order' = [order EXCEPT ![o].arrived = TRUE]
        /\ UNCHANGED <<setting, suggestion, scan, clerkVars>>
    BY <1>7 DEF Arrive
  <2>2. stock' \in [Rules -> 0 .. MaxStock]
    <3>1. CASE r \in Rules
      <4>1. stock[r] \in 0 .. MaxStock /\ order[o].quantity \in Nat
        BY <1>0, <1>7, <3>1 DEF Types
      <4>2. q \in 0 .. MaxStock
        BY <2>1, <4>1, RuleAssumption DEF RuleAssumption
      <4> HIDE DEF q
      <4> QED
        BY <1>0, <2>1, <4>2 DEF Types
    <3>2. CASE r \notin Rules
      BY <1>0, <2>1, <3>2 DEF Types
    <3> QED
      BY <3>1, <3>2
  <2>3. order' \in [Orders -> [for : Suggestions \cup {Null}, quantity : Nat, arrived : BOOLEAN]]
    BY <1>0, <2>1 DEF Types
  <2> QED
    BY <1>0, <2>1, <2>2, <2>3 DEF Types, Decisions, clerkVars
<1> QED
  BY <1>0, <1>2, <1>3, <1>4, <1>5, <1>6, <1>7 DEF Basic

LEMMA BasicStep == Basic /\ [Next]_vars => Basic'
<1> SUFFICES ASSUME Basic, [Next]_vars PROVE Basic'
  OBVIOUS
<1>1. CASE UNCHANGED vars
  BY <1>1 DEF vars, Basic, Types, Rows, Decisions, Progress
<1>2. ASSUME NEW p \in Schedulers, Scan(p) \/ ScanFault(p) PROVE Basic'
  BY <1>2, ScanStep
<1>3. ASSUME NEW c \in Clerks, Decide(c) \/ Fail(c) PROVE Basic'
  BY <1>3, FindStep, OrderStep, WriteStep, OtherStep DEF Decide
<1>4. CASE (\E r \in Rules : Sell(r) \/ UpdateRule(r)) \/ (\E o \in Orders : Arrive(o))
  BY <1>4, OtherStep
<1> QED
  BY <1>1, <1>2, <1>3, <1>4 DEF Next

LEMMA SoundStep == Solo /\ Sound /\ [Next]_vars => Sound'
<1> SUFFICES ASSUME Solo, Sound, [Next]_vars PROVE Sound'
  OBVIOUS
<1>1. Basic /\ Basic'
  BY BasicStep DEF Sound
<1>2. CASE UNCHANGED vars
  BY <1>1, <1>2, NoneWaitsAnew DEF vars, Calm, Sound
<1>3. ASSUME NEW p \in Schedulers, Scan(p) \/ ScanFault(p) PROVE Sound'
  BY <1>1, <1>3, SoloScanStep DEF Sound
<1>4. ASSUME NEW c \in Clerks, Decide(c) \/ Fail(c) PROVE Sound'
  BY <1>1, <1>4, FindStep, OrderStep, WriteStep, OtherStep, NoneWaitsAnew DEF Decide, Sound
<1>5. CASE (\E r \in Rules : Sell(r) \/ UpdateRule(r)) \/ (\E o \in Orders : Arrive(o))
  BY <1>1, <1>5, OtherStep, NoneWaitsAnew DEF Sound
<1> QED
  BY <1>2, <1>3, <1>4, <1>5 DEF Next

LEMMA AtMostOne ==
  ASSUME NEW S, \A x, y \in S : x = y
  PROVE  Cardinality(S) <= 1
<1>1. CASE S = {}
  BY <1>1, FS_EmptySet
<1>2. CASE S # {}
  <2>1. PICK x : S = {x}
    BY <1>2
  <2> QED
    BY <2>1, FS_Singleton
<1> QED
  BY <1>1, <1>2

\* With one process that scans, a rule never has two suggestions that wait, whatever clerks
\* decide, and whenever a scan fails or the process stops (processRule, acceptSuggestion,
\* dismissSuggestion).  Two processes with the cron job can make two.
THEOREM OneSuggestion == Solo => (Spec => []OnePendingPerRule)
<1> SUFFICES ASSUME Solo PROVE Spec => []OnePendingPerRule
  OBVIOUS
<1>1. Init => Sound
  BY InitSound
<1>2. Sound /\ [Next]_vars => Sound'
  BY SoundStep
<1>3. Sound => OnePendingPerRule
  <2> SUFFICES ASSUME Sound PROVE OnePendingPerRule
    OBVIOUS
  <2>1. TypeOK
    BY DEF Sound, Basic, Types, Rows, TypeOK
  <2>2. ASSUME NEW r \in Rules PROVE Cardinality(Pending(r)) <= 1
    BY AtMostOne DEF Sound, OneWaits, Pending
  <2> QED
    BY <2>1, <2>2 DEF OnePendingPerRule
<1> QED
  BY <1>1, <1>2, <1>3, PTL DEF Spec

-----------------------------------------------------------------------------
(* Orders are accounted for, however many processes scan. *)

\* An acceptance of s that has made its order and not yet saved it.
Underway(s) == IF \E c \in Clerks : Deciding(c, s) /\ entity[c].order # Null THEN 1 ELSE 0

\* What a clerk at work on s holds, and is about to write.
Holds(c, s) ==
  /\ entity[c].status = IF op[c] = "ACCEPT" THEN "ACCEPTED" ELSE "DISMISSED"
  /\ pc[c] = "order" => op[c] = "ACCEPT"
  /\ IF pc[c] = "order" \/ op[c] = "DISMISS" THEN entity[c].order = Null
     ELSE entity[c].order \in OrdersFor(s)
  /\ pc[c] = "write" =>
       "status" \in dirty[c] /\ ("order" \in dirty[c] <=> entity[c].order # Null)

\* One clerk decides about s while it waits; each order made for s is lost, or in the hands of
\* that clerk, or the one s names.
Account(s) ==
  /\ \A c, d \in Clerks : Deciding(c, s) /\ Deciding(d, s) => c = d
  /\ \A c \in Clerks : Deciding(c, s) => suggestion[s].status = "PENDING" /\ Holds(c, s)
  /\ suggestion[s].status # "ACCEPTED" => suggestion[s].order = Null
  /\ suggestion[s].status = "ACCEPTED" => suggestion[s].order \in OrdersFor(s)
  /\ IsFiniteSet(OrdersFor(s))
  /\ Cardinality(OrdersFor(s)) =
       lost[s] + Underway(s) + (IF suggestion[s].status = "ACCEPTED" THEN 1 ELSE 0)

Accounts == \A s \in Suggestions \ raced : Account(s)

LEMMA InitAccounts == Init => Accounts
<1> SUFFICES ASSUME Init, NEW s \in Suggestions PROVE Account(s)
  BY DEF Accounts
<1>1. \A c \in Clerks : ~Deciding(c, s)
  BY DEF Init, Deciding
<1>2. OrdersFor(s) = {}
  BY RuleAssumption DEF Init, OrdersFor, NoOrder, RuleAssumption
<1>3. suggestion[s].status = "NONE" /\ suggestion[s].order = Null /\ lost[s] = 0
  BY DEF Init, NoSuggestion
<1> QED
  BY <1>1, <1>2, <1>3, FS_EmptySet DEF Account, Underway

\* What says nothing about s and its orders keeps its account.
LEMMA AccountKept ==
  ASSUME NEW s \in Suggestions, Account(s),
         suggestion'[s].order = suggestion[s].order, lost'[s] = lost[s],
         suggestion'[s].status = "ACCEPTED" <=> suggestion[s].status = "ACCEPTED",
         suggestion[s].status = "PENDING" => suggestion'[s].status = "PENDING",
         OrdersFor(s)' = OrdersFor(s),
         \A c \in Clerks : Deciding(c, s)' <=> Deciding(c, s),
         \A c \in Clerks : Deciding(c, s) =>
           pc'[c] = pc[c] /\ op'[c] = op[c] /\ entity'[c] = entity[c] /\ dirty'[c] = dirty[c]
  PROVE  Account(s)'
<1>1. Underway(s)' = Underway(s)
  BY DEF Underway
<1>2. \A c \in Clerks : Deciding(c, s) => Holds(c, s)'
  BY DEF Account, Holds
<1> QED
  BY <1>1, <1>2 DEF Account

\* Of a suggestion that one clerk decides about, that clerk holds the order that is underway.
LEMMA UnderwayOne ==
  ASSUME NEW s \in Suggestions, Account(s), NEW c \in Clerks, Deciding(c, s)
  PROVE  Underway(s) = IF entity[c].order # Null THEN 1 ELSE 0
BY DEF Account, Underway

\* The scan adds suggestions that have no orders.
LEMMA ScanAccounts ==
  ASSUME Basic, Accounts,
         \/ \E p \in Schedulers : Scan(p) \/ ScanFault(p)
         \/ \E r \in Rules : Sell(r) \/ UpdateRule(r)
  PROVE  Accounts'
<1>1. UNCHANGED <<order, pc, op, chosen, entity, dirty, raced, lost>>
  BY DEF Scan, StartScan, FindPending, ReadStock, InsertSuggestion, ScanFault, Sell, UpdateRule,
     tables, clerkVars
<1>2. SUFFICES ASSUME NEW s \in Suggestions, s \notin raced PROVE Account(s)'
  BY <1>1 DEF Accounts
<1>3. Account(s) /\ Types
  BY <1>2 DEF Accounts, Basic
<1>4. suggestion'[s] = suggestion[s] \/
        (/\ suggestion[s].status = "NONE" /\ suggestion'[s].status = "PENDING"
         /\ suggestion'[s].order = Null)
  <2>1. CASE \E p \in Schedulers : InsertSuggestion(p)
    <3>1. PICK p \in Schedulers, t \in Suggestions :
            /\ suggestion[t].status = "NONE"
            /\ suggestion' = [suggestion EXCEPT ![t] =
                 [rule |-> Current(p).rule, status |-> "PENDING", quantity |-> scan[p].quantity,
                  order |-> Null]]
      BY <2>1 DEF InsertSuggestion
    <3> QED
      BY <1>3, <3>1 DEF Types
  <2>2. CASE ~\E p \in Schedulers : InsertSuggestion(p)
    <3>1. suggestion' = suggestion
      BY <2>2 DEF Scan, StartScan, FindPending, ReadStock, ScanFault, Sell, UpdateRule, tables
    <3> QED
      BY <3>1
  <2> QED
    BY <2>1, <2>2
<1>5. OrdersFor(s)' = OrdersFor(s) /\ \A c \in Clerks : Deciding(c, s)' <=> Deciding(c, s)
  BY <1>1 DEF OrdersFor, Deciding
<1>6. suggestion[s].status = "NONE" => suggestion[s].order = Null
  BY <1>3 DEF Account
<1>7. /\ suggestion'[s].order = suggestion[s].order
      /\ suggestion'[s].status = "ACCEPTED" <=> suggestion[s].status = "ACCEPTED"
      /\ suggestion[s].status = "PENDING" => suggestion'[s].status = "PENDING"
  BY <1>4, <1>6
<1> QED
  BY <1>1, <1>2, <1>3, <1>5, <1>7, AccountKept

LEMMA ArriveAccounts ==
  ASSUME Basic, Accounts, NEW o \in Orders, Arrive(o)
  PROVE  Accounts'
<1>1. UNCHANGED <<suggestion, pc, op, chosen, entity, dirty, raced, lost>>
      /\ order' = [order EXCEPT ![o].arrived = TRUE]
  BY DEF Arrive, clerkVars
<1>2. SUFFICES ASSUME NEW s \in Suggestions, s \notin raced PROVE Account(s)'
  BY <1>1 DEF Accounts
<1>3. Account(s)
  BY <1>2 DEF Accounts
<1>4. \A q \in Orders : order'[q].for = order[q].for
  BY <1>1 DEF Basic, Types
<1>5. OrdersFor(s)' = OrdersFor(s) /\ \A c \in Clerks : Deciding(c, s)' <=> Deciding(c, s)
  BY <1>1, <1>4 DEF OrdersFor, Deciding
<1> QED
  BY <1>1, <1>2, <1>3, <1>5, AccountKept

\* A decision begins with what the row says; that nobody else decides is what raced records.
LEMMA FindAccounts ==
  ASSUME Basic, Accounts, NEW c \in Clerks, FindSuggestion(c)
  PROVE  Accounts'
<1>0. Types
  BY DEF Basic
<1>1. PICK s \in Suggestions, o \in {"ACCEPT", "DISMISS"} :
        /\ suggestion[s].status = "PENDING"
        /\ chosen' = [chosen EXCEPT ![c] = s]
        /\ op' = [op EXCEPT ![c] = o]
        /\ entity' = [entity EXCEPT ![c] = [suggestion[s] EXCEPT !.status =
                        IF o = "ACCEPT" THEN "ACCEPTED" ELSE "DISMISSED"]]
        /\ Goto(c, IF o = "ACCEPT" THEN "order" ELSE "save")
        /\ raced' = raced \cup {x \in {s} : \E d \in Clerks \ {c} : Deciding(d, s)}
  BY DEF FindSuggestion
<1>2. UNCHANGED <<suggestion, order, lost, dirty>> /\ pc[c] = "idle"
  BY DEF FindSuggestion, tables
<1>3. SUFFICES ASSUME NEW t \in Suggestions, t \notin raced' PROVE Account(t)'
  BY DEF Accounts
<1>4. Account(t)
  BY <1>1, <1>3 DEF Accounts
<1>5. \A d \in Clerks \ {c} : /\ pc'[d] = pc[d] /\ op'[d] = op[d] /\ entity'[d] = entity[d]
                             /\ chosen'[d] = chosen[d]
  BY <1>0, <1>1 DEF Types, Goto
<1>6. chosen'[c] = s /\ OrdersFor(t)' = OrdersFor(t) /\ ~Deciding(c, t)
  BY <1>0, <1>1, <1>2 DEF Types, OrdersFor, Deciding
<1>7. CASE t # s
  <2>1. \A d \in Clerks : Deciding(d, t)' <=> Deciding(d, t)
    BY <1>5, <1>6, <1>7 DEF Deciding
  <2> QED
    BY <1>2, <1>4, <1>5, <1>6, <2>1, AccountKept
<1>8. CASE t = s
  <2>1. \A d \in Clerks : ~Deciding(d, t)
    BY <1>1, <1>3, <1>6, <1>8
  <2>2. \A d \in Clerks \ {c} : ~Deciding(d, t)'
    BY <1>5, <2>1 DEF Deciding
  <2>3. /\ entity'[c].order = Null /\ op'[c] = o
        /\ entity'[c].status = (IF o = "ACCEPT" THEN "ACCEPTED" ELSE "DISMISSED")
        /\ pc'[c] = (IF o = "ACCEPT" THEN "order" ELSE "save")
    <3>1. suggestion[s] \in SuggestionRow /\ suggestion[s].order = Null
      BY <1>0, <1>1, <1>4, <1>8 DEF Types, Account
    <3> QED
      BY <1>0, <1>1, <3>1 DEF Types, Goto, SuggestionRow
  <2>4. Holds(c, t)'
    BY <2>3 DEF Holds
  <2>5. Underway(t)' = 0 /\ Underway(t) = 0
    BY <2>1, <2>2, <2>3 DEF Underway
  <2> QED
    BY <1>1, <1>2, <1>4, <1>6, <1>8, <2>2, <2>4, <2>5 DEF Account
<1> QED
  BY <1>7, <1>8

\* A clerk who works leaves other suggestions' decisions alone.
LEMMA OtherDecisions ==
  ASSUME NEW c \in Clerks, NEW t \in Suggestions, chosen[c] # t, chosen' = chosen, Account(t),
         \A d \in Clerks \ {c} :
           pc'[d] = pc[d] /\ op'[d] = op[d] /\ entity'[d] = entity[d] /\ dirty'[d] = dirty[d],
         suggestion'[t] = suggestion[t], lost'[t] = lost[t], OrdersFor(t)' = OrdersFor(t)
  PROVE  Account(t)'
<1>1. \A d \in Clerks : Deciding(d, t)' <=> Deciding(d, t)
  BY DEF Deciding
<1>2. \A d \in Clerks : Deciding(d, t) => d # c
  BY DEF Deciding
<1> QED
  BY <1>1, <1>2, AccountKept

\* An acceptance makes its order.
LEMMA OrderAccounts ==
  ASSUME Basic, Accounts, NEW c \in Clerks, CreateOrder(c)
  PROVE  Accounts'
<1>0. Types /\ pc[c] = "order" /\ chosen[c] \in Suggestions
  BY DEF Basic, Decisions, CreateOrder
<1>1. PICK o \in Orders :
        /\ order[o] = NoOrder
        /\ order' = [order EXCEPT ![o] =
              [for |-> chosen[c], quantity |-> entity[c].quantity, arrived |-> FALSE]]
        /\ entity' = [entity EXCEPT ![c].order = o]
  BY DEF CreateOrder
<1>2. Goto(c, "save") /\ UNCHANGED <<suggestion, op, chosen, dirty, raced, lost>>
  BY DEF CreateOrder
<1>3. SUFFICES ASSUME NEW t \in Suggestions, t \notin raced PROVE Account(t)'
  BY <1>2 DEF Accounts
<1>4. Account(t) /\ t # Null
  BY <1>3, RuleAssumption DEF Accounts, RuleAssumption
<1>5. /\ pc'[c] = "save"
      /\ \A d \in Clerks \ {c} : pc'[d] = pc[d] /\ entity'[d] = entity[d]
  BY <1>0, <1>1, <1>2 DEF Types, Goto
<1>6. order[o].for = Null /\ order'[o].for = chosen[c]
      /\ \A q \in Orders \ {o} : order'[q] = order[q]
  BY <1>0, <1>1 DEF Types, NoOrder
<1>7. CASE chosen[c] # t
  <2>1. OrdersFor(t)' = OrdersFor(t)
    BY <1>4, <1>6, <1>7 DEF OrdersFor
  <2> QED
    BY <1>2, <1>4, <1>5, <1>7, <2>1, OtherDecisions
<1>8. CASE chosen[c] = t
  <2>1. Deciding(c, t) /\ \A d \in Clerks : Deciding(d, t)' <=> Deciding(d, t)
    BY <1>0, <1>2, <1>5, <1>8 DEF Deciding
  <2>2. \A d \in Clerks \ {c} : ~Deciding(d, t)
    BY <1>4, <2>1 DEF Account
  <2>3. OrdersFor(t)' = OrdersFor(t) \cup {o} /\ o \notin OrdersFor(t)
    BY <1>4, <1>6, <1>8 DEF OrdersFor
  <2>4. /\ IsFiniteSet(OrdersFor(t)')
        /\ Cardinality(OrdersFor(t)') = Cardinality(OrdersFor(t)) + 1
    <3>1. PICK S : S = OrdersFor(t)
      OBVIOUS
    <3>2. IsFiniteSet(S) /\ o \notin S
      BY <1>4, <2>3, <3>1 DEF Account
    <3>3. IsFiniteSet(S \cup {o}) /\ Cardinality(S \cup {o}) = Cardinality(S) + 1
      BY <3>2, FS_AddElement
    <3> QED
      BY <2>3, <3>1, <3>3
  <2>5. Holds(c, t) /\ suggestion[t].status = "PENDING"
    BY <1>4, <2>1 DEF Account
  <2>6. op[c] = "ACCEPT" /\ entity[c].order = Null /\ entity[c].status = "ACCEPTED"
    BY <1>0, <2>5 DEF Holds
  <2>7. entity'[c].order = o /\ entity'[c].status = "ACCEPTED"
    <3>1. entity[c] \in SuggestionRow /\ entity'[c] = [entity[c] EXCEPT !.order = o]
      BY <1>0, <1>1 DEF Types
    <3> QED
      BY <2>6, <3>1 DEF SuggestionRow
  <2>8. Holds(c, t)'
    BY <1>2, <1>5, <2>3, <2>6, <2>7 DEF Holds
  <2>9. Underway(t) = 0
    BY <1>4, <2>1, <2>6, UnderwayOne
  <2>10. Underway(t)' = 1
    BY <2>1, <2>7, <1>1, RuleAssumption DEF Underway, RuleAssumption
  <2>11. lost[t] \in Nat
    BY <1>0 DEF Types
  <2>12. Cardinality(OrdersFor(t)) = lost[t] + 0 + 0
    BY <1>4, <2>5, <2>9 DEF Account
  <2>13. Cardinality(OrdersFor(t)') = lost[t] + 1 + 0
    BY <2>4, <2>11, <2>12
  <2> QED
    BY <1>2, <1>4, <2>1, <2>2, <2>4, <2>5, <2>8, <2>10, <2>13 DEF Account
<1> QED
  BY <1>7, <1>8

\* What is about to be written is the decision, and the order if there is one.
LEMMA ReloadAccounts ==
  ASSUME Basic, Accounts, NEW c \in Clerks, Reload(c)
  PROVE  Accounts'
<1>0. Types /\ pc[c] = "save" /\ chosen[c] \in Suggestions
  BY DEF Basic, Decisions, Reload
<1>1. /\ UNCHANGED <<suggestion, order, op, chosen, entity, raced, lost>>
      /\ pc'[c] = "write" /\ dirty'[c] = Changed(c)
      /\ \A d \in Clerks \ {c} : pc'[d] = pc[d] /\ dirty'[d] = dirty[d]
  BY <1>0 DEF Reload, Goto, Types, tables
<1>2. SUFFICES ASSUME NEW t \in Suggestions, t \notin raced PROVE Account(t)'
  BY <1>1 DEF Accounts
<1>3. Account(t) /\ OrdersFor(t)' = OrdersFor(t)
  BY <1>1, <1>2 DEF Accounts, OrdersFor
<1>4. CASE chosen[c] # t
  BY <1>1, <1>2, <1>3, <1>4, OtherDecisions
<1>5. CASE chosen[c] = t
  <2>1. Deciding(c, t) /\ \A d \in Clerks : Deciding(d, t)' <=> Deciding(d, t)
    BY <1>0, <1>1, <1>5 DEF Deciding
  <2>2. /\ \A d \in Clerks \ {c} : ~Deciding(d, t)
        /\ Holds(c, t) /\ suggestion[t].status = "PENDING" /\ suggestion[t].order = Null
    BY <1>3, <2>1 DEF Account
  <2>3. /\ "status" \in dirty'[c] <=> entity[c].status # suggestion[t].status
        /\ "order" \in dirty'[c] <=> entity[c].order # suggestion[t].order
    BY <1>1, <1>5 DEF Changed
  <2>4. Holds(c, t)'
    BY <1>0, <1>1, <1>3, <2>2, <2>3 DEF Holds
  <2>5. Underway(t)' = Underway(t)
    BY <1>1, <2>1 DEF Underway
  <2> QED
    BY <1>1, <1>3, <2>1, <2>2, <2>4, <2>5 DEF Account
<1> QED
  BY <1>4, <1>5

\* The decision is saved: an acceptance names the order that was underway.
LEMMA WriteAccounts ==
  ASSUME Basic, Accounts, NEW c \in Clerks, Write(c)
  PROVE  Accounts'
<1>0. Types /\ pc[c] = "write" /\ chosen[c] \in Suggestions
  BY DEF Basic, Decisions, Write
<1>1. /\ UNCHANGED <<order, op, chosen, entity, dirty, raced, lost>>
      /\ pc'[c] = "done" /\ \A d \in Clerks \ {c} : pc'[d] = pc[d]
      /\ \A t \in Suggestions \ {chosen[c]} : suggestion'[t] = suggestion[t]
  BY <1>0 DEF Write, Goto, Types
<1>2. SUFFICES ASSUME NEW t \in Suggestions, t \notin raced PROVE Account(t)'
  BY <1>1 DEF Accounts
<1>3. Account(t) /\ OrdersFor(t)' = OrdersFor(t)
  BY <1>1, <1>2 DEF Accounts, OrdersFor
<1>4. CASE chosen[c] # t
  BY <1>1, <1>2, <1>3, <1>4, OtherDecisions
<1>5. CASE chosen[c] = t
  <2>1. Deciding(c, t) /\ \A d \in Clerks : ~Deciding(d, t)'
    BY <1>0, <1>1, <1>3, <1>5 DEF Deciding, Account
  <2>2. Holds(c, t) /\ suggestion[t].status = "PENDING" /\ suggestion[t].order = Null
    BY <1>3, <2>1 DEF Account
  <2>3. /\ suggestion'[t].status = entity[c].status
        /\ suggestion'[t].order = entity[c].order
    <3>1. suggestion'[t] = [k \in DOMAIN suggestion[t] |->
                              IF k \in dirty[c] THEN entity[c][k] ELSE suggestion[t][k]]
      BY <1>0, <1>5 DEF Write, Types
    <3>2. DOMAIN suggestion[t] = {"rule", "status", "quantity", "order"}
      BY <1>0 DEF Types, SuggestionRow
    <3>3. "status" \in dirty[c] /\ ("order" \in dirty[c] <=> entity[c].order # Null)
      BY <1>0, <2>2 DEF Holds
    <3> QED
      BY <2>2, <3>1, <3>2, <3>3
  <2>4. Underway(t) = (IF entity[c].order # Null THEN 1 ELSE 0) /\ Underway(t)' = 0
    BY <1>3, <2>1, UnderwayOne DEF Underway
  <2>5. lost[t] \in Nat
    BY <1>0 DEF Types
  <2>6. CASE op[c] = "ACCEPT"
    <3>1. entity[c].status = "ACCEPTED" /\ entity[c].order \in OrdersFor(t)
      BY <1>0, <2>2, <2>6 DEF Holds
    <3>2. entity[c].order # Null
      BY <3>1, RuleAssumption DEF OrdersFor, RuleAssumption
    <3>3. Cardinality(OrdersFor(t)) = lost[t] + 1 + 0
      BY <1>3, <2>2, <2>4, <3>2 DEF Account
    <3>4. Cardinality(OrdersFor(t)) = lost[t] + 0 + 1
      BY <2>5, <3>3
    <3> QED
      BY <1>1, <1>3, <2>1, <2>3, <2>4, <3>1, <3>4 DEF Account
  <2>7. CASE op[c] # "ACCEPT"
    <3>1. op[c] = "DISMISS"
      BY <1>0, <2>7 DEF Types
    <3>2. entity[c].status = "DISMISSED" /\ entity[c].order = Null
      BY <2>2, <3>1 DEF Holds
    <3>3. Cardinality(OrdersFor(t)) = lost[t] + 0 + 0
      BY <1>3, <2>2, <2>4, <3>2 DEF Account
    <3> QED
      BY <1>1, <1>3, <2>1, <2>3, <2>4, <3>2, <3>3 DEF Account
  <2> QED
    BY <2>6, <2>7
<1> QED
  BY <1>4, <1>5

\* A decision that fails loses its order, and the suggestion still waits.
LEMMA FailAccounts ==
  ASSUME Basic, Accounts, NEW c \in Clerks, Fail(c)
  PROVE  Accounts'
<1>0. Types /\ pc[c] \in {"order", "save", "write"} /\ chosen[c] \in Suggestions
  BY DEF Basic, Decisions, Fail
<1>1. /\ UNCHANGED <<suggestion, order, op, chosen, entity, dirty, raced>>
      /\ pc'[c] = "failed" /\ \A d \in Clerks \ {c} : pc'[d] = pc[d]
      /\ lost' = [lost EXCEPT ![chosen[c]] = @ + (IF entity[c].order = Null THEN 0 ELSE 1)]
  BY <1>0 DEF Fail, Goto, Types, tables
<1>2. SUFFICES ASSUME NEW t \in Suggestions, t \notin raced PROVE Account(t)'
  BY <1>1 DEF Accounts
<1>3. Account(t) /\ OrdersFor(t)' = OrdersFor(t)
  BY <1>1, <1>2 DEF Accounts, OrdersFor
<1>4. CASE chosen[c] # t
  <2>1. lost'[t] = lost[t]
    BY <1>0, <1>1, <1>4 DEF Types
  <2> QED
    BY <1>1, <1>2, <1>3, <1>4, <2>1, OtherDecisions
<1>5. CASE chosen[c] = t
  <2>1. Deciding(c, t) /\ \A d \in Clerks : ~Deciding(d, t)'
    BY <1>0, <1>1, <1>3, <1>5 DEF Deciding, Account
  <2>2. suggestion[t].status = "PENDING"
    BY <1>3, <2>1 DEF Account
  <2>3. Underway(t) = (IF entity[c].order # Null THEN 1 ELSE 0) /\ Underway(t)' = 0
    BY <1>3, <2>1, UnderwayOne DEF Underway
  <2>4. lost[t] \in Nat /\ lost'[t] = lost[t] + Underway(t)
    BY <1>0, <1>1, <1>5, <2>3 DEF Types
  <2>5. Cardinality(OrdersFor(t)) = lost[t] + Underway(t) + 0
    BY <1>3, <2>2 DEF Account
  <2>6. Cardinality(OrdersFor(t)) = lost'[t] + 0 + 0
    BY <2>3, <2>4, <2>5
  <2> QED
    BY <1>1, <1>3, <2>1, <2>2, <2>3, <2>6 DEF Account
<1> QED
  BY <1>4, <1>5

LEMMA AccountsStep == Basic /\ Accounts /\ [Next]_vars => Accounts'
<1> SUFFICES ASSUME Basic, Accounts, [Next]_vars PROVE Accounts'
  OBVIOUS
<1>1. CASE UNCHANGED vars
  <2>1. ASSUME NEW s \in Suggestions, Account(s) PROVE Account(s)'
    <3>1. OrdersFor(s)' = OrdersFor(s) /\ \A c \in Clerks : Deciding(c, s)' <=> Deciding(c, s)
      BY <1>1 DEF vars, OrdersFor, Deciding
    <3> QED
      BY <1>1, <2>1, <3>1, AccountKept DEF vars
  <2> QED
    BY <1>1, <2>1 DEF vars, Accounts
<1>2. ASSUME NEW p \in Schedulers, Scan(p) \/ ScanFault(p) PROVE Accounts'
  BY <1>2, ScanAccounts
<1>3. ASSUME NEW c \in Clerks, Decide(c) \/ Fail(c) PROVE Accounts'
  BY <1>3, FindAccounts, OrderAccounts, ReloadAccounts, WriteAccounts, FailAccounts DEF Decide
<1>4. ASSUME NEW r \in Rules, Sell(r) \/ UpdateRule(r) PROVE Accounts'
  BY <1>4, ScanAccounts
<1>5. ASSUME NEW o \in Orders, Arrive(o) PROVE Accounts'
  BY <1>5, ArriveAccounts
<1> QED
  BY <1>1, <1>2, <1>3, <1>4, <1>5 DEF Next

LEMMA AccountsMean == Basic /\ Accounts => OrdersAccountedFor
<1> SUFFICES ASSUME Basic, Accounts, NEW s \in Suggestions \ raced
             PROVE  /\ suggestion[s].status = "ACCEPTED" =>
                         /\ suggestion[s].order \in OrdersFor(s)
                         /\ Cardinality(OrdersFor(s)) = 1 + lost[s]
                    /\ suggestion[s].status = "DISMISSED" =>
                         suggestion[s].order = Null /\ Cardinality(OrdersFor(s)) = lost[s]
  BY DEF OrdersAccountedFor
<1>1. Account(s) /\ lost[s] \in Nat
  BY DEF Accounts, Basic, Types
<1>2. suggestion[s].status # "PENDING" => Underway(s) = 0
  BY <1>1 DEF Account, Underway
<1>3. CASE suggestion[s].status = "ACCEPTED"
  <2>1. Cardinality(OrdersFor(s)) = lost[s] + 0 + 1
    BY <1>1, <1>2, <1>3 DEF Account
  <2>2. Cardinality(OrdersFor(s)) = 1 + lost[s]
    BY <1>1, <2>1
  <2> QED
    BY <1>1, <1>3, <2>2 DEF Account
<1>4. CASE suggestion[s].status = "DISMISSED"
  <2>1. Cardinality(OrdersFor(s)) = lost[s] + 0 + 0
    BY <1>1, <1>2, <1>4 DEF Account
  <2>2. Cardinality(OrdersFor(s)) = lost[s]
    BY <1>1, <2>1
  <2> QED
    BY <1>1, <1>4, <2>2 DEF Account
<1> QED
  BY <1>3, <1>4

\* A suggestion about which decisions never overlapped is accepted with one order, which it
\* names, or dismissed with none, plus one for each acceptance that failed after
\* createPurchaseOrder had committed, however many processes scan (acceptSuggestion,
\* dismissSuggestion).
THEOREM OrdersAreAccountedFor == Spec => []OrdersAccountedFor
<1>1. Init => Basic /\ Accounts
  BY InitSound, InitAccounts DEF Sound
<1>2. Basic /\ Accounts /\ [Next]_vars => (Basic /\ Accounts)'
  BY BasicStep, AccountsStep
<1>3. Basic /\ Accounts => OrdersAccountedFor
  BY AccountsMean
<1> QED
  BY <1>1, <1>2, <1>3, PTL DEF Spec
=============================================================================
