-------------------------- MODULE SaleGoods_proofs --------------------------
(***************************************************************************)
(* Proofs about the goods of a sale, for every number of lines, variants,  *)
(* requests and transactions.                                              *)
(***************************************************************************)
EXTENDS SaleGoods, TLAPS

\* A return of package parts names each variant once.
NamedOnce ==
  \A q \in Requests : \A i, j \in DOMAIN q.parts :
    q.parts[i].variant = q.parts[j].variant => i = j

Returns == {"RETURN", "PARTS"}
Labels == {"idle", "start", "read", "lockLines", "move", "reloadLine", "writeLine", "reload",
           "writeSale", "commit", "committed", "aborted"}
Rows == [Lines -> Row]
Goods == [Lines -> [Variants -> Int]]
SomeRows == UNION {[S -> Row] : S \in SUBSET Lines}
Plan == [lines : SomeRows, insert : SUBSET Lines, status : {"same", "CONFIRMED", "CANCELLED"}]

Types ==
  /\ status \in {"CONFIRMED", "CANCELLED"} /\ line \in Rows
  /\ parts \in [Lines -> [Variants -> Nat]] /\ returned \subseteq Lines /\ out \in Goods
  /\ lock \in [Keys -> Txs \cup {NoTx}]
  /\ pc \in [Txs -> Labels] /\ req \in [Txs -> Request]
  /\ seen \in [Txs -> Rows] /\ plan \in [Txs -> Plan] /\ moved \in [Txs -> Goods]
  /\ overlapped \in BOOLEAN

\* Where a transaction may be with its request.
Control(t) ==
  /\ pc[t] # "idle" => req[t] \in Requests
  /\ pc[t] = "lockLines" => req[t].op \in Returns
  /\ pc[t] = "read" => req[t].op \in {"UPDATE", "REMOVE"}
  /\ pc[t] = "reloadLine" => req[t].op = "UPDATE"
  /\ pc[t] = "writeLine" => req[t].op \in {"UPDATE", "REMOVE"}
  /\ pc[t] \in {"reload", "writeSale"} => req[t].op \notin Returns
  /\ pc[t] \in {"idle", "start", "read", "lockLines", "move"} =>
       plan[t] = NoPlan /\ moved[t] = NoMoves

\* Whoever is about to commit holds the header, and a return from its first lock on.
Serial(t) ==
  pc[t] \in {"commit", "lockLines"} \/ (pc[t] = "move" /\ req[t].op \in Returns) =>
    lock[Header] = t

\* So what a return has seen is still there when it commits.
Exact(t) ==
  LET q == req[t]  l == q.line IN
  q.op \in Returns =>
    /\ pc[t] \in {"lockLines", "move", "commit"} => status = "CONFIRMED"
    /\ pc[t] \in {"move", "commit"} => seen[t] = line
    /\ pc[t] = "commit" =>
         /\ plan[t].status = "same"
         /\ q.op = "RETURN" => /\ l \in DOMAIN plan[t].lines
                               /\ plan[t].lines[l].qty = seen[t][l].qty - q.qty
         /\ q.op = "PARTS" => /\ DOMAIN plan[t].lines = {}
                              /\ \A v \in Variants : PartSum(q, v) # 0 =>
                                   parts[l][v] + PartSum(q, v) <= seen[t][l].qty * Recipe[l][v]

TxOK(t) == Control(t) /\ Serial(t) /\ Exact(t)

Books == Types /\ \A t \in Txs : TxOK(t)

-----------------------------------------------------------------------------
(* Data. *)

LEMMA NoSum ==
  ASSUME NEW q, NEW v, {i \in DOMAIN q.parts : q.parts[i].variant = v} = {}
  PROVE  PartSum(q, v) = 0
BY DEF PartSum, MapThenSumSet, MapThenFoldSet

LEMMA OneSum ==
  ASSUME NEW q, NEW v, NEW i, {j \in DOMAIN q.parts : q.parts[j].variant = v} = {i},
         q.parts[i].qty \in Nat
  PROVE  PartSum(q, v) = q.parts[i].qty
<1> DEFINE S == {i}
           any(s) == CHOOSE x \in s : TRUE
           Sums(f) == f = [s \in SUBSET S |-> IF s = {} THEN 0
                                              ELSE q.parts[any(s)].qty + f[s \ {any(s)}]]
           sum == CHOOSE f : Sums(f)
           w == [s \in SUBSET S |-> IF s = {} THEN 0 ELSE q.parts[i].qty]
<1>1. PartSum(q, v) = sum[S]
  BY DEF PartSum, MapThenSumSet, MapThenFoldSet
<1>2. Sums(w)
  <2>1. \A s \in SUBSET S : s # {} => any(s) = i /\ s = S /\ s \ {i} = {}
    OBVIOUS
  <2>2. \A s \in SUBSET S : w[s] = IF s = {} THEN 0 ELSE q.parts[any(s)].qty + w[s \ {any(s)}]
    BY <2>1
  <2> QED
    BY <2>2
<1>3. Sums(sum)
  <2> HIDE DEF Sums, w
  <2> QED
    BY <1>2
<1>4. any(S) = i /\ S \ {i} = {} /\ S \in SUBSET S /\ {} \in SUBSET S
  OBVIOUS
<1> HIDE DEF sum
<1>5. sum[S] = q.parts[i].qty + sum[{}] /\ sum[{}] = 0
  BY <1>3, <1>4
<1> QED
  BY <1>1, <1>5

LEMMA Element ==
  ASSUME NEW R, NEW s \in Seq(R), NEW i \in DOMAIN s
  PROVE  s[i] \in R
OBVIOUS

\* What a return gives back of a variant is nothing, or what it names.
LEMMA PartSumIsPart ==
  ASSUME NamedOnce, NEW q \in Requests, NEW v \in Variants
  PROVE  /\ PartSum(q, v) \in Nat
         /\ PartSum(q, v) # 0 => \E i \in DOMAIN q.parts :
              q.parts[i].variant = v /\ PartSum(q, v) = q.parts[i].qty
<1> DEFINE I == {i \in DOMAIN q.parts : q.parts[i].variant = v}
<1>0. q.parts \in Seq([variant : Variants, qty : Nat])
  BY SaleAssumption DEF SaleAssumption, Request
<1>1. ASSUME NEW i \in DOMAIN q.parts PROVE q.parts[i].qty \in Nat
  <2>1. q.parts[i] \in [variant : Variants, qty : Nat]
    BY <1>0, Element
  <2> QED
    BY <2>1
<1>2. CASE I = {}
  BY <1>2, NoSum
<1>3. CASE I # {}
  <2>1. PICK i \in DOMAIN q.parts : q.parts[i].variant = v
    BY <1>3
  <2>2. I = {i}
    BY <2>1 DEF NamedOnce
  <2>3. PartSum(q, v) = q.parts[i].qty
    BY <1>1, <2>1, <2>2, OneSum
  <2> QED
    BY <1>1, <2>1, <2>3
<1> QED
  BY <1>2, <1>3

LEMMA RequestTypes ==
  ASSUME NEW q \in Request
  PROVE  q.op \in Ops /\ q.line \in Lines /\ q.qty \in Nat
BY DEF Request

LEMMA RecipeType ==
  ASSUME NEW l \in Lines, NEW v \in Variants
  PROVE  Recipe[l][v] \in Nat
BY SaleAssumption DEF SaleAssumption

LEMMA UnitsType ==
  ASSUME NEW l \in Lines, NEW n \in Int
  PROVE  /\ Units(l, n) \in [Variants -> Int]
         /\ Back(Units(l, n)) \in [Variants -> Int]
<1>1. \A v \in Variants : n * Recipe[l][v] \in Int
  BY RecipeType
<1> QED
  BY <1>1 DEF Units, Back

LEMMA RestoreType ==
  ASSUME Types, NEW l \in Lines, NEW n \in Nat
  PROVE  Back(Restore(l, n)) \in [Variants -> Int]
<1>1. \A v \in Variants : n * Recipe[l][v] \in Int /\ parts[l][v] \in Int
  BY RecipeType DEF Types
<1>2. Restore(l, n) \in [Variants -> Int]
  BY <1>1 DEF Restore
<1> QED
  BY <1>2 DEF Back

LEMMA RowType == Gone \in Row /\ \A r \in Row : r.in \in BOOLEAN /\ r.qty \in Nat
BY DEF Row, Gone

LEMMA SomeRowsType ==
  /\ \A S \in SUBSET Lines : \A f \in [S -> Row] : f \in SomeRows
  /\ \A f \in SomeRows : DOMAIN f \subseteq Lines /\ f \in [DOMAIN f -> Row]
BY DEF SomeRows

LEMMA NoPlanType == NoPlan \in Plan /\ NoMoves \in Goods
<1>1. NoPlan.lines \in [{} -> Row]
  BY RowType DEF NoPlan
<1>2. NoPlan.lines \in SomeRows
  BY <1>1, SomeRowsType
<1>3. NoPlan = [lines |-> NoPlan.lines, insert |-> {}, status |-> "same"]
  BY DEF NoPlan
<1>4. NoPlan \in Plan
  BY <1>2, <1>3 DEF Plan
<1> QED
  BY <1>4 DEF NoMoves, Goods

-----------------------------------------------------------------------------
(* Types, control and the order of the locks. *)

LEMMA InitBooks == Init => Books
<1> SUFFICES ASSUME Init PROVE Books
  OBVIOUS
<1>1. line \in Rows
  <2>1. \A l \in Lines : line[l] \in Row
    BY SaleAssumption DEF Init, SaleAssumption, Row, Gone
  <2> QED
    BY <2>1 DEF Init, Rows
<1>2. out \in Goods
  <2>1. \A l \in Lines : line[l].qty \in Nat
    BY <1>1, RowType DEF Rows
  <2>2. \A l \in Lines, v \in Variants : line[l].qty * Recipe[l][v] \in Int
    BY <2>1, RecipeType
  <2> QED
    BY <2>2 DEF Init, Goods
<1>3. req \in [Txs -> Request]
  <2>1. (CHOOSE l \in Lines : TRUE) \in Lines
    BY SaleAssumption DEF SaleAssumption
  <2>2. <<>> \in Seq([variant : Variants, qty : Nat])
    OBVIOUS
  <2> QED
    BY <2>1, <2>2 DEF Init, Request, Ops
<1>4. seen \in [Txs -> Rows] /\ plan \in [Txs -> Plan] /\ moved \in [Txs -> Goods]
  BY RowType, NoPlanType DEF Init, Rows
<1>5. Types
  BY <1>1, <1>2, <1>3, <1>4 DEF Init, Types, Labels
<1>6. \A t \in Txs : TxOK(t)
  BY DEF Init, TxOK, Control, Serial, Exact
<1> QED
  BY <1>5, <1>6 DEF Books

\* A step of t keeps what is true of the others: it takes no lock from them, and changes
\* the sale only under the lock of the header.
LEMMA StepOf ==
  ASSUME Books, NEW t \in Txs, Types', TxOK(t)',
         \A u \in Txs \ {t} :
           /\ pc'[u] = pc[u] /\ req'[u] = req[u] /\ seen'[u] = seen[u]
           /\ plan'[u] = plan[u] /\ moved'[u] = moved[u]
           /\ lock[Header] = u => lock'[Header] = u,
         lock[Header] = t \/ UNCHANGED <<status, line, parts>>
  PROVE  Books'
<1>1. ASSUME NEW u \in Txs \ {t} PROVE TxOK(u)'
  <2>1. Control(u) /\ Serial(u) /\ Exact(u)
    BY DEF Books, TxOK
  <2>2. Control(u)'
    BY <2>1 DEF Control
  <2>3. Serial(u)'
    BY <2>1 DEF Serial
  <2>4. Exact(u)'
    <3>1. CASE lock[Header] = u
      <4>1. status' = status /\ line' = line /\ parts' = parts
        BY <3>1
      <4>2. pc'[u] = pc[u] /\ req'[u] = req[u] /\ seen'[u] = seen[u]
            /\ plan'[u] = plan[u] /\ moved'[u] = moved[u]
        OBVIOUS
      <4> QED
        BY <2>1, <4>1, <4>2 DEF Exact
    <3>2. CASE lock[Header] # u
      BY <2>1, <3>2 DEF Serial, Exact
    <3> QED
      BY <3>1, <3>2
  <2> QED
    BY <2>2, <2>3, <2>4 DEF TxOK
<1> QED
  BY <1>1 DEF Books

LEMMA HeaderIsKey == Header \in Keys /\ Lines \subseteq Keys /\ NoTx \notin Txs
BY SaleAssumption DEF SaleAssumption, Keys

LEMMA ReleaseKeeps ==
  ASSUME Types, NEW t \in Txs, Release(t)
  PROVE  /\ lock' \in [Keys -> Txs \cup {NoTx}]
         /\ \A u \in Txs \ {t} : lock[Header] = u => lock'[Header] = u
BY HeaderIsKey DEF Types, Release

LEMMA TakeKeeps ==
  ASSUME Types, NEW t \in Txs, NEW K, Take(t, K), \A k \in K : Free(t, k)
  PROVE  /\ lock' \in [Keys -> Txs \cup {NoTx}]
         /\ \A u \in Txs \ {t} : lock[Header] = u => lock'[Header] = u
         /\ lock[Header] = t \/ Header \in K => lock'[Header] = t
BY HeaderIsKey DEF Types, Take, Free

LEMMA AbortStep ==
  ASSUME Books, NEW t \in Txs, pc[t] # "idle", Abort(t), UNCHANGED overlapped
  PROVE  Books'
<1>1. /\ pc' = [pc EXCEPT ![t] = "aborted"] /\ Release(t)
      /\ plan' = [plan EXCEPT ![t] = NoPlan] /\ moved' = [moved EXCEPT ![t] = NoMoves]
      /\ UNCHANGED <<status, line, parts, returned, out, req, seen, overlapped>>
  BY DEF Abort, Goto, stored
<1>2. Types /\ Control(t)
  BY DEF Books, TxOK
<1>3. Types'
  BY <1>1, <1>2, ReleaseKeeps, NoPlanType DEF Types, Labels
<1>4. TxOK(t)'
  BY <1>1, <1>2 DEF Types, TxOK, Control, Serial, Exact
<1>5. \A u \in Txs \ {t} : /\ pc'[u] = pc[u] /\ plan'[u] = plan[u] /\ moved'[u] = moved[u]
                           /\ lock[Header] = u => lock'[Header] = u
  BY <1>1, <1>2, ReleaseKeeps DEF Types
<1> QED
  BY <1>1, <1>3, <1>4, <1>5, StepOf

LEMMA BeginStep ==
  ASSUME Books, NEW t \in Txs, Begin(t)
  PROVE  Books'
<1>1. PICK q \in Requests : req' = [req EXCEPT ![t] = q]
  BY DEF Begin
<1>2. /\ pc' = [pc EXCEPT ![t] = "start"] /\ pc[t] = "idle" /\ overlapped' \in BOOLEAN
      /\ UNCHANGED <<status, line, parts, returned, out, lock, seen, plan, moved>>
  BY DEF Begin, Goto, stored, Books, Types
<1>3. Types /\ Control(t) /\ q \in Request
  BY SaleAssumption DEF Books, TxOK, SaleAssumption
<1>4. Types'
  BY <1>1, <1>2, <1>3 DEF Types, Labels
<1>5. TxOK(t)'
  BY <1>1, <1>2, <1>3 DEF Types, TxOK, Control, Serial, Exact
<1>6. \A u \in Txs \ {t} : pc'[u] = pc[u] /\ req'[u] = req[u]
  BY <1>1, <1>2, <1>3 DEF Types
<1> QED
  BY <1>2, <1>4, <1>5, <1>6, StepOf

LEMMA ReadSaleStep ==
  ASSUME Books, NEW t \in Txs, ReadSale(t), UNCHANGED overlapped
  PROVE  Books'
<1>1. CASE status = "CANCELLED"
  BY <1>1, AbortStep DEF ReadSale, At
<1>2. CASE status # "CANCELLED"
  <2>1. /\ pc[t] = "start" /\ req[t].op \in {"CANCEL", "UPDATE", "ADD", "REMOVE", "META"}
        /\ seen' = [seen EXCEPT ![t] = line]
        /\ UNCHANGED <<status, line, parts, returned, out, lock, req, plan, moved>>
    BY <1>2 DEF ReadSale, At, stored
  <2>2. PICK to \in {"reload", "move", "read"} : pc' = [pc EXCEPT ![t] = to]
                 /\ (to = "reload" => req[t].op = "META")
                 /\ (to = "read" => req[t].op \in {"UPDATE", "REMOVE"})
    BY <1>2, <2>1 DEF ReadSale, At, Goto
  <2>3. Types /\ Control(t)
    BY DEF Books, TxOK
  <2>4. Types'
    BY <2>1, <2>2, <2>3 DEF Types, Labels
  <2>5. TxOK(t)'
    BY <2>1, <2>2, <2>3 DEF Types, TxOK, Control, Serial, Exact, Returns
  <2>6. \A u \in Txs \ {t} : pc'[u] = pc[u] /\ seen'[u] = seen[u]
    BY <2>1, <2>2, <2>3 DEF Types
  <2> QED
    BY <2>1, <2>4, <2>5, <2>6, StepOf
<1> QED
  BY <1>1, <1>2

LEMMA LockSaleStep ==
  ASSUME Books, NEW t \in Txs, LockSale(t), UNCHANGED overlapped
  PROVE  Books'
<1>1. CASE status = "CANCELLED"
  BY <1>1, AbortStep DEF LockSale, At
<1>2. CASE status # "CANCELLED"
  <2>1. /\ pc[t] = "start" /\ req[t].op \in Returns /\ pc' = [pc EXCEPT ![t] = "lockLines"]
        /\ Free(t, Header) /\ Take(t, {Header})
        /\ UNCHANGED <<status, line, parts, returned, out, req, seen, plan, moved>>
    BY <1>2 DEF LockSale, At, Goto, stored, Returns
  <2>2. Types /\ Control(t)
    BY DEF Books, TxOK
  <2>3. /\ lock' \in [Keys -> Txs \cup {NoTx}] /\ lock'[Header] = t
        /\ \A u \in Txs \ {t} : lock[Header] = u => lock'[Header] = u
    BY <2>1, <2>2, TakeKeeps
  <2>4. Types'
    BY <2>1, <2>2, <2>3 DEF Types, Labels
  <2>5. status = "CONFIRMED"
    BY <1>2, <2>2 DEF Types
  <2>6. TxOK(t)'
    BY <2>1, <2>2, <2>3, <2>5 DEF Types, TxOK, Control, Serial, Exact, Returns
  <2>7. \A u \in Txs \ {t} : pc'[u] = pc[u]
    BY <2>1, <2>2 DEF Types
  <2> QED
    BY <2>1, <2>3, <2>4, <2>6, <2>7, StepOf
<1> QED
  BY <1>1, <1>2

LEMMA LockLinesStep ==
  ASSUME Books, NEW t \in Txs, LockLines(t), UNCHANGED overlapped
  PROVE  Books'
<1>1. PICK K \in SUBSET Lines : Take(t, K) /\ \A k \in K : Free(t, k)
  BY DEF LockLines
<1>2. /\ pc[t] = "lockLines" /\ pc' = [pc EXCEPT ![t] = "move"]
      /\ seen' = [seen EXCEPT ![t] = line]
      /\ UNCHANGED <<status, line, parts, returned, out, req, plan, moved>>
  BY DEF LockLines, Goto, stored
<1>3. Types /\ Control(t) /\ Serial(t) /\ Exact(t)
  BY DEF Books, TxOK
<1>4. /\ lock' \in [Keys -> Txs \cup {NoTx}] /\ lock'[Header] = t
      /\ \A u \in Txs \ {t} : lock[Header] = u => lock'[Header] = u
  BY <1>1, <1>2, <1>3, TakeKeeps DEF Serial
<1>5. Types'
  BY <1>2, <1>3, <1>4 DEF Types, Labels
<1>6. TxOK(t)'
  BY <1>2, <1>3, <1>4 DEF Types, TxOK, Control, Serial, Exact, Returns
<1>7. \A u \in Txs \ {t} : pc'[u] = pc[u] /\ seen'[u] = seen[u]
  BY <1>2, <1>3 DEF Types
<1> QED
  BY <1>2, <1>4, <1>5, <1>6, <1>7, StepOf

LEMMA ReadLineStep ==
  ASSUME Books, NEW t \in Txs, ReadLine(t), UNCHANGED overlapped
  PROVE  Books'
<1>1. CASE ~line[req[t].line].in
  BY <1>1, AbortStep DEF ReadLine
<1>2. CASE line[req[t].line].in
  <2> DEFINE l == req[t].line
  <2>1. /\ pc[t] = "read" /\ pc' = [pc EXCEPT ![t] = "move"]
        /\ seen' = [seen EXCEPT ![t][l] = line[l]]
        /\ UNCHANGED <<status, line, parts, returned, out, lock, req, plan, moved>>
    BY <1>2 DEF ReadLine, Goto, stored
  <2>2. Types /\ Control(t) /\ l \in Lines
    BY RequestTypes DEF Books, TxOK, Types
  <2>3. seen' \in [Txs -> Rows]
    BY <2>1, <2>2 DEF Types, Rows
  <2>4. Types'
    BY <2>1, <2>2, <2>3 DEF Types, Labels
  <2>5. TxOK(t)'
    BY <2>1, <2>2 DEF Types, TxOK, Control, Serial, Exact, Returns
  <2>6. \A u \in Txs \ {t} : pc'[u] = pc[u] /\ seen'[u] = seen[u]
    BY <2>1, <2>2 DEF Types
  <2> QED
    BY <2>1, <2>4, <2>5, <2>6, StepOf
<1> QED
  BY <1>1, <1>2

\* What a transaction has in memory.
LEMMA Memory ==
  ASSUME Books, NEW t \in Txs
  PROVE  /\ req[t].op \in Ops /\ req[t].line \in Lines /\ req[t].qty \in Nat
         /\ seen[t] \in Rows /\ plan[t] \in Plan /\ moved[t] \in Goods
         /\ \A l \in Lines : /\ seen[t][l] \in Row /\ seen[t][l].qty \in Nat
                             /\ seen[t][l].in \in BOOLEAN
<1>1. req[t] \in Request /\ seen[t] \in Rows /\ plan[t] \in Plan /\ moved[t] \in Goods
  BY DEF Books, Types
<1>2. \A l \in Lines : seen[t][l] \in Row
  BY <1>1 DEF Rows
<1> QED
  BY <1>1, <1>2, RequestTypes, RowType

\* Recording a movement and planning a row keep the types.
LEMMA RecordTypes ==
  ASSUME Books, NEW t \in Txs, NEW l \in Lines, NEW f \in [Variants -> Int], Record(t, l, f)
  PROVE  /\ moved' \in [Txs -> Goods] /\ moved'[t] = [moved[t] EXCEPT ![l] = f]
         /\ \A u \in Txs \ {t} : moved'[u] = moved[u]
<1>1. moved \in [Txs -> Goods]
  BY DEF Books, Types
<1>2. moved' = [moved EXCEPT ![t] = [moved[t] EXCEPT ![l] = f]]
  BY <1>1 DEF Record
<1>3. [moved[t] EXCEPT ![l] = f] \in Goods
  BY <1>1 DEF Goods
<1> QED
  BY <1>1, <1>2, <1>3

LEMMA WillTypes ==
  ASSUME Books, NEW t \in Txs, NEW l \in Lines, NEW r \in Row, Will(t, l, r)
  PROVE  /\ plan' \in [Txs -> Plan]
         /\ plan'[t].lines = [k \in {l} |-> r] /\ plan'[t].status = plan[t].status
         /\ \A u \in Txs \ {t} : plan'[u] = plan[u]
<1>1. plan \in [Txs -> Plan] /\ plan[t] \in Plan
  BY DEF Books, Types
<1> DEFINE rows == [k \in {l} |-> r]
<1>2. rows \in [{l} -> Row] /\ {l} \in SUBSET Lines
  OBVIOUS
<1>3. rows \in SomeRows
  BY <1>2, SomeRowsType
<1>4. plan' = [plan EXCEPT ![t] = [plan[t] EXCEPT !.lines = rows]]
  BY <1>1 DEF Will
<1> HIDE DEF rows
<1>5. /\ [plan[t] EXCEPT !.lines = rows] \in Plan
      /\ [plan[t] EXCEPT !.lines = rows].lines = rows
      /\ [plan[t] EXCEPT !.lines = rows].status = plan[t].status
  BY <1>1, <1>3 DEF Plan
<1>6. plan' \in [Txs -> Plan] /\ plan'[t].lines = rows /\ plan'[t].status = plan[t].status
      /\ \A u \in Txs \ {t} : plan'[u] = plan[u]
  BY <1>1, <1>4, <1>5
<1> QED
  BY <1>6 DEF rows

LEMMA CancelMoveStep ==
  ASSUME Books, NEW t \in Txs, CancelMove(t), UNCHANGED overlapped
  PROVE  Books'
<1> DEFINE S == {l \in Lines : seen[t][l].in}
<1>1. CASE \E l \in S : Unreturnable(l, seen[t][l].qty)
  BY <1>1, AbortStep DEF CancelMove, At
<1>2. CASE ~\E l \in S : Unreturnable(l, seen[t][l].qty)
  <2> DEFINE m == [l \in Lines |-> IF l \in S THEN Back(Restore(l, seen[t][l].qty))
                                              ELSE moved[t][l]]
  <2>1. Types /\ Control(t) /\ moved[t] \in Goods
    BY DEF Books, TxOK, Types
  <2>2. /\ pc[t] = "move" /\ req[t].op = "CANCEL" /\ pc' = [pc EXCEPT ![t] = "reload"]
        /\ moved' = [moved EXCEPT ![t] = m]
        /\ UNCHANGED <<status, line, parts, returned, out, lock, req, seen, plan>>
    BY <1>2, <2>1 DEF CancelMove, At, Goto, stored, Types
  <2>3. m \in Goods
    <3>1. \A l \in Lines : m[l] \in [Variants -> Int]
      BY <2>1, Memory, RestoreType DEF Goods
    <3> QED
      BY <3>1 DEF Goods
  <2> HIDE DEF m, S
  <2>4. Types'
    BY <2>1, <2>2, <2>3 DEF Types, Labels
  <2>5. TxOK(t)'
    BY <2>1, <2>2 DEF Types, TxOK, Control, Serial, Exact, Returns
  <2>6. \A u \in Txs \ {t} : pc'[u] = pc[u] /\ moved'[u] = moved[u]
    BY <2>1, <2>2 DEF Types
  <2> QED
    BY <2>2, <2>4, <2>5, <2>6, StepOf
<1> QED
  BY <1>1, <1>2

LEMMA UpdateMoveStep ==
  ASSUME Books, NEW t \in Txs, UpdateMove(t), UNCHANGED overlapped
  PROVE  Books'
<1> DEFINE l == req[t].line
           f == Units(l, req[t].qty - seen[t][l].qty)
<1>1. CASE req[t].qty < seen[t][l].qty /\ l \in returned
  BY <1>1, AbortStep DEF UpdateMove, At
<1>2. CASE ~(req[t].qty < seen[t][l].qty /\ l \in returned)
  <2>1. /\ pc[t] = "move" /\ req[t].op = "UPDATE" /\ pc' = [pc EXCEPT ![t] = "reloadLine"]
        /\ Record(t, l, f)
        /\ UNCHANGED <<status, line, parts, returned, out, lock, req, seen, plan>>
    BY <1>2 DEF UpdateMove, At, Goto, stored
  <2>2. Types /\ Control(t) /\ l \in Lines /\ f \in [Variants -> Int]
    BY Memory, UnitsType DEF Books, TxOK
  <2> HIDE DEF f
  <2>3. moved' \in [Txs -> Goods] /\ \A u \in Txs \ {t} : moved'[u] = moved[u]
    BY <2>1, <2>2, RecordTypes
  <2>4. Types'
    BY <2>1, <2>2, <2>3 DEF Types, Labels
  <2>5. TxOK(t)'
    BY <2>1, <2>2 DEF Types, TxOK, Control, Serial, Exact, Returns
  <2>6. \A u \in Txs \ {t} : pc'[u] = pc[u]
    BY <2>1, <2>2 DEF Types
  <2> QED
    BY <2>1, <2>3, <2>4, <2>5, <2>6, StepOf
<1> QED
  BY <1>1, <1>2

LEMMA AddMoveStep ==
  ASSUME Books, NEW t \in Txs, AddMove(t), UNCHANGED overlapped
  PROVE  Books'
<1> DEFINE l == req[t].line
           f == Units(l, req[t].qty)
           r == [in |-> TRUE, qty |-> req[t].qty]
<1>1. /\ pc[t] = "move" /\ req[t].op = "ADD" /\ pc' = [pc EXCEPT ![t] = "reload"]
      /\ Record(t, l, f) /\ Will(t, l, r)
      /\ UNCHANGED <<status, line, parts, returned, out, lock, req, seen>>
  BY DEF AddMove, At, Goto, stored
<1>2. Types /\ Control(t) /\ l \in Lines /\ f \in [Variants -> Int] /\ r \in Row
  BY Memory, UnitsType DEF Books, TxOK, Row
<1> HIDE DEF f, r
<1>3. moved' \in [Txs -> Goods] /\ \A u \in Txs \ {t} : moved'[u] = moved[u]
  BY <1>1, <1>2, RecordTypes
<1>4. plan' \in [Txs -> Plan] /\ \A u \in Txs \ {t} : plan'[u] = plan[u]
  BY <1>1, <1>2, WillTypes
<1>5. Types'
  BY <1>1, <1>2, <1>3, <1>4 DEF Types, Labels
<1>6. TxOK(t)'
  BY <1>1, <1>2 DEF Types, TxOK, Control, Serial, Exact, Returns
<1>7. \A u \in Txs \ {t} : pc'[u] = pc[u]
  BY <1>1, <1>2 DEF Types
<1> QED
  BY <1>1, <1>3, <1>4, <1>5, <1>6, <1>7, StepOf

LEMMA RemoveMoveStep ==
  ASSUME Books, NEW t \in Txs, RemoveMove(t), UNCHANGED overlapped
  PROVE  Books'
<1> DEFINE l == req[t].line
           f == Back(Restore(l, seen[t][l].qty))
<1>1. pc[t] = "move"
  BY DEF RemoveMove, At
<1>2. CASE Abort(t)
  BY <1>1, <1>2, AbortStep
<1>3. CASE ~Abort(t)
  <2>1. /\ pc[t] = "move" /\ req[t].op = "REMOVE" /\ pc' = [pc EXCEPT ![t] = "writeLine"]
        /\ Record(t, l, f) /\ Will(t, l, Gone)
        /\ UNCHANGED <<status, line, parts, returned, out, lock, req, seen>>
    BY <1>3 DEF RemoveMove, At, Goto, stored
  <2>2. Types /\ Control(t) /\ l \in Lines /\ f \in [Variants -> Int] /\ Gone \in Row
    BY Memory, RestoreType, RowType DEF Books, TxOK
  <2> HIDE DEF f
  <2>3. moved' \in [Txs -> Goods] /\ \A u \in Txs \ {t} : moved'[u] = moved[u]
    BY <2>1, <2>2, RecordTypes
  <2>4. plan' \in [Txs -> Plan] /\ \A u \in Txs \ {t} : plan'[u] = plan[u]
    BY <2>1, <2>2, WillTypes
  <2>5. Types'
    BY <2>1, <2>2, <2>3, <2>4 DEF Types, Labels
  <2>6. TxOK(t)'
    BY <2>1, <2>2 DEF Types, TxOK, Control, Serial, Exact, Returns
  <2>7. \A u \in Txs \ {t} : pc'[u] = pc[u]
    BY <2>1, <2>2 DEF Types
  <2> QED
    BY <2>1, <2>3, <2>4, <2>5, <2>6, <2>7, StepOf
<1> QED
  BY <1>2, <1>3

LEMMA ReturnMoveStep ==
  ASSUME Books, NEW t \in Txs, ReturnMove(t), UNCHANGED overlapped
  PROVE  Books'
<1>1. PICK q \in Request, l \in Lines, n \in Nat, x \in Row :
        q = req[t] /\ l = q.line /\ n = q.qty /\ x = seen[t][l]
  BY Memory DEF Books, Types
<1>2. CASE ~(x.in /\ n <= x.qty)
  BY <1>1, <1>2, AbortStep DEF ReturnMove, At
<1>3. CASE x.in /\ n <= x.qty
  <2> DEFINE f == Back(Units(l, n))
             r == [x EXCEPT !.qty = @ - n]
  <2>1. Types /\ Control(t) /\ Serial(t) /\ Exact(t) /\ f \in [Variants -> Int]
    BY UnitsType DEF Books, TxOK
  <2>2. r \in Row /\ r.qty = x.qty - n
    <3>1. x.qty - n \in Nat
      BY <1>3, RowType
    <3> QED
      BY <3>1 DEF Row
  <2>3. /\ pc[t] = "move" /\ q.op = "RETURN" /\ pc' = [pc EXCEPT ![t] = "commit"]
        /\ Record(t, l, f) /\ Will(t, l, r)
        /\ UNCHANGED <<status, line, parts, returned, out, lock, req, seen>>
    BY <1>1, <1>3 DEF ReturnMove, At, Goto, stored
  <2>5. moved[t] = NoMoves /\ plan[t].status = "same"
    BY <2>1, <2>3 DEF Control, NoPlan
  <2> HIDE DEF f, r
  <2>6. moved' \in [Txs -> Goods] /\ \A u \in Txs \ {t} : moved'[u] = moved[u]
    BY <2>1, <2>3, RecordTypes
  <2>7. /\ plan' \in [Txs -> Plan] /\ \A u \in Txs \ {t} : plan'[u] = plan[u]
        /\ plan'[t].lines = [k \in {l} |-> r] /\ plan'[t].status = "same"
    BY <2>1, <2>2, <2>3, <2>5, WillTypes
  <2>8. Types'
    BY <2>1, <2>3, <2>6, <2>7 DEF Types, Labels
  <2>9. lock'[Header] = t /\ seen'[t] = line' /\ status' = "CONFIRMED"
    BY <1>1, <2>1, <2>3 DEF Serial, Exact, Returns
  <2>10. pc'[t] = "commit" /\ req'[t] = q /\ seen'[t][l] = x
    BY <1>1, <2>1, <2>3 DEF Types
  <2>11. Control(t)'
    BY <1>1, <2>1, <2>3, <2>10 DEF Control
  <2>12. Exact(t)'
    <3>1. l \in DOMAIN plan'[t].lines /\ plan'[t].lines[l].qty = x.qty - n
      BY <2>2, <2>7
    <3> QED
      BY <1>1, <2>3, <2>7, <2>9, <2>10, <3>1 DEF Exact
  <2>13. TxOK(t)'
    BY <2>9, <2>11, <2>12 DEF TxOK, Serial
  <2>14. \A u \in Txs \ {t} : pc'[u] = pc[u]
    BY <2>1, <2>3 DEF Types
  <2> QED
    BY <2>3, <2>6, <2>7, <2>8, <2>13, <2>14, StepOf
<1> QED
  BY <1>2, <1>3

LEMMA PartsMoveStep ==
  ASSUME Books, NamedOnce, NEW t \in Txs, PartsMove(t), UNCHANGED overlapped
  PROVE  Books'
<1>1. PICK q \in Request, l \in Lines, x \in Row :
        q = req[t] /\ l = q.line /\ x = seen[t][l]
  BY Memory DEF Books, Types
<1>2. pc[t] = "move" /\ q.op = "PARTS"
  BY <1>1 DEF PartsMove, At
<1>3. CASE Abort(t)
  BY <1>2, <1>3, AbortStep
<1>4. CASE ~Abort(t)
  <2> DEFINE f == [v \in Variants |-> -PartSum(q, v)]
  <2>1. Types /\ Control(t) /\ Serial(t) /\ Exact(t) /\ q \in Requests
    BY <1>1, <1>2 DEF Books, TxOK, Control
  <2>2. /\ pc' = [pc EXCEPT ![t] = "commit"] /\ Record(t, l, f) /\ x.in
        /\ \A i \in DOMAIN q.parts :
             q.parts[i].qty <= x.qty * Recipe[l][q.parts[i].variant]
                               - parts[l][q.parts[i].variant]
        /\ UNCHANGED <<status, line, parts, returned, out, lock, req, seen, plan>>
    BY <1>1, <1>4 DEF PartsMove, Goto, stored
  <2>3. \A v \in Variants : PartSum(q, v) \in Nat
    BY <2>1, PartSumIsPart
  <2>4. f \in [Variants -> Int]
    BY <2>3
  <2>5. DOMAIN plan[t].lines = {} /\ plan[t].status = "same"
    BY <1>2, <2>1 DEF Control, NoPlan
  <2>6. moved' \in [Txs -> Goods] /\ \A u \in Txs \ {t} : moved'[u] = moved[u]
    <3> HIDE DEF f
    <3> QED
      BY <2>1, <2>2, <2>4, RecordTypes
  <2>7. ASSUME NEW v \in Variants, PartSum(q, v) # 0
        PROVE  parts[l][v] + PartSum(q, v) <= x.qty * Recipe[l][v]
    <3>1. PICK i \in DOMAIN q.parts : q.parts[i].variant = v /\ PartSum(q, v) = q.parts[i].qty
      BY <2>1, <2>7, PartSumIsPart
    <3> DEFINE whole == x.qty * Recipe[l][v]
    <3>2. PartSum(q, v) <= whole - parts[l][v]
      BY <2>2, <3>1
    <3>3. whole \in Int /\ parts[l][v] \in Int /\ PartSum(q, v) \in Int
      BY <2>1, <2>3, RowType, RecipeType DEF Types
    <3> HIDE DEF whole
    <3>4. parts[l][v] + PartSum(q, v) <= whole
      BY <3>2, <3>3
    <3> QED
      BY <3>4 DEF whole
  <2>8. Types'
    BY <2>1, <2>2, <2>6 DEF Types, Labels
  <2>9. lock'[Header] = t /\ seen'[t] = line' /\ status' = "CONFIRMED"
    BY <1>1, <1>2, <2>1, <2>2 DEF Serial, Exact, Returns
  <2>10. pc'[t] = "commit" /\ req'[t] = q /\ seen'[t][l] = x /\ plan'[t] = plan[t]
         /\ parts' = parts
    BY <1>1, <2>1, <2>2 DEF Types
  <2>11. Control(t)'
    BY <1>1, <2>1, <2>10 DEF Control
  <2>12. Exact(t)'
    BY <1>1, <1>2, <2>5, <2>7, <2>9, <2>10 DEF Exact
  <2>13. TxOK(t)'
    BY <2>9, <2>11, <2>12 DEF TxOK, Serial
  <2>14. \A u \in Txs \ {t} : pc'[u] = pc[u]
    BY <2>1, <2>2 DEF Types
  <2> QED
    BY <2>2, <2>6, <2>8, <2>13, <2>14, StepOf
<1> QED
  BY <1>3, <1>4

LEMMA ReloadLineStep ==
  ASSUME Books, NEW t \in Txs, ReloadLine(t), UNCHANGED overlapped
  PROVE  Books'
<1> DEFINE l == req[t].line
           r == [in |-> TRUE, qty |-> req[t].qty]
<1>1. Types /\ Control(t) /\ l \in Lines /\ r \in Row
  BY Memory DEF Books, TxOK, Row
<1> HIDE DEF r
<1>2. /\ pc[t] = "reloadLine" /\ req[t].op = "UPDATE"
      /\ UNCHANGED <<status, line, parts, returned, out, lock, req, seen, moved>>
  BY <1>1 DEF ReloadLine, stored, Control
<1>3. /\ plan' \in [Txs -> Plan] /\ \A u \in Txs \ {t} : plan'[u] = plan[u]
  BY <1>1, WillTypes DEF ReloadLine, Types, r
<1>4. PICK to \in {"writeLine", "reload"} : pc' = [pc EXCEPT ![t] = to]
  BY DEF ReloadLine, Goto
<1>5. Types'
  BY <1>1, <1>2, <1>3, <1>4 DEF Types, Labels
<1>6. TxOK(t)'
  BY <1>1, <1>2, <1>4 DEF Types, TxOK, Control, Serial, Exact, Returns
<1>7. \A u \in Txs \ {t} : pc'[u] = pc[u]
  BY <1>1, <1>4 DEF Types
<1> QED
  BY <1>2, <1>3, <1>5, <1>6, <1>7, StepOf

LEMMA WriteLineStep ==
  ASSUME Books, NEW t \in Txs, WriteLine(t), UNCHANGED overlapped
  PROVE  Books'
<1> DEFINE l == req[t].line
<1>1. pc[t] = "writeLine"
  BY DEF WriteLine
<1>2. CASE Abort(t)
  BY <1>1, <1>2, AbortStep
<1>3. CASE ~Abort(t)
  <2>1. Types /\ Control(t) /\ req[t].op \in {"UPDATE", "REMOVE"}
    BY <1>1 DEF Books, TxOK, Control
  <2>2. /\ pc' = [pc EXCEPT ![t] = "reload"] /\ Take(t, {l}) /\ Free(t, l)
        /\ plan' = plan \/ plan' = [plan EXCEPT ![t] = NoPlan]
        /\ UNCHANGED <<status, line, parts, returned, out, req, seen, moved>>
    BY <1>3 DEF WriteLine, Goto, stored
  <2>3. /\ lock' \in [Keys -> Txs \cup {NoTx}]
        /\ \A u \in Txs \ {t} : lock[Header] = u => lock'[Header] = u
    BY <2>1, <2>2, TakeKeeps
  <2>4. plan' \in [Txs -> Plan] /\ \A u \in Txs \ {t} : plan'[u] = plan[u]
    BY <2>1, <2>2, NoPlanType DEF Types
  <2>5. Types'
    BY <2>1, <2>2, <2>3, <2>4 DEF Types, Labels
  <2>6. TxOK(t)'
    BY <1>1, <2>1, <2>2 DEF Types, TxOK, Control, Serial, Exact, Returns
  <2>7. \A u \in Txs \ {t} : pc'[u] = pc[u]
    BY <2>1, <2>2 DEF Types
  <2> QED
    BY <2>2, <2>3, <2>4, <2>5, <2>6, <2>7, StepOf
<1> QED
  BY <1>2, <1>3

LEMMA ReloadSaleStep ==
  ASSUME Books, NEW t \in Txs, ReloadSale(t), UNCHANGED overlapped
  PROVE  Books'
<1> DEFINE differ == {l \in Lines : line[l] # seen[t][l]}
           rows == [l \in differ |-> seen[t][l]]
<1>1. Types /\ Control(t) /\ plan[t] \in Plan /\ rows \in SomeRows
  <2>1. rows \in [differ -> Row] /\ differ \in SUBSET Lines
    BY Memory
  <2> QED
    BY <2>1, Memory, SomeRowsType DEF Books, TxOK
<1> HIDE DEF rows
<1>2. PICK s \in {"same", "CONFIRMED", "CANCELLED"}, ls \in SomeRows, ins \in SUBSET Lines :
        plan' = [plan EXCEPT ![t].status = s, ![t].lines = ls, ![t].insert = ins]
  <2> DEFINE s == IF status = (IF req[t].op = "CANCEL" THEN "CANCELLED" ELSE "CONFIRMED")
                  THEN "same" ELSE (IF req[t].op = "CANCEL" THEN "CANCELLED" ELSE "CONFIRMED")
             ls == IF req[t].op = "CANCEL" THEN rows ELSE plan[t].lines
             ins == IF req[t].op = "CANCEL" THEN {l \in differ : ~line[l].in} ELSE plan[t].insert
  <2>1. s \in {"same", "CONFIRMED", "CANCELLED"} /\ ls \in SomeRows /\ ins \in SUBSET Lines
    BY <1>1 DEF Plan
  <2>2. plan' = [plan EXCEPT ![t].status = s, ![t].lines = ls, ![t].insert = ins]
    BY <1>1 DEF ReloadSale, Types, Plan, rows
  <2> QED
    BY <2>1, <2>2
<1>3. /\ pc[t] = "reload" /\ pc' = [pc EXCEPT ![t] = "writeSale"]
      /\ UNCHANGED <<status, line, parts, returned, out, lock, req, seen, moved>>
  BY DEF ReloadSale, Goto, stored
<1>4. plan' \in [Txs -> Plan] /\ \A u \in Txs \ {t} : plan'[u] = plan[u]
  BY <1>1, <1>2 DEF Types, Plan
<1>5. Types'
  BY <1>1, <1>3, <1>4 DEF Types, Labels
<1>6. TxOK(t)'
  BY <1>1, <1>3 DEF Types, TxOK, Control, Serial, Exact, Returns
<1>7. \A u \in Txs \ {t} : pc'[u] = pc[u]
  BY <1>1, <1>3 DEF Types
<1> QED
  BY <1>3, <1>4, <1>5, <1>6, <1>7, StepOf

LEMMA WriteSaleStep ==
  ASSUME Books, NEW t \in Txs, WriteSale(t), UNCHANGED overlapped
  PROVE  Books'
<1> DEFINE found == {l \in DOMAIN plan[t].lines :
                       req[t].op # "CANCEL" \/ line[l].in \/ l \in plan[t].insert}
           rows == Restrict(plan[t].lines, found)
<1>1. Types /\ Control(t) /\ plan[t] \in Plan
  BY Memory DEF Books, TxOK
<1>2. rows \in SomeRows
  <2>1. DOMAIN plan[t].lines \subseteq Lines /\ plan[t].lines \in [DOMAIN plan[t].lines -> Row]
    BY <1>1, SomeRowsType DEF Plan
  <2>2. rows \in [found -> Row] /\ found \in SUBSET Lines
    BY <2>1 DEF Restrict
  <2> QED
    BY <2>2, SomeRowsType
<1>3. plan' = [plan EXCEPT ![t].lines = rows]
  BY <1>1 DEF WriteSale, Types
<1> HIDE DEF rows, found
<1>4. /\ pc[t] = "writeSale" /\ pc' = [pc EXCEPT ![t] = "commit"]
      /\ Take(t, SaleKeys(t)) /\ (\A k \in SaleKeys(t) : Free(t, k)) /\ Header \in SaleKeys(t)
      /\ UNCHANGED <<status, line, parts, returned, out, req, seen, moved>>
  BY DEF WriteSale, Goto, stored, SaleKeys
<1>5. plan' \in [Txs -> Plan] /\ \A u \in Txs \ {t} : plan'[u] = plan[u]
  BY <1>1, <1>2, <1>3 DEF Types, Plan
<1>6. /\ lock' \in [Keys -> Txs \cup {NoTx}] /\ lock'[Header] = t
      /\ \A u \in Txs \ {t} : lock[Header] = u => lock'[Header] = u
  BY <1>1, <1>4, TakeKeeps
<1>7. Types'
  BY <1>1, <1>4, <1>5, <1>6 DEF Types, Labels
<1>8. TxOK(t)'
  BY <1>1, <1>4, <1>6 DEF Types, TxOK, Control, Serial, Exact, Returns
<1>9. \A u \in Txs \ {t} : pc'[u] = pc[u]
  BY <1>1, <1>4 DEF Types
<1> QED
  BY <1>4, <1>5, <1>6, <1>7, <1>8, <1>9, StepOf

LEMMA CommitStep ==
  ASSUME Books, NamedOnce, NEW t \in Txs, Commit(t), UNCHANGED overlapped
  PROVE  Books'
<1> DEFINE q == req[t]
           l == q.line
<1>1. Types /\ Control(t) /\ Serial(t) /\ plan[t] \in Plan /\ moved[t] \in Goods /\ l \in Lines
  BY Memory DEF Books, TxOK
<1>2. /\ pc[t] = "commit" /\ pc' = [pc EXCEPT ![t] = "committed"] /\ Release(t)
      /\ plan' = [plan EXCEPT ![t] = NoPlan] /\ moved' = [moved EXCEPT ![t] = NoMoves]
      /\ UNCHANGED <<req, seen>>
  BY DEF Commit, Goto
<1>3. status' \in {"CONFIRMED", "CANCELLED"}
  BY <1>1 DEF Commit, Types, Plan
<1>4. line' \in Rows
  <2>1. \A k \in Lines : k \in DOMAIN plan[t].lines => plan[t].lines[k] \in Row
    BY <1>1, SomeRowsType DEF Plan
  <2>2. \A k \in Lines : line[k] \in Row
    BY <1>1 DEF Types, Rows
  <2> QED
    BY <2>1, <2>2 DEF Commit, Rows
<1>5. parts' \in [Lines -> [Variants -> Nat]]
  <2>1. q \in Requests
    BY <1>1, <1>2 DEF Control
  <2>2. \A v \in Variants : parts[l][v] + PartSum(q, v) \in Nat
    BY <1>1, <2>1, PartSumIsPart DEF Types
  <2>3. CASE q.op = "PARTS"
    <3>1. parts' = [parts EXCEPT ![l] = [v \in Variants |-> parts[l][v] + PartSum(q, v)]]
      BY <1>1, <2>3 DEF Commit, Types
    <3> QED
      BY <1>1, <2>2, <3>1 DEF Types
  <2>4. CASE q.op # "PARTS"
    BY <1>1, <2>4 DEF Commit, Types
  <2> QED
    BY <2>3, <2>4
<1>6. out' \in Goods
  BY <1>1 DEF Commit, Types, Goods
<1>7. returned' \subseteq Lines
  BY <1>1 DEF Commit, Types
<1>8. /\ lock' \in [Keys -> Txs \cup {NoTx}] /\ lock[Header] = t
      /\ \A u \in Txs \ {t} : lock[Header] = u => lock'[Header] = u
  BY <1>1, <1>2, ReleaseKeeps DEF Serial
<1>9. Types'
  BY <1>1, <1>2, <1>3, <1>4, <1>5, <1>6, <1>7, <1>8, NoPlanType DEF Types, Labels
<1>10. TxOK(t)'
  BY <1>1, <1>2 DEF Types, TxOK, Control, Serial, Exact, Returns
<1>11. \A u \in Txs \ {t} : pc'[u] = pc[u] /\ plan'[u] = plan[u] /\ moved'[u] = moved[u]
  BY <1>1, <1>2 DEF Types
<1> QED
  BY <1>2, <1>8, <1>9, <1>10, <1>11, StepOf

\* Only a transaction that waits for a lock is in a cycle of waits.
LEMMA DeadlockStep ==
  ASSUME Books, NEW t \in Txs, DeadlockAbort(t), UNCHANGED overlapped
  PROVE  Books'
<1>1. \E u \in Txs : WaitsFor(t, u)
  BY DEF DeadlockAbort
<1>2. Needs(t) # {}
  BY <1>1 DEF WaitsFor
<1>3. pc[t] # "idle"
  BY <1>2 DEF Needs, At
<1> QED
  BY <1>3, AbortStep DEF DeadlockAbort

LEMMA BooksKept == NamedOnce /\ Books /\ [Next]_vars => Books'
<1> SUFFICES ASSUME NamedOnce, Books, [Next]_vars PROVE Books'
  OBVIOUS
<1>1. ASSUME NEW t \in Txs, Begin(t) PROVE Books'
  BY <1>1, BeginStep
<1>2. ASSUME NEW t \in Txs, Step(t) PROVE Books'
  <2>1. UNCHANGED overlapped
    BY <1>2 DEF Step
  <2>2. CASE Commit(t)
    BY <2>1, <2>2, CommitStep
  <2>3. CASE ReadSale(t) \/ LockSale(t) \/ LockLines(t) \/ ReadLine(t)
    BY <2>1, <2>3, ReadSaleStep, LockSaleStep, LockLinesStep, ReadLineStep
  <2>4. CASE CancelMove(t) \/ ReturnMove(t) \/ PartsMove(t)
    BY <2>1, <2>4, CancelMoveStep, ReturnMoveStep, PartsMoveStep
  <2>5. CASE UpdateMove(t) \/ AddMove(t) \/ RemoveMove(t)
    BY <2>1, <2>5, UpdateMoveStep, AddMoveStep, RemoveMoveStep
  <2>6. CASE ReloadLine(t) \/ WriteLine(t) \/ ReloadSale(t) \/ WriteSale(t)
    BY <2>1, <2>6, ReloadLineStep, WriteLineStep, ReloadSaleStep, WriteSaleStep
  <2>7. CASE DeadlockAbort(t)
    BY <2>1, <2>7, DeadlockStep
  <2> QED
    BY <1>2, <2>2, <2>3, <2>4, <2>5, <2>6, <2>7 DEF Step
<1>3. ASSUME NEW t \in Txs, Fail(t) PROVE Books'
  BY <1>3, AbortStep DEF Fail, Active
<1>4. CASE UNCHANGED vars
  BY <1>4 DEF vars, Books, Types, TxOK, Control, Serial, Exact
<1> QED
  BY <1>1, <1>2, <1>3, <1>4 DEF Next, Finished

LEMMA KeptOnce == (NamedOnce /\ Books) /\ [Next]_vars => (NamedOnce /\ Books)'
BY BooksKept DEF NamedOnce

-----------------------------------------------------------------------------
(* The theorems. *)

\* Every column of the sale, and everything a transaction holds in memory, keeps
\* its type: whatever overlaps, a commit writes rows, never a quantity below zero.
THEOREM SaleTypes == NamedOnce => (Spec => []TypeOK)
<1>1. Books => TypeOK
  <2> SUFFICES ASSUME Books PROVE TypeOK
    OBVIOUS
  <2>1. Types
    BY DEF Books
  <2>2. \A t \in Txs : /\ DOMAIN plan[t].lines \subseteq Lines
                       /\ plan[t].lines \in [DOMAIN plan[t].lines -> Row]
                       /\ plan[t].insert \subseteq Lines
                       /\ plan[t].status \in {"same", "CONFIRMED", "CANCELLED"}
    BY Memory, SomeRowsType DEF Plan
  <2> QED
    BY <2>1, <2>2 DEF Types, TypeOK, Labels, Rows, Goods
<1> QED
  BY <1>1, InitBooks, KeptOnce, PTL DEF Spec

\* Only its own Commit commits a transaction.
LEMMA OnlyCommit ==
  ASSUME Books, [Next]_vars, NEW t \in Txs, pc[t] = "commit", pc'[t] = "committed"
  PROVE  Commit(t)
<1>1. ASSUME NEW u \in Txs, NEW label \in Labels \ {"committed"}, pc' = [pc EXCEPT ![u] = label]
      PROVE  FALSE
  BY <1>1 DEF Books, Types
<1>2. ASSUME NEW u \in Txs, Abort(u) PROVE FALSE
  BY <1>1, <1>2 DEF Abort, Goto, Labels
<1>3. ASSUME NEW u \in Txs, Begin(u) PROVE FALSE
  BY <1>1, <1>3 DEF Begin, Goto, Labels
<1>4. ASSUME NEW u \in Txs, Fail(u) PROVE FALSE
  BY <1>2, <1>4 DEF Fail
<1>5. ASSUME NEW u \in Txs, Step(u) PROVE Commit(u)
  <2>1. CASE ReadSale(u) \/ LockSale(u) \/ LockLines(u) \/ ReadLine(u)
    BY <1>1, <1>2, <2>1 DEF ReadSale, LockSale, LockLines, ReadLine, Goto, Labels
  <2>2. CASE CancelMove(u) \/ ReturnMove(u) \/ PartsMove(u)
    BY <1>1, <1>2, <2>2 DEF CancelMove, ReturnMove, PartsMove, Goto, Labels
  <2>3. CASE UpdateMove(u) \/ AddMove(u) \/ RemoveMove(u)
    BY <1>1, <1>2, <2>3 DEF UpdateMove, AddMove, RemoveMove, Goto, Labels
  <2>4. CASE ReloadLine(u) \/ WriteLine(u) \/ ReloadSale(u) \/ WriteSale(u)
    BY <1>1, <1>2, <2>4 DEF ReloadLine, WriteLine, ReloadSale, WriteSale, Goto, Labels
  <2>5. CASE DeadlockAbort(u)
    BY <1>2, <2>5 DEF DeadlockAbort
  <2> QED
    BY <1>5, <2>1, <2>2, <2>3, <2>4, <2>5 DEF Step
<1>6. ASSUME NEW u \in Txs, Commit(u) PROVE u = t
  BY <1>6 DEF Commit, Goto, Books, Types
<1>7. pc' # pc
  OBVIOUS
<1> QED
  BY <1>3, <1>4, <1>5, <1>6, <1>7 DEF Next, Finished, vars

\* A return commits on an open sale, lowers the stored quantity by exactly what came
\* back, and takes back no package part that is not there - although the other
\* requests read the sale without a lock.  They write it under the lock of the
\* header, and a return holds that from its first statement on.
THEOREM ReturnsLockTheSale == NamedOnce => (Spec => ReturnsAreExact)
<1> DEFINE ExactAt(t) ==
      LET l == req[t].line IN
      pc[t] = "commit" /\ pc'[t] = "committed" =>
        /\ req[t].op = "RETURN" => /\ status = "CONFIRMED"
                                   /\ line'[l].qty = line[l].qty - req[t].qty
        /\ req[t].op = "PARTS" =>
             /\ status = "CONFIRMED"
             /\ \A v \in Variants : parts'[l][v] > parts[l][v] =>
                                     parts'[l][v] <= line[l].qty * Recipe[l][v]
<1>1. ASSUME Books, NamedOnce, [Next]_vars, NEW t \in Txs PROVE ExactAt(t)
  <2> SUFFICES ASSUME pc[t] = "commit", pc'[t] = "committed" PROVE ExactAt(t)
    OBVIOUS
  <2> DEFINE q == req[t]
             l == q.line
  <2>1. Commit(t) /\ Types /\ l \in Lines /\ Control(t) /\ Exact(t)
    BY <1>1, OnlyCommit, Memory DEF Books, TxOK
  <2>2. CASE q.op = "RETURN"
    <3>1. /\ status = "CONFIRMED" /\ seen[t] = line /\ l \in DOMAIN plan[t].lines
          /\ plan[t].lines[l].qty = line[l].qty - q.qty
      BY <2>1, <2>2 DEF Exact, Returns
    <3>2. line'[l] = plan[t].lines[l]
      BY <2>1, <3>1 DEF Commit
    <3> QED
      BY <2>2, <3>1, <3>2
  <2>3. CASE q.op = "PARTS"
    <3>1. /\ status = "CONFIRMED"
          /\ \A v \in Variants : PartSum(q, v) # 0 =>
               parts[l][v] + PartSum(q, v) <= line[l].qty * Recipe[l][v]
      BY <2>1, <2>3 DEF Exact, Returns
    <3>2. ASSUME NEW v \in Variants, parts'[l][v] > parts[l][v]
          PROVE  parts'[l][v] <= line[l].qty * Recipe[l][v]
      <4>1. parts'[l][v] = parts[l][v] + PartSum(q, v)
        BY <2>1, <2>3 DEF Commit, Types
      <4>2. q \in Requests
        BY <2>1 DEF Control
      <4>3. PartSum(q, v) \in Nat /\ parts[l][v] \in Nat
        BY <1>1, <2>1, <4>2, PartSumIsPart DEF Types
      <4>4. PartSum(q, v) # 0
        BY <3>2, <4>1, <4>3
      <4> QED
        BY <3>1, <4>1, <4>4
    <3> QED
      BY <2>3, <3>1, <3>2
  <2> QED
    BY <2>2, <2>3
<1>2. NamedOnce /\ Books /\ [Next]_vars => [\A t \in Txs : ExactAt(t)]_vars
  BY <1>1
<1>3. (Spec => [][\A t \in Txs : ExactAt(t)]_vars) => (Spec => ReturnsAreExact)
  BY DEF ReturnsAreExact
<1> QED
  BY <1>2, <1>3, InitBooks, KeptOnce, PTL DEF Spec

-----------------------------------------------------------------------------
(* The goods that are out. *)

\* The requests that lock nothing they read have the sale to themselves; parts come
\* back from packages, and not from a line whose whole packages come back.
GoodsCompared ==
  /\ {"CANCEL", "UPDATE", "REMOVE"} \subseteq Exclusive
  /\ \A q \in Requests : q.op = "PARTS" =>
       q.line \in Packages /\ \A p \in Requests : p.op = "RETURN" => p.line # q.line

Alone == {"CANCEL", "UPDATE", "REMOVE"}
Saving == {"reload", "writeSale", "commit"}
Nothing == [v \in Variants |-> 0]

\* What is out under line l is what the sale shows.
GoodsOf(l, v) ==
  out[l][v] = IF status = "CONFIRMED" /\ line[l].in
              THEN line[l].qty * Recipe[l][v] - parts[l][v] ELSE 0

\* No line has given back more parts than it has, and one that has given any back is
\* recorded as returned and is a package of which no whole unit comes back.
PartsOf(l, v) ==
  /\ line[l].in => parts[l][v] <= line[l].qty * Recipe[l][v]
  /\ parts[l][v] # 0 => /\ l \in returned /\ l \in Packages
                        /\ \A q \in Requests : q.op = "RETURN" => q.line # l

\* Nobody has added line l yet.
Fresh(l) ==
  l \notin DOMAIN StartQty
  /\ \A u \in Txs : req[u].op = "ADD" /\ pc[u] = "committed" => req[u].line # l

StoredOf(l) ==
  /\ \A v \in Variants : GoodsOf(l, v) /\ PartsOf(l, v)
  /\ Fresh(l) => ~line[l].in /\ \A v \in Variants : parts[l][v] = 0

\* Who runs at the same time, and the lines they add.
Together(t, u) ==
  t # u => /\ Active(t) /\ Active(u) => req[t].op \notin Alone
           /\ req[t].op = "ADD" /\ req[u].op = "ADD" => req[t].line # req[u].line

\* The line a request is about, the movements recorded for it alone, and what will be
\* written of it.
Was(t) == seen[t][req[t].line]
Moves(t, f) == moved[t] = [k \in Lines |-> IF k = req[t].line THEN f ELSE Nothing]
Writes(t, r) == plan[t].lines = [k \in {req[t].line} |-> r]
WritesNothing(t) == DOMAIN plan[t].lines = {}

\* The movements a request has recorded go with the line it will write, both worked
\* out from what it has seen.
MetaOf(t) == req[t].op = "META" => moved[t] = NoMoves /\ WritesNothing(t)

AddOf(t) ==
  req[t].op = "ADD" =>
    /\ req[t].line \notin DOMAIN StartQty
    /\ pc[t] \in Saving => /\ Moves(t, Units(req[t].line, req[t].qty))
                           /\ Writes(t, [in |-> TRUE, qty |-> req[t].qty])

ReturnOf(t) ==
  req[t].op = "RETURN" /\ pc[t] = "commit" =>
    /\ Was(t).in /\ req[t].qty <= Was(t).qty
    /\ Moves(t, Back(Units(req[t].line, req[t].qty)))
    /\ Writes(t, [in |-> TRUE, qty |-> Was(t).qty - req[t].qty])

PartsBackOf(t) ==
  req[t].op = "PARTS" /\ pc[t] = "commit" =>
    /\ Was(t).in /\ WritesNothing(t)
    /\ Moves(t, [v \in Variants |-> -PartSum(req[t], v)])

CancelOf(t) ==
  req[t].op = "CANCEL" =>
    /\ WritesNothing(t)
    /\ pc[t] \in Saving =>
         moved[t] = [k \in Lines |-> IF seen[t][k].in THEN Back(Restore(k, seen[t][k].qty))
                                                      ELSE Nothing]

UpdateOf(t) ==
  req[t].op = "UPDATE" =>
    /\ pc[t] \notin {"start", "read"} => Was(t).in
    /\ pc[t] \in Saving \cup {"reloadLine", "writeLine"} =>
         /\ req[t].qty < Was(t).qty => req[t].line \notin returned
         /\ Moves(t, Units(req[t].line, req[t].qty - Was(t).qty))
    /\ pc[t] = "reloadLine" => WritesNothing(t)
    /\ pc[t] = "writeLine" => Writes(t, [in |-> TRUE, qty |-> req[t].qty])
    /\ pc[t] \in Saving => \/ Writes(t, [in |-> TRUE, qty |-> req[t].qty])
                           \/ WritesNothing(t) /\ req[t].qty = Was(t).qty

RemoveOf(t) ==
  req[t].op = "REMOVE" =>
    /\ pc[t] \notin {"start", "read"} => Was(t).in
    /\ pc[t] \in Saving \cup {"writeLine"} =>
         /\ req[t].line \notin returned
         /\ Moves(t, Back(Restore(req[t].line, Was(t).qty)))
         /\ Writes(t, Gone)

HeaderOf(t) ==
  pc[t] \in {"writeSale", "commit"} /\ req[t].op \notin Returns =>
    plan[t].status = IF req[t].op = "CANCEL" THEN "CANCELLED" ELSE "same"

Doing(t) ==
  /\ MetaOf(t) /\ AddOf(t) /\ ReturnOf(t) /\ PartsBackOf(t)
  /\ CancelOf(t) /\ UpdateOf(t) /\ RemoveOf(t) /\ HeaderOf(t)

\* A request under way deals with an open sale, and one that has the sale to itself
\* with the lines as they are.
RunOf(t) ==
  Active(t) =>
    /\ Doing(t)
    /\ pc[t] # "start" => status = "CONFIRMED" /\ (req[t].op \in Alone => seen[t] = line)

Match ==
  ~overlapped =>
    /\ \A l \in Lines : StoredOf(l)
    /\ \A t, u \in Txs : Together(t, u)
    /\ \A t \in Txs : RunOf(t)

\* The sale starts with its goods out and nothing under way.
LEMMA InitMatch ==
  ASSUME Init
  PROVE  Match
<1>1. ASSUME NEW l \in Lines PROVE StoredOf(l)
  <2>1. line[l] \in Row /\ (line[l].in <=> l \in DOMAIN StartQty) /\ (~line[l].in => line[l].qty = 0)
    BY SaleAssumption DEF Init, SaleAssumption, Row, Gone
  <2>2. ASSUME NEW v \in Variants PROVE GoodsOf(l, v) /\ PartsOf(l, v) /\ parts[l][v] = 0
    <3>1. /\ out[l][v] = line[l].qty * Recipe[l][v] /\ parts[l][v] = 0
          /\ Recipe[l][v] \in Nat /\ line[l].qty \in Nat /\ status = "CONFIRMED"
      BY <2>1, RecipeType, RowType DEF Init
    <3>2. line[l].qty * Recipe[l][v] \in Nat /\ 0 * Recipe[l][v] = 0
      BY <3>1
    <3> QED BY <2>1, <3>1, <3>2 DEF GoodsOf, PartsOf
  <2> QED BY <2>1, <2>2 DEF StoredOf, Fresh
<1>2. \A t, u \in Txs : Together(t, u)
  BY DEF Init, Together, Active
<1>3. \A t \in Txs : RunOf(t)
  BY DEF Init, RunOf, Active
<1> QED BY <1>1, <1>2, <1>3 DEF Match

\* What a request does depends on its own state, the lines and what has come back.
LEMMA DoingSame ==
  ASSUME NEW u \in Txs,
         pc'[u] = pc[u], req'[u] = req[u], seen'[u] = seen[u], plan'[u] = plan[u],
         moved'[u] = moved[u],
         req[u].op \in Alone => parts' = parts /\ returned' = returned,
         Doing(u)
  PROVE  Doing(u)'
<1> USE DEF Was, Moves, Writes, WritesNothing, Doing, Alone
<1>1. MetaOf(u)' /\ AddOf(u)' /\ ReturnOf(u)' /\ PartsBackOf(u)' /\ HeaderOf(u)'
  BY DEF MetaOf, AddOf, ReturnOf, PartsBackOf, HeaderOf
<1>2. UpdateOf(u)'
  BY DEF UpdateOf
<1>3. CancelOf(u)'
  BY DEF CancelOf, Restore
<1>4. RemoveOf(u)'
  BY DEF RemoveOf, Restore
<1> QED BY <1>1, <1>2, <1>3, <1>4

\* A step of t that commits nothing keeps the goods, if it keeps t's part of them.
LEMMA QuietMatch ==
  ASSUME Match, NEW t \in Txs, Active(t), pc'[t] # "committed",
         UNCHANGED <<status, line, parts, returned, out, req, overlapped>>,
         \A u \in Txs \ {t} : /\ pc'[u] = pc[u] /\ seen'[u] = seen[u] /\ plan'[u] = plan[u]
                              /\ moved'[u] = moved[u],
         ~overlapped => RunOf(t)'
  PROVE  Match'
<1> SUFFICES ASSUME ~overlapped'
             PROVE  /\ \A l \in Lines : StoredOf(l)'
                    /\ \A x, u \in Txs : Together(x, u)'
                    /\ \A u \in Txs : RunOf(u)'
  BY DEF Match
<1>1. \A l \in Lines : StoredOf(l)'
  <2>1. \A l \in Lines : Fresh(l)' => Fresh(l)
    <3>1. \A u \in Txs : pc[u] = "committed" => pc'[u] = "committed"
      BY DEF Active
    <3> QED BY <3>1 DEF Fresh
  <2> QED BY <2>1 DEF Match, StoredOf, GoodsOf, PartsOf
<1>2. \A u \in Txs : Active(u)' => Active(u)
  BY DEF Active
<1>3. \A x, u \in Txs : Together(x, u)'
  BY <1>2 DEF Match, Together
<1>4. ASSUME NEW u \in Txs, u # t PROVE RunOf(u)'
  <2>1. /\ pc'[u] = pc[u] /\ seen'[u] = seen[u] /\ plan'[u] = plan[u] /\ req'[u] = req[u]
        /\ moved'[u] = moved[u] /\ RunOf(u)
    BY <1>4 DEF Match
  <2>2. Active(u)' <=> Active(u)
    BY <2>1 DEF Active
  <2>3. Doing(u) => Doing(u)'
    BY <2>1, DoingSame
  <2> QED BY <2>1, <2>2, <2>3 DEF RunOf
<1> QED BY <1>1, <1>3, <1>4

\* A request that ends without committing leaves the goods as they are.
LEMMA AbortMatch ==
  ASSUME Books, Match, NEW t \in Txs, Active(t), Abort(t), UNCHANGED overlapped
  PROVE  Match'
<1>1. /\ pc' = [pc EXCEPT ![t] = "aborted"] /\ plan' = [plan EXCEPT ![t] = NoPlan]
      /\ moved' = [moved EXCEPT ![t] = NoMoves]
      /\ UNCHANGED <<status, line, parts, returned, out, req, seen>>
  BY DEF Abort, Goto, stored
<1>2. Types
  BY DEF Books
<1>3. pc'[t] = "aborted"
  BY <1>1, <1>2 DEF Types
<1>4. \A u \in Txs \ {t} : pc'[u] = pc[u] /\ plan'[u] = plan[u] /\ moved'[u] = moved[u]
  BY <1>1, <1>2 DEF Types
<1>5. RunOf(t)'
  BY <1>3 DEF RunOf, Active
<1> QED
  BY <1>1, <1>3, <1>4, <1>5, QuietMatch

\* Reading the sale and, for a line, the line again.
LEMMA ReadMatch ==
  ASSUME Books, Match, NEW t \in Txs, ReadSale(t) \/ ReadLine(t), UNCHANGED overlapped
  PROVE  Match'
<1> DEFINE l == req[t].line
<1>1. Types /\ Control(t) /\ l \in Lines
  BY Memory DEF Books, TxOK
<1>2. pc[t] \in {"start", "read"} /\ Active(t)
  BY DEF ReadSale, ReadLine, At, Active
<1>3. CASE Abort(t)
  BY <1>2, <1>3, AbortMatch
<1>4. CASE ~Abort(t)
  <2>1. PICK label \in {"reload", "move", "read"} : pc' = [pc EXCEPT ![t] = label]
    BY <1>4 DEF ReadSale, ReadLine, At, Goto
  <2>2. UNCHANGED <<status, line, parts, returned, out, req, plan, moved>>
    BY <1>4 DEF ReadSale, ReadLine, stored
  <2>3. \A u \in Txs \ {t} : pc'[u] = pc[u] /\ seen'[u] = seen[u]
    BY <1>1, <1>4, <2>1 DEF ReadSale, ReadLine, Types
  <2>4. pc'[t] = label
    BY <1>1, <2>1 DEF Types
  <2>5. plan[t] = NoPlan /\ moved[t] = NoMoves /\ DOMAIN NoPlan.lines = {}
    BY <1>1, <1>2 DEF Control, NoPlan
  <2>6. ASSUME ~overlapped PROVE RunOf(t)'
    <3>1. RunOf(t) /\ Doing(t)
      BY <1>2, <2>6 DEF Match, RunOf
    <3>2. req[t].op = "ADD" => l \notin DOMAIN StartQty
      BY <3>1 DEF Doing, AddOf
    <3>3. CASE ReadSale(t)
      <4>1. /\ req[t].op \in {"CANCEL", "UPDATE", "ADD", "REMOVE", "META"}
            /\ status # "CANCELLED" /\ seen' = [seen EXCEPT ![t] = line]
            /\ pc' = [pc EXCEPT ![t] = IF req[t].op = "META" THEN "reload"
                                       ELSE IF req[t].op \in {"CANCEL", "ADD"} THEN "move" ELSE "read"]
        BY <1>4, <3>3 DEF ReadSale, At, Goto
      <4>2. status = "CONFIRMED" /\ seen'[t] = line
            /\ pc'[t] = (IF req[t].op = "META" THEN "reload"
                        ELSE IF req[t].op \in {"CANCEL", "ADD"} THEN "move" ELSE "read")
        BY <1>1, <4>1 DEF Types
      <4>3. Doing(t)'
        BY <2>2, <2>5, <3>2, <4>1, <4>2
        DEF Doing, MetaOf, AddOf, ReturnOf, PartsBackOf, CancelOf, UpdateOf, RemoveOf, HeaderOf,
            Saving, WritesNothing
      <4> QED
        BY <2>2, <4>2, <4>3 DEF RunOf
    <3>4. CASE ReadLine(t)
      <4>1. /\ req[t].op \in {"UPDATE", "REMOVE"} /\ line[l].in
            /\ seen' = [seen EXCEPT ![t][l] = line[l]] /\ pc[t] = "read"
            /\ pc' = [pc EXCEPT ![t] = "move"]
        BY <1>1, <1>4, <3>4 DEF ReadLine, Control, Goto
      <4>2. status = "CONFIRMED" /\ seen[t] = line
        BY <1>2, <3>1, <4>1 DEF RunOf, Alone
      <4>3. seen'[t] = line /\ pc'[t] = "move"
        BY <1>1, <4>1, <4>2 DEF Types, Rows
      <4>4. Doing(t)'
        BY <2>2, <4>1, <4>3
        DEF Doing, MetaOf, AddOf, ReturnOf, PartsBackOf, CancelOf, UpdateOf, RemoveOf, HeaderOf,
            Saving, Was
      <4> QED
        BY <2>2, <4>2, <4>3, <4>4 DEF RunOf
    <3> QED
      BY <3>3, <3>4
  <2> QED
    BY <1>2, <2>2, <2>3, <2>4, <2>6, QuietMatch
<1> QED
  BY <1>3, <1>4

\* A return takes its locks and sees the lines.
LEMMA LockMatch ==
  ASSUME Books, Match, NEW t \in Txs, LockSale(t) \/ LockLines(t), UNCHANGED overlapped
  PROVE  Match'
<1>1. Types /\ Control(t) /\ Exact(t)
  BY DEF Books, TxOK
<1>2. pc[t] \in {"start", "lockLines"} /\ Active(t) /\ req[t].op \in Returns
  BY <1>1 DEF LockSale, LockLines, At, Active, Returns, Control
<1>3. CASE Abort(t)
  BY <1>2, <1>3, AbortMatch
<1>4. CASE ~Abort(t)
  <2>1. PICK label \in {"lockLines", "move"} : pc' = [pc EXCEPT ![t] = label]
    BY <1>4 DEF LockSale, LockLines, Goto
  <2>2. UNCHANGED <<status, line, parts, returned, out, req, plan, moved>>
    BY <1>4 DEF LockSale, LockLines, stored
  <2>3. \A u \in Txs \ {t} : pc'[u] = pc[u] /\ seen'[u] = seen[u]
    BY <1>1, <1>4, <2>1 DEF LockSale, LockLines, Types
  <2>4. pc'[t] = label
    BY <1>1, <2>1 DEF Types
  <2>5. status = "CONFIRMED"
    BY <1>1, <1>2, <1>4 DEF LockSale, LockLines, Exact, Types
  <2>6. RunOf(t)'
    BY <1>2, <2>2, <2>4, <2>5
    DEF RunOf, Doing, MetaOf, AddOf, ReturnOf, PartsBackOf, CancelOf, UpdateOf, RemoveOf,
        HeaderOf, Returns, Alone
  <2> QED
    BY <1>2, <2>2, <2>3, <2>4, <2>6, QuietMatch
<1> QED
  BY <1>3, <1>4

\* Before its move a request has recorded nothing, so what it records is all there is.
LEMMA FirstMoves ==
  ASSUME Books, NEW t \in Txs, pc[t] = "move", NEW l \in Lines, NEW f \in [Variants -> Int],
         l = req[t].line, Record(t, l, f), req' = req
  PROVE  Moves(t, f)' /\ \A u \in Txs \ {t} : moved'[u] = moved[u]
<1>1. moved[t] = NoMoves
  BY DEF Books, TxOK, Control
<1>2. /\ moved'[t] = [moved[t] EXCEPT ![l] = f]
      /\ \A u \in Txs \ {t} : moved'[u] = moved[u]
  BY <1>1, RecordTypes
<1>3. moved'[t] = [k \in Lines |-> IF k = l THEN f ELSE Nothing]
  BY <1>1, <1>2 DEF NoMoves, Nothing
<1> QED
  BY <1>2, <1>3 DEF Moves, Nothing

\* At its move a request has seen an open sale and, if it is alone, the lines.
LEMMA AtMove ==
  ASSUME Books, Match, ~overlapped, NEW t \in Txs, pc[t] = "move"
  PROVE  /\ status = "CONFIRMED" /\ Doing(t) /\ (req[t].op \in Alone => seen[t] = line)
         /\ plan[t] = NoPlan /\ moved[t] = NoMoves /\ DOMAIN NoPlan.lines = {}
         /\ Active(t)
<1>1. Active(t)
  BY DEF Active
<1>2. RunOf(t)
  BY DEF Match
<1>3. plan[t] = NoPlan /\ moved[t] = NoMoves
  BY DEF Books, TxOK, Control
<1> QED
  BY <1>1, <1>2, <1>3 DEF RunOf, NoPlan

\* The moves: each records what it has worked out from the lines it has seen.
LEMMA CancelMoveMatch ==
  ASSUME Books, Match, NEW t \in Txs, CancelMove(t), UNCHANGED overlapped
  PROVE  Match'
<1> DEFINE S == {l \in Lines : seen[t][l].in}
<1>1. Types /\ pc[t] = "move" /\ req[t].op = "CANCEL" /\ Active(t)
  BY DEF Books, CancelMove, At, Active
<1>2. CASE \E l \in S : Unreturnable(l, seen[t][l].qty)
  BY <1>1, <1>2, AbortMatch DEF CancelMove
<1>3. CASE ~\E l \in S : Unreturnable(l, seen[t][l].qty)
  <2> DEFINE m == [l \in Lines |-> IF l \in S THEN Back(Restore(l, seen[t][l].qty))
                                              ELSE moved[t][l]]
  <2>1. /\ pc' = [pc EXCEPT ![t] = "reload"] /\ moved' = [moved EXCEPT ![t] = m]
        /\ UNCHANGED <<status, line, parts, returned, out, lock, req, seen, plan>>
    BY <1>1, <1>3 DEF CancelMove, Goto, stored, Types
  <2>2. pc'[t] = "reload" /\ moved'[t] = m
        /\ \A u \in Txs \ {t} : pc'[u] = pc[u] /\ moved'[u] = moved[u]
    <3> HIDE DEF m
    <3> QED
      BY <1>1, <2>1 DEF Types
  <2>3. ASSUME ~overlapped PROVE RunOf(t)'
    <3>1. /\ status = "CONFIRMED" /\ Doing(t) /\ seen[t] = line /\ moved[t] = NoMoves
          /\ plan[t] = NoPlan /\ DOMAIN NoPlan.lines = {}
      BY <1>1, <2>3, AtMove DEF Alone
    <3>2. m = [k \in Lines |-> IF seen[t][k].in THEN Back(Restore(k, seen[t][k].qty))
                                                ELSE Nothing]
      BY <3>1 DEF NoMoves, Nothing
    <3>3. moved'[t] = [k \in Lines |-> IF seen[t][k].in THEN Back(Restore(k, seen[t][k].qty))
                                                        ELSE Nothing]'
      BY <2>1, <2>2, <3>2 DEF Restore, Back, Nothing
    <3> HIDE DEF m
    <3>4. Doing(t)'
      BY <1>1, <2>1, <2>2, <3>1, <3>3
      DEF Doing, MetaOf, AddOf, ReturnOf, PartsBackOf, CancelOf, UpdateOf, RemoveOf, HeaderOf,
          WritesNothing
    <3> QED
      BY <2>1, <3>1, <3>4 DEF RunOf
  <2> HIDE DEF m
  <2> QED
    BY <1>1, <2>1, <2>2, <2>3, QuietMatch
<1> QED
  BY <1>2, <1>3

\* An edit records the difference to the quantity it has seen.
LEMMA UpdateMoveMatch ==
  ASSUME Books, Match, NEW t \in Txs, UpdateMove(t), UNCHANGED overlapped
  PROVE  Match'
<1>0. PICK l \in Lines, f \in [Variants -> Int] :
        l = req[t].line /\ f = Units(l, req[t].qty - seen[t][l].qty)
  BY Memory, UnitsType
<1>1. Types /\ pc[t] = "move" /\ req[t].op = "UPDATE" /\ Active(t)
  BY DEF Books, UpdateMove, At, Active
<1>2. CASE req[t].qty < seen[t][l].qty /\ l \in returned
  BY <1>0, <1>1, <1>2, AbortMatch DEF UpdateMove
<1>3. CASE ~(req[t].qty < seen[t][l].qty /\ l \in returned)
  <2>1. /\ pc' = [pc EXCEPT ![t] = "reloadLine"] /\ Record(t, l, f)
        /\ UNCHANGED <<status, line, parts, returned, out, lock, req, seen, plan>>
    BY <1>0, <1>3 DEF UpdateMove, Goto, stored
  <2>3. Moves(t, f)' /\ \A u \in Txs \ {t} : moved'[u] = moved[u]
    BY <1>0, <1>1, <2>1, FirstMoves
  <2>4. pc'[t] = "reloadLine" /\ \A u \in Txs \ {t} : pc'[u] = pc[u]
    BY <1>1, <2>1 DEF Types
  <2>5. ASSUME ~overlapped PROVE RunOf(t)'
    <3>1. /\ status = "CONFIRMED" /\ Doing(t) /\ seen[t] = line
          /\ plan[t] = NoPlan /\ DOMAIN NoPlan.lines = {}
      BY <1>1, <2>5, AtMove DEF Alone
    <3>2. Was(t)'.in /\ Was(t)' = Was(t)
      BY <1>1, <2>1, <3>1 DEF Doing, UpdateOf, Was
    <3>3. Moves(t, Units(req[t].line, req[t].qty - Was(t).qty))'
      BY <1>0, <2>1, <2>3 DEF Moves, Was, Units
    <3>4. UpdateOf(t)'
      BY <1>0, <1>3, <2>1, <2>4, <3>1, <3>2, <3>3 DEF UpdateOf, Saving, WritesNothing, Was
    <3>5. Doing(t)'
      BY <1>1, <2>1, <2>4, <3>4
      DEF Doing, MetaOf, AddOf, ReturnOf, PartsBackOf, CancelOf, RemoveOf, HeaderOf
    <3> QED
      BY <2>1, <3>1, <3>5 DEF RunOf
  <2> QED
    BY <1>1, <2>1, <2>3, <2>4, <2>5, QuietMatch
<1> QED
  BY <1>2, <1>3

\* A new line records all its units.
LEMMA AddMoveMatch ==
  ASSUME Books, Match, NEW t \in Txs, AddMove(t), UNCHANGED overlapped
  PROVE  Match'
<1>0. PICK l \in Lines, f \in [Variants -> Int], r \in Row :
        l = req[t].line /\ f = Units(l, req[t].qty) /\ r = [in |-> TRUE, qty |-> req[t].qty]
  <2>1. req[t].line \in Lines /\ req[t].qty \in Nat
    BY Memory
  <2>2. [in |-> TRUE, qty |-> req[t].qty] \in Row
    BY <2>1 DEF Row
  <2>3. Units(req[t].line, req[t].qty) \in [Variants -> Int]
    BY <2>1, UnitsType
  <2> QED
    BY <2>1, <2>2, <2>3
<1>1. Types /\ pc[t] = "move" /\ req[t].op = "ADD" /\ Active(t)
  BY DEF Books, AddMove, At, Active
<1>2. /\ pc' = [pc EXCEPT ![t] = "reload"] /\ Record(t, l, f) /\ Will(t, l, r)
      /\ UNCHANGED <<status, line, parts, returned, out, lock, req, seen>>
  BY <1>0 DEF AddMove, Goto, stored
<1>3. Moves(t, f)' /\ \A u \in Txs \ {t} : moved'[u] = moved[u]
  BY <1>0, <1>1, <1>2, FirstMoves
<1>4. plan'[t].lines = [k \in {l} |-> r] /\ \A u \in Txs \ {t} : plan'[u] = plan[u]
  <2>1. Will(t, l, r)
    BY <1>2, Zenon
  <2> QED
    BY <2>1, WillTypes, Zenon
<1>5. pc'[t] = "reload" /\ \A u \in Txs \ {t} : pc'[u] = pc[u]
  BY <1>1, <1>2 DEF Types
<1>6. ASSUME ~overlapped PROVE RunOf(t)'
  <2>1. status = "CONFIRMED" /\ Doing(t)
    BY <1>1, <1>6, AtMove
  <2>2. AddOf(t)'
    <3>1. Moves(t, Units(req[t].line, req[t].qty))'
      BY <1>0, <1>2, <1>3 DEF Units, Moves
    <3>2. Writes(t, [in |-> TRUE, qty |-> req[t].qty])'
      BY <1>0, <1>2, <1>4 DEF Writes
    <3> QED
      BY <1>1, <1>2, <2>1, <3>1, <3>2 DEF Doing, AddOf
  <2>3. Doing(t)'
    BY <1>1, <1>2, <1>5, <2>2
    DEF Doing, MetaOf, ReturnOf, PartsBackOf, CancelOf, UpdateOf, RemoveOf, HeaderOf
  <2> QED
    BY <1>1, <1>2, <2>1, <2>3 DEF RunOf, Alone
<1> QED
  BY <1>1, <1>2, <1>3, <1>4, <1>5, <1>6, QuietMatch

\* A removal records what is still out of a line without returns.
LEMMA RemoveMoveMatch ==
  ASSUME Books, Match, NEW t \in Txs, RemoveMove(t), UNCHANGED overlapped
  PROVE  Match'
<1>0. PICK l \in Lines, f \in [Variants -> Int] :
        l = req[t].line /\ f = Back(Restore(l, seen[t][l].qty))
  BY Memory, RestoreType DEF Books
<1>1. Types /\ pc[t] = "move" /\ req[t].op = "REMOVE" /\ Active(t)
  BY DEF Books, RemoveMove, At, Active
<1>2. CASE Abort(t)
  BY <1>1, <1>2, AbortMatch
<1>3. CASE ~Abort(t)
  <2>1. /\ pc' = [pc EXCEPT ![t] = "writeLine"] /\ Record(t, l, f) /\ Will(t, l, Gone)
        /\ l \notin returned
        /\ UNCHANGED <<status, line, parts, returned, out, lock, req, seen>>
    BY <1>0, <1>3 DEF RemoveMove, Goto, stored
  <2>2. Moves(t, f)' /\ \A u \in Txs \ {t} : moved'[u] = moved[u]
    BY <1>0, <1>1, <2>1, FirstMoves
  <2>3. plan'[t].lines = [k \in {l} |-> Gone] /\ \A u \in Txs \ {t} : plan'[u] = plan[u]
    <3>1. Will(t, l, Gone) /\ Gone \in Row
      BY <2>1, RowType, Zenon
    <3> QED
      BY <3>1, WillTypes, Zenon
  <2>4. pc'[t] = "writeLine" /\ \A u \in Txs \ {t} : pc'[u] = pc[u]
    BY <1>1, <2>1 DEF Types
  <2>5. ASSUME ~overlapped PROVE RunOf(t)'
    <3>1. status = "CONFIRMED" /\ Doing(t) /\ seen[t] = line
      BY <1>1, <2>5, AtMove DEF Alone
    <3>2. Was(t)'.in
      BY <1>1, <2>1, <3>1 DEF Doing, RemoveOf, Was
    <3>3. Moves(t, Back(Restore(req[t].line, Was(t).qty)))'
      BY <1>0, <2>1, <2>2 DEF Moves, Was, Restore
    <3>4. RemoveOf(t)'
      BY <1>0, <2>1, <2>3, <2>4, <3>2, <3>3 DEF RemoveOf, Writes
    <3>5. Doing(t)'
      BY <1>1, <2>1, <2>4, <3>4
      DEF Doing, MetaOf, AddOf, ReturnOf, PartsBackOf, CancelOf, UpdateOf, HeaderOf
    <3> QED
      BY <2>1, <3>1, <3>5 DEF RunOf
  <2> QED
    BY <1>1, <2>1, <2>2, <2>3, <2>4, <2>5, QuietMatch
<1> QED
  BY <1>2, <1>3

\* What a return takes back of a line goes with the quantity, or the parts, it will write.
LEMMA ReturnMoveMatch ==
  ASSUME Books, Match, NEW t \in Txs, ReturnMove(t), UNCHANGED overlapped
  PROVE  Match'
<1>1. PICK l \in Lines, n \in Nat, x \in Row :
        l = req[t].line /\ n = req[t].qty /\ x = seen[t][l]
  BY Memory
<1>2. Types /\ pc[t] = "move" /\ req[t].op = "RETURN" /\ Active(t)
  BY DEF Books, ReturnMove, At, Active
<1>3. CASE ~(x.in /\ n <= x.qty)
  BY <1>1, <1>2, <1>3, AbortMatch DEF ReturnMove
<1>4. CASE x.in /\ n <= x.qty
  <2>1. PICK f \in [Variants -> Int] : f = Back(Units(l, n))
    BY <1>1, UnitsType
  <2>2. PICK r \in Row : r = [x EXCEPT !.qty = @ - n]
    <3>1. x.qty - n \in Nat
      BY <1>4, RowType
    <3> QED
      BY <3>1 DEF Row
  <2>3. r = [in |-> TRUE, qty |-> x.qty - n]
    BY <1>4, <2>2 DEF Row
  <2>4. /\ pc' = [pc EXCEPT ![t] = "commit"] /\ Record(t, l, f) /\ Will(t, l, r)
        /\ UNCHANGED <<status, line, parts, returned, out, lock, req, seen>>
    BY <1>1, <1>4, <2>1, <2>2 DEF ReturnMove, Goto, stored
  <2>5. Moves(t, f)' /\ \A u \in Txs \ {t} : moved'[u] = moved[u]
    BY <1>1, <1>2, <2>4, FirstMoves
  <2>6. plan'[t].lines = [k \in {l} |-> r] /\ \A u \in Txs \ {t} : plan'[u] = plan[u]
    BY <2>4, WillTypes
  <2>7. pc'[t] = "commit" /\ \A u \in Txs \ {t} : pc'[u] = pc[u]
    BY <1>2, <2>4 DEF Types
  <2>8. ASSUME ~overlapped PROVE RunOf(t)'
    <3>1. status = "CONFIRMED"
      BY <1>2, <2>8, AtMove
    <3>2. Was(t)' = x
      BY <1>1, <2>4 DEF Was
    <3>3. Moves(t, Back(Units(req[t].line, req[t].qty)))'
      BY <1>1, <2>1, <2>4, <2>5 DEF Units, Back, Moves
    <3>4. Writes(t, [in |-> TRUE, qty |-> Was(t).qty - req[t].qty])'
      BY <1>1, <2>3, <2>4, <2>6, <3>2 DEF Writes
    <3>5. ReturnOf(t)'
      BY <1>1, <1>4, <2>4, <3>2, <3>3, <3>4 DEF ReturnOf
    <3>6. Doing(t)'
      BY <1>2, <2>4, <3>5
      DEF Doing, MetaOf, AddOf, PartsBackOf, CancelOf, UpdateOf, RemoveOf, HeaderOf, Returns
    <3> QED
      BY <1>2, <2>4, <3>1, <3>6 DEF RunOf, Alone
  <2> QED
    BY <1>2, <2>4, <2>5, <2>6, <2>7, <2>8, QuietMatch
<1> QED
  BY <1>3, <1>4

\* Parts that come back are recorded and no line is written.
LEMMA PartsMoveMatch ==
  ASSUME Books, Match, NamedOnce, NEW t \in Txs, PartsMove(t), UNCHANGED overlapped
  PROVE  Match'
<1>1. PICK q \in Request, l \in Lines, x \in Row :
        q = req[t] /\ l = q.line /\ x = seen[t][l]
  BY Memory DEF Books, Types
<1>2. Types /\ Control(t) /\ pc[t] = "move" /\ q.op = "PARTS" /\ Active(t)
  BY <1>1 DEF Books, TxOK, PartsMove, At, Active
<1>3. CASE Abort(t)
  BY <1>2, <1>3, AbortMatch
<1>4. CASE ~Abort(t)
  <2>1. PICK f \in [Variants -> Int] : f = [v \in Variants |-> -PartSum(q, v)]
    <3>1. q \in Requests
      BY <1>1, <1>2 DEF Control
    <3>2. \A v \in Variants : PartSum(q, v) \in Int
      BY <3>1, PartSumIsPart
    <3>3. \A v \in Variants : -PartSum(q, v) \in Int
      BY <3>2
    <3> QED
      BY <3>3
  <2>2. /\ pc' = [pc EXCEPT ![t] = "commit"] /\ Record(t, l, f) /\ x.in
        /\ UNCHANGED <<status, line, parts, returned, out, lock, req, seen, plan>>
    BY <1>1, <1>4, <2>1 DEF PartsMove, Goto, stored
  <2>3. Moves(t, f)' /\ \A u \in Txs \ {t} : moved'[u] = moved[u]
    BY <1>1, <1>2, <2>2, FirstMoves
  <2>4. DOMAIN plan[t].lines = {}
    BY <1>2 DEF Control, NoPlan
  <2>5. pc'[t] = "commit" /\ \A u \in Txs \ {t} : pc'[u] = pc[u]
    BY <1>2, <2>2 DEF Types
  <2>6. ASSUME ~overlapped PROVE RunOf(t)'
    <3>1. status = "CONFIRMED"
      BY <1>2, <2>6, AtMove
    <3>2. Was(t)' = x
      BY <1>1, <2>2 DEF Was
    <3>3. Moves(t, [v \in Variants |-> -PartSum(req[t], v)])'
      BY <1>1, <2>1, <2>2, <2>3 DEF Moves
    <3>4. PartsBackOf(t)'
      BY <1>1, <2>2, <2>4, <3>2, <3>3 DEF PartsBackOf, WritesNothing
    <3>5. Doing(t)'
      BY <1>1, <1>2, <2>2, <3>4
      DEF Doing, MetaOf, AddOf, ReturnOf, CancelOf, UpdateOf, RemoveOf, HeaderOf, Returns
    <3> QED
      BY <1>1, <1>2, <2>2, <3>1, <3>5 DEF RunOf, Alone
  <2> QED
    BY <1>2, <2>2, <2>3, <2>5, <2>6, QuietMatch
<1> QED
  BY <1>3, <1>4

\* Saving a line writes what was planned: the line is still as it was seen.
LEMMA SaveLineMatch ==
  ASSUME Books, Match, NEW t \in Txs, ReloadLine(t) \/ WriteLine(t), UNCHANGED overlapped
  PROVE  Match'
<1>1. PICK l \in Lines, n \in Nat : l = req[t].line /\ n = req[t].qty
  BY Memory
<1>2. Types /\ Control(t) /\ pc[t] \in {"reloadLine", "writeLine"} /\ Active(t)
  BY DEF Books, TxOK, ReloadLine, WriteLine, Active
<1>3. CASE Abort(t)
  BY <1>2, <1>3, AbortMatch
<1>4. CASE ~Abort(t)
  <2>1. PICK label \in {"writeLine", "reload"} : pc' = [pc EXCEPT ![t] = label]
    BY <1>4 DEF ReloadLine, WriteLine, Goto
  <2>2. UNCHANGED <<status, line, parts, returned, out, req, seen, moved>>
    BY <1>4 DEF ReloadLine, WriteLine, stored
  <2>3. pc'[t] = label /\ \A u \in Txs \ {t} : pc'[u] = pc[u]
    BY <1>2, <2>1 DEF Types
  <2>4. PICK r \in Row : r = [in |-> TRUE, qty |-> n]
    BY DEF Row
  <2>5. \A u \in Txs \ {t} : plan'[u] = plan[u]
    BY <1>1, <1>2, <1>4, <2>4, WillTypes DEF ReloadLine, WriteLine, Types
  <2>6. ASSUME ~overlapped PROVE RunOf(t)'
    <3>1. RunOf(t) /\ Doing(t) /\ status = "CONFIRMED" /\ req[t].op \in {"UPDATE", "REMOVE"}
          /\ seen[t] = line
      BY <1>2, <2>6 DEF Match, RunOf, Control, Alone
    <3>2. UpdateOf(t) /\ RemoveOf(t)
      BY <3>1 DEF Doing
    <3>3. CASE ReloadLine(t)
      <4>1. pc[t] = "reloadLine" /\ req[t].op = "UPDATE"
        BY <1>2, <3>3 DEF ReloadLine, Control
      <4>2. Was(t) = line[l] /\ line[l].in /\ WritesNothing(t)
            /\ (req[t].qty < Was(t).qty => req[t].line \notin returned)
            /\ Moves(t, Units(req[t].line, req[t].qty - Was(t).qty))
        BY <1>1, <3>1, <3>2, <4>1 DEF UpdateOf, Was
      <4>3. Moves(t, Units(req[t].line, req[t].qty - Was(t).qty))' /\ Was(t)' = Was(t)
        BY <2>2, <4>2 DEF Moves, Was
      <4>4. CASE line[l].qty # n
        <5>1. Will(t, l, r) /\ label = "writeLine"
          <6>1. Will(t, l, r) /\ pc' = [pc EXCEPT ![t] = "writeLine"]
            BY <1>1, <2>4, <3>3, <4>2, <4>4 DEF ReloadLine, Goto
          <6> QED
            BY <1>2, <2>3, <6>1 DEF Types
        <5>2. plan'[t].lines = [k \in {l} |-> r]
          BY <5>1, WillTypes
        <5>3. Writes(t, [in |-> TRUE, qty |-> req[t].qty])'
          BY <1>1, <2>2, <2>4, <5>2 DEF Writes
        <5>4. UpdateOf(t)'
          BY <2>2, <2>3, <4>2, <4>3, <5>1, <5>3 DEF UpdateOf, Saving
        <5>5. Doing(t)'
          BY <2>2, <2>3, <4>1, <5>1, <5>4
          DEF Doing, MetaOf, AddOf, ReturnOf, PartsBackOf, CancelOf, RemoveOf, HeaderOf
        <5> QED
          BY <2>2, <3>1, <5>5 DEF RunOf
      <4>5. CASE line[l].qty = n
        <5>1. plan' = plan /\ label = "reload"
          <6>1. plan' = plan /\ pc' = [pc EXCEPT ![t] = "reload"]
            BY <1>1, <3>3, <4>5 DEF ReloadLine, Goto
          <6> QED
            BY <1>2, <2>3, <6>1 DEF Types
        <5>2. WritesNothing(t)' /\ req'[t].qty = Was(t)'.qty
          BY <1>1, <2>2, <4>2, <4>3, <4>5, <5>1 DEF WritesNothing
        <5>4. UpdateOf(t)'
          BY <2>2, <2>3, <4>2, <4>3, <5>1, <5>2 DEF UpdateOf, Saving
        <5>5. Doing(t)'
          BY <2>2, <2>3, <4>1, <5>1, <5>4
          DEF Doing, MetaOf, AddOf, ReturnOf, PartsBackOf, CancelOf, RemoveOf, HeaderOf
        <5> QED
          BY <2>2, <3>1, <5>5 DEF RunOf
      <4> QED
        BY <4>4, <4>5
    <3>4. CASE WriteLine(t)
      <4>1. pc[t] = "writeLine" /\ pc' = [pc EXCEPT ![t] = "reload"] /\ Was(t) = line[l]
        BY <1>1, <1>4, <3>1, <3>4 DEF WriteLine, Goto, Was
      <4>2. line[l].in
        BY <3>1, <3>2, <4>1 DEF UpdateOf, RemoveOf
      <4>3. plan' = plan /\ pc'[t] = "reload"
        BY <1>1, <1>2, <1>4, <3>4, <4>1, <4>2 DEF WriteLine, Types
      <4>4. UpdateOf(t)' /\ RemoveOf(t)'
        <5>1. \A f : Moves(t, f) => Moves(t, f)'
          BY <2>2 DEF Moves
        <5> QED
          BY <2>2, <3>2, <4>1, <4>3 DEF UpdateOf, RemoveOf, Saving, Was, Writes, Moves, Restore
      <4>5. Doing(t)'
        BY <2>2, <3>1, <4>3, <4>4
        DEF Doing, MetaOf, AddOf, ReturnOf, PartsBackOf, CancelOf, HeaderOf
      <4> QED
        BY <2>2, <3>1, <4>5 DEF RunOf
    <3> QED
      BY <3>3, <3>4
  <2> QED
    BY <1>2, <2>2, <2>3, <2>5, <2>6, QuietMatch
<1> QED
  BY <1>3, <1>4

\* Between its last movement and its commit a request keeps what it will write.
LEMMA SavingSame ==
  ASSUME NEW t \in Txs, Doing(t), req[t].op \notin Returns, pc[t] \in Saving, pc'[t] \in Saving,
         UNCHANGED <<status, line, parts, returned, req, seen, moved>>,
         DOMAIN plan'[t].lines = DOMAIN plan[t].lines,
         req[t].op # "CANCEL" => plan'[t].lines = plan[t].lines,
         HeaderOf(t)'
  PROVE  Doing(t)'
<1>1. \A f : Moves(t, f) => Moves(t, f)'
  BY DEF Moves
<1>2. Was(t)' = Was(t)
  BY DEF Was
<1>3. WritesNothing(t)' <=> WritesNothing(t)
  BY DEF WritesNothing
<1>4. req[t].op # "CANCEL" => \A r : Writes(t, r) => Writes(t, r)'
  BY DEF Writes
<1>5. MetaOf(t)' /\ ReturnOf(t)' /\ PartsBackOf(t)'
  BY <1>3 DEF Doing, MetaOf, ReturnOf, PartsBackOf, Returns
<1>6. AddOf(t)'
  BY <1>1, <1>4 DEF Doing, AddOf, Moves, Writes, Units
<1>7. CancelOf(t)'
  BY <1>3 DEF Doing, CancelOf, Restore
<1>8. UpdateOf(t)'
  BY <1>1, <1>2, <1>3, <1>4 DEF Doing, UpdateOf, Moves, Writes, Units, Saving
<1>9. RemoveOf(t)'
  BY <1>1, <1>2, <1>4 DEF Doing, RemoveOf, Moves, Writes, Restore, Saving
<1> QED
  BY <1>5, <1>6, <1>7, <1>8, <1>9 DEF Doing

\* Reading the header again plans its status; a cancellation finds every line unchanged.
LEMMA ReloadSaleMatch ==
  ASSUME Books, Match, NEW t \in Txs, ReloadSale(t), UNCHANGED overlapped
  PROVE  Match'
<1> DEFINE target == IF req[t].op = "CANCEL" THEN "CANCELLED" ELSE "CONFIRMED"
           differ == {l \in Lines : line[l] # seen[t][l]}
           to == IF status = target THEN "same" ELSE target
           rows == IF req[t].op = "CANCEL" THEN [l \in differ |-> seen[t][l]] ELSE plan[t].lines
           new == IF req[t].op = "CANCEL" THEN {l \in differ : ~line[l].in} ELSE plan[t].insert
<1>1. Types /\ Control(t) /\ plan[t] \in Plan /\ pc[t] = "reload" /\ Active(t)
  BY Memory DEF Books, TxOK, ReloadSale, Active
<1>2. /\ pc' = [pc EXCEPT ![t] = "writeSale"]
      /\ UNCHANGED <<status, line, parts, returned, out, req, seen, moved>>
  BY DEF ReloadSale, Goto, stored
<1>3. plan' = [plan EXCEPT ![t].status = to, ![t].lines = rows, ![t].insert = new]
  BY DEF ReloadSale
<1> HIDE DEF rows, new
<1>4. plan'[t].lines = rows /\ plan'[t].status = to /\ \A u \in Txs \ {t} : plan'[u] = plan[u]
  BY <1>1, <1>3 DEF Types, Plan
<1>5. pc'[t] = "writeSale" /\ \A u \in Txs \ {t} : pc'[u] = pc[u]
  BY <1>1, <1>2 DEF Types
<1>6. ASSUME ~overlapped PROVE RunOf(t)'
  <2>1. Doing(t) /\ status = "CONFIRMED" /\ (req[t].op = "CANCEL" => seen[t] = line)
        /\ req[t].op \notin Returns
    BY <1>1, <1>6 DEF Match, RunOf, Control, Alone
  <2>2. HeaderOf(t)'
    BY <1>2, <1>4, <2>1 DEF HeaderOf
  <2>3. DOMAIN rows = DOMAIN plan[t].lines /\ (req[t].op # "CANCEL" => rows = plan[t].lines)
    <3>1. req[t].op = "CANCEL" => DOMAIN plan[t].lines = {} /\ differ = {}
      BY <2>1 DEF Doing, CancelOf, WritesNothing
    <3> QED
      BY <3>1 DEF rows
  <2>4. Doing(t)'
    BY <1>1, <1>2, <1>4, <1>5, <2>1, <2>2, <2>3, SavingSame DEF Saving
  <2>5. req[t].op \in Alone => seen[t] = line
    BY <1>1, <1>6 DEF Match, RunOf
  <2> QED
    BY <1>2, <2>1, <2>4, <2>5 DEF RunOf
<1> QED
  BY <1>1, <1>2, <1>4, <1>5, <1>6, QuietMatch

\* Writing the header leaves out no line that was planned.
LEMMA WriteSaleMatch ==
  ASSUME Books, Match, NEW t \in Txs, WriteSale(t), UNCHANGED overlapped
  PROVE  Match'
<1> DEFINE found == {l \in DOMAIN plan[t].lines :
                       req[t].op # "CANCEL" \/ line[l].in \/ l \in plan[t].insert}
           rows == Restrict(plan[t].lines, found)
<1>1. Types /\ Control(t) /\ plan[t] \in Plan /\ pc[t] = "writeSale" /\ Active(t)
  BY Memory DEF Books, TxOK, WriteSale, Active
<1>2. /\ pc' = [pc EXCEPT ![t] = "commit"]
      /\ UNCHANGED <<status, line, parts, returned, out, req, seen, moved>>
  BY DEF WriteSale, Goto, stored
<1>3. plan' = [plan EXCEPT ![t].lines = rows]
  BY <1>1 DEF WriteSale, Types
<1> HIDE DEF rows
<1>4. plan'[t].lines = rows /\ plan'[t].status = plan[t].status
      /\ \A u \in Txs \ {t} : plan'[u] = plan[u]
  BY <1>1, <1>3 DEF Types, Plan
<1>5. pc'[t] = "commit" /\ \A u \in Txs \ {t} : pc'[u] = pc[u]
  BY <1>1, <1>2 DEF Types
<1>6. ASSUME ~overlapped PROVE RunOf(t)'
  <2>1. Doing(t) /\ status = "CONFIRMED" /\ req[t].op \notin Returns
        /\ (req[t].op \in Alone => seen[t] = line)
    BY <1>1, <1>6 DEF Match, RunOf, Control
  <2>2. HeaderOf(t)'
    BY <1>1, <1>2, <1>4, <2>1 DEF Doing, HeaderOf
  <2>3. DOMAIN rows = DOMAIN plan[t].lines /\ (req[t].op # "CANCEL" => rows = plan[t].lines)
    <3>1. plan[t].lines \in [DOMAIN plan[t].lines -> Row]
      BY <1>1, SomeRowsType DEF Plan
    <3>2. req[t].op = "CANCEL" => DOMAIN plan[t].lines = {}
      BY <2>1 DEF Doing, CancelOf, WritesNothing
    <3>3. req[t].op # "CANCEL" => found = DOMAIN plan[t].lines
      OBVIOUS
    <3>4. DOMAIN rows = found
      BY DEF rows, Restrict
    <3> QED
      BY <3>1, <3>2, <3>3, <3>4 DEF rows, Restrict
  <2>4. Doing(t)'
    BY <1>1, <1>2, <1>4, <1>5, <2>1, <2>2, <2>3, SavingSame DEF Saving
  <2> QED
    BY <1>2, <2>1, <2>4 DEF RunOf
<1> QED
  BY <1>1, <1>2, <1>4, <1>5, <1>6, QuietMatch

\* A request that begins without overlapping starts beside requests that share the
\* sale, or beside none.
LEMMA BeginMatch ==
  ASSUME GoodsCompared, Books, Match, NEW t \in Txs, Begin(t)
  PROVE  Match'
<1> DEFINE running == {req[u].op : u \in {w \in Txs : Active(w)}}
<1> SUFFICES ASSUME ~overlapped'
             PROVE  /\ \A l \in Lines : StoredOf(l)'
                    /\ \A x, u \in Txs : Together(x, u)'
                    /\ \A u \in Txs : RunOf(u)'
  BY DEF Match
<1>1. PICK q \in Requests :
        /\ overlapped' = (overlapped \/ (running # {} /\ ({q.op} \cup running) \cap Exclusive # {}))
        /\ q.op = "ADD" => /\ q.line \notin DOMAIN StartQty
                           /\ \A u \in Txs : req[u].op = "ADD" => req[u].line # q.line
        /\ req' = [req EXCEPT ![t] = q]
  BY DEF Begin
<1>2. /\ pc[t] = "idle" /\ pc' = [pc EXCEPT ![t] = "start"]
      /\ UNCHANGED <<status, line, parts, returned, out, lock, seen, plan, moved>>
  BY DEF Begin, Goto, stored
<1>3. Types /\ Control(t)
  BY DEF Books, TxOK
<1>4. pc'[t] = "start" /\ req'[t] = q
      /\ \A u \in Txs \ {t} : pc'[u] = pc[u] /\ req'[u] = req[u]
  BY <1>1, <1>2, <1>3 DEF Types
<1>5. ~overlapped
      /\ (running = {} \/ (q.op \notin Exclusive /\ \A op \in running : op \notin Exclusive))
  BY <1>1
<1>6. /\ \A l \in Lines : StoredOf(l)
      /\ \A x, u \in Txs : Together(x, u)
      /\ \A u \in Txs : RunOf(u)
  BY <1>5 DEF Match
<1>7. ASSUME NEW l \in Lines PROVE StoredOf(l)'
  <2>1. Fresh(l)' => Fresh(l)
    BY <1>2, <1>4 DEF Fresh
  <2> QED
    BY <1>2, <1>6, <2>1 DEF StoredOf, GoodsOf, PartsOf
<1>8. ASSUME NEW u \in Txs \ {t} PROVE Together(t, u)' /\ Together(u, t)'
  <2>1. Active(u)' => req[u].op \in running
    BY <1>4 DEF Active
  <2>2. Active(u)' => req'[t].op \notin Alone /\ req'[u].op \notin Alone
    BY <1>4, <1>5, <2>1 DEF GoodsCompared, Alone
  <2> QED
    BY <1>1, <1>4, <2>2 DEF Together
<1>9. ASSUME NEW x \in Txs \ {t}, NEW u \in Txs \ {t} PROVE Together(x, u)'
  BY <1>4, <1>6 DEF Together, Active
<1>10. RunOf(t)'
  <2>1. DOMAIN plan[t].lines = {} /\ moved[t] = NoMoves
    BY <1>2, <1>3 DEF Control, NoPlan
  <2>2. Doing(t)'
    BY <1>1, <1>2, <1>4, <2>1
    DEF Doing, MetaOf, AddOf, ReturnOf, PartsBackOf, CancelOf, UpdateOf, RemoveOf, HeaderOf,
        Saving, WritesNothing, NoMoves
  <2> QED
    BY <1>4, <2>2 DEF RunOf
<1>11. ASSUME NEW u \in Txs \ {t} PROVE RunOf(u)'
  <2>1. Doing(u) => Doing(u)'
    BY <1>2, <1>4, DoingSame
  <2>2. Active(u)' <=> Active(u)
    BY <1>4 DEF Active
  <2> QED
    BY <1>2, <1>4, <1>6, <2>1, <2>2 DEF RunOf
<1>12. \A x, u \in Txs : Together(x, u)'
  BY <1>8, <1>9 DEF Together
<1> QED
  BY <1>7, <1>10, <1>11, <1>12

-----------------------------------------------------------------------------
(* What a commit does to the goods. *)

\* More of a line is more of each of its variants.
LEMMA Bigger ==
  ASSUME NEW m \in Nat, NEW n \in Nat, NEW r \in Nat, m <= n
  PROVE  m * r \in Nat /\ n * r \in Nat /\ m * r <= n * r
<1>1. PICK d \in Nat : n = m + d
  <2>1. n - m \in Nat /\ n = m + (n - m)
    OBVIOUS
  <2> QED
    BY <2>1
<1>2. m * r \in Nat /\ d * r \in Nat /\ n * r = m * r + d * r
  BY <1>1
<1> QED
  BY <1>2

\* What is stored of a line.
LEMMA LineTypes ==
  ASSUME Books, NEW l \in Lines, NEW v \in Variants
  PROVE  /\ line[l] \in Row /\ line[l].qty \in Nat /\ Recipe[l][v] \in Nat /\ parts[l][v] \in Nat
         /\ out[l][v] \in Int
BY RowType, RecipeType DEF Books, Types, Rows, Goods

\* What t's commit writes, when nothing has overlapped.
Commits(t) ==
  /\ Active(t) /\ Doing(t) /\ pc[t] = "commit" /\ req[t] \in Requests
  /\ status = "CONFIRMED" /\ (req[t].op \in Alone \cup Returns => seen[t] = line)
  /\ status' = IF req[t].op = "CANCEL" THEN "CANCELLED" ELSE "CONFIRMED"
  /\ returned \subseteq returned' /\ (req[t].op # "PARTS" => parts' = parts)
  /\ \A l \in Lines :
       /\ StoredOf(l) /\ (Fresh(l)' => Fresh(l))
       /\ line'[l] = IF l \in DOMAIN plan[t].lines THEN plan[t].lines[l] ELSE line[l]
       /\ \A v \in Variants : out'[l][v] = out[l][v] + moved[t][l][v]

\* A commit writes its plan and its movements on an open sale.
LEMMA CommitWrites ==
  ASSUME Books, Match, ~overlapped, NEW t \in Txs, Commit(t)
  PROVE  Commits(t)
<1>1. Types /\ Control(t) /\ Exact(t) /\ pc[t] = "commit" /\ req[t].op \in Ops
  BY Memory DEF Books, TxOK, Commit
<1>2. Active(t) /\ RunOf(t) /\ \A l \in Lines : StoredOf(l)
  BY <1>1 DEF Active, Match
<1>3. Doing(t) /\ status = "CONFIRMED" /\ (req[t].op \in Alone => seen[t] = line)
  BY <1>1, <1>2 DEF RunOf
<1>4. req[t].op \in Returns => seen[t] = line /\ plan[t].status = "same"
  BY <1>1 DEF Exact
<1>5. status' = IF req[t].op = "CANCEL" THEN "CANCELLED" ELSE "CONFIRMED"
  BY <1>1, <1>3, <1>4 DEF Commit, Doing, HeaderOf, Returns
<1>6. \A l \in Lines : Fresh(l)' => Fresh(l)
  <2>1. req' = req /\ \A u \in Txs : pc[u] = "committed" => pc'[u] = "committed"
    BY <1>1 DEF Commit, Goto, Types
  <2> QED
    BY <2>1 DEF Fresh
<1>7. returned \subseteq returned' /\ (req[t].op # "PARTS" => parts' = parts) /\ req[t] \in Requests
  BY <1>1 DEF Commit, Control
<1>8. ASSUME NEW l \in Lines
      PROVE  /\ line'[l] = IF l \in DOMAIN plan[t].lines THEN plan[t].lines[l] ELSE line[l]
             /\ \A v \in Variants : out'[l][v] = out[l][v] + moved[t][l][v]
  BY DEF Commit
<1> QED
  BY <1>1, <1>2, <1>3, <1>4, <1>5, <1>6, <1>7, <1>8 DEF Commits

\* A line no commit touches.
LEMMA StoredSame ==
  ASSUME Books, NEW t \in Txs, Commits(t), NEW l \in Lines, req[t].op # "CANCEL",
         line'[l] = line[l], \A v \in Variants : moved[t][l][v] = 0 /\ parts'[l][v] = parts[l][v]
  PROVE  StoredOf(l)'
<1>1. status' = status /\ StoredOf(l) /\ returned \subseteq returned' /\ (Fresh(l)' => Fresh(l))
  BY DEF Commits
<1>2. \A v \in Variants : out'[l][v] = out[l][v]
  BY LineTypes DEF Commits
<1> QED
  BY <1>1, <1>2 DEF StoredOf, GoodsOf, PartsOf

\* The line of the request, when it is a line of the sale before and after.
LEMMA StoredLine ==
  ASSUME Books, NEW t \in Txs, Commits(t), req[t].op # "CANCEL", NEW l \in Lines,
         line[l].in, NEW n \in Nat, line'[l] = [in |-> TRUE, qty |-> n],
         \A v \in Variants :
           /\ out'[l][v] = n * Recipe[l][v] - parts'[l][v]
           /\ PartsOf(l, v)'
  PROVE  StoredOf(l)'
<1>1. status' = "CONFIRMED" /\ StoredOf(l) /\ (Fresh(l)' => Fresh(l))
  BY DEF Commits
<1>2. ~Fresh(l)'
  BY <1>1 DEF StoredOf
<1>3. \A v \in Variants : GoodsOf(l, v)'
  BY <1>1 DEF GoodsOf
<1> QED
  BY <1>2, <1>3 DEF StoredOf

\* A new line puts out what it sells.
LEMMA CommitAdd ==
  ASSUME Books, Match, ~overlapped, NEW t \in Txs, Commit(t), req[t].op = "ADD", NEW l \in Lines
  PROVE  StoredOf(l)'
<1>1. Commits(t)
  BY CommitWrites
<1>2. PICK a \in Lines, n \in Nat : a = req[t].line /\ n = req[t].qty
  BY Memory
<1>3. /\ a \notin DOMAIN StartQty /\ plan[t].lines = [k \in {a} |-> [in |-> TRUE, qty |-> n]]
      /\ moved[t] = [k \in Lines |-> IF k = a THEN Units(a, n) ELSE Nothing]
  BY <1>1, <1>2 DEF Commits, Doing, AddOf, Saving, Moves, Writes
<1>4. parts' = parts /\ status' = "CONFIRMED"
  BY <1>1 DEF Commits
<1>5. CASE l # a
  <2>1. line'[l] = line[l]
    BY <1>1, <1>3, <1>5 DEF Commits
  <2>2. \A v \in Variants : moved[t][l][v] = 0
    BY <1>3, <1>5 DEF Nothing
  <2> QED
    BY <1>1, <1>4, <2>1, <2>2, StoredSame
<1>6. CASE l = a
  <2>1. Fresh(a)
    <3>1. ASSUME NEW u \in Txs, req[u].op = "ADD", pc[u] = "committed" PROVE req[u].line # a
      <4>1. u # t
        BY <1>1, <3>1 DEF Commits
      <4>2. Together(t, u)
        BY DEF Match
      <4> QED
        BY <1>2, <3>1, <4>1, <4>2 DEF Together
    <3> QED
      BY <1>3, <3>1 DEF Fresh
  <2>2. StoredOf(a)
    BY <1>1 DEF Commits
  <2>3. \A v \in Variants : out[a][v] = 0 /\ parts[a][v] = 0
    BY <2>1, <2>2 DEF StoredOf, GoodsOf
  <2>4. line'[a] = [in |-> TRUE, qty |-> n]
    BY <1>1, <1>3 DEF Commits
  <2>5. ASSUME NEW v \in Variants PROVE GoodsOf(a, v)' /\ PartsOf(a, v)'
    <3>1. out'[a][v] = n * Recipe[a][v] /\ n * Recipe[a][v] \in Nat
      BY <1>1, <1>3, <2>3, LineTypes DEF Commits, Units
    <3> QED
      BY <1>4, <2>3, <2>4, <3>1 DEF GoodsOf, PartsOf
  <2>6. ~Fresh(a)'
    <3>1. pc'[t] = "committed" /\ req' = req
      BY DEF Commit, Goto, Books, Types
    <3> QED
      BY <1>2, <3>1 DEF Fresh
  <2> QED
    BY <1>6, <2>5, <2>6 DEF StoredOf
<1> QED
  BY <1>5, <1>6

\* A return lowers the quantity by what comes back; no part of the line was back yet.
LEMMA CommitReturn ==
  ASSUME Books, Match, ~overlapped, NEW t \in Txs, Commit(t), req[t].op = "RETURN",
         NEW l \in Lines
  PROVE  StoredOf(l)'
<1>1. Commits(t)
  BY CommitWrites
<1>2. PICK a \in Lines, n \in Nat : a = req[t].line /\ n = req[t].qty
  BY Memory
<1>3. seen[t] = line /\ parts' = parts
  BY <1>1 DEF Commits, Returns
<1>4. PICK m \in Nat : m = line[a].qty
  BY LineTypes, RowType DEF Books, Types, Rows
<1>5. /\ line[a].in /\ n <= m
      /\ plan[t].lines = [k \in {a} |-> [in |-> TRUE, qty |-> m - n]]
      /\ moved[t] = [k \in Lines |-> IF k = a THEN Back(Units(a, n)) ELSE Nothing]
  BY <1>1, <1>2, <1>3, <1>4 DEF Commits, Doing, ReturnOf, Was, Moves, Writes
<1>6. CASE l # a
  <2>1. line'[l] = line[l]
    BY <1>1, <1>5, <1>6 DEF Commits
  <2>2. \A v \in Variants : moved[t][l][v] = 0
    BY <1>5, <1>6 DEF Nothing
  <2> QED
    BY <1>1, <1>3, <2>1, <2>2, StoredSame
<1>7. CASE l = a
  <2>1. StoredOf(a) /\ status = "CONFIRMED"
    BY <1>1 DEF Commits
  <2>2. line'[a] = [in |-> TRUE, qty |-> m - n] /\ m - n \in Nat
    <3>1. a \in DOMAIN plan[t].lines /\ plan[t].lines[a] = [in |-> TRUE, qty |-> m - n]
      BY <1>5
    <3>2. line'[a] = plan[t].lines[a]
      BY <1>1, <3>1 DEF Commits
    <3> QED
      BY <1>5, <3>1, <3>2
  <2>3. ASSUME NEW v \in Variants
        PROVE  out'[a][v] = (m - n) * Recipe[a][v] - parts'[a][v] /\ PartsOf(a, v)'
    <3>1. parts[a][v] = 0
      BY <1>1, <1>2, <2>1 DEF StoredOf, PartsOf, Commits
    <3>2. PICK r \in Nat : r = Recipe[a][v]
      BY RecipeType
    <3>3. out[a][v] = m * r - 0
      BY <1>4, <1>5, <2>1, <3>1, <3>2 DEF StoredOf, GoodsOf
    <3>4. out'[a][v] = out[a][v] + (-(n * r))
      BY <1>1, <1>5, <3>2 DEF Commits, Units, Back
    <3>5. (m - n) * r = m * r - n * r /\ m * r \in Int /\ n * r \in Int /\ (m - n) * r \in Nat
      BY <2>2
    <3>6. out'[a][v] = (m - n) * r - 0
      BY <3>3, <3>4, <3>5
    <3> QED
      BY <1>3, <2>2, <3>1, <3>2, <3>5, <3>6 DEF PartsOf
  <2> QED
    BY <1>1, <1>5, <1>7, <2>2, <2>3, StoredLine
<1> QED
  BY <1>6, <1>7

\* Parts come back up to those that are still out.
LEMMA CommitParts ==
  ASSUME GoodsCompared, NamedOnce, Books, Match, ~overlapped, NEW t \in Txs, Commit(t),
         req[t].op = "PARTS", NEW l \in Lines
  PROVE  StoredOf(l)'
<1>1. Commits(t)
  BY CommitWrites
<1>2. PICK q \in Requests, a \in Lines : q = req[t] /\ a = q.line
  BY <1>1, Memory DEF Commits
<1>3. seen[t] = line /\ Exact(t) /\ Types /\ pc[t] = "commit"
  BY <1>1 DEF Commits, Returns, Books, TxOK
<1>4. PICK m \in Nat : m = line[a].qty
  BY LineTypes, RowType DEF Books, Types, Rows
<1>5. /\ line[a].in /\ DOMAIN plan[t].lines = {}
      /\ moved[t] = [k \in Lines |-> IF k = a THEN [v \in Variants |-> -PartSum(q, v)] ELSE Nothing]
  BY <1>1, <1>2, <1>3 DEF Commits, Doing, PartsBackOf, Was, Moves, WritesNothing
<1>6. /\ parts' = [parts EXCEPT ![a] = [v \in Variants |-> parts[a][v] + PartSum(q, v)]]
      /\ returned' = returned \cup {a}
  BY <1>2, <1>3 DEF Commit, Types
<1>7. line'[l] = line[l]
  BY <1>1, <1>5 DEF Commits
<1>8. CASE l # a
  <2>1. \A v \in Variants : moved[t][l][v] = 0 /\ parts'[l][v] = parts[l][v]
    BY <1>3, <1>5, <1>6, <1>8 DEF Nothing, Types
  <2> QED
    BY <1>1, <1>7, <2>1, StoredSame
<1>9. CASE l = a
  <2>1. StoredOf(a) /\ status = "CONFIRMED"
    BY <1>1 DEF Commits
  <2>2. line'[a] = [in |-> TRUE, qty |-> m]
    <3>1. line[a] \in Row
      BY <1>3 DEF Types, Rows
    <3>2. line[a] = [in |-> TRUE, qty |-> m]
      BY <1>4, <1>5, <3>1 DEF Row
    <3> QED
      BY <1>7, <1>9, <3>2
  <2>3. ASSUME NEW v \in Variants
        PROVE  out'[a][v] = m * Recipe[a][v] - parts'[a][v] /\ PartsOf(a, v)'
    <3>1. PICK w \in Nat, p \in Nat, s \in Nat :
            w = m * Recipe[a][v] /\ p = parts[a][v] /\ s = PartSum(q, v)
      <4>1. m * Recipe[a][v] \in Nat
        BY RecipeType
      <4> QED
        BY <4>1, LineTypes, PartSumIsPart
    <3>2. out[a][v] = w - p /\ p <= w
      BY <1>4, <1>5, <2>1, <3>1 DEF StoredOf, GoodsOf, PartsOf
    <3>3. out'[a][v] = out[a][v] + (-s)
      BY <1>1, <1>5, <3>1 DEF Commits
    <3>4. parts'[a][v] = p + s
      BY <1>3, <1>6, <3>1 DEF Types
    <3>5. s # 0 => p + s <= w
      BY <1>2, <1>3, <1>4, <3>1 DEF Exact, Returns
    <3>6. out'[a][v] = w - (p + s) /\ p + s <= w
      BY <3>2, <3>3, <3>5
    <3>7. /\ a \in returned' /\ a \in Packages
          /\ \A r \in Requests : r.op = "RETURN" => r.line # a
      BY <1>2, <1>6 DEF GoodsCompared
    <3>8. PartsOf(a, v)'
      BY <2>2, <3>1, <3>4, <3>6, <3>7 DEF PartsOf
    <3> QED
      BY <3>1, <3>4, <3>6, <3>8
  <2> QED
    BY <1>1, <1>5, <1>9, <2>2, <2>3, StoredLine
<1> QED
  BY <1>8, <1>9

\* An edit moves the difference of the quantities, and lowers none that has come back.
LEMMA CommitUpdate ==
  ASSUME Books, Match, ~overlapped, NEW t \in Txs, Commit(t), req[t].op = "UPDATE",
         NEW l \in Lines
  PROVE  StoredOf(l)'
<1>1. Commits(t)
  BY CommitWrites
<1>2. PICK a \in Lines, n \in Nat : a = req[t].line /\ n = req[t].qty
  BY Memory
<1>3. seen[t] = line /\ parts' = parts /\ pc[t] = "commit"
  BY <1>1 DEF Commits, Alone
<1>4. PICK m \in Nat : m = line[a].qty
  BY LineTypes, RowType DEF Books, Types, Rows
<1>5. /\ line[a].in /\ (n < m => a \notin returned)
      /\ moved[t] = [k \in Lines |-> IF k = a THEN Units(a, n - m) ELSE Nothing]
      /\ \/ plan[t].lines = [k \in {a} |-> [in |-> TRUE, qty |-> n]]
         \/ DOMAIN plan[t].lines = {} /\ n = m
  BY <1>1, <1>2, <1>3, <1>4
  DEF Commits, Doing, UpdateOf, Was, Moves, Writes, WritesNothing, Saving
<1>6. CASE l # a
  <2>1. line'[l] = line[l]
    BY <1>1, <1>5, <1>6 DEF Commits
  <2>2. \A v \in Variants : moved[t][l][v] = 0
    BY <1>5, <1>6 DEF Nothing
  <2> QED
    BY <1>1, <1>3, <2>1, <2>2, StoredSame
<1>7. CASE l = a
  <2>1. StoredOf(a) /\ status = "CONFIRMED"
    BY <1>1 DEF Commits
  <2>2. line'[a] = [in |-> TRUE, qty |-> n]
    <3>1. line[a] = [in |-> TRUE, qty |-> m]
      BY <1>4, <1>5, LineTypes DEF Books, Types, Rows, Row
    <3>2. CASE plan[t].lines = [k \in {a} |-> [in |-> TRUE, qty |-> n]]
      BY <1>1, <3>2 DEF Commits
    <3>3. CASE DOMAIN plan[t].lines = {} /\ n = m
      BY <1>1, <3>1, <3>3 DEF Commits
    <3> QED
      BY <1>5, <3>2, <3>3
  <2>3. ASSUME NEW v \in Variants
        PROVE  out'[a][v] = n * Recipe[a][v] - parts'[a][v] /\ PartsOf(a, v)'
    <3>1. PICK r \in Nat, p \in Nat : r = Recipe[a][v] /\ p = parts[a][v]
      BY LineTypes
    <3>2. /\ out[a][v] = m * r - p /\ p <= m * r
          /\ p # 0 => /\ a \in returned /\ a \in Packages
                      /\ \A x \in Requests : x.op = "RETURN" => x.line # a
      BY <1>4, <1>5, <2>1, <3>1 DEF StoredOf, GoodsOf, PartsOf
    <3>3. out'[a][v] = out[a][v] + (n - m) * r
      BY <1>1, <1>5, <3>1 DEF Commits, Units
    <3>4. (n - m) * r = n * r - m * r /\ m * r \in Int /\ n * r \in Nat
      OBVIOUS
    <3>5. out'[a][v] = n * r - p
      BY <3>2, <3>3, <3>4
    <3>6. p <= n * r
      <4>1. CASE n < m
        BY <1>5, <3>2, <3>4, <4>1
      <4>2. CASE m <= n
        <5>1. m * r <= n * r
          BY <4>2, Bigger
        <5> QED
          BY <3>2, <3>4, <5>1
      <4> QED
        BY <4>1, <4>2
    <3>7. PartsOf(a, v)'
      <4>1. returned \subseteq returned'
        BY <1>1 DEF Commits
      <4> QED
        BY <1>3, <2>2, <3>1, <3>2, <3>6, <4>1 DEF PartsOf
    <3> QED
      BY <1>3, <3>1, <3>5, <3>7
  <2> QED
    BY <1>1, <1>5, <1>7, <2>2, <2>3, StoredLine
<1> QED
  BY <1>6, <1>7

\* What comes back of a line is all that is still out.
LEMMA RestoreIsAll ==
  ASSUME Books, NEW l \in Lines, NEW v \in Variants, StoredOf(l), line[l].in, status = "CONFIRMED"
  PROVE  out[l][v] + Back(Restore(l, line[l].qty))[v] = 0
<1>1. PICK w \in Nat, p \in Nat : w = line[l].qty * Recipe[l][v] /\ p = parts[l][v]
  <2>1. line[l].qty * Recipe[l][v] \in Nat
    BY LineTypes
  <2> QED
    BY <2>1, LineTypes
<1>2. out[l][v] = w - p /\ p <= w /\ (p # 0 => l \in Packages)
  BY <1>1 DEF StoredOf, GoodsOf, PartsOf
<1>3. Restore(l, line[l].qty)[v] = w - p
  <2>1. CASE l \in Packages
    BY <1>1, <1>2, <2>1 DEF Restore
  <2>2. CASE l \notin Packages
    BY <1>1, <1>2, <2>2 DEF Restore
  <2> QED
    BY <2>1, <2>2
<1> QED
  BY <1>2, <1>3 DEF Back

\* A removed line brings back all that is out.
LEMMA CommitRemove ==
  ASSUME Books, Match, ~overlapped, NEW t \in Txs, Commit(t), req[t].op = "REMOVE",
         NEW l \in Lines
  PROVE  StoredOf(l)'
<1>1. Commits(t)
  BY CommitWrites
<1>2. PICK a \in Lines : a = req[t].line
  BY Memory
<1>3. seen[t] = line /\ parts' = parts /\ pc[t] = "commit" /\ status' = "CONFIRMED"
  BY <1>1 DEF Commits, Alone
<1>4. /\ line[a].in /\ a \notin returned
      /\ moved[t] = [k \in Lines |-> IF k = a THEN Back(Restore(a, line[a].qty)) ELSE Nothing]
      /\ plan[t].lines = [k \in {a} |-> Gone]
  BY <1>1, <1>2, <1>3 DEF Commits, Doing, RemoveOf, Was, Moves, Writes, Saving
<1>5. CASE l # a
  <2>1. line'[l] = line[l]
    BY <1>1, <1>4, <1>5 DEF Commits
  <2>2. \A v \in Variants : moved[t][l][v] = 0
    BY <1>4, <1>5 DEF Nothing
  <2> QED
    BY <1>1, <1>3, <2>1, <2>2, StoredSame
<1>6. CASE l = a
  <2>1. StoredOf(a) /\ status = "CONFIRMED" /\ (Fresh(a)' => Fresh(a))
    BY <1>1 DEF Commits
  <2>2. line'[a] = Gone /\ ~Gone.in
    BY <1>1, <1>4 DEF Commits, Gone
  <2>3. ASSUME NEW v \in Variants PROVE GoodsOf(a, v)' /\ PartsOf(a, v)'
    <3>1. out'[a][v] = 0
      BY <1>1, <1>4, <2>1, RestoreIsAll DEF Commits
    <3>2. parts[a][v] = 0
      BY <1>4, <2>1 DEF StoredOf, PartsOf
    <3> QED
      BY <1>3, <2>2, <3>1, <3>2 DEF GoodsOf, PartsOf
  <2>4. ~Fresh(a)'
    BY <1>4, <2>1 DEF StoredOf
  <2> QED
    BY <1>6, <2>3, <2>4 DEF StoredOf
<1> QED
  BY <1>5, <1>6

\* A cancellation brings back what is out under every line.
LEMMA CommitCancel ==
  ASSUME Books, Match, ~overlapped, NEW t \in Txs, Commit(t), req[t].op = "CANCEL",
         NEW l \in Lines
  PROVE  StoredOf(l)'
<1>1. Commits(t)
  BY CommitWrites
<1>2. /\ status' = "CANCELLED" /\ parts' = parts /\ pc[t] = "commit" /\ seen[t] = line
      /\ returned \subseteq returned' /\ StoredOf(l) /\ (Fresh(l)' => Fresh(l))
      /\ status = "CONFIRMED"
  BY <1>1 DEF Commits, Alone
<1>3. /\ DOMAIN plan[t].lines = {}
      /\ moved[t] = [k \in Lines |-> IF line[k].in THEN Back(Restore(k, line[k].qty))
                                                   ELSE Nothing]
  BY <1>1, <1>2 DEF Commits, Doing, CancelOf, WritesNothing, Saving
<1>4. line'[l] = line[l]
  BY <1>1, <1>3 DEF Commits
<1>5. ASSUME NEW v \in Variants PROVE GoodsOf(l, v)' /\ PartsOf(l, v)'
  <2>1. out'[l][v] = out[l][v] + moved[t][l][v]
    BY <1>1 DEF Commits
  <2>2. CASE line[l].in
    <3>1. moved[t][l][v] = Back(Restore(l, line[l].qty))[v]
      BY <1>3, <2>2
    <3>2. out'[l][v] = 0
      BY <1>2, <2>1, <2>2, <3>1, RestoreIsAll
    <3> QED
      BY <1>2, <1>4, <3>2 DEF GoodsOf, PartsOf, StoredOf
  <2>3. CASE ~line[l].in
    <3>1. moved[t][l][v] = 0 /\ out[l][v] = 0
      BY <1>2, <1>3, <2>3 DEF Nothing, StoredOf, GoodsOf
    <3>2. out'[l][v] = 0
      BY <2>1, <3>1
    <3> QED
      BY <1>2, <1>4, <3>2 DEF GoodsOf, PartsOf, StoredOf
  <2> QED
    BY <2>2, <2>3
<1> QED
  BY <1>2, <1>4, <1>5 DEF StoredOf

\* Every commit keeps the goods with the sale.
LEMMA CommitMatch ==
  ASSUME GoodsCompared, NamedOnce, Books, Match, NEW t \in Txs, Commit(t), UNCHANGED overlapped
  PROVE  Match'
<1> SUFFICES ASSUME ~overlapped
             PROVE  /\ \A l \in Lines : StoredOf(l)'
                    /\ \A x, u \in Txs : Together(x, u)'
                    /\ \A u \in Txs : RunOf(u)'
  BY DEF Match
<1>1. Commits(t) /\ req[t].op \in Ops /\ Types
  BY CommitWrites, Memory DEF Books
<1>2. ASSUME NEW l \in Lines PROVE StoredOf(l)'
  <2>1. CASE req[t].op = "META"
    <3>1. /\ line'[l] = line[l] /\ parts' = parts
          /\ \A v \in Variants : moved[t][l][v] = 0
      BY <1>1, <2>1 DEF Commits, Doing, MetaOf, WritesNothing, NoMoves
    <3> QED
      BY <1>1, <2>1, <3>1, StoredSame
  <2> QED
    BY <1>1, <2>1, CommitAdd, CommitReturn, CommitParts, CommitUpdate, CommitRemove, CommitCancel
    DEF Ops
<1>3. /\ pc'[t] = "committed" /\ req' = req /\ seen' = seen
      /\ \A u \in Txs \ {t} : pc'[u] = pc[u] /\ plan'[u] = plan[u] /\ moved'[u] = moved[u]
  BY <1>1 DEF Commit, Goto, Types
<1>4. \A u \in Txs : Active(u)' => Active(u) /\ u # t
  BY <1>3 DEF Active
<1>5. \A x, u \in Txs : Together(x, u)'
  BY <1>3, <1>4 DEF Match, Together
<1>6. ASSUME NEW u \in Txs PROVE RunOf(u)'
  <2> SUFFICES ASSUME Active(u)' PROVE RunOf(u)'
    BY DEF RunOf
  <2>1. u # t /\ Active(u) /\ Active(t) /\ Together(t, u) /\ Together(u, t) /\ RunOf(u)
    BY <1>1, <1>4 DEF Commits, Match
  <2>2. req[t].op \notin Alone /\ req[u].op \notin Alone
    BY <2>1 DEF Together
  <2>3. status' = "CONFIRMED"
    BY <1>1, <2>2 DEF Commits, Alone
  <2>4. Doing(u) => Doing(u)'
    BY <1>3, <2>1, <2>2, DoingSame
  <2> QED
    BY <1>3, <2>1, <2>2, <2>3, <2>4 DEF RunOf
<1> QED
  BY <1>2, <1>5, <1>6

\* Every step keeps the goods with the sale.
LEMMA MatchKept ==
  ASSUME GoodsCompared, NamedOnce, Books, Match, [Next]_vars
  PROVE  Match'
<1>1. ASSUME NEW t \in Txs, Begin(t) PROVE Match'
  BY <1>1, BeginMatch
<1>2. ASSUME NEW t \in Txs, Step(t) PROVE Match'
  <2>1. UNCHANGED overlapped
    BY <1>2 DEF Step
  <2>2. CASE Commit(t)
    BY <2>1, <2>2, CommitMatch
  <2>3. CASE ReadSale(t) \/ LockSale(t) \/ LockLines(t) \/ ReadLine(t)
    BY <2>1, <2>3, ReadMatch, LockMatch
  <2>4. CASE CancelMove(t) \/ ReturnMove(t) \/ PartsMove(t)
    BY <2>1, <2>4, CancelMoveMatch, ReturnMoveMatch, PartsMoveMatch
  <2>5. CASE UpdateMove(t) \/ AddMove(t) \/ RemoveMove(t)
    BY <2>1, <2>5, UpdateMoveMatch, AddMoveMatch, RemoveMoveMatch
  <2>6. CASE ReloadLine(t) \/ WriteLine(t) \/ ReloadSale(t) \/ WriteSale(t)
    BY <2>1, <2>6, SaveLineMatch, ReloadSaleMatch, WriteSaleMatch
  <2>7. CASE DeadlockAbort(t)
    <3>1. Needs(t) # {} /\ Abort(t)
      BY <2>7 DEF DeadlockAbort, WaitsFor
    <3>2. Active(t)
      BY <3>1 DEF Needs, At, Active
    <3> QED
      BY <2>1, <3>1, <3>2, AbortMatch
  <2> QED
    BY <1>2, <2>2, <2>3, <2>4, <2>5, <2>6, <2>7 DEF Step
<1>3. ASSUME NEW t \in Txs, Fail(t) PROVE Match'
  BY <1>3, AbortMatch DEF Fail
<1>4. CASE UNCHANGED vars
  <2>1. \A u \in Txs : Doing(u) => Doing(u)'
    BY <1>4, DoingSame DEF vars
  <2> QED
    BY <1>4, <2>1
    DEF vars, Match, StoredOf, GoodsOf, PartsOf, Fresh, Together, RunOf, Active
<1> QED
  BY <1>1, <1>2, <1>3, <1>4 DEF Next, Finished

\* Unless a request that locks nothing has overlapped another, the goods out of the stock
\* are those the sale shows, whatever the requests and however many: every request's
\* movements are worked out from lines that are still the stored ones when it commits.
THEOREM GoodsAreCounted ==
  ASSUME GoodsCompared, NamedOnce
  PROVE  Spec => []GoodsMatchSale
<1>1. Init => Books /\ Match
  BY InitBooks, InitMatch
<1>2. Books /\ Match /\ [Next]_vars => (Books /\ Match)'
  BY BooksKept, MatchKept
<1>3. Books /\ TypeOK /\ Match => GoodsMatchSale
  BY DEF Match, StoredOf, GoodsOf, GoodsMatchSale
<1>4. Spec => []TypeOK
  BY SaleTypes
<1> QED
  BY <1>1, <1>2, <1>3, <1>4, PTL DEF Spec
=============================================================================
