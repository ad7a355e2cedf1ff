----------------------------- MODULE Catalogue -----------------------------
(***************************************************************************)
(* The variants of one product (ProductService): generated from attribute  *)
(* values, given codes that are unique in the product, and opened and      *)
(* closed, switched on and off in the stores of a tenant by rows of        *)
(* store_variant_stock and store_product_prices, which this service always *)
(* creates together.  A sync reads the variants and their rows, and writes *)
(* in its transaction what it decided from them; other requests may commit *)
(* in between.  A code is the sequence of its words, which the code joins  *)
(* with "-".                                                               *)
(***************************************************************************)
EXTENDS Integers, Sequences, FiniteSets, FiniteSetsExt

CONSTANTS
  AllStores, NoStore,  \* NoStore: a user of the tenant and not of a store
  Values, Names,       \* attribute values, and the names they may have
  Texts, VARIANT,      \* words in capitals; one that may be a suffix is a number
  Words,               \* Words[name]: slugify(name) in capitals, as its words
  FirstName, Renames,  \* FirstName[value]: name at the beginning; bound: <<value, name>>
  Selections,          \* attribute selections: sequences of groups of values
  Scopes,              \* [storeIds: subset of AllStores, all: "yes", "no" or "unset"]
  Clerks,              \* those who sync at the same time
  MaxRequests          \* bound

\* A selection has finitely many groups, and each finitely many values.
ASSUME CatalogueAssumption ==
  /\ NoStore \notin AllStores
  /\ VARIANT \in Texts
  /\ Words \in [Names -> Seq(Texts \cup Nat)]
  /\ FirstName \in [Values -> Names] /\ Renames \subseteq Values \X Names
  /\ Selections \subseteq Seq(Seq(Values))
  /\ Scopes \subseteq [storeIds : SUBSET AllStores, all : {"yes", "no", "unset"}]

VARIABLES
  stores,    \* stores of the tenant
  name,      \* name[value]
  variants,  \* sequence of product_variants: [key, code]
  rows,      \* rows[i][s]: row of variant i in store s, or NoStoreRow
  sync,      \* sync[c]: what a clerk's sync has read, or NoSync
  requests   \* requests so far

catalogueVars == <<stores, name, variants, rows, sync, requests>>

NoStoreRow == [linked |-> FALSE, active |-> FALSE, price |-> FALSE, there |-> FALSE]
Row(linked, active, price) ==
  [linked |-> linked, active |-> active, price |-> price, there |-> TRUE]
NoSync == [state |-> "idle"]
Tokens == stores \cup {NoStore}

OpenIn(s) == \E i \in DOMAIN rows : rows[i][s].linked
Visible(token) == \A s \in AllStores : s = token => OpenIn(s)

\* A request of another clerk commits while a sync is between read and write.
Disturb == [c \in Clerks |-> IF sync[c].state = "read" THEN [sync[c] EXCEPT !.alone = FALSE]
                             ELSE sync[c]]

Counted ==
  /\ requests < MaxRequests
  /\ requests' = requests + 1

-----------------------------------------------------------------------------
(* Codes. *)

\* The sequences of a sequence, one after the other.
Joined(seqs) ==
  LET joined[n \in 0..Len(seqs)] == IF n = 0 THEN <<>> ELSE joined[n - 1] \o seqs[n]
  IN  joined[Len(seqs)]

\* Every choice of one value of each group; the order of the groups counts.
Widened(keys, group) ==
  Joined([i \in 1..Len(keys) |-> [j \in 1..Len(group) |-> Append(keys[i], group[j])]])
Combinations(groups) ==
  LET wide[n \in 0..Len(groups)] ==
        IF n = 0 THEN <<<<>>>> ELSE Widened(wide[n - 1], groups[n])
  IN  IF groups = <<>> THEN <<>> ELSE wide[Len(groups)]

BaseCode(key, names) ==
  LET words == Joined([k \in 1..Len(key) |-> Words[names[key[k]]]])
  IN  IF words = <<>> THEN <<VARIANT>> ELSE words

Candidate(base, n) == IF n = 1 THEN base ELSE Append(base, n)

\* MUTANT of NextUniqueCode: the first suffix is tried and nothing after it.
NextCodeOnce(base, reserved) ==
  Candidate(base, IF base \in reserved THEN 2 ELSE 1)

\* One of more candidates than there are codes is free.
NextUniqueCode(base, reserved) ==
  Candidate(base, Min({n \in 1..(Cardinality(reserved) + 1) : Candidate(base, n) \notin reserved}))

-----------------------------------------------------------------------------
(* Rows.  default: what a missing row is created with, by store. *)

OpenRow == [s \in AllStores |-> Row(TRUE, TRUE, TRUE)]
Ensured(row, S, default) ==
  [s \in AllStores |-> IF s \in S /\ ~row[s].there THEN default[s] ELSE row[s]]
NoRows == [s \in AllStores |-> NoStoreRow]

\* setTenantVariantStoresActiveState, setStoreVariantActiveState
SwitchedEverywhere(row, on) ==
  LET full == Ensured(row, stores, OpenRow)
  IN  [s \in AllStores |-> IF full[s].linked THEN [full[s] EXCEPT !.active = on] ELSE full[s]]
SwitchedIn(row, s, on) ==
  [Ensured(row, {s}, OpenRow) EXCEPT ![s].active = on, ![s].linked = TRUE]
Switched(row, token, on) ==
  IF token = NoStore THEN SwitchedEverywhere(row, on) ELSE SwitchedIn(row, token, on)

\* resolveScopeStoreIds; {} stands for the request that is refused.
ScopeStores(scope, token) ==
  IF scope.all = "yes" THEN stores
  ELSE IF scope.storeIds # {} THEN scope.storeIds
  ELSE IF token # NoStore THEN {token}
  ELSE IF scope.all = "no" THEN {} ELSE stores
ClosesOthers(scope) == scope.all = "no" \/ scope.storeIds # {}

\* MUTANT of Scoped: the prices of the stores left out stay on.
ScopedStockOnly(row, target, closes) ==
  LET full == Ensured(row, stores, OpenRow)
  IN  [s \in AllStores |->
         IF s \in target THEN [full[s] EXCEPT !.linked = TRUE, !.price = TRUE]
         ELSE IF closes /\ full[s].there THEN [full[s] EXCEPT !.linked = FALSE] ELSE full[s]]

\* applyProductStoresScope, for one variant.
Scoped(row, target, closes) ==
  LET full == Ensured(row, stores, OpenRow)
  IN  [s \in AllStores |->
         IF s \in target THEN [full[s] EXCEPT !.linked = TRUE, !.price = TRUE]
         ELSE IF closes /\ full[s].there THEN [full[s] EXCEPT !.linked = FALSE, !.price = FALSE]
         ELSE full[s]]

-----------------------------------------------------------------------------
(* A sync: from what was read to what is written. *)

\* MUTANT of NewRow: a new variant is on sale in every store.
NewRowOpen(known, token) == OpenRow

\* The row of a new variant: open where another variant is open, on where one
\* is on.  A store without rows is closed to a clerk of another store, and open
\* if the tenant syncs.
NewRow(known, token) ==
  LET There(s) == \E i \in DOMAIN known : known[i][s].there
      Link(s)  == IF There(s) THEN \E i \in DOMAIN known : known[i][s].linked
                  ELSE token \in {NoStore, s}
      Open(s)  == {i \in DOMAIN known : known[i][s].linked}
      On(s)    == IF Open(s) # {} THEN \E i \in Open(s) : known[i][s].active
                  ELSE token \in {NoStore, s}
  IN  [s \in AllStores |-> Row(Link(s), On(s), Link(s))]

\* Variants are saved one after the other: an existing one is found by its key
\* and gives its code back first; a new one is appended.
SaveOne(read, acc, key) ==
  LET found == {i \in DOMAIN read.variants : read.variants[i].key = key}
      at    == IF found = {} THEN Len(acc.variants) + 1 ELSE Max(found)
      free  == IF found = {} THEN acc.reserved ELSE acc.reserved \ {acc.codes[at]}
      code  == NextUniqueCode(BaseCode(key, read.name), free)
      made  == NewRow(read.rows, read.token)
  IN  [variants |-> IF found = {} THEN Append(acc.variants, [key |-> key, code |-> code])
                    ELSE [acc.variants EXCEPT ![at].code = code],
       rows |-> IF found = {} THEN Append(acc.rows, Ensured(NoRows, stores, made))
                ELSE [acc.rows EXCEPT ![at] = Ensured(@, stores, made)],
       codes |-> IF found = {} THEN acc.codes ELSE [acc.codes EXCEPT ![at] = code],
       reserved |-> free \cup {code}, assigned |-> acc.assigned \cup {at},
       ok |-> acc.ok /\ \A i \in DOMAIN acc.variants : i = at \/ acc.variants[i].code # code]

\* What has been saved before the first; codes: of the entities in memory.
Unsaved(read) ==
  LET codes == [i \in DOMAIN read.variants |-> read.variants[i].code]
  IN  [variants |-> variants, rows |-> rows, codes |-> codes,
       reserved |-> {codes[i] : i \in DOMAIN codes}, assigned |-> {}, ok |-> TRUE]

SaveAll(read) ==
  LET saved[n \in 0..Len(read.keys)] ==
        IF n = 0 THEN Unsaved(read) ELSE SaveOne(read, saved[n - 1], read.keys[n])
  IN  saved[Len(read.keys)]

Dropped(read, acc) == DOMAIN read.variants \ acc.assigned

\* What a sync leaves: saved variants, then the dropped ones off in all stores.
Outcome(read) ==
  [SaveAll(read) EXCEPT !.rows = [i \in DOMAIN @ |-> IF i \in Dropped(read, SaveAll(read))
                                                    THEN SwitchedEverywhere(@[i], FALSE)
                                                    ELSE @[i]]]

Reading(token, selection) ==
  [state |-> "read", token |-> token, keys |-> Combinations(selection),
   name |-> name, variants |-> variants, rows |-> rows, alone |-> TRUE]

-----------------------------------------------------------------------------
CatalogueInit ==
  /\ \E S \in SUBSET AllStores : stores = S /\ S # {}
  /\ name = FirstName
  /\ variants = <<>> /\ rows = <<>>
  /\ sync = [c \in Clerks |-> NoSync] /\ requests = 0

\* findProductForVariantSync: a clerk of a store sees the products open in it,
\* and the one that has no variant yet.
SyncRead(c, token, selection) ==
  /\ sync[c].state # "read"
  /\ Visible(token) \/ variants = <<>>
  /\ sync' = [sync EXCEPT ![c] = Reading(token, selection)] /\ Counted
  /\ UNCHANGED <<stores, name, variants, rows>>

\* A code that is taken makes the transaction fail.
SyncWrite(c) ==
  /\ sync[c].state = "read"
  /\ LET out == Outcome(sync[c]) IN
     /\ sync' = [(IF out.ok THEN Disturb ELSE sync)
                   EXCEPT ![c] = IF out.ok THEN NoSync
                                 ELSE [state |-> "failed", alone |-> @.alone]]
     /\ variants' = IF out.ok THEN out.variants ELSE variants
     /\ rows' = IF out.ok THEN out.rows ELSE rows
  /\ UNCHANGED <<stores, name, requests>>

\* update: isActive of the product, then its scope; remove: isActive = false.
SetProductActive(token, on) ==
  /\ Visible(token)
  /\ rows' = [i \in DOMAIN rows |-> Switched(rows[i], token, on)]
  /\ sync' = Disturb /\ Counted
  /\ UNCHANGED <<stores, name, variants>>

ApplyProductStoresScope(token, scope) ==
  LET target == ScopeStores(scope, token) IN
  /\ Visible(token) /\ target # {} /\ scope.storeIds \subseteq stores
  /\ rows' = [i \in DOMAIN rows |-> Scoped(rows[i], target, ClosesOthers(scope))]
  /\ sync' = Disturb /\ Counted
  /\ UNCHANGED <<stores, name, variants>>

\* updateVariant, removeVariant
SetVariantActive(token, i, on) ==
  /\ Visible(token)
  /\ rows' = [rows EXCEPT ![i] = Switched(@, token, on)]
  /\ sync' = Disturb /\ Counted
  /\ UNCHANGED <<stores, name, variants>>

\* The tenant opens another store; no row is made for it.
OpenStore(s) ==
  /\ s \notin stores
  /\ stores' = stores \cup {s}
  /\ sync' = Disturb /\ Counted
  /\ UNCHANGED <<name, variants, rows>>

\* updateValue of AttributeService; codes follow at the next sync.
RenameValue(v, n) ==
  /\ <<v, n>> \in Renames /\ \A w \in Values : name[w] # n
  /\ name' = [name EXCEPT ![v] = n]
  /\ Counted
  /\ UNCHANGED <<stores, variants, rows, sync>>

CatalogueNext ==
  \/ \E c \in Clerks :
       \/ \E token \in Tokens, selection \in Selections : SyncRead(c, token, selection)
       \/ SyncWrite(c)
  \/ \E token \in Tokens, on \in BOOLEAN :
       \/ SetProductActive(token, on)
       \/ \E i \in DOMAIN variants : SetVariantActive(token, i, on)
  \/ \E token \in Tokens, scope \in Scopes : ApplyProductStoresScope(token, scope)
  \/ \E s \in AllStores : OpenStore(s)
  \/ \E v \in Values, n \in Names : RenameValue(v, n)

CatalogueSpec == CatalogueInit /\ [][CatalogueNext]_catalogueVars

-----------------------------------------------------------------------------
(* Properties. *)

\* Types: a variant has a row for each store or none; only a store's row can
\* be open; no two variants have one code (the database's constraint).
TablesOK ==
  /\ stores \subseteq AllStores /\ name \in [Values -> Names]
  /\ DOMAIN rows = DOMAIN variants
  /\ \A i \in DOMAIN rows : \A s \in AllStores :
       rows[i][s].linked \/ rows[i][s].price => rows[i][s].there /\ s \in stores
  /\ \A i, j \in DOMAIN variants : variants[i].code = variants[j].code => i = j

\* getNextUniqueCode leaves no clash for the database to find: a sync fails
\* only if another request of the product committed between its read and write.
LoneSyncSucceeds ==
  /\ TablesOK
  /\ \A c \in Clerks : sync[c].state = "failed" => ~sync[c].alone

\* A store's price is never in force for a variant that is closed there: the
\* price rows follow every close (ensureStoreProductPriceRowsForStoreIds,
\* applyProductStoresScope).
PricesFollowLinks ==
  \A i \in DOMAIN rows : \A s \in AllStores : rows[i][s].price => rows[i][s].linked

\* A sync that nothing disturbed opens the product in no store that had it
\* closed, where each variant has its row (buildStoreLinkMapForVariants), and
\* leaves on sale no variant but those of its selection
\* (syncGeneratedVariants).
Closed(s) == rows # <<>> /\ \A i \in DOMAIN rows : rows[i][s].there /\ ~rows[i][s].linked
SyncKeepsItsBounds ==
  [][\A c \in Clerks :
       sync[c].state = "read" /\ sync[c].alone /\ sync'[c] = NoSync =>
         /\ \A s \in AllStores : Closed(s) => ~OpenIn(s)'
         /\ \A i \in DOMAIN rows' : \A s \in AllStores :
              rows'[i][s].linked /\ rows'[i][s].active =>
                \E k \in DOMAIN sync[c].keys : sync[c].keys[k] = variants'[i].key]_catalogueVars
=============================================================================
