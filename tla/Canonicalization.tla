---- MODULE Canonicalization ----
(***************************************************************************)
(* Product names of one tenant (canonicalization.py, routers/products.py    *)
(* and _canonicalize_items).  Each process keeps an engine, a cache of the  *)
(* alias table, which the first order that finds it empty loads.  Requests  *)
(* that create products and aliases change the engine of their own process, *)
(* before they commit.  An alias stands for its spelling, a token for what  *)
(* _normalise makes of it.                                                  *)
(***************************************************************************)
EXTENDS Naturals, Sequences, SequencesExt, FiniteSets

CONSTANTS
  Processes,  \* the processes that serve requests
  Creators,   \* requests POST /products/; each names its product's id
  Adders,     \* requests POST /products/{id}/aliases
  Orders,     \* webhook requests with one order line each
  ProcessOf,  \* ProcessOf[s]: the process that serves s
  Seeds,      \* products there are at first
  SeedRows,   \* their aliases
  Aliases,    \* spellings
  Tokens,
  Token,      \* _normalise
  Distance,   \* Levenshtein.distance of two tokens
  Soundex,    \* _soundex of a token
  Length,     \* len of a token
  Price,      \* default_price or 0.0
  MaxEngines  \* bound: a process restarts only below so many engines

Sessions == Creators \cup Adders \cup Orders
Products == Seeds \cup Creators
None == "none"
MaxLevenshteinDistance == 2

ASSUME SessionsAssumption ==
  /\ Creators \cap Adders = {} /\ Creators \cap Orders = {} /\ Adders \cap Orders = {}
  /\ Seeds \cap Creators = {} /\ None \notin Products
  /\ ProcessOf \in [Sessions -> Processes]
ASSUME RowsAssumption ==
  /\ SeedRows \subseteq [alias : Aliases, product : Seeds] /\ IsFiniteSet(SeedRows)
  /\ \A r, q \in SeedRows : r.alias = q.alias => r = q
ASSUME TokensAssumption ==
  /\ Token \in [Aliases -> Tokens]
  /\ Distance \in [Tokens \X Tokens -> Nat]
  /\ Length \in [Tokens -> Nat]
  /\ DOMAIN Soundex = Tokens
ASSUME PriceAssumption == Price \in [Products -> Nat]
ASSUME BoundAssumption == MaxEngines \in Nat

Row == [alias : Aliases, product : Products]
Entry == [token : Tokens, product : Products]

VARIABLES
  products,  \* committed products
  rows,      \* committed rows of product_aliases
  engine,    \* engine[p]: what p's engine was given, in order
  count,     \* count[p]: engine objects p has had
  pc,        \* idle, flushed, loading, read, done or failed
  row,       \* the alias a creator or adder has inserted
  raw,       \* the product name in an order
  held,      \* the engine object an order loads
  snapshot,  \* the alias rows it has read
  result     \* what it resolved the name to

vars == <<products, rows, engine, count, pc, row, raw, held, snapshot, result>>
db == <<products, rows>>
caches == <<engine, count>>
orders == <<raw, held, snapshot, result>>

Init ==
  /\ products = Seeds
  /\ rows = SeedRows
  /\ engine = [p \in Processes |-> <<>>]
  /\ count = [p \in Processes |-> 0]
  /\ pc = [s \in Sessions |-> "idle"]
  /\ row = [s \in Creators \cup Adders |-> {}]
  /\ raw = [s \in Orders |-> None]
  /\ held = [s \in Orders |-> 0]
  /\ snapshot = [s \in Orders |-> {}]
  /\ result = [s \in Orders |-> [product |-> None, price |-> 0, loaded |-> FALSE]]

----
(* The engine: entries in the order they were given.                        *)

(* _alias_map: the last entry of a token counts. *)
Mapped(e, t) ==
  e[CHOOSE i \in DOMAIN e :
      e[i].token = t /\ \A j \in DOMAIN e : e[j].token = t => j <= i].product

(* The first of the indices that have the least rank. *)
Best(indices, rank) ==
  CHOOSE i \in indices :
    \A j \in indices : rank[i] < rank[j] \/ (rank[i] = rank[j] /\ i <= j)

Same(e, t) == {i \in DOMAIN e : e[i].token = t}
Near(e, t) == {i \in DOMAIN e : Distance[<<t, e[i].token>>] <= MaxLevenshteinDistance}
Alike(e, t) == {i \in DOMAIN e : Soundex[e[i].token] = Soundex[t]}

LevenshteinMatch(e, t) ==
  Mapped(e, e[Best(Near(e, t), [i \in DOMAIN e |-> Distance[<<t, e[i].token>>]])].token)
(* The shortest alias, and the product it was given with. *)
PhoneticMatch(e, t) ==
  e[Best(Alike(e, t), [i \in DOMAIN e |-> Length[e[i].token]])].product

(* Mutant: the phonetic match goes first. *)
SoundFirst(e, t) ==
  IF Alike(e, t) # {} THEN PhoneticMatch(e, t)
  ELSE IF Near(e, t) # {} THEN LevenshteinMatch(e, t)
  ELSE None
Resolve(e, t) ==
  IF Same(e, t) # {} THEN Mapped(e, t)
  ELSE IF Near(e, t) # {} THEN LevenshteinMatch(e, t)
  ELSE IF Alike(e, t) # {} THEN PhoneticMatch(e, t)
  ELSE None

(* Mutant: the alias goes in as it is spelled. *)
AsSpelled(a) == a
Normalised(a) == Token[a]
EntryOf(r) == [token |-> Normalised(r.alias), product |-> r.product]

----
(* POST /products/ and POST /products/{id}/aliases. *)

(* uq_tenant_alias: the insert waits for another transaction that has put   *)
(* the alias in and not ended, and fails if the alias is there.              *)
AliasWaits(s, a) ==
  \E o \in (Creators \cup Adders) \ {s} :
    pc[o] = "flushed" /\ \E r \in row[o] : r.alias = a
AliasTaken(a) == \E r \in rows : r.alias = a

(* Mutant: the new product goes into the engine instead. *)
AddedAtOnce(s, a) ==
  /\ engine' = [engine EXCEPT ![ProcessOf[s]] =
                  Append(@, EntryOf([alias |-> a, product |-> s]))]
  /\ count' = count
(* invalidate_engine: the next get_engine makes an empty one. *)
Invalidated(s, a) ==
  /\ engine' = [engine EXCEPT ![ProcessOf[s]] = <<>>]
  /\ count' = [count EXCEPT ![ProcessOf[s]] = @ + 1]

CreateProduct(s) ==
  /\ pc[s] = "idle"
  /\ \E a \in Aliases :
       /\ ~AliasTaken(a) /\ ~AliasWaits(s, a)
       /\ row' = [row EXCEPT ![s] = {[alias |-> a, product |-> s]}]
       /\ Invalidated(s, a)
  /\ pc' = [pc EXCEPT ![s] = "flushed"]
  /\ UNCHANGED <<db, orders>>

(* Mutant: the other processes are told as well. *)
ToldEverywhere(s, entry) == [p \in Processes |-> Append(engine[p], entry)]
(* add_alias, in the process of the request. *)
Told(s, entry) == [engine EXCEPT ![ProcessOf[s]] = Append(@, entry)]

(* The product is selected, the alias flushed, the engine told. *)
AddAlias(s) ==
  /\ pc[s] = "idle"
  /\ \E a \in Aliases, x \in products :
       /\ ~AliasTaken(a) /\ ~AliasWaits(s, a)
       /\ row' = [row EXCEPT ![s] = {[alias |-> a, product |-> x]}]
       /\ engine' = Told(s, EntryOf([alias |-> a, product |-> x]))
  /\ pc' = [pc EXCEPT ![s] = "flushed"]
  /\ UNCHANGED <<db, count, orders>>

(* Either may name an alias that is taken: IntegrityError. *)
LoseAlias(s) ==
  /\ pc[s] = "idle"
  /\ \E a \in Aliases : AliasTaken(a)
  /\ pc' = [pc EXCEPT ![s] = "failed"]
  /\ UNCHANGED <<db, caches, row, orders>>

Commit(s) ==
  /\ pc[s] = "flushed"
  /\ rows' = rows \cup row[s]
  /\ products' = products \cup ({s} \cap Creators)
  /\ pc' = [pc EXCEPT ![s] = "done"]
  /\ UNCHANGED <<caches, row, orders>>

----
(* _canonicalize_items. *)

(* product_price_map.get(product_id, 0.0), for the order that loads. *)
LoadersPrice(x) == IF x = None THEN 0 ELSE Price[x]

(* The engine is not empty: nothing is awaited, and the price map is empty. *)
UseEngine(s, t) ==
  LET e == engine[ProcessOf[s]]
  IN  /\ pc[s] = "idle" /\ e # <<>>
      /\ raw' = [raw EXCEPT ![s] = t]
      /\ result' = [result EXCEPT ![s] =
           [product |-> Resolve(e, t), price |-> 0, loaded |-> FALSE]]
      /\ pc' = [pc EXCEPT ![s] = "done"]
      /\ UNCHANGED <<db, caches, row, held, snapshot>>

FindEmpty(s, t) ==
  /\ pc[s] = "idle" /\ engine[ProcessOf[s]] = <<>>
  /\ raw' = [raw EXCEPT ![s] = t]
  /\ held' = [held EXCEPT ![s] = count[ProcessOf[s]]]
  /\ pc' = [pc EXCEPT ![s] = "loading"]
  /\ UNCHANGED <<db, caches, row, snapshot, result>>

ReadAliases(s) ==
  /\ pc[s] = "loading"
  /\ snapshot' = [snapshot EXCEPT ![s] = rows]
  /\ pc' = [pc EXCEPT ![s] = "read"]
  /\ UNCHANGED <<db, caches, row, raw, held, result>>

(* The rows come in any order.  The engine may have been dropped meanwhile:  *)
(* then the order alone uses what it loads.                                  *)
LoadAliases(s) ==
  LET p == ProcessOf[s]
  IN  /\ pc[s] = "read"
      /\ \E list \in SetToSeqs(snapshot[s]) :
           LET e == [i \in DOMAIN list |-> EntryOf(list[i])]
               x == Resolve(e, raw[s])
           IN  /\ engine' = IF held[s] = count[p] THEN [engine EXCEPT ![p] = e] ELSE engine
               /\ result' = [result EXCEPT ![s] =
                    [product |-> x, price |-> LoadersPrice(x), loaded |-> TRUE]]
      /\ pc' = [pc EXCEPT ![s] = "done"]
      /\ UNCHANGED <<db, count, row, raw, held, snapshot>>

----
(* An exception, also at commit: the transaction is gone, the engine stays. *)
Fail(s) ==
  /\ pc[s] \in {"flushed", "loading", "read"}
  /\ pc' = [pc EXCEPT ![s] = "failed"]
  /\ UNCHANGED <<db, caches, row, orders>>

Restart(p) ==
  /\ count[p] < MaxEngines
  /\ engine' = [engine EXCEPT ![p] = <<>>]
  /\ count' = [count EXCEPT ![p] = @ + 1]
  /\ pc' = [s \in Sessions |->
              IF ProcessOf[s] = p /\ pc[s] \in {"flushed", "loading", "read"}
              THEN "failed" ELSE pc[s]]
  /\ UNCHANGED <<db, row, orders>>

Next ==
  \/ \E s \in Creators : CreateProduct(s)
  \/ \E s \in Adders : AddAlias(s)
  \/ \E s \in Creators \cup Adders : LoseAlias(s) \/ Commit(s)
  \/ \E s \in Orders, t \in Tokens : UseEngine(s, t) \/ FindEmpty(s, t)
  \/ \E s \in Orders : ReadAliases(s) \/ LoadAliases(s)
  \/ \E s \in Sessions : Fail(s)
  \/ \E p \in Processes : Restart(p)

Spec == Init /\ [][Next]_vars

----
(* Properties. *)

Result == [product : Products \cup {None}, price : Nat, loaded : BOOLEAN]

(* The type invariant: variables have their types, and an order that loads   *)
(* has a name to look up.                                                    *)
TypeOK ==
  /\ products \subseteq Products
  /\ rows \subseteq Row
  /\ engine \in [Processes -> Seq(Entry)]
  /\ count \in [Processes -> Nat]
  /\ pc \in [Sessions -> {"idle", "flushed", "loading", "read", "done", "failed"}]
  /\ row \in [Creators \cup Adders -> SUBSET Row]
  /\ raw \in [Orders -> Tokens \cup {None}]
  /\ \A s \in Orders : pc[s] \in {"loading", "read"} => raw[s] \in Tokens
  /\ held \in [Orders -> Nat]
  /\ snapshot \in [Orders -> SUBSET Row]
  /\ result \in [Orders -> Result]

(* Whatever cache an order uses, it orders a product that is committed: an   *)
(* order item never points to a product of a request that failed.            *)
OrdersCommittedProducts ==
  \A s \in Orders : result[s].product \in products \cup {None}

(* One spelling names one product, whoever inserts it at once.               *)
OneProductPerAlias ==
  \A r, q \in rows : r.alias = q.alias => r = q

(* What the order that loads the engine takes for a name in its rows is the  *)
(* product of such a row, at its price, though others change the engine      *)
(* while it reads; only an order that finds the engine loaded pays nothing.  *)
LoaderIsRight ==
  \A s \in Orders :
    LET named == {r \in snapshot[s] : Token[r.alias] = raw[s]}
        x == result[s].product
    IN  pc[s] = "done" /\ result[s].loaded =>
          /\ named # {} => x \in {r.product : r \in named}
          /\ x # None => result[s].price = Price[x]

(* A process knows no alias but committed ones and those that requests to    *)
(* itself have added: an alias that was rolled back stays in one process.    *)
RolledBackAliasesStayHome ==
  \A p \in Processes : \A i \in DOMAIN engine[p] :
    \/ \E r \in rows : EntryOf(r) = engine[p][i]
    \/ \E s \in Adders : ProcessOf[s] = p /\ \E r \in row[s] : EntryOf(r) = engine[p][i]

----
(* A statement of the repository that the code does not keep.               *)

(* canonicalization.py:49, "Both are loaded from the database at startup and *)
(* refreshed on demand", and :113, "Exact alias lookup": a name that is a    *)
(* committed alias when the order is resolved is not taken for another       *)
(* product than that alias's.                                                *)
OrdersWhatWasNamed ==
  [][\A s \in Orders :
       LET meant == {r.product : r \in {q \in rows : Token[q.alias] = raw'[s]}}
       IN  pc[s] # "done" /\ pc'[s] = "done" /\ meant # {}
             => result'[s].product \in meant \cup {None}]_vars
====
