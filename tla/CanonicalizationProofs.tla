---- MODULE CanonicalizationProofs ----
(***************************************************************************)
(* Proofs about Canonicalization for any processes, requests, aliases and   *)
(* any distance, Soundex and price.                                         *)
(***************************************************************************)
EXTENDS Canonicalization, FiniteSetTheorems, WellFoundedInduction, TLAPS

----
(* Least and greatest numbers, which the choices of the engine need.        *)

LEMMA Least ==
  ASSUME NEW T \in SUBSET Nat, T # {}
  PROVE  \E x \in T : \A y \in T : x <= y
<1> DEFINE R == OpToRel(<, Nat)
<1>1. IsWellFoundedOn(R, Nat)
  BY NatLessThanWellFounded
<1>2. \A x, y \in Nat : y < x => <<y, x>> \in R
  BY DEF OpToRel
<1> HIDE DEF R
<1>3. PICK x \in T : \A y \in T : ~(<<y, x>> \in R)
  BY <1>1, WFMin
<1>4. ASSUME NEW y \in T PROVE x <= y
  <2>1. x \in Nat /\ y \in Nat
    OBVIOUS
  <2>2. ~(y < x)
    BY <1>2, <1>3, <2>1
  <2> QED
    BY <2>1, <2>2
<1> QED
  BY <1>4

LEMMA Greatest ==
  ASSUME NEW n \in Nat, NEW T \in SUBSET (1..n), T # {}
  PROVE  \E x \in T : \A y \in T : y <= x
<1> DEFINE U == {n - y : y \in T}
<1>1. U \in SUBSET Nat /\ U # {}
  <2>1. \A y \in T : n - y \in Nat
    OBVIOUS
  <2> QED
    BY <2>1
<1>2. PICK u \in U : \A v \in U : u <= v
  BY <1>1, Least
<1>3. PICK x \in T : u = n - x
  OBVIOUS
<1>4. ASSUME NEW y \in T PROVE y <= x
  <2>1. n - y \in U
    OBVIOUS
  <2>2. u <= n - y
    BY <1>2, <2>1
  <2> QED
    BY <1>3, <2>2
<1> QED
  BY <1>4

LEMMA BestType ==
  ASSUME NEW S \in SUBSET Nat, S # {}, NEW rank, \A i \in S : rank[i] \in Nat
  PROVE  Best(S, rank) \in S
<1> DEFINE ranks == {rank[i] : i \in S}
<1>1. PICK r \in ranks : \A q \in ranks : r <= q
  <2>1. ranks \in SUBSET Nat /\ ranks # {}
    OBVIOUS
  <2> HIDE DEF ranks
  <2> QED
    BY <2>1, Least
<1> DEFINE firsts == {i \in S : rank[i] = r}
<1>2. PICK k \in firsts : \A i \in firsts : k <= i
  <2>1. firsts \in SUBSET Nat /\ firsts # {}
    OBVIOUS
  <2> HIDE DEF firsts
  <2> QED
    BY <2>1, Least
<1>3. k \in S /\ rank[k] = r /\ r \in Nat
  OBVIOUS
<1>4. ASSUME NEW j \in S PROVE rank[k] < rank[j] \/ (rank[k] = rank[j] /\ k <= j)
  <2>1. rank[j] \in ranks /\ rank[j] \in Nat
    OBVIOUS
  <2>2. r <= rank[j]
    BY <1>1, <2>1
  <2>3. rank[j] = r => k <= j
    BY <1>2
  <2> HIDE DEF ranks, firsts
  <2> QED
    BY <1>3, <2>1, <2>2, <2>3
<1> QED
  BY <1>3, <1>4 DEF Best

----
(* What an engine resolves a name to.                                       *)

Known(e) == {e[i].product : i \in DOMAIN e}

LEMMA MappedType ==
  ASSUME NEW e \in Seq(Entry), NEW t, Same(e, t) # {}
  PROVE  Mapped(e, t) \in Known(e)
<1>1. PICK n \in Nat : DOMAIN e = 1..n
  OBVIOUS
<1>2. PICK i \in Same(e, t) : \A j \in Same(e, t) : j <= i
  <2>1. Same(e, t) \in SUBSET (1..n)
    BY <1>1 DEF Same
  <2> QED
    BY <2>1, Greatest
<1>3. (CHOOSE k \in DOMAIN e :
         e[k].token = t /\ \A j \in DOMAIN e : e[j].token = t => j <= k) \in DOMAIN e
  BY <1>2 DEF Same
<1> QED
  BY <1>3 DEF Mapped, Known

LEMMA ResolveType ==
  ASSUME NEW e \in Seq(Entry), NEW t \in Tokens
  PROVE  Resolve(e, t) \in Known(e) \cup {None}
<1>1. \A i \in DOMAIN e : i \in Nat /\ e[i].token \in Tokens
  <2>1. \A i \in DOMAIN e : i \in Nat /\ e[i] \in Entry
    OBVIOUS
  <2> QED
    BY <2>1 DEF Entry
<1>2. CASE Same(e, t) # {}
  BY <1>2, MappedType DEF Resolve
<1>3. CASE Same(e, t) = {} /\ Near(e, t) # {}
  <2> DEFINE rank == [i \in DOMAIN e |-> Distance[<<t, e[i].token>>]]
             k == Best(Near(e, t), rank)
  <2>1. Near(e, t) \in SUBSET Nat /\ \A i \in Near(e, t) : i \in DOMAIN e
    BY <1>1 DEF Near
  <2>2. \A i \in Near(e, t) : rank[i] \in Nat
    BY <1>1, <2>1, TokensAssumption
  <2>3. k \in Near(e, t)
    <3> HIDE DEF rank
    <3> QED
      BY <1>3, <2>1, <2>2, BestType
  <2>4. Same(e, e[k].token) # {}
    BY <2>1, <2>3 DEF Same
  <2> QED
    BY <1>3, <2>4, MappedType DEF Resolve, LevenshteinMatch
<1>4. CASE Same(e, t) = {} /\ Near(e, t) = {} /\ Alike(e, t) # {}
  <2> DEFINE rank == [i \in DOMAIN e |-> Length[e[i].token]]
  <2>1. Alike(e, t) \in SUBSET Nat /\ \A i \in Alike(e, t) : i \in DOMAIN e
    BY <1>1 DEF Alike
  <2>2. \A i \in Alike(e, t) : rank[i] \in Nat
    BY <1>1, <2>1, TokensAssumption
  <2>3. Best(Alike(e, t), rank) \in Alike(e, t)
    <3> HIDE DEF rank
    <3> QED
      BY <1>4, <2>1, <2>2, BestType
  <2> QED
    BY <1>4, <2>1, <2>3 DEF Resolve, PhoneticMatch, Known
<1>5. CASE Same(e, t) = {} /\ Near(e, t) = {} /\ Alike(e, t) = {}
  BY <1>5 DEF Resolve
<1> QED
  BY <1>2, <1>3, <1>4, <1>5
(* What an order loads, in whatever order the rows come. *)
LEMMA ListType ==
  ASSUME NEW S \in SUBSET Row, IsFiniteSet(S), NEW list \in SetToSeqs(S)
  PROVE  LET e == [i \in DOMAIN list |-> EntryOf(list[i])]
         IN  e \in Seq(Entry) /\ Known(e) \subseteq {r.product : r \in S}
<1> DEFINE e == [i \in DOMAIN list |-> EntryOf(list[i])]
<1>1. PICK n \in Nat : list \in [1..n -> S]
  BY FS_CardinalityType DEF SetToSeqs
<1>2. \A r \in S : EntryOf(r) \in Entry /\ EntryOf(r).product = r.product
  BY TokensAssumption DEF EntryOf, Normalised, Entry, Row
<1>3. e \in [1..n -> Entry] /\ DOMAIN e = 1..n
  BY <1>1, <1>2
<1>4. e \in Seq(Entry)
  BY <1>3
<1>5. \A i \in DOMAIN e : list[i] \in S /\ e[i].product = list[i].product
  BY <1>1, <1>2
<1> HIDE DEF e
<1>6. Known(e) \subseteq {r.product : r \in S}
  BY <1>5 DEF Known
<1> QED
  BY <1>4, <1>6 DEF e

LEMMA EmptyKnown == Known(<<>>) = {}
BY DEF Known

LEMMA AppendKnown ==
  ASSUME NEW e \in Seq(Entry), NEW x \in Entry
  PROVE  Append(e, x) \in Seq(Entry) /\ Known(Append(e, x)) \subseteq Known(e) \cup {x.product}
<1>1. Append(e, x) \in Seq(Entry)
  OBVIOUS
<1>2. ASSUME NEW i \in DOMAIN Append(e, x)
      PROVE  Append(e, x)[i].product \in Known(e) \cup {x.product}
  <2>1. i \in 1..(Len(e) + 1) /\ Len(e) \in Nat /\ DOMAIN e = 1..Len(e)
    OBVIOUS
  <2>2. CASE i = Len(e) + 1
    BY <2>1, <2>2
  <2>3. CASE i \in DOMAIN e
    BY <2>1, <2>3 DEF Known
  <2> QED
    BY <2>1, <2>2, <2>3
<1> QED
  BY <1>1, <1>2 DEF Known

----
(* The invariant: whatever names a product outside the tables, a row that is *)
(* not committed, an engine, a snapshot or a result, names a committed one   *)
(* or the product of the creator that holds the row; and an open request     *)
(* has its alias to itself.                                                  *)

Writers == Creators \cup Adders

RowsInv ==
  /\ IsFiniteSet(rows) /\ \A r \in rows : r.product \in products
  /\ \A s \in Orders :
       IsFiniteSet(snapshot[s]) /\ \A r \in snapshot[s] : r.product \in products
WritersInv ==
  \A s \in Writers :
    /\ row[s] = {} \/ \E r \in Row : row[s] = {r}
    /\ \A r \in row[s] : r.product \in products \cup ({s} \cap Creators)
    /\ pc[s] = "flushed" =>
         \A r \in row[s] : ~AliasTaken(r.alias) /\ ~AliasWaits(s, r.alias)
EnginesInv == \A p \in Processes : Known(engine[p]) \subseteq products
IInv ==
  TypeOK /\ RowsInv /\ WritersInv /\ EnginesInv /\ OneProductPerAlias /\ OrdersCommittedProducts

LEMMA InitIInv ==
  ASSUME Init
  PROVE  IInv
<1> USE SessionsAssumption, RowsAssumption
<1>1. TypeOK
  <2>1. \A s \in Orders : pc[s] = "idle"
    BY DEF Init, Sessions
  <2> QED
    BY <2>1 DEF Init, TypeOK, Products, Row, Result
<1>2. RowsInv
  BY FS_EmptySet DEF Init, RowsInv
<1>3. WritersInv
  BY DEF Init, WritersInv, Writers, Sessions
<1>4. EnginesInv
  BY EmptyKnown DEF Init, EnginesInv
<1>5. OrdersCommittedProducts
  BY DEF Init, OrdersCommittedProducts
<1>6. OneProductPerAlias
  BY DEF Init, OneProductPerAlias
<1> QED
  BY <1>1, <1>2, <1>3, <1>4, <1>5, <1>6 DEF IInv

(* A step that leaves the writers and the tables alone.                      *)
LEMMA WritersKept ==
  ASSUME IInv, UNCHANGED <<rows, products, row>>,
         \A s \in Writers : pc'[s] = "flushed" => pc[s] = "flushed"
  PROVE  WritersInv' /\ OneProductPerAlias'
<1>1. OneProductPerAlias'
  BY DEF IInv, OneProductPerAlias
<1>2. \A a : AliasTaken(a)' = AliasTaken(a)
  BY DEF AliasTaken
<1>3. \A s, a : AliasWaits(s, a)' => AliasWaits(s, a)
  BY DEF AliasWaits, Writers
<1>4. WritersInv'
  BY <1>2, <1>3 DEF IInv, WritersInv
<1> QED
  BY <1>1, <1>4
(* A creator or adder flushes an alias nobody else has.                      *)
LEMMA WritersFlushed ==
  ASSUME IInv, NEW s \in Writers, NEW a \in Aliases, NEW x \in Products,
         ~AliasTaken(a), ~AliasWaits(s, a), x \in products \cup ({s} \cap Creators),
         row' = [row EXCEPT ![s] = {[alias |-> a, product |-> x]}],
         pc' = [pc EXCEPT ![s] = "flushed"], UNCHANGED <<rows, products>>
  PROVE  WritersInv' /\ OneProductPerAlias'
<1> DEFINE new == [alias |-> a, product |-> x]
<1>1. OneProductPerAlias'
  BY DEF IInv, OneProductPerAlias
<1>2. new \in Row /\ new.alias = a /\ new.product = x
  BY DEF Row
<1>3. row'[s] = {new} /\ \A o \in Writers \ {s} : row'[o] = row[o] /\ pc'[o] = pc[o]
  BY DEF IInv, TypeOK, Writers, Sessions
<1>4. \A b : AliasTaken(b)' = AliasTaken(b)
  BY DEF AliasTaken
<1> HIDE DEF new
<1>5. ~AliasWaits(s, a)'
  BY <1>3 DEF AliasWaits, Writers
<1>6. ASSUME NEW o \in Writers \ {s}, pc'[o] = "flushed", NEW r \in row[o]
      PROVE  ~AliasTaken(r.alias)' /\ ~AliasWaits(o, r.alias)'
  <2>1. pc[o] = "flushed" /\ ~AliasTaken(r.alias) /\ ~AliasWaits(o, r.alias)
    BY <1>3, <1>6 DEF IInv, WritersInv
  <2>2. r.alias # a
    BY <2>1, <1>6 DEF AliasWaits, Writers
  <2> QED
    BY <1>2, <1>3, <1>4, <2>1, <2>2 DEF AliasWaits, Writers
<1>7. WritersInv'
  <2> SUFFICES ASSUME NEW o \in Writers
               PROVE  /\ row'[o] = {} \/ \E r \in Row : row'[o] = {r}
                      /\ \A r \in row'[o] : r.product \in products \cup ({o} \cap Creators)
                      /\ pc'[o] = "flushed" =>
                           \A r \in row'[o] : ~AliasTaken(r.alias)' /\ ~AliasWaits(o, r.alias)'
    BY DEF WritersInv
  <2>1. CASE o = s
    BY <1>2, <1>3, <1>4, <1>5, <2>1
  <2>2. CASE o # s
    BY <1>3, <1>6, <2>2 DEF IInv, WritersInv
  <2> QED
    BY <2>1, <2>2
<1> QED
  BY <1>1, <1>7

LEMMA CommitKeeps ==
  ASSUME IInv, NEW s \in Writers, Commit(s)
  PROVE  IInv'
<1> USE DEF IInv
<1>1. /\ pc[s] = "flushed" /\ pc' = [pc EXCEPT ![s] = "done"]
      /\ rows' = rows \cup row[s] /\ products' = products \cup ({s} \cap Creators)
      /\ row' = row /\ engine' = engine /\ count' = count
      /\ UNCHANGED orders
  BY DEF Commit, caches
<1>2. TypeOK'
  BY <1>1 DEF TypeOK, orders, Writers, Products, Sessions
<1>3. row[s] = {} \/ \E r \in Row : row[s] = {r}
  BY DEF WritersInv
<1>4. RowsInv'
  <2>1. IsFiniteSet(row[s])
    <3>1. ASSUME NEW r \in Row, row[s] = {r} PROVE IsFiniteSet(row[s])
      BY <3>1, FS_EmptySet, FS_AddElement
    <3> QED
      BY <1>3, <3>1, FS_EmptySet
  <2>2. IsFiniteSet(rows \cup row[s])
    BY <2>1, FS_Union DEF RowsInv
  <2>3. \A r \in row[s] : r.product \in products'
    BY <1>1 DEF WritersInv
  <2> QED
    BY <1>1, <2>2, <2>3 DEF RowsInv, orders
<1>5. OneProductPerAlias'
  <2>1. \A r \in row[s] : ~AliasTaken(r.alias)
    BY <1>1 DEF WritersInv
  <2> QED
    BY <1>1, <1>3, <2>1 DEF OneProductPerAlias, AliasTaken
<1>6. WritersInv'
  <2>1. \A o \in Writers : o # s => pc'[o] = pc[o]
    BY <1>1 DEF TypeOK, Writers, Sessions
  <2>2. pc'[s] = "done"
    BY <1>1 DEF TypeOK, Writers, Sessions
  <2>3. ASSUME NEW o \in Writers, pc'[o] = "flushed", NEW r \in row[o]
        PROVE  ~AliasTaken(r.alias)' /\ ~AliasWaits(o, r.alias)'
    <3>1. o # s /\ pc[o] = "flushed"
      BY <2>1, <2>2, <2>3
    <3>2. ~AliasTaken(r.alias) /\ ~AliasWaits(o, r.alias)
      BY <2>3, <3>1 DEF WritersInv
    <3>3. \A q \in row[s] : q.alias # r.alias
      BY <1>1, <3>1, <3>2 DEF AliasWaits, Writers
    <3>4. ~AliasTaken(r.alias)'
      BY <1>1, <3>2, <3>3 DEF AliasTaken
    <3>5. ~AliasWaits(o, r.alias)'
      BY <1>1, <2>1, <2>2, <3>2 DEF AliasWaits, Writers
    <3> QED
      BY <3>4, <3>5
  <2> QED
    BY <1>1, <2>3 DEF WritersInv
<1>7. EnginesInv' /\ OrdersCommittedProducts'
  BY <1>1 DEF EnginesInv, OrdersCommittedProducts, orders
<1> QED
  BY <1>2, <1>4, <1>5, <1>6, <1>7
LEMMA StepIInv == IInv /\ [Next]_vars => IInv'
<1> SUFFICES ASSUME IInv, [Next]_vars PROVE IInv'
  OBVIOUS
<1> USE DEF IInv
<1>0. ProcessOf \in [Sessions -> Processes]
  BY SessionsAssumption
<1>1. ASSUME NEW s \in Creators, CreateProduct(s) PROVE IInv'
  <2>1. PICK a \in Aliases :
          /\ ~AliasTaken(a) /\ ~AliasWaits(s, a)
          /\ row' = [row EXCEPT ![s] = {[alias |-> a, product |-> s]}]
          /\ Invalidated(s, a)
    BY <1>1 DEF CreateProduct
  <2>2. pc' = [pc EXCEPT ![s] = "flushed"] /\ UNCHANGED <<rows, products, orders>>
    BY <1>1 DEF CreateProduct, db
  <2>3. s \in Writers /\ s \in Products /\ s \in Sessions
    BY DEF Writers, Products, Sessions
  <2>4. WritersInv' /\ OneProductPerAlias'
    BY <2>1, <2>2, <2>3, WritersFlushed
  <2>5. TypeOK'
    BY <1>0, <2>1, <2>2, <2>3 DEF TypeOK, Invalidated, orders, Row
  <2>6. EnginesInv'
    BY <1>0, <2>1, <2>2, <2>3, EmptyKnown DEF EnginesInv, Invalidated, TypeOK
  <2> QED
    BY <2>2, <2>4, <2>5, <2>6 DEF RowsInv, OrdersCommittedProducts, orders
<1>2. ASSUME NEW s \in Adders, AddAlias(s) PROVE IInv'
  <2>1. PICK a \in Aliases, x \in products :
          /\ ~AliasTaken(a) /\ ~AliasWaits(s, a)
          /\ row' = [row EXCEPT ![s] = {[alias |-> a, product |-> x]}]
          /\ engine' = Told(s, EntryOf([alias |-> a, product |-> x]))
    BY <1>2 DEF AddAlias
  <2>2. pc' = [pc EXCEPT ![s] = "flushed"] /\ UNCHANGED <<rows, products, count, orders>>
    BY <1>2 DEF AddAlias, db
  <2>3. s \in Writers /\ x \in Products /\ s \in Sessions /\ ProcessOf[s] \in Processes
    BY <1>0 DEF Writers, Sessions, TypeOK
  <2>4. WritersInv' /\ OneProductPerAlias'
    BY <2>1, <2>2, <2>3, WritersFlushed
  <2> DEFINE entry == EntryOf([alias |-> a, product |-> x])
             p == ProcessOf[s]
  <2>5. entry \in Entry /\ entry.product = x
    BY <2>3, TokensAssumption DEF EntryOf, Normalised, Entry
  <2>6. /\ Append(engine[p], entry) \in Seq(Entry)
        /\ Known(Append(engine[p], entry)) \subseteq products
    <3>1. engine[p] \in Seq(Entry) /\ Known(engine[p]) \subseteq products
      BY <2>3 DEF TypeOK, EnginesInv
    <3> HIDE DEF entry, p
    <3> QED
      BY <2>1, <2>5, <3>1, AppendKnown
  <2>7. engine' = [engine EXCEPT ![p] = Append(engine[p], entry)]
    BY <2>1 DEF Told
  <2> HIDE DEF entry, p
  <2>8. engine' \in [Processes -> Seq(Entry)]
    BY <2>6, <2>7 DEF TypeOK
  <2>9. TypeOK'
    BY <2>1, <2>2, <2>3, <2>8 DEF TypeOK, orders, Row
  <2>10. EnginesInv'
    BY <2>2, <2>6, <2>7 DEF EnginesInv, TypeOK
  <2> QED
    BY <2>2, <2>4, <2>9, <2>10 DEF RowsInv, OrdersCommittedProducts, orders
<1>3. ASSUME NEW s \in Sessions, NEW q \in {"failed", "done", "loading", "read"},
             pc' = [pc EXCEPT ![s] = q],
             UNCHANGED <<rows, products, row, count>>, TypeOK', RowsInv', EnginesInv',
             OrdersCommittedProducts'
      PROVE  IInv'
  <2>1. \A o \in Writers : pc'[o] = "flushed" => pc[o] = "flushed"
    BY <1>3 DEF TypeOK, Writers, Sessions
  <2> QED
    BY <1>3, <2>1, WritersKept
<1>4. ASSUME NEW s \in Writers, LoseAlias(s) PROVE IInv'
  <2>1. s \in Sessions
    BY DEF Writers, Sessions
  <2>2. pc' = [pc EXCEPT ![s] = "failed"] /\ UNCHANGED <<db, caches, row, orders>>
    BY <1>4 DEF LoseAlias
  <2>3. TypeOK' /\ RowsInv' /\ EnginesInv' /\ OrdersCommittedProducts'
    BY <2>1, <2>2 DEF TypeOK, RowsInv, EnginesInv, OrdersCommittedProducts, db, caches, orders
  <2> QED
    BY <1>3, <2>1, <2>2, <2>3 DEF db, caches
<1>5. ASSUME NEW s \in Sessions, Fail(s) PROVE IInv'
  <2>2. pc' = [pc EXCEPT ![s] = "failed"] /\ UNCHANGED <<db, caches, row, orders>>
    BY <1>5 DEF Fail
  <2>3. TypeOK' /\ RowsInv' /\ EnginesInv' /\ OrdersCommittedProducts'
    BY <2>2 DEF TypeOK, RowsInv, EnginesInv, OrdersCommittedProducts, db, caches, orders
  <2> QED
    BY <1>3, <2>2, <2>3 DEF db, caches
<1>6. ASSUME NEW s \in Orders, NEW t \in Tokens, UseEngine(s, t) PROVE IInv'
  <2>1. s \in Sessions /\ ProcessOf[s] \in Processes
    BY <1>0 DEF Sessions
  <2> DEFINE x == Resolve(engine[ProcessOf[s]], t)
             taken == [product |-> x, price |-> 0, loaded |-> FALSE]
  <2>2. /\ pc' = [pc EXCEPT ![s] = "done"] /\ raw' = [raw EXCEPT ![s] = t]
        /\ result' = [result EXCEPT ![s] = taken]
        /\ UNCHANGED <<db, caches, row, held, snapshot>>
    BY <1>6 DEF UseEngine
  <2>3. x \in products \cup {None}
    BY <2>1, ResolveType DEF TypeOK, EnginesInv
  <2>4. taken \in Result /\ taken.product \in products \cup {None}
    BY <2>3 DEF Result, TypeOK
  <2> HIDE DEF taken, x
  <2>5. TypeOK'
    BY <2>1, <2>2, <2>4 DEF TypeOK, db, caches
  <2>6. RowsInv' /\ EnginesInv' /\ OrdersCommittedProducts'
    BY <2>2, <2>4 DEF TypeOK, RowsInv, EnginesInv, OrdersCommittedProducts, db, caches
  <2> QED
    BY <1>3, <2>1, <2>2, <2>5, <2>6 DEF db, caches
<1>7. ASSUME NEW s \in Orders, NEW t \in Tokens, FindEmpty(s, t) PROVE IInv'
  <2>1. s \in Sessions /\ ProcessOf[s] \in Processes
    BY <1>0 DEF Sessions
  <2>2. /\ pc' = [pc EXCEPT ![s] = "loading"] /\ raw' = [raw EXCEPT ![s] = t]
        /\ held' = [held EXCEPT ![s] = count[ProcessOf[s]]]
        /\ UNCHANGED <<db, caches, row, snapshot, result>>
    BY <1>7 DEF FindEmpty
  <2>3. TypeOK'
    <3>1. \A o \in Orders : pc'[o] \in {"loading", "read"} => raw'[o] \in Tokens
      BY <2>1, <2>2 DEF TypeOK, Sessions
    <3>2. held' \in [Orders -> Nat]
      BY <2>1, <2>2 DEF TypeOK
    <3> QED
      BY <2>1, <2>2, <3>1, <3>2 DEF TypeOK, db, caches
  <2>4. RowsInv' /\ EnginesInv' /\ OrdersCommittedProducts'
    BY <2>2 DEF RowsInv, EnginesInv, OrdersCommittedProducts, db, caches
  <2> QED
    BY <1>3, <2>1, <2>2, <2>3, <2>4 DEF db, caches
<1>8. ASSUME NEW s \in Orders, ReadAliases(s) PROVE IInv'
  <2>1. s \in Sessions
    BY DEF Sessions
  <2>2. /\ pc' = [pc EXCEPT ![s] = "read"] /\ snapshot' = [snapshot EXCEPT ![s] = rows]
        /\ UNCHANGED <<db, caches, row, raw, held, result>>
    BY <1>8 DEF ReadAliases
  <2>3. TypeOK'
    <3>1. \A o \in Orders : pc'[o] \in {"loading", "read"} => raw'[o] \in Tokens
      BY <1>8, <2>1, <2>2 DEF ReadAliases, TypeOK, Sessions
    <3>2. snapshot' \in [Orders -> SUBSET Row]
      BY <2>2 DEF TypeOK
    <3> QED
      BY <2>1, <2>2, <3>1, <3>2 DEF TypeOK, db, caches
  <2>4. RowsInv' /\ EnginesInv' /\ OrdersCommittedProducts'
    BY <2>2 DEF TypeOK, RowsInv, EnginesInv, OrdersCommittedProducts, db, caches
  <2> QED
    BY <1>3, <2>1, <2>2, <2>3, <2>4 DEF db, caches
<1>9. ASSUME NEW s \in Orders, LoadAliases(s) PROVE IInv'
  <2>1. s \in Sessions /\ ProcessOf[s] \in Processes
    BY <1>0 DEF Sessions
  <2>2. PICK list \in SetToSeqs(snapshot[s]) :
          LET e == [i \in DOMAIN list |-> EntryOf(list[i])]
              x == Resolve(e, raw[s])
              p == ProcessOf[s]
          IN  /\ engine' = IF held[s] = count[p] THEN [engine EXCEPT ![p] = e] ELSE engine
              /\ result' = [result EXCEPT ![s] =
                   [product |-> x, price |-> LoadersPrice(x), loaded |-> TRUE]]
    BY <1>9 DEF LoadAliases
  <2> DEFINE e == [i \in DOMAIN list |-> EntryOf(list[i])]
             x == Resolve(e, raw[s])
             taken == [product |-> x, price |-> LoadersPrice(x), loaded |-> TRUE]
  <2>3. pc' = [pc EXCEPT ![s] = "done"] /\ UNCHANGED <<db, count, row, raw, held, snapshot>>
    BY <1>9 DEF LoadAliases
  <2>4. e \in Seq(Entry) /\ Known(e) \subseteq products
    <3>1. snapshot[s] \in SUBSET Row /\ IsFiniteSet(snapshot[s])
          /\ {r.product : r \in snapshot[s]} \subseteq products
      BY DEF TypeOK, RowsInv
    <3> QED
      BY <3>1, ListType
  <2>5. raw[s] \in Tokens
    BY <1>9 DEF LoadAliases, TypeOK
  <2> HIDE DEF e
  <2>6. x \in products \cup {None}
    BY <2>4, <2>5, ResolveType
  <2>7. taken \in Result /\ taken.product \in products \cup {None}
    BY <2>6, PriceAssumption DEF Result, TypeOK, LoadersPrice
  <2>8. /\ engine' \in {[engine EXCEPT ![ProcessOf[s]] = e], engine}
        /\ result' = [result EXCEPT ![s] = taken]
    BY <2>2 DEF e
  <2> HIDE DEF taken, x
  <2>9. TypeOK'
    <3>1. \A o \in Orders : pc'[o] \in {"loading", "read"} => raw'[o] \in Tokens
      BY <2>1, <2>3 DEF TypeOK, Sessions
    <3>2. engine' \in [Processes -> Seq(Entry)]
      BY <2>1, <2>4, <2>8 DEF TypeOK
    <3>3. result' \in [Orders -> Result]
      BY <2>7, <2>8 DEF TypeOK
    <3> QED
      BY <2>1, <2>3, <3>1, <3>2, <3>3 DEF TypeOK, db
  <2>10. RowsInv' /\ EnginesInv' /\ OrdersCommittedProducts'
    BY <2>1, <2>3, <2>4, <2>7, <2>8 DEF TypeOK, RowsInv, EnginesInv, OrdersCommittedProducts, db
  <2> QED
    BY <1>3, <2>1, <2>3, <2>9, <2>10 DEF db
<1>10. ASSUME NEW p \in Processes, Restart(p) PROVE IInv'
  <2>1. /\ engine' = [engine EXCEPT ![p] = <<>>] /\ count' = [count EXCEPT ![p] = @ + 1]
        /\ pc' = [s \in Sessions |->
              IF ProcessOf[s] = p /\ pc[s] \in {"flushed", "loading", "read"}
              THEN "failed" ELSE pc[s]]
        /\ UNCHANGED <<db, row, orders>>
    BY <1>10 DEF Restart
  <2>2. \A o \in Writers : pc'[o] = "flushed" => pc[o] = "flushed"
    BY <2>1 DEF Writers, Sessions
  <2>3. TypeOK'
    <3>1. \A o \in Orders : pc'[o] \in {"loading", "read"} => raw'[o] \in Tokens
      BY <2>1 DEF TypeOK, Sessions, orders
    <3>2. engine' \in [Processes -> Seq(Entry)] /\ count' \in [Processes -> Nat]
      BY <2>1 DEF TypeOK
    <3>3. pc' \in [Sessions -> {"idle", "flushed", "loading", "read", "done", "failed"}]
      BY <2>1 DEF TypeOK
    <3> QED
      BY <2>1, <3>1, <3>2, <3>3 DEF TypeOK, db, orders
  <2>4. RowsInv' /\ EnginesInv' /\ OrdersCommittedProducts'
    BY <2>1, EmptyKnown DEF TypeOK, RowsInv, EnginesInv, OrdersCommittedProducts, db, orders
  <2> QED
    BY <2>1, <2>2, <2>3, <2>4, WritersKept DEF db
<1>11. CASE UNCHANGED vars
  <2>1. WritersInv' /\ OneProductPerAlias'
    BY <1>11, WritersKept DEF vars
  <2>2. TypeOK' /\ RowsInv' /\ EnginesInv' /\ OrdersCommittedProducts'
    BY <1>11 DEF vars, TypeOK, RowsInv, EnginesInv, OrdersCommittedProducts
  <2> QED
    BY <2>1, <2>2
<1>12. ASSUME NEW s \in Writers, Commit(s) PROVE IInv'
  BY <1>12, CommitKeeps
<1> QED
  BY <1>1, <1>2, <1>4, <1>5, <1>6, <1>7, <1>8, <1>9, <1>10, <1>11, <1>12 DEF Next, Writers

LEMMA Invariance == Spec => []IInv
BY InitIInv, StepIInv, PTL DEF Spec

(* Every variable keeps its type, whatever requests and restarts do.         *)
THEOREM TypeCorrect == Spec => []TypeOK
<1>1. IInv => TypeOK
  BY DEF IInv
<1> QED
  BY Invariance, <1>1, PTL

(* _canonicalize_items and the two handlers of products.py: no order ever    *)
(* takes a product that is not committed, through any engine.                *)
THEOREM CommittedOnly == Spec => []OrdersCommittedProducts
<1>1. IInv => OrdersCommittedProducts
  BY DEF IInv
<1> QED
  BY Invariance, <1>1, PTL

(* uq_tenant_alias: concurrent inserts leave one product per alias.          *)
THEOREM AliasesUnique == Spec => []OneProductPerAlias
<1>1. IInv => OneProductPerAlias
  BY DEF IInv
<1> QED
  BY Invariance, <1>1, PTL

----
(* What an order loads, and what it takes from it.                          *)

(* The rows come in some order, and all of them.                            *)
LEMMA ListOntoRows ==
  ASSUME NEW S, IsFiniteSet(S), NEW list \in SetToSeqs(S)
  PROVE  /\ DOMAIN list \subseteq Nat
         /\ \A i \in DOMAIN list : list[i] \in S
         /\ \A r \in S : \E i \in DOMAIN list : list[i] = r
<1> DEFINE n == Cardinality(S)
<1>1. n \in Nat
  BY FS_CardinalityType
<1>2. list \in [1..n -> S] /\ \A i, j \in 1..n : i # j => list[i] # list[j]
  BY DEF SetToSeqs
<1>3. Cardinality(1..n) = n
  BY <1>1, FS_Interval
<1> HIDE DEF n
<1>4. list \in Injection(1..n, S)
  BY <1>2 DEF Injection, IsInjective
<1>5. list \in Surjection(1..n, S)
  BY <1>3, <1>4, FS_Injection DEF n
<1> QED
  BY <1>1, <1>2, <1>5 DEF Surjection

(* An exact match is an entry of that token.                                *)
LEMMA MappedIsNamed ==
  ASSUME NEW e \in Seq(Entry), NEW t, Same(e, t) # {}
  PROVE  \E i \in DOMAIN e : e[i].token = t /\ Mapped(e, t) = e[i].product
<1>1. PICK n \in Nat : DOMAIN e = 1..n
  OBVIOUS
<1>2. PICK i \in Same(e, t) : \A j \in Same(e, t) : j <= i
  <2>1. Same(e, t) \in SUBSET (1..n)
    BY <1>1 DEF Same
  <2> QED
    BY <2>1, Greatest
<1> DEFINE k == CHOOSE k \in DOMAIN e :
                  e[k].token = t /\ \A j \in DOMAIN e : e[j].token = t => j <= k
<1>3. k \in DOMAIN e /\ e[k].token = t
  BY <1>2 DEF Same
<1>4. Mapped(e, t) = e[k].product
  BY DEF Mapped
<1> HIDE DEF k
<1> QED
  BY <1>3, <1>4

(* What one order resolves its name to is right in its own rows.            *)
RightInRows(s) ==
  LET named == {r \in snapshot[s] : Token[r.alias] = raw[s]}
      x == result[s].product
  IN  pc[s] = "done" /\ result[s].loaded =>
        /\ named # {} => x \in {r.product : r \in named}
        /\ x # None => result[s].price = Price[x]

LEMMA LoadedRight ==
  ASSUME IInv, NEW s \in Orders, LoadAliases(s)
  PROVE  RightInRows(s)'
<1>1. PICK list \in SetToSeqs(snapshot[s]) :
        LET e == [i \in DOMAIN list |-> EntryOf(list[i])]
            x == Resolve(e, raw[s])
        IN  result' = [result EXCEPT ![s] =
              [product |-> x, price |-> LoadersPrice(x), loaded |-> TRUE]]
  BY DEF LoadAliases
<1> DEFINE e == [i \in DOMAIN list |-> EntryOf(list[i])]
           x == Resolve(e, raw[s])
           named == {r \in snapshot[s] : Token[r.alias] = raw[s]}
<1>2. /\ result'[s] = [product |-> x, price |-> LoadersPrice(x), loaded |-> TRUE]
      /\ snapshot'[s] = snapshot[s] /\ raw'[s] = raw[s]
  BY <1>1 DEF LoadAliases, IInv, TypeOK
<1>3. IsFiniteSet(snapshot[s]) /\ snapshot[s] \in SUBSET Row
  BY DEF IInv, RowsInv, TypeOK
<1>4. e \in Seq(Entry)
  BY <1>3, ListType
<1>5. /\ \A i \in DOMAIN list : list[i] \in snapshot[s]
      /\ \A r \in snapshot[s] : \E i \in DOMAIN list : list[i] = r
  BY <1>3, ListOntoRows
<1>6. /\ DOMAIN e = DOMAIN list
      /\ \A i \in DOMAIN list : e[i].token = Token[list[i].alias] /\ e[i].product = list[i].product
  BY DEF EntryOf, Normalised
<1> HIDE DEF e
<1>7. ASSUME named # {} PROVE x \in {r.product : r \in named}
  <2>1. Same(e, raw[s]) # {}
    BY <1>5, <1>6, <1>7 DEF Same
  <2>2. PICK i \in DOMAIN e : e[i].token = raw[s] /\ Mapped(e, raw[s]) = e[i].product
    BY <1>4, <2>1, MappedIsNamed
  <2>3. list[i] \in named /\ e[i].product = list[i].product
    BY <1>5, <1>6, <2>2
  <2>4. x = Mapped(e, raw[s])
    BY <2>1 DEF Resolve
  <2> QED
    BY <2>2, <2>3, <2>4
<1>8. x # None => LoadersPrice(x) = Price[x]
  BY DEF LoadersPrice
<1> HIDE DEF x
<1> QED
  BY <1>2, <1>7, <1>8 DEF RightInRows

(* No other step makes a loaded result of an order's own, or touches what   *)
(* a resolved order has.                                                    *)
LEMMA StepRight == IInv /\ LoaderIsRight /\ [Next]_vars => LoaderIsRight'
<1> SUFFICES ASSUME IInv, LoaderIsRight, [Next]_vars, NEW o \in Orders
             PROVE  RightInRows(o)'
  BY DEF LoaderIsRight, RightInRows
<1>0. RightInRows(o) /\ o \in Sessions
  BY DEF LoaderIsRight, RightInRows, Sessions
<1>1. ASSUME NEW s \in Sessions, s # o, NEW q, pc' = [pc EXCEPT ![s] = q],
             UNCHANGED <<raw[o], snapshot[o], result[o]>>
      PROVE  RightInRows(o)'
  <2>1. pc'[o] = pc[o]
    BY <1>0, <1>1 DEF IInv, TypeOK
  <2> QED
    BY <1>0, <1>1, <2>1 DEF RightInRows
<1>2. ASSUME pc'[o] # "done" PROVE RightInRows(o)'
  BY <1>2 DEF RightInRows
<1>3. ASSUME NEW s \in Creators \cup Adders,
             (s \in Creators /\ CreateProduct(s)) \/ (s \in Adders /\ AddAlias(s))
             \/ LoseAlias(s) \/ Commit(s)
      PROVE  RightInRows(o)'
  <2>1. s \in Sessions /\ s # o
    BY SessionsAssumption DEF Sessions
  <2>2. UNCHANGED orders
        /\ \E q \in {"flushed", "failed", "done"} : pc' = [pc EXCEPT ![s] = q]
    BY <1>3 DEF CreateProduct, AddAlias, LoseAlias, Commit
  <2> QED
    BY <1>1, <2>1, <2>2 DEF orders
<1>4. ASSUME NEW s \in Orders, NEW t \in Tokens, UseEngine(s, t) PROVE RightInRows(o)'
  <2>1. CASE s = o
    <3>1. result'[o].loaded = FALSE
      BY <1>4, <2>1 DEF UseEngine, IInv, TypeOK
    <3> QED
      BY <3>1 DEF RightInRows
  <2>2. CASE s # o
    <3>1. UNCHANGED <<raw[o], snapshot[o], result[o]>> /\ pc' = [pc EXCEPT ![s] = "done"]
      BY <1>4, <2>2 DEF UseEngine, IInv, TypeOK
    <3> QED
      BY <1>1, <2>2, <3>1 DEF Sessions
  <2> QED
    BY <2>1, <2>2
<1>5. ASSUME NEW s \in Orders, NEW t \in Tokens, FindEmpty(s, t) PROVE RightInRows(o)'
  <2>1. CASE s = o
    BY <1>0, <1>2, <1>5, <2>1 DEF FindEmpty, IInv, TypeOK
  <2>2. CASE s # o
    <3>1. UNCHANGED <<raw[o], snapshot[o], result[o]>> /\ pc' = [pc EXCEPT ![s] = "loading"]
      BY <1>5, <2>2 DEF FindEmpty, IInv, TypeOK
    <3> QED
      BY <1>1, <2>2, <3>1 DEF Sessions
  <2> QED
    BY <2>1, <2>2
<1>6. ASSUME NEW s \in Orders, ReadAliases(s) PROVE RightInRows(o)'
  <2>1. CASE s = o
    BY <1>0, <1>2, <1>6, <2>1 DEF ReadAliases, IInv, TypeOK
  <2>2. CASE s # o
    <3>1. UNCHANGED <<raw[o], snapshot[o], result[o]>> /\ pc' = [pc EXCEPT ![s] = "read"]
      BY <1>6, <2>2 DEF ReadAliases, IInv, TypeOK
    <3> QED
      BY <1>1, <2>2, <3>1 DEF Sessions
  <2> QED
    BY <2>1, <2>2
<1>7. ASSUME NEW s \in Orders, LoadAliases(s) PROVE RightInRows(o)'
  <2>1. CASE s = o
    BY <1>7, <2>1, LoadedRight
  <2>2. CASE s # o
    <3>1. UNCHANGED <<raw[o], snapshot[o], result[o]>> /\ pc' = [pc EXCEPT ![s] = "done"]
      BY <1>7, <2>2 DEF LoadAliases, IInv, TypeOK
    <3> QED
      BY <1>1, <2>2, <3>1 DEF Sessions
  <2> QED
    BY <2>1, <2>2
<1>8. ASSUME NEW s \in Sessions, Fail(s) PROVE RightInRows(o)'
  <2>1. CASE s = o
    BY <1>0, <1>2, <1>8, <2>1 DEF Fail, IInv, TypeOK
  <2>2. CASE s # o
    BY <1>1, <1>8, <2>2 DEF Fail, orders
  <2> QED
    BY <2>1, <2>2
<1>9. ASSUME NEW p \in Processes, Restart(p) PROVE RightInRows(o)'
  <2>1. pc'[o] \in {"failed", pc[o]} /\ UNCHANGED orders
    BY <1>0, <1>9 DEF Restart
  <2> QED
    BY <1>0, <2>1 DEF RightInRows, orders
<1>10. CASE UNCHANGED vars
  BY <1>0, <1>10 DEF RightInRows, vars
<1> QED
  BY <1>3, <1>4, <1>5, <1>6, <1>7, <1>8, <1>9, <1>10 DEF Next

(* _canonicalize_items: the order that loads the engine takes what its rows  *)
(* say, at the price of that product, whatever others do to the engine while *)
(* it awaits them.                                                           *)
THEOREM LoadersAreRight == Spec => []LoaderIsRight
<1>1. Init => LoaderIsRight
  BY DEF Init, LoaderIsRight, Sessions
<1> QED
  BY <1>1, Invariance, StepRight, PTL DEF Spec

----
(* Where the entries of an engine come from.                                *)

Origin(p, x, committed, inserted) ==
  \/ \E r \in committed : EntryOf(r) = x
  \/ \E s \in Adders : ProcessOf[s] = p /\ \E r \in inserted[s] : EntryOf(r) = x

(* What was read is still there, and an adder that has not begun has no row, *)
(* so that no row which an entry may come from is ever taken away.           *)
SourcesInv ==
  /\ \A s \in Adders : pc[s] = "idle" => row[s] = {}
  /\ \A s \in Orders : snapshot[s] \subseteq rows

HomeInv == IInv /\ SourcesInv /\ RolledBackAliasesStayHome

LEMMA InitHome == Init => SourcesInv /\ RolledBackAliasesStayHome
BY SessionsAssumption DEF Init, SourcesInv, RolledBackAliasesStayHome, Sessions

LEMMA SourcesStep ==
  ASSUME IInv, SourcesInv, [Next]_vars
  PROVE  /\ SourcesInv'
         /\ rows \subseteq rows' /\ \A s \in Adders : row[s] \subseteq row'[s]
<1>1. ASSUME UNCHANGED <<rows, row, snapshot>>,
             \A s \in Adders : pc'[s] = "idle" => pc[s] = "idle"
      PROVE  SourcesInv' /\ rows \subseteq rows' /\ \A s \in Adders : row[s] \subseteq row'[s]
  BY <1>1 DEF SourcesInv
<1>2. \A s \in Adders : s \in Sessions /\ s \notin Creators /\ s \notin Orders
  BY SessionsAssumption DEF Sessions
<1>3. \A s \in Sessions, q \in {"failed", "done", "loading", "read", "flushed"} :
        pc' = [pc EXCEPT ![s] = q] => \A o \in Adders : pc'[o] = "idle" => pc[o] = "idle"
  BY DEF IInv, TypeOK, Sessions
<1>4. ASSUME NEW s \in Creators, CreateProduct(s)
      PROVE  SourcesInv' /\ rows \subseteq rows' /\ \A o \in Adders : row[o] \subseteq row'[o]
  <2>1. /\ pc' = [pc EXCEPT ![s] = "flushed"] /\ rows' = rows /\ snapshot' = snapshot
        /\ \E new : row' = [row EXCEPT ![s] = new]
    BY <1>4 DEF CreateProduct, db, orders
  <2>2. \A o \in Adders : row'[o] = row[o] /\ pc'[o] = pc[o]
    BY <1>2, <2>1 DEF IInv, TypeOK
  <2> QED
    BY <2>1, <2>2 DEF SourcesInv
<1>5. ASSUME NEW s \in Adders, AddAlias(s)
      PROVE  SourcesInv' /\ rows \subseteq rows' /\ \A o \in Adders : row[o] \subseteq row'[o]
  <2>1. /\ pc[s] = "idle" /\ pc' = [pc EXCEPT ![s] = "flushed"]
        /\ rows' = rows /\ snapshot' = snapshot
        /\ \E new : row' = [row EXCEPT ![s] = new]
    BY <1>5 DEF AddAlias, db, orders
  <2>2. row[s] = {} /\ pc'[s] = "flushed"
    BY <1>2, <2>1 DEF SourcesInv, IInv, TypeOK
  <2>3. \A o \in Adders \ {s} : row'[o] = row[o] /\ pc'[o] = pc[o]
    BY <1>2, <2>1 DEF IInv, TypeOK
  <2> QED
    BY <2>1, <2>2, <2>3 DEF SourcesInv
<1>6. ASSUME NEW s \in Creators \cup Adders, LoseAlias(s)
      PROVE  SourcesInv' /\ rows \subseteq rows' /\ \A o \in Adders : row[o] \subseteq row'[o]
  BY <1>1, <1>3, <1>6 DEF LoseAlias, db, orders, Sessions
<1>7. ASSUME NEW s \in Creators \cup Adders, Commit(s)
      PROVE  SourcesInv' /\ rows \subseteq rows' /\ \A o \in Adders : row[o] \subseteq row'[o]
  <2>1. /\ pc' = [pc EXCEPT ![s] = "done"] /\ rows' = rows \cup row[s]
        /\ row' = row /\ snapshot' = snapshot
    BY <1>7 DEF Commit, orders
  <2>2. \A o \in Adders : pc'[o] = "idle" => pc[o] = "idle"
    BY <1>3, <2>1 DEF Sessions
  <2> QED
    BY <2>1, <2>2 DEF SourcesInv
<1>8. ASSUME NEW s \in Orders, NEW t \in Tokens, UseEngine(s, t) \/ FindEmpty(s, t)
      PROVE  SourcesInv' /\ rows \subseteq rows' /\ \A o \in Adders : row[o] \subseteq row'[o]
  BY <1>1, <1>3, <1>8 DEF UseEngine, FindEmpty, db, Sessions
<1>9. ASSUME NEW s \in Orders, ReadAliases(s)
      PROVE  SourcesInv' /\ rows \subseteq rows' /\ \A o \in Adders : row[o] \subseteq row'[o]
  <2>1. /\ pc' = [pc EXCEPT ![s] = "read"] /\ rows' = rows /\ row' = row
        /\ snapshot' = [snapshot EXCEPT ![s] = rows]
    BY <1>9 DEF ReadAliases, db
  <2>2. \A o \in Adders : pc'[o] = "idle" => pc[o] = "idle"
    BY <1>3, <2>1 DEF Sessions
  <2>3. \A o \in Orders : snapshot'[o] \in {rows, snapshot[o]}
    BY <2>1 DEF IInv, TypeOK
  <2> QED
    BY <2>1, <2>2, <2>3 DEF SourcesInv
<1>10. ASSUME NEW s \in Orders, LoadAliases(s)
       PROVE  SourcesInv' /\ rows \subseteq rows' /\ \A o \in Adders : row[o] \subseteq row'[o]
  BY <1>1, <1>3, <1>10 DEF LoadAliases, db, Sessions
<1>11. ASSUME NEW s \in Sessions, Fail(s)
       PROVE  SourcesInv' /\ rows \subseteq rows' /\ \A o \in Adders : row[o] \subseteq row'[o]
  BY <1>1, <1>3, <1>11 DEF Fail, db, orders
<1>12. ASSUME NEW p \in Processes, Restart(p)
       PROVE  SourcesInv' /\ rows \subseteq rows' /\ \A o \in Adders : row[o] \subseteq row'[o]
  <2>1. \A o \in Adders : pc'[o] = "idle" => pc[o] = "idle"
    BY <1>2, <1>12 DEF Restart
  <2> QED
    BY <1>1, <1>12, <2>1 DEF Restart, db, orders
<1>13. CASE UNCHANGED vars
  BY <1>1, <1>13 DEF vars
<1> QED
  BY <1>4, <1>5, <1>6, <1>7, <1>8, <1>9, <1>10, <1>11, <1>12, <1>13 DEF Next

LEMMA AppendEntries ==
  ASSUME NEW e \in Seq(Entry), NEW x \in Entry, NEW i \in DOMAIN Append(e, x)
  PROVE  Append(e, x)[i] = x \/ (i \in DOMAIN e /\ Append(e, x)[i] = e[i])
<1>1. i \in 1..(Len(e) + 1) /\ Len(e) \in Nat /\ DOMAIN e = 1..Len(e)
  OBVIOUS
<1>2. CASE i = Len(e) + 1
  BY <1>1, <1>2
<1>3. CASE i \in DOMAIN e
  BY <1>1, <1>3
<1> QED
  BY <1>1, <1>2, <1>3

(* An engine that is not given anything keeps what it had, from where it had *)
(* it; one that is dropped has nothing.                                      *)
LEMMA HomeStep == HomeInv /\ [Next]_vars => HomeInv'
<1> SUFFICES ASSUME HomeInv, [Next]_vars PROVE HomeInv'
  OBVIOUS
<1>1. IInv'
  BY StepIInv DEF HomeInv
<1>2. SourcesInv' /\ rows \subseteq rows' /\ \A s \in Adders : row[s] \subseteq row'[s]
  BY SourcesStep DEF HomeInv
<1>3. \A p, x : Origin(p, x, rows, row) => Origin(p, x, rows', row')
  BY <1>2 DEF Origin
<1>4. \A p \in Processes : \A i \in DOMAIN engine[p] : Origin(p, engine[p][i], rows, row)
  BY DEF HomeInv, RolledBackAliasesStayHome, Origin
<1> DEFINE Home(p) == \A i \in DOMAIN engine'[p] : Origin(p, engine'[p][i], rows', row')
<1>5. \A p \in Processes : engine'[p] \in {engine[p], <<>>} => Home(p)
  BY <1>3, <1>4
<1>6. engine \in [Processes -> Seq(Entry)] /\ ProcessOf \in [Sessions -> Processes]
  BY SessionsAssumption DEF HomeInv, IInv, TypeOK
<1>7. SUFFICES ASSUME NEW p \in Processes PROVE Home(p)
  BY <1>1, <1>2 DEF HomeInv, RolledBackAliasesStayHome, Origin
<1>8. ASSUME NEW s \in Creators, CreateProduct(s) PROVE Home(p)
  <2>1. engine'[p] \in {engine[p], <<>>}
    BY <1>6, <1>8 DEF CreateProduct, Invalidated
  <2> QED
    BY <1>5, <2>1
<1>9. ASSUME NEW s \in Adders, AddAlias(s) PROVE Home(p)
  <2>1. s \in Sessions /\ row \in [Creators \cup Adders -> SUBSET Row]
    BY DEF Sessions, HomeInv, IInv, TypeOK
  <2>2. PICK a \in Aliases, x \in products :
          /\ row' = [row EXCEPT ![s] = {[alias |-> a, product |-> x]}]
          /\ engine' = Told(s, EntryOf([alias |-> a, product |-> x]))
    BY <1>9 DEF AddAlias
  <2> DEFINE new == [alias |-> a, product |-> x]
  <2>3. row'[s] = {new} /\ engine' = [engine EXCEPT ![ProcessOf[s]] = Append(@, EntryOf(new))]
    BY <2>1, <2>2 DEF Told
  <2>4. new \in Row
    BY DEF Row, HomeInv, IInv, TypeOK
  <2> HIDE DEF new
  <2>5. CASE p # ProcessOf[s]
    BY <1>5, <1>6, <2>1, <2>3, <2>5
  <2>6. CASE p = ProcessOf[s]
    <3>1. engine[p] \in Seq(Entry) /\ engine'[p] = Append(engine[p], EntryOf(new))
      BY <1>6, <2>1, <2>3, <2>6
    <3>2. Origin(p, EntryOf(new), rows', row')
      BY <2>3, <2>6 DEF Origin
    <3>3. EntryOf(new) \in Entry
      BY <2>4, TokensAssumption DEF EntryOf, Normalised, Entry, Row
    <3> DEFINE y == EntryOf(new)
               longer == Append(engine[p], y)
    <3>4. ASSUME NEW i \in DOMAIN longer PROVE Origin(p, longer[i], rows', row')
      <4>1. longer[i] = y \/ (i \in DOMAIN engine[p] /\ longer[i] = engine[p][i])
        <5> HIDE DEF y
        <5> QED
          BY <3>1, <3>3, AppendEntries DEF y
      <4> HIDE DEF longer
      <4> QED
        BY <1>3, <1>4, <3>2, <4>1
    <3>5. engine'[p] = longer
      BY <3>1
    <3> HIDE DEF longer
    <3> QED
      BY <3>4, <3>5
  <2> QED
    BY <2>5, <2>6
<1>10. ASSUME NEW s \in Orders, LoadAliases(s) PROVE Home(p)
  <2>1. PICK list \in SetToSeqs(snapshot[s]) :
          engine' \in {[engine EXCEPT ![ProcessOf[s]] = [i \in DOMAIN list |-> EntryOf(list[i])]],
                       engine}
    BY <1>10 DEF LoadAliases
  <2> DEFINE e == [i \in DOMAIN list |-> EntryOf(list[i])]
  <2>2. engine'[p] \in {e, engine[p]}
    BY <1>6, <2>1
  <2>3. IsFiniteSet(snapshot[s]) /\ snapshot[s] \subseteq rows
    BY DEF HomeInv, IInv, RowsInv, SourcesInv
  <2>4. \A i \in DOMAIN list : list[i] \in snapshot[s]
    BY <2>3, ListOntoRows
  <2>5. \A i \in DOMAIN e : Origin(p, e[i], rows, row)
    BY <2>3, <2>4 DEF Origin
  <2> HIDE DEF e
  <2> QED
    BY <1>3, <1>5, <2>2, <2>5
<1>11. ASSUME NEW q \in Processes, Restart(q) PROVE Home(p)
  <2>1. engine'[p] \in {engine[p], <<>>}
    BY <1>6, <1>11 DEF Restart
  <2> QED
    BY <1>5, <2>1
<1>12. ASSUME engine' = engine PROVE Home(p)
  BY <1>5, <1>12
<1> HIDE DEF Home
<1>13. ASSUME NEW s \in Creators \cup Adders, LoseAlias(s) \/ Commit(s) PROVE Home(p)
  BY <1>12, <1>13 DEF LoseAlias, Commit, caches
<1>14. ASSUME NEW s \in Orders, NEW t \in Tokens, UseEngine(s, t) \/ FindEmpty(s, t)
       PROVE  Home(p)
  BY <1>12, <1>14 DEF UseEngine, FindEmpty, caches
<1>15. ASSUME NEW s \in Sessions, ReadAliases(s) \/ Fail(s) PROVE Home(p)
  BY <1>12, <1>15 DEF ReadAliases, Fail, caches
<1>16. CASE UNCHANGED vars
  BY <1>12, <1>16 DEF vars
<1> QED
  BY <1>8, <1>9, <1>10, <1>11, <1>13, <1>14, <1>15, <1>16 DEF Next, Sessions

(* add_alias before the commit: an alias that is rolled back stays in the    *)
(* engine of the process that served it, and gets into no other.             *)
THEOREM AliasesStayHome == Spec => []RolledBackAliasesStayHome
<1>1. Init => HomeInv
  BY InitIInv, InitHome DEF HomeInv
<1>2. HomeInv => RolledBackAliasesStayHome
  BY DEF HomeInv
<1> QED
  BY <1>1, <1>2, HomeStep, PTL DEF Spec
====
