---- MODULE InvoiceNumberingProofs ----
(***************************************************************************)
(* Invoice numbers are unique, and without gaps while a tenant's invoices   *)
(* bear one date, for any number of requests, tenants and days.             *)
(***************************************************************************)
EXTENDS InvoiceNumbering, FiniteSetTheorems, TLAPS

USE TenantOfAssumption, BoundsAssumption

(* The sequence numbers of S do not exceed its size. *)
Within(S) == \A i \in S : i.number.seq <= Cardinality(S)

Uncommitted == UNION {mine[r] : r \in Requests}

RequestInv(r) ==
  /\ IsFiniteSet(mine[r])
  /\ \A i \in mine[r] : i.tenant = TenantOf[r]
  /\ Within(Visible(r))
  /\ pc[r] \in {"counted", "numbered"} =>
       number[r].seq # 0 /\ number[r].seq <= Cardinality(Visible(r)) + 1
  /\ pc[r] = "numbered" => number[r].day # 0

IInv ==
  /\ TypeOK
  /\ NumbersUnique
  /\ IsFiniteSet(invoices)
  /\ \A t \in Tenants : Within(OfTenant(t))
  /\ \A r \in Requests : RequestInv(r)

LEMMA InitInv == Init => IInv
BY FS_EmptySet DEF Init, IInv, TypeOK, NumbersUnique, Within, OfTenant, RequestInv, Visible,
   NoNumber

----
LEMMA VisibleFinite ==
  ASSUME NEW r \in Requests, IsFiniteSet(invoices), IsFiniteSet(mine[r])
  PROVE  IsFiniteSet(Visible(r)) /\ Cardinality(Visible(r)) \in Nat
BY FS_Union, FS_Subset, FS_CardinalityType, IsFiniteSet(invoices \cup mine[r]) DEF Visible

(* A step that leaves all invoices and the number of request r alone. *)
LEMMA Unmoved ==
  ASSUME NEW r \in Requests, RequestInv(r), invoices' = invoices, mine'[r] = mine[r],
         number'[r] = number[r], pc'[r] = pc[r] \/ pc'[r] \notin {"counted", "numbered"}
  PROVE  RequestInv(r)'
<1>1. Visible(r)' = Visible(r)
  BY DEF Visible
<1> QED
  BY <1>1 DEF RequestInv, Within

LEMMA BooksUnmoved ==
  ASSUME \A t \in Tenants : Within(OfTenant(t)), invoices' = invoices
  PROVE  \A t \in Tenants : Within(OfTenant(t))'
BY DEF Within, OfTenant

LEMMA CountInv == ASSUME IInv, NEW r \in Requests, Count(r) PROVE IInv'
<1>1. /\ TypeOK /\ IsFiniteSet(invoices) /\ RequestInv(r)
      /\ pc' = [pc EXCEPT ![r] = "counted"]
      /\ number' = [number EXCEPT ![r].seq = Cardinality(Visible(r)) + 1]
      /\ invoices' = invoices /\ day' = day /\ mine' = mine
  BY DEF IInv, Count, NextSeq
<1>2. Cardinality(Visible(r)) \in Nat
  BY <1>1, VisibleFinite DEF RequestInv
<1>3. TypeOK'
  BY <1>1, <1>2 DEF TypeOK
<1>4. NumbersUnique' /\ IsFiniteSet(invoices') /\ \A t \in Tenants : Within(OfTenant(t))'
  BY <1>1, BooksUnmoved DEF IInv, NumbersUnique
<1>5. RequestInv(r)'
  <2>1. Visible(r)' = Visible(r)
    BY <1>1 DEF Visible
  <2>2. number'[r].seq = Cardinality(Visible(r)) + 1 /\ pc'[r] = "counted"
    BY <1>1 DEF TypeOK
  <2> QED
    BY <1>1, <1>2, <2>1, <2>2 DEF RequestInv, Within
<1>6. \A q \in Requests \ {r} : RequestInv(q)'
  BY <1>1, Unmoved DEF IInv, TypeOK
<1> QED
  BY <1>1, <1>3, <1>4, <1>5, <1>6 DEF IInv

LEMMA StampInv == ASSUME IInv, NEW r \in Requests, Stamp(r) PROVE IInv'
<1>1. /\ TypeOK /\ RequestInv(r) /\ pc[r] = "counted"
      /\ pc' = [pc EXCEPT ![r] = "numbered"]
      /\ number' = [number EXCEPT ![r].day = day]
      /\ invoices' = invoices /\ day' = day /\ mine' = mine
  BY DEF IInv, Stamp
<1>2. TypeOK'
  BY <1>1 DEF TypeOK
<1>3. NumbersUnique' /\ IsFiniteSet(invoices') /\ \A t \in Tenants : Within(OfTenant(t))'
  BY <1>1, BooksUnmoved DEF IInv, NumbersUnique
<1>4. RequestInv(r)'
  <2>1. Visible(r)' = Visible(r)
    BY <1>1 DEF Visible
  <2>2. number'[r].seq = number[r].seq /\ number'[r].day = day /\ day # 0
    BY <1>1 DEF TypeOK
  <2> QED
    BY <1>1, <2>1, <2>2 DEF RequestInv, Within
<1>5. \A q \in Requests \ {r} : RequestInv(q)'
  BY <1>1, Unmoved DEF IInv, TypeOK
<1> QED
  BY <1>1, <1>2, <1>3, <1>4, <1>5 DEF IInv

LEMMA InsertInv == ASSUME IInv, NEW r \in Requests, InsertInvoice(r) PROVE IInv'
<1> DEFINE i == [tenant |-> TenantOf[r], number |-> number[r]]
<1>0. PICK new : new = i
  OBVIOUS
<1>1. /\ TypeOK /\ RequestInv(r) /\ pc[r] = "numbered"
      /\ pc' = [pc EXCEPT ![r] = "open"]
      /\ mine' = [mine EXCEPT ![r] = @ \cup {new}]
      /\ invoices' = invoices /\ day' = day /\ number' = number
      /\ new.tenant = TenantOf[r] /\ new.number = number[r]
  BY <1>0 DEF IInv, InsertInvoice
<1>2. /\ \A j \in invoices \cup mine[r] : j.number # new.number
      /\ \A q \in Requests \ {r} : \A j \in mine[q] : j.number # new.number
  BY <1>1 DEF InsertInvoice, Clashes, Numbers
<1>3. new \in Invoice
  <2>1. number[r] \in [day : Nat \ {0}, seq : Nat \ {0}]
    BY <1>1 DEF RequestInv, TypeOK
  <2> QED
    BY <1>0, <2>1 DEF Invoice
<1>4. mine'[r] = mine[r] \cup {new} /\ \A q \in Requests \ {r} : mine'[q] = mine[q]
  BY <1>1 DEF TypeOK
<1>5. TypeOK'
  BY <1>1, <1>3 DEF TypeOK
<1>6. NumbersUnique'
  <2>1. \A j \in invoices' \cup Uncommitted' : j \in invoices \cup Uncommitted \/ j = new
    BY <1>1, <1>4 DEF Uncommitted
  <2>2. \A j \in invoices \cup Uncommitted : j.number # new.number
    BY <1>2 DEF Uncommitted
  <2>3. \A j, k \in invoices \cup Uncommitted : j.number = k.number => j = k
    BY DEF IInv, NumbersUnique, Uncommitted
  <2> QED
    BY <2>1, <2>2, <2>3 DEF NumbersUnique, Uncommitted
<1>7. IsFiniteSet(invoices') /\ \A t \in Tenants : Within(OfTenant(t))'
  BY <1>1, BooksUnmoved DEF IInv
<1>8. RequestInv(r)'
  <2>1. Visible(r)' = Visible(r) \cup {new}
    BY <1>1, <1>4 DEF Visible
  <2>2. new \notin Visible(r)
    BY <1>2 DEF Visible
  <2>3. IsFiniteSet(Visible(r)) /\ Cardinality(Visible(r)) \in Nat
    BY <1>1, VisibleFinite DEF IInv, RequestInv
  <2>4. Cardinality(Visible(r)') = Cardinality(Visible(r)) + 1
    BY <2>1, <2>2, <2>3, FS_AddElement
  <2>5. new.number.seq <= Cardinality(Visible(r)) + 1
    BY <1>1 DEF RequestInv
  <2>6. \A j \in Visible(r) : j.number.seq \in Nat /\ j.number.seq <= Cardinality(Visible(r))
    BY <1>1 DEF RequestInv, Within, Visible, TypeOK, Invoice
  <2>7. Within(Visible(r))'
    BY <2>1, <2>3, <2>4, <2>5, <2>6 DEF Within
  <2>8. IsFiniteSet(mine'[r])
    BY <1>1, <1>4, FS_AddElement DEF RequestInv
  <2>9. pc'[r] = "open"
    BY <1>1 DEF TypeOK
  <2> QED
    BY <1>1, <1>4, <2>7, <2>8, <2>9 DEF RequestInv
<1>9. \A q \in Requests \ {r} : RequestInv(q)'
  BY <1>1, <1>4, Unmoved DEF IInv, TypeOK
<1> QED
  BY <1>5, <1>6, <1>7, <1>8, <1>9 DEF IInv

LEMMA CommitInv == ASSUME IInv, NEW r \in Requests, Commit(r) PROVE IInv'
<1>1. /\ TypeOK /\ RequestInv(r) /\ IsFiniteSet(invoices)
      /\ pc' = [pc EXCEPT ![r] = "done"]
      /\ mine' = [mine EXCEPT ![r] = {}]
      /\ invoices' = invoices \cup mine[r] /\ day' = day /\ number' = number
  BY DEF IInv, Commit
<1>2. mine'[r] = {} /\ \A q \in Requests \ {r} : mine'[q] = mine[q]
  BY <1>1 DEF TypeOK
<1>3. TypeOK'
  BY <1>1 DEF TypeOK
<1>4. NumbersUnique'
  <2>1. invoices' \cup Uncommitted' \subseteq invoices \cup Uncommitted
    BY <1>1, <1>2 DEF Uncommitted
  <2> QED
    BY <2>1 DEF IInv, NumbersUnique, Uncommitted
<1>5. IsFiniteSet(invoices')
  BY <1>1, FS_Union DEF RequestInv
<1>6. OfTenant(TenantOf[r])' = Visible(r)
  BY <1>1 DEF OfTenant, Visible
<1>7. \A t \in Tenants \ {TenantOf[r]} : OfTenant(t)' = OfTenant(t)
  BY <1>1 DEF OfTenant, RequestInv
<1>8. \A t \in Tenants : Within(OfTenant(t))'
  BY <1>1, <1>6, <1>7 DEF IInv, Within, RequestInv
<1>9. ASSUME NEW q \in Requests PROVE RequestInv(q)'
  <2>1. RequestInv(q)
    BY DEF IInv
  <2>2. IsFiniteSet(mine'[q])
    BY <1>2, <2>1, FS_EmptySet DEF RequestInv
  <2>3. IsFiniteSet(Visible(q)') /\ Cardinality(Visible(q)') \in Nat
    <3>1. IsFiniteSet(invoices' \cup mine'[q])
      BY <1>5, <2>2, FS_Union
    <3> QED
      BY <3>1, FS_Subset, FS_CardinalityType DEF Visible
  <2>4. q # r => Visible(q) \subseteq Visible(q)'
    BY <1>1, <1>2 DEF Visible
  <2>5. IsFiniteSet(Visible(q)) /\ Cardinality(Visible(q)) \in Nat
    BY <1>1, <2>1, VisibleFinite DEF RequestInv
  <2>6. q # r => Cardinality(Visible(q)) <= Cardinality(Visible(q)')
    BY <2>3, <2>4, FS_Subset
  <2>7. OfTenant(TenantOf[q])' \subseteq Visible(q)'
    BY DEF OfTenant, Visible
  <2>8. /\ IsFiniteSet(OfTenant(TenantOf[q])') /\ Cardinality(OfTenant(TenantOf[q])') \in Nat
        /\ Cardinality(OfTenant(TenantOf[q])') <= Cardinality(Visible(q)')
    BY <2>3, <2>7, FS_Subset, FS_CardinalityType
  <2>9. Within(Visible(q))'
    <3> SUFFICES ASSUME NEW i \in Visible(q)' PROVE i.number.seq <= Cardinality(Visible(q)')
      BY DEF Within
    <3>1. i.number.seq \in Nat
      BY <1>3 DEF Visible, TypeOK, Invoice
    <3>2. CASE i \in OfTenant(TenantOf[q])'
      BY <1>8, <2>3, <2>8, <3>1, <3>2 DEF Within
    <3>3. CASE i \notin OfTenant(TenantOf[q])'
      <4>1. i \in mine'[q] /\ i.tenant = TenantOf[q]
        BY <3>3 DEF Visible, OfTenant
      <4>2. q # r /\ i \in Visible(q)
        BY <1>2, <4>1 DEF Visible
      <4> QED
        BY <2>1, <2>3, <2>5, <2>6, <3>1, <4>2 DEF RequestInv, Within
    <3> QED
      BY <3>2, <3>3
  <2>10. pc'[q] \in {"counted", "numbered"} => q # r /\ pc'[q] = pc[q]
    BY <1>1 DEF TypeOK
  <2>11. number[q].seq \in Nat
    BY <1>1 DEF TypeOK
  <2> QED
    BY <1>1, <1>2, <2>1, <2>2, <2>3, <2>5, <2>6, <2>9, <2>10, <2>11 DEF RequestInv
<1> QED
  BY <1>3, <1>4, <1>5, <1>8, <1>9 DEF IInv

LEMMA RollBackInv == ASSUME IInv, NEW r \in Requests, RollBack(r) PROVE IInv'
<1>1. /\ TypeOK /\ IsFiniteSet(invoices)
      /\ pc' = [pc EXCEPT ![r] = "failed"]
      /\ mine' = [mine EXCEPT ![r] = {}]
      /\ invoices' = invoices /\ day' = day /\ number' = number
  BY DEF IInv, RollBack
<1>2. mine'[r] = {} /\ \A q \in Requests \ {r} : mine'[q] = mine[q]
  BY <1>1 DEF TypeOK
<1>3. TypeOK'
  BY <1>1 DEF TypeOK
<1>4. NumbersUnique'
  <2>1. Uncommitted' \subseteq Uncommitted
    BY <1>2 DEF Uncommitted
  <2> QED
    BY <1>1, <2>1 DEF IInv, NumbersUnique, Uncommitted
<1>5. IsFiniteSet(invoices') /\ \A t \in Tenants : Within(OfTenant(t))'
  BY <1>1, BooksUnmoved DEF IInv
<1>6. RequestInv(r)'
  <2>1. Visible(r)' = OfTenant(TenantOf[r])
    BY <1>1, <1>2 DEF Visible, OfTenant
  <2>2. Within(Visible(r))'
    BY <2>1 DEF IInv, Within
  <2>3. pc'[r] = "failed"
    BY <1>1 DEF TypeOK
  <2> QED
    BY <1>2, <2>2, <2>3, FS_EmptySet DEF RequestInv
<1>7. \A q \in Requests \ {r} : RequestInv(q)'
  BY <1>1, <1>2, Unmoved DEF IInv, TypeOK
<1> QED
  BY <1>3, <1>4, <1>5, <1>6, <1>7 DEF IInv

LEMMA NextInv == IInv /\ [Next]_vars => IInv'
<1> SUFFICES ASSUME IInv, [Next]_vars PROVE IInv'
  OBVIOUS
<1>1. CASE UNCHANGED vars \/ Midnight \/ \E r \in Requests : Begin(r)
  <2>1. invoices' = invoices /\ mine' = mine /\ number' = number /\ TypeOK
    BY <1>1 DEF vars, Midnight, Begin, IInv
  <2>2. TypeOK'
    BY <1>1, <2>1 DEF vars, Midnight, Begin, TypeOK
  <2>3. \A r \in Requests : pc'[r] = pc[r] \/ pc'[r] = "open"
    BY <1>1, <2>1 DEF vars, Midnight, Begin, TypeOK
  <2>4. \A r \in Requests : RequestInv(r)'
    BY <2>1, <2>3, Unmoved DEF IInv
  <2> QED
    BY <2>1, <2>2, <2>4, BooksUnmoved DEF IInv, NumbersUnique
<1> QED
  BY <1>1, CountInv, StampInv, InsertInv, CommitInv, RollBackInv
     DEF Next, LoseNumber, Fail, Quiescent

LEMMA Invariance == Spec => []IInv
BY InitInv, NextInv, PTL DEF Spec

----
(* Days and sequence numbers of inserted invoices count from 1. *)
THEOREM TypeCorrect == Spec => []TypeOK
BY Invariance, PTL DEF IInv

(* The unique index keeps each number on one invoice. *)
THEOREM Unique == Spec => []NumbersUnique
BY Invariance, PTL DEF IInv

LEMMA Gapless == IInv => GaplessOnOneDay
<1> SUFFICES ASSUME IInv, NEW t \in Tenants,
                    \A i, j \in OfTenant(t) : i.number.day = j.number.day
             PROVE  Seqs(OfTenant(t)) = 1 .. Cardinality(OfTenant(t))
  BY DEF GaplessOnOneDay
<1> DEFINE S == OfTenant(t)
           T == 1 .. Cardinality(S)
           f == [i \in S |-> i.number.seq]
<1>1. IsFiniteSet(S) /\ Cardinality(S) \in Nat
  BY FS_Subset, FS_CardinalityType DEF IInv, OfTenant
<1>2. IsFiniteSet(T) /\ Cardinality(T) = Cardinality(S)
  BY <1>1, FS_Interval
<1>3. \A i \in S : i.number \in [day : Nat \ {0}, seq : Nat \ {0}]
  BY DEF IInv, TypeOK, Invoice, OfTenant
<1>4. \A i \in S : i.number.seq \in T
  BY <1>1, <1>3 DEF IInv, Within
<1>5. \A i, j \in S : i.number.seq = j.number.seq => i = j
  BY <1>3 DEF IInv, NumbersUnique, OfTenant
<1>6. f \in Injection(S, T)
  BY <1>4, <1>5 DEF Injection, IsInjective
<1>7. f \in Surjection(S, T)
  BY <1>2, <1>6, FS_Injection
<1> QED
  BY <1>4, <1>7 DEF Surjection, Seqs

(* Numbers of one date have no gaps. *)
THEOREM NoGaps == Spec => []GaplessOnOneDay
BY Invariance, Gapless, PTL
====
