---- MODULE CreditLedgerProofs ----
(* Theorems about CreditLedger, for any customers, sessions, limits and
   amounts. *)
EXTENDS CreditLedger, FiniteSetTheorems, SequenceTheorems, WellFoundedInduction, TLAPS

----
(* Sums over the domain of a function: SumFunction unfolds into a function
   iter on the finite subsets of the domain that takes the chosen elements away
   one by one.  All four lemmas look at a smallest set that is an exception. *)

Chosen(s) == CHOOSE x \in s : TRUE

(* iter is that function for f, on the subsets of S that are in sets. *)
Iterates(iter, f, sets) ==
  iter = [s \in sets |-> IF s = {} THEN 0 ELSE f[Chosen(s)] + iter[s \ {Chosen(s)}]]

LEMMA LeastNatural ==
  ASSUME NEW T \in SUBSET Nat, T # {}
  PROVE  \E n \in T : \A m \in T : n <= m
<1> DEFINE R == OpToRel(<, Nat)
<1>1. IsWellFoundedOn(R, Nat)
  BY NatLessThanWellFounded
<1>2. \A m, n \in Nat : m < n => <<m, n>> \in R
  BY DEF OpToRel
<1> HIDE DEF R
<1>3. PICK n \in T : \A m \in T : <<m, n>> \notin R
  BY <1>1, WFMin
<1>4. ASSUME NEW m \in T PROVE n <= m
  <2>1. m \in Nat /\ n \in Nat
    OBVIOUS
  <2>2. ~(m < n)
    BY <1>2, <1>3, <2>1
  <2> QED
    BY <2>1, <2>2
<1> QED
  BY <1>4

(* A family of finite sets is all of subsets, or leaves out a smallest one. *)
LEMMA SmallestSet ==
  ASSUME NEW S, IsFiniteSet(S), NEW good, \E s \in SUBSET S : s \notin good
  PROVE  \E s \in SUBSET S : /\ s \notin good /\ IsFiniteSet(s)
                             /\ \A x \in s : s \ {x} \in good
<1> DEFINE sizes == {Cardinality(s) : s \in (SUBSET S) \ good}
<1>1. \A s \in SUBSET S : IsFiniteSet(s) /\ Cardinality(s) \in Nat
  BY FS_Subset, FS_CardinalityType
<1>2. sizes \in SUBSET Nat /\ sizes # {}
  BY <1>1
<1>3. PICK n \in sizes : \A m \in sizes : n <= m
  BY <1>2, LeastNatural
<1>4. PICK s \in (SUBSET S) \ good : Cardinality(s) = n
  BY <1>3
<1>5. ASSUME NEW x \in s PROVE s \ {x} \in good
  <2>1. Cardinality(s \ {x}) = Cardinality(s) - 1
    BY <1>1, FS_RemoveElement
  <2>2. Cardinality(s \ {x}) \notin sizes
    BY <1>1, <1>3, <1>4, <2>1
  <2> QED
    BY <2>2
<1>6. s \in SUBSET S /\ s \notin good /\ IsFiniteSet(s)
  <2>1. s \in SUBSET S /\ s \notin good
    OBVIOUS
  <2> QED
    BY <1>1, <2>1
<1> QED
  BY <1>5, <1>6, Zenon

LEMMA ChosenIn == \A s : s # {} => Chosen(s) \in s
BY DEF Chosen

LEMMA IterUnique ==
  ASSUME NEW f, NEW S, IsFiniteSet(S), NEW T, S \subseteq T, NEW g, NEW h,
         Iterates(g, f, SUBSET S), Iterates(h, f, SUBSET T)
  PROVE  g[S] = h[S]
<1> DEFINE good == {s \in SUBSET S : g[s] = h[s]}
<1> SUFFICES ASSUME S \notin good PROVE FALSE
  OBVIOUS
<1>1. PICK s \in SUBSET S :
        s \notin good /\ IsFiniteSet(s) /\ \A x \in s : s \ {x} \in good
  <2>1. \E s \in SUBSET S : s \notin good
    OBVIOUS
  <2> HIDE DEF good
  <2> QED
    BY <2>1, SmallestSet
<1>2. /\ g[s] = IF s = {} THEN 0 ELSE f[Chosen(s)] + g[s \ {Chosen(s)}]
      /\ h[s] = IF s = {} THEN 0 ELSE f[Chosen(s)] + h[s \ {Chosen(s)}]
  BY DEF Iterates
<1> QED
  BY <1>1, <1>2, ChosenIn

LEMMA IterExists ==
  ASSUME NEW f, NEW S, IsFiniteSet(S)
  PROVE  \E g : Iterates(g, f, SUBSET S)
<1> DEFINE upTo(n) == {s \in SUBSET S : Cardinality(s) <= n}
           bad == {n \in Nat : ~\E g : Iterates(g, f, upTo(n))}
<1>1. \A s \in SUBSET S : IsFiniteSet(s) /\ Cardinality(s) \in Nat
  BY FS_Subset, FS_CardinalityType
<1>2. ASSUME bad # {} PROVE FALSE
  <2>1. PICK n \in bad : \A m \in bad : n <= m
    BY <1>2, LeastNatural
  <2>2. CASE n = 0
    <3> DEFINE g == [s \in upTo(0) |-> IF s = {} THEN 0 ELSE f[Chosen(s)]]
    <3>1. \A s \in upTo(0) : s = {}
      BY <1>1, FS_EmptySet
    <3>2. Iterates(g, f, upTo(0))
      BY <3>1 DEF Iterates
    <3> QED
      BY <2>1, <2>2, <3>2
  <2>3. CASE n > 0
    <3>1. n - 1 \in Nat /\ n - 1 \notin bad
      <4>1. n \in Nat
        BY <2>1
      <4> HIDE DEF bad
      <4> QED
        BY <2>1, <2>3, <4>1
    <3>2. PICK h : Iterates(h, f, upTo(n - 1))
      BY <3>1
    <3> DEFINE g == [s \in upTo(n) |->
                       IF s = {} THEN 0 ELSE f[Chosen(s)] + h[s \ {Chosen(s)}]]
    <3>3. ASSUME NEW s \in upTo(n - 1)
          PROVE  s \in upTo(n) /\ g[s] = h[s]
      <4>1. s \in upTo(n)
        BY <1>1, <2>1
      <4>2. h[s] = IF s = {} THEN 0 ELSE f[Chosen(s)] + h[s \ {Chosen(s)}]
        BY <3>2 DEF Iterates
      <4> QED
        BY <4>1, <4>2
    <3>4. ASSUME NEW s \in upTo(n), s # {} PROVE s \ {Chosen(s)} \in upTo(n - 1)
      BY <1>1, <2>1, <3>4, ChosenIn, FS_RemoveElement
    <3>5. ASSUME NEW s \in upTo(n)
          PROVE  g[s] = IF s = {} THEN 0 ELSE f[Chosen(s)] + g[s \ {Chosen(s)}]
      BY <3>3, <3>4
    <3>6. Iterates(g, f, upTo(n))
      <4>1. g = [s \in upTo(n) |-> g[s]]
        OBVIOUS
      <4> HIDE DEF g
      <4> QED
        BY <3>5, <4>1 DEF Iterates
    <3> QED
      BY <2>1, <3>6
  <2> QED
    BY <2>1, <2>2, <2>3
<1>3. upTo(Cardinality(S)) = SUBSET S
  BY <1>1, FS_Subset
<1>4. Cardinality(S) \in Nat \ bad
  BY <1>1, <1>2
<1> QED
  BY <1>3, <1>4

LEMMA SumIterates ==
  ASSUME NEW f, NEW S, IsFiniteSet(S)
  PROVE  \E g : Iterates(g, f, SUBSET S) /\ SumFunctionOnSet(f, S) = g[S]
<1> DEFINE g == CHOOSE h : Iterates(h, f, SUBSET S)
<1>1. Iterates(g, f, SUBSET S)
  BY IterExists, Zenon
<1>2. SumFunctionOnSet(f, S) = g[S]
  BY DEF SumFunctionOnSet, FoldFunctionOnSet, MapThenFoldSet, Iterates, Chosen
<1> QED
  BY <1>1, <1>2, Zenon

LEMMA SumEmpty == ASSUME NEW f PROVE SumFunctionOnSet(f, {}) = 0
<1>1. PICK g : Iterates(g, f, SUBSET {}) /\ SumFunctionOnSet(f, {}) = g[{}]
  BY SumIterates, FS_EmptySet
<1> QED
  BY <1>1 DEF Iterates

LEMMA SumChosen ==
  ASSUME NEW f, NEW S, IsFiniteSet(S), S # {}
  PROVE  SumFunctionOnSet(f, S) = f[Chosen(S)] + SumFunctionOnSet(f, S \ {Chosen(S)})
<1> DEFINE x == Chosen(S)
<1>1. x \in S /\ IsFiniteSet(S \ {x})
  BY ChosenIn, FS_RemoveElement
<1>2. PICK g : Iterates(g, f, SUBSET S) /\ SumFunctionOnSet(f, S) = g[S]
  BY SumIterates
<1>3. PICK h : /\ Iterates(h, f, SUBSET (S \ {x}))
               /\ SumFunctionOnSet(f, S \ {x}) = h[S \ {x}]
  BY <1>1, SumIterates
<1>4. g[S] = f[x] + g[S \ {x}]
  BY <1>2 DEF Iterates
<1>5. h[S \ {x}] = g[S \ {x}]
  <2>1. S \ {x} \subseteq S
    OBVIOUS
  <2> QED
    BY <1>1, <1>2, <1>3, <2>1, IterUnique
<1> QED
  BY <1>2, <1>3, <1>4, <1>5

LEMMA SumInt ==
  ASSUME NEW f, NEW S, IsFiniteSet(S), \A x \in S : f[x] \in Int
  PROVE  SumFunctionOnSet(f, S) \in Int
<1> DEFINE good == {s \in SUBSET S : SumFunctionOnSet(f, s) \in Int}
<1> SUFFICES ASSUME S \notin good PROVE FALSE
  OBVIOUS
<1>1. PICK s \in SUBSET S : s \notin good /\ IsFiniteSet(s) /\ \A x \in s : s \ {x} \in good
  <2>1. \E s \in SUBSET S : s \notin good
    OBVIOUS
  <2> HIDE DEF good
  <2> QED
    BY <2>1, SmallestSet
<1>2. s # {}
  BY <1>1, SumEmpty
<1>3. Chosen(s) \in s /\ SumFunctionOnSet(f, s \ {Chosen(s)}) \in Int
  BY <1>1, <1>2, ChosenIn
<1>4. SumFunctionOnSet(f, s) = f[Chosen(s)] + SumFunctionOnSet(f, s \ {Chosen(s)})
  BY <1>1, <1>2, SumChosen
<1> QED
  BY <1>1, <1>3, <1>4

(* Any element may be taken first. *)
LEMMA SumMember ==
  ASSUME NEW f, NEW S, IsFiniteSet(S), \A x \in S : f[x] \in Int
  PROVE  \A x \in S : SumFunctionOnSet(f, S) = f[x] + SumFunctionOnSet(f, S \ {x})
<1> DEFINE T(s) == SumFunctionOnSet(f, s)
           good == {s \in SUBSET S : \A x \in s : T(s) = f[x] + T(s \ {x})}
<1> SUFFICES ASSUME S \notin good PROVE FALSE
  OBVIOUS
<1>1. PICK s \in SUBSET S : s \notin good /\ IsFiniteSet(s) /\ \A x \in s : s \ {x} \in good
  <2>1. \E s \in SUBSET S : s \notin good
    OBVIOUS
  <2> HIDE DEF good
  <2> QED
    BY <2>1, SmallestSet
<1>2. PICK x \in s : T(s) # f[x] + T(s \ {x})
  BY <1>1
<1> DEFINE y == Chosen(s)
<1>3. y \in s /\ T(s) = f[y] + T(s \ {y})
  BY <1>1, ChosenIn, SumChosen
<1>4. x # y
  BY <1>2, <1>3
<1>5. T(s \ {y}) = f[x] + T((s \ {y}) \ {x})
  BY <1>1, <1>3, <1>4
<1>6. T(s \ {x}) = f[y] + T((s \ {x}) \ {y})
  BY <1>1, <1>3, <1>4
<1> DEFINE rest == (s \ {x}) \ {y}
<1>7. (s \ {y}) \ {x} = rest /\ IsFiniteSet(rest)
  BY <1>1, FS_RemoveElement
<1>8. T(rest) \in Int /\ f[x] \in Int /\ f[y] \in Int
  BY <1>3, <1>7, SumInt
<1>9. T(s) = f[y] + (f[x] + T(rest)) /\ T(s \ {x}) = f[y] + T(rest)
  BY <1>3, <1>5, <1>6, <1>7
<1> HIDE DEF T, y, rest, good
<1>10. T(s) = f[x] + T(s \ {x})
  BY <1>8, <1>9
<1> QED
  BY <1>2, <1>10

LEMMA SumSame ==
  ASSUME NEW f, NEW g, NEW S, IsFiniteSet(S), \A x \in S : f[x] = g[x]
  PROVE  SumFunctionOnSet(f, S) = SumFunctionOnSet(g, S)
<1> DEFINE good == {s \in SUBSET S : SumFunctionOnSet(f, s) = SumFunctionOnSet(g, s)}
<1> SUFFICES ASSUME S \notin good PROVE FALSE
  OBVIOUS
<1>1. PICK s \in SUBSET S : s \notin good /\ IsFiniteSet(s) /\ \A x \in s : s \ {x} \in good
  <2>1. \E s \in SUBSET S : s \notin good
    OBVIOUS
  <2> HIDE DEF good
  <2> QED
    BY <2>1, SmallestSet
<1>2. s # {}
  BY <1>1, SumEmpty
<1>3. f[Chosen(s)] = g[Chosen(s)] /\ s \ {Chosen(s)} \in good
  BY <1>1, <1>2, ChosenIn
<1>4. SumFunctionOnSet(f, s) = f[Chosen(s)] + SumFunctionOnSet(f, s \ {Chosen(s)})
  BY <1>1, <1>2, SumChosen
<1>5. SumFunctionOnSet(g, s) = g[Chosen(s)] + SumFunctionOnSet(g, s \ {Chosen(s)})
  BY <1>1, <1>2, SumChosen
<1> QED
  BY <1>1, <1>3, <1>4, <1>5

LEMMA SumMinus ==
  ASSUME NEW S, IsFiniteSet(S), NEW f \in [S -> Int], NEW g \in [S -> Int]
  PROVE  SumFunction([x \in S |-> f[x] - g[x]]) = SumFunction(f) - SumFunction(g)
<1> DEFINE h == [x \in S |-> f[x] - g[x]]
           T(k, s) == SumFunctionOnSet(k, s)
           good == {s \in SUBSET S : T(h, s) = T(f, s) - T(g, s)}
<1>1. ASSUME S \notin good PROVE FALSE
  <2>1. PICK s \in SUBSET S : s \notin good /\ IsFiniteSet(s) /\ \A x \in s : s \ {x} \in good
    <3>1. \E s \in SUBSET S : s \notin good
      BY <1>1
    <3> HIDE DEF good
    <3> QED
      BY <3>1, SmallestSet
  <2>2. s # {}
    <3>1. T(h, {}) = 0 /\ T(f, {}) = 0 /\ T(g, {}) = 0
      BY SumEmpty
    <3> QED
      BY <2>1, <3>1
  <2> DEFINE x == Chosen(s)
             rest == s \ {x}
  <2>3. x \in s /\ rest \in good /\ IsFiniteSet(rest)
    BY <2>1, <2>2, ChosenIn, FS_RemoveElement
  <2>4. /\ T(h, s) = h[x] + T(h, rest)
        /\ T(f, s) = f[x] + T(f, rest)
        /\ T(g, s) = g[x] + T(g, rest)
    BY <2>1, <2>2, SumChosen
  <2>5. /\ h[x] = f[x] - g[x] /\ f[x] \in Int /\ g[x] \in Int
        /\ T(f, rest) \in Int /\ T(g, rest) \in Int
    BY <2>3, SumInt
  <2>6. T(h, rest) = T(f, rest) - T(g, rest)
    BY <2>3
  <2>7. T(h, s) # T(f, s) - T(g, s)
    BY <2>1
  <2> HIDE DEF T, h, x, rest, good
  <2> QED
    BY <2>4, <2>5, <2>6, <2>7
<1> QED
  BY <1>1 DEF SumFunction

LEMMA SumAtMost ==
  ASSUME NEW S, IsFiniteSet(S), NEW f \in [S -> Int], NEW g \in [S -> Int],
         \A x \in S : f[x] <= g[x]
  PROVE  SumFunction(f) <= SumFunction(g)
<1> DEFINE T(k, s) == SumFunctionOnSet(k, s)
           good == {s \in SUBSET S : T(f, s) <= T(g, s)}
<1>1. ASSUME S \notin good PROVE FALSE
  <2>1. PICK s \in SUBSET S : s \notin good /\ IsFiniteSet(s) /\ \A x \in s : s \ {x} \in good
    <3>1. \E s \in SUBSET S : s \notin good
      BY <1>1
    <3> HIDE DEF good
    <3> QED
      BY <3>1, SmallestSet
  <2>2. s # {}
    <3>1. T(f, {}) = 0 /\ T(g, {}) = 0
      BY SumEmpty
    <3> QED
      BY <2>1, <3>1
  <2>3. PICK x : x = Chosen(s)
    OBVIOUS
  <2>4. x \in s /\ IsFiniteSet(s \ {x})
    BY <2>1, <2>2, <2>3, ChosenIn, FS_RemoveElement
  <2>5. T(f, s) = f[x] + T(f, s \ {x}) /\ T(g, s) = g[x] + T(g, s \ {x})
    BY <2>1, <2>2, <2>3, SumChosen
  <2>6. T(f, s \ {x}) <= T(g, s \ {x})
    BY <2>1, <2>4
  <2>7. T(f, s \ {x}) \in Int /\ T(g, s \ {x}) \in Int
    BY <2>1, <2>4, SumInt
  <2>8. f[x] \in Int /\ g[x] \in Int /\ f[x] <= g[x]
    BY <2>1, <2>4
  <2>9. T(f, s) <= T(g, s)
    <3> HIDE DEF T
    <3> QED
      BY <2>5, <2>6, <2>7, <2>8
  <2> QED
    BY <2>1, <2>9
<1>2. S \in good
  BY <1>1
<1>3. DOMAIN f = S /\ DOMAIN g = S
  OBVIOUS
<1> QED
  BY <1>2, <1>3 DEF SumFunction

(* One more value. *)
LEMMA SumNext ==
  ASSUME NEW S, IsFiniteSet(S), NEW x, x \notin S,
         NEW f \in [S -> Int], NEW g \in [S \cup {x} -> Int], \A y \in S : g[y] = f[y]
  PROVE  SumFunction(g) = SumFunction(f) + g[x] /\ SumFunction(f) \in Int
<1>1. IsFiniteSet(S \cup {x}) /\ (S \cup {x}) \ {x} = S
  BY FS_AddElement
<1>2. SumFunctionOnSet(g, S \cup {x}) = g[x] + SumFunctionOnSet(g, S)
  BY <1>1, SumMember
<1>3. SumFunctionOnSet(g, S) = SumFunctionOnSet(f, S)
  BY SumSame
<1>4. SumFunctionOnSet(f, S) \in Int
  BY SumInt
<1> QED
  BY <1>2, <1>3, <1>4 DEF SumFunction

(* One value changed. *)
LEMMA SumChange ==
  ASSUME NEW S, IsFiniteSet(S), NEW x \in S,
         NEW f \in [S -> Int], NEW g \in [S -> Int], \A y \in S \ {x} : g[y] = f[y]
  PROVE  SumFunction(g) = SumFunction(f) + g[x] - f[x] /\ SumFunction(f) \in Int
<1>1. IsFiniteSet(S \ {x})
  BY FS_RemoveElement
<1>2. /\ SumFunctionOnSet(g, S) = g[x] + SumFunctionOnSet(g, S \ {x})
      /\ SumFunctionOnSet(f, S) = f[x] + SumFunctionOnSet(f, S \ {x})
  BY SumMember
<1>3. SumFunctionOnSet(g, S \ {x}) = SumFunctionOnSet(f, S \ {x})
  BY <1>1, SumSame
<1>4. SumFunctionOnSet(f, S \ {x}) \in Int /\ f[x] \in Int /\ g[x] \in Int
  BY <1>1, SumInt
<1>5. DOMAIN f = S /\ DOMAIN g = S
  OBVIOUS
<1> QED
  BY <1>2, <1>3, <1>4, <1>5 DEF SumFunction

----
USE SessionsAssumption, CustomerOfAssumption, LimitAssumption,
    BillsAssumption, ReceiptsAssumption DEF Sessions

----
(* Type correctness *)

(* What the loop applies to an invoice is covered by both the remainder and
   the amount due. *)
LEMMA ApplyAmountBounds ==
  ASSUME TypeOK, NEW p \in Payments, NEW o \in Orders
  PROVE  /\ ApplyAmount(p, o) \in Nat
         /\ ApplyAmount(p, o) <= remaining[p]
         /\ ApplyAmount(p, o) <= draft[p][o].due
<1>1. remaining[p] \in Nat /\ draft[p][o] \in Invoice
  BY DEF TypeOK
<1>2. draft[p][o].due \in Nat
  BY <1>1 DEF Invoice
<1> QED
  BY <1>1, <1>2 DEF ApplyAmount

LEMMA AppliedType ==
  ASSUME NEW i \in Invoice, NEW a \in Nat, a <= i.due, NEW cleared \in BOOLEAN
  PROVE  Applied(i, a, cleared) \in Invoice
<1>1. i.due - a \in Nat /\ i.paid + a \in Nat
  BY DEF Invoice
<1> QED
  BY <1>1 DEF Applied, Invoice

LEMMA TypeOKInit == Init => TypeOK
BY DEF Init, TypeOK, Invoice, NoInvoice, Entry

LEMMA TypeOKStep == TypeOK /\ [Next]_vars => TypeOK'
<1> SUFFICES ASSUME TypeOK, [Next]_vars PROVE TypeOK'
  OBVIOUS
<1> USE DEF TypeOK
<1>1. ASSUME NEW o \in Orders, LoadCustomer(o) PROVE TypeOK'
  BY <1>1 DEF LoadCustomer, tables, paymentLocals, Billed
<1>2. ASSUME NEW o \in Orders, PlaceOrder(o) PROVE TypeOK'
  BY <1>2 DEF PlaceOrder, tables, orderLocals, paymentLocals
<1>3. ASSUME NEW o \in Orders, CommitHold(o) PROVE TypeOK'
  BY <1>3 DEF CommitHold, orderLocals, paymentLocals
<1>4. ASSUME NEW o \in Orders, RecordInvoiceCreated(o) PROVE TypeOK'
  BY <1>4 DEF RecordInvoiceCreated, tables, orderLocals, paymentLocals
<1>5. ASSUME NEW o \in Orders, CommitOrder(o) PROVE TypeOK'
  <2> DEFINE c == CustomerOf[o]
             e == [kind |-> "INVOICE_CREATED", ref |-> o,
                   amount |-> bill[o].total, after |-> seen[o]]
             i == [status |-> "ISSUED", total |-> bill[o].total, paid |-> 0,
                   due |-> bill[o].total]
  <2>1. bill[o].total \in Nat /\ WrittenBalance(o) \in Nat /\ c \in Customers
    BY DEF WrittenBalance
  <2>2. e \in Entry /\ i \in Invoice
    BY <2>1 DEF Entry, Invoice
  <2>3. Append(ledger[c], e) \in Seq(Entry)
    BY <2>1, <2>2
  <2> HIDE DEF e, i, c
  <2>4. balance' \in [Customers -> Nat] /\ invoices' \in [Orders -> Invoice]
    BY <1>5, <2>1, <2>2 DEF CommitOrder, i, c
  <2>5. ledger' \in [Customers -> Seq(Entry)]
    BY <1>5, <2>1, <2>3 DEF CommitOrder, e, c
  <2> QED
    BY <1>5, <2>4, <2>5 DEF CommitOrder, orderLocals, paymentLocals
<1>6. ASSUME NEW p \in Payments, InsertPayment(p) PROVE TypeOK'
  BY <1>6 DEF InsertPayment, tables, orderLocals
<1>7. ASSUME NEW p \in Payments, LockForPayment(p) PROVE TypeOK'
  BY <1>7 DEF LockForPayment, tables, orderLocals, OpenInvoices
<1>8. ASSUME NEW p \in Payments, SettleNext(p) PROVE TypeOK'
  <2>1. PICK o \in todo[p] :
          LET a == ApplyAmount(p, o)
              d == draft[p][o].due
          IN /\ \E cleared \in BOOLEAN :
                  draft' = [draft EXCEPT ![p][o] = Applied(@, a, cleared)]
             /\ \E sliver \in BOOLEAN :
                  dust' = [dust EXCEPT ![p] = sliver]
             /\ remaining' = [remaining EXCEPT ![p] = @ - a]
             /\ todo' = [todo EXCEPT ![p] = @ \ {o}]
    BY <1>8 DEF SettleNext
  <2> DEFINE a == ApplyAmount(p, o)
             d == draft[p][o].due
  <2> o \in Orders
    OBVIOUS
  <2>2. /\ a \in Nat /\ d \in Nat /\ a <= d /\ a <= remaining[p]
        /\ draft[p][o] \in Invoice
    <3>1. draft[p][o] \in Invoice
      OBVIOUS
    <3>2. d \in Nat
      BY <3>1 DEF Invoice
    <3> HIDE DEF TypeOK
    <3> QED
      BY <3>1, <3>2, ApplyAmountBounds
  <2> HIDE DEF a, d
  <2>3. PICK cleared \in BOOLEAN :
          draft' = [draft EXCEPT ![p][o] = Applied(@, a, cleared)]
    BY <2>1 DEF a, d
  <2>4. Applied(draft[p][o], a, cleared) \in Invoice
    BY <2>2, AppliedType DEF d
  <2>5. draft' \in [Payments -> [Orders -> Invoice]]
    BY <2>3, <2>4
  <2>6. dust' \in [Payments -> BOOLEAN]
    BY <2>1
  <2>7. remaining' \in [Payments -> Nat] /\ todo' \in [Payments -> SUBSET Orders]
    BY <2>1, <2>2 DEF a
  <2> QED
    BY <1>8, <2>5, <2>6, <2>7 DEF SettleNext, tables, orderLocals
<1>9. ASSUME NEW p \in Payments, CommitPayment(p) PROVE TypeOK'
  <2> DEFINE c == CustomerOf[p]
             e == [kind |-> "PAYMENT_RECEIVED", ref |-> p,
                   amount |-> -Settled(p), after |-> ReducedBalance(p)]
  <2>1. Settled(p) \in Int /\ ReducedBalance(p) \in Nat /\ c \in Customers
    BY DEF Settled, ReducedBalance
  <2>2. e \in Entry
    BY <2>1 DEF Entry
  <2>3. Append(ledger[c], e) \in Seq(Entry)
    BY <2>1, <2>2
  <2> HIDE DEF e, c
  <2>4. balance' \in [Customers -> Nat] /\ invoices' \in [Orders -> Invoice]
    BY <1>9, <2>1 DEF CommitPayment, c
  <2>5. ledger' \in [Customers -> Seq(Entry)]
    BY <1>9, <2>1, <2>3 DEF CommitPayment, e, c
  <2> QED
    BY <1>9, <2>4, <2>5 DEF CommitPayment, orderLocals, paymentLocals
<1>10. ASSUME NEW s \in Sessions, Fail(s) \/ DeadlockVictim(s) PROVE TypeOK'
  BY <1>10 DEF Fail, DeadlockVictim, RollBack, tables, orderLocals, paymentLocals
<1>11. CASE UNCHANGED vars
  BY <1>11 DEF vars, tables, orderLocals, paymentLocals
<1> QED
  BY <1>1, <1>2, <1>3, <1>4, <1>5, <1>6, <1>7, <1>8, <1>9, <1>10, <1>11
  DEF Next, OrderStep, PaymentStep, Quiescent

(* Balances never go negative, no table or session variable leaves its range. *)
THEOREM TypeCorrect == Spec => []TypeOK
BY TypeOKInit, TypeOKStep, PTL DEF Spec

----
(* The inductive invariant.  What a payment writes at its commit was computed,
   step by step, from what it read when it took the lock; that this is still
   current takes the exclusion of the two row locks, and that the loop keeps
   FIFO order takes the order in which it has visited the open invoices. *)

SessionKinds ==
  /\ \A o \in Orders : pc[o] \notin {"paying", "settling"}
  /\ \A p \in Payments : pc[p] \notin {"loaded", "placed", "held", "billed"}

(* An invoice is there only after its session has committed. *)
RowsOfDone == \A o \in Orders : invoices[o].status # "none" => pc[o] = "done"

LockExclusion ==
  \A s \in Sessions : \A t \in Rivals(s) :
    ~(HoldsForUpdate(s) /\ HoldsKeyShare(t))

Visited(p) == OpenInvoices(CustomerOf[p]) \ todo[p]

Drafted(p, o) ==
  /\ Accounts(draft[p][o])
  /\ draft[p][o].total = invoices[o].total
  /\ draft[p][o].paid >= invoices[o].paid
  /\ IF o \in Visited(p)
       THEN draft[p][o].status \in {"PARTIALLY_PAID", "PAID"}
       ELSE draft[p][o] = invoices[o]

LoopInv(p) ==
  /\ seen[p] = balance[CustomerOf[p]]
  /\ todo[p] \subseteq OpenInvoices(CustomerOf[p])
  /\ \A o \in Orders : CustomerOf[o] = CustomerOf[p] => Drafted(p, o)
  /\ \A v \in Visited(p) : \A w \in todo[p] : began[v] <= began[w]
  /\ remaining[p] > 0 \/ dust[p] => \A v \in Visited(p) : draft[p][v].status = "PAID"
  /\ \A v, w \in Visited(p) : draft[p][v].status # "PAID" => began[w] <= began[v]

IInv ==
  /\ TypeOK
  /\ SessionKinds
  /\ RowsOfDone
  /\ LockExclusion
  /\ InvoiceAccounts
  /\ \A p \in Payments : pc[p] = "settling" => LoopInv(p)

LEMMA OpenAreDone ==
  ASSUME RowsOfDone, NEW o \in Orders, NEW c, o \in OpenInvoices(c)
  PROVE  pc[o] = "done" /\ invoices[o].status # "none" /\ CustomerOf[o] = c
BY DEF RowsOfDone, OpenInvoices

(* A payment in its loop is not disturbed by a step that leaves it, its
   customer's balance and its customer's invoices alone. *)
LEMMA LoopUndisturbed ==
  ASSUME RowsOfDone,
         NEW p \in Payments, LoopInv(p),
         draft'[p] = draft[p], todo'[p] = todo[p], remaining'[p] = remaining[p],
         dust'[p] = dust[p], seen'[p] = seen[p],
         balance'[CustomerOf[p]] = balance[CustomerOf[p]],
         \A o \in Orders : CustomerOf[o] = CustomerOf[p] =>
           /\ invoices'[o] = invoices[o]
           /\ pc[o] = "done" => began'[o] = began[o]
  PROVE  LoopInv(p)'
<1>1. OpenInvoices(CustomerOf[p])' = OpenInvoices(CustomerOf[p])
  BY DEF OpenInvoices
<1>2. Visited(p)' = Visited(p)
  BY <1>1 DEF Visited
<1>3. \A o \in OpenInvoices(CustomerOf[p]) : began'[o] = began[o]
  BY DEF OpenInvoices, RowsOfDone
<1>4. \A o \in Visited(p) \cup todo[p] : began'[o] = began[o]
  BY <1>3 DEF LoopInv, Visited
<1>5. \A o \in Orders : CustomerOf[o] = CustomerOf[p] => Drafted(p, o)'
  BY <1>2 DEF LoopInv, Drafted, Accounts
<1> QED
  BY <1>1, <1>2, <1>4, <1>5 DEF LoopInv

(* While a payment is in its loop, a session of the same customer holds no lock
   on the row, so it is not at a step that commits or locks. *)
LEMMA LoopExcludes ==
  ASSUME LockExclusion, NEW p \in Payments, pc[p] = "settling",
         NEW s \in Sessions, s # p, CustomerOf[s] = CustomerOf[p]
  PROVE  ~HoldsKeyShare(s) /\ ~KeyShareGranted(s)
<1>1. s \in Rivals(p) /\ p \in Rivals(s) /\ p \in Sessions
  BY DEF Rivals
<1>2. HoldsForUpdate(p)
  BY DEF HoldsForUpdate
<1> QED
  BY <1>1, <1>2 DEF LockExclusion, KeyShareGranted

LEMMA IInvInit == Init => IInv
<1> SUFFICES ASSUME Init PROVE IInv
  OBVIOUS
<1>1. TypeOK
  BY TypeOKInit
<1>2. SessionKinds /\ RowsOfDone /\ LockExclusion
  BY DEF Init, SessionKinds, RowsOfDone, NoInvoice, LockExclusion, HoldsForUpdate, Rivals
<1>3. InvoiceAccounts
  BY DEF Init, InvoiceAccounts, Accounts, NoInvoice
<1>4. \A p \in Payments : pc[p] # "settling"
  BY DEF Init
<1> QED
  BY <1>1, <1>2, <1>3, <1>4 DEF IInv

(* A step of session s that changes only its pc and private variables of its
   own, and gives it no lock it may not have, keeps the invariant for all others. *)
LEMMA LockExclusionStep ==
  ASSUME TypeOK, LockExclusion, NEW s \in Sessions,
         \A t \in Sessions : t # s => pc'[t] = pc[t],
         HoldsKeyShare(s)' /\ ~HoldsKeyShare(s) => KeyShareGranted(s),
         HoldsForUpdate(s)' /\ ~HoldsForUpdate(s) => ForUpdateGranted(s)
  PROVE  LockExclusion'
<1> SUFFICES ASSUME NEW a \in Sessions, NEW b \in Rivals(a)
             PROVE  ~(HoldsForUpdate(a) /\ HoldsKeyShare(b))'
  BY DEF LockExclusion, Rivals
<1>1. b \in Sessions /\ b # a /\ a \in Rivals(b) /\ ~(HoldsForUpdate(a) /\ HoldsKeyShare(b))
  BY DEF LockExclusion, Rivals
<1>3. \A t \in Sessions : t # s =>
        /\ HoldsForUpdate(t)' <=> HoldsForUpdate(t)
        /\ HoldsKeyShare(t)' <=> HoldsKeyShare(t)
  BY DEF HoldsForUpdate, HoldsKeyShare
<1>4. CASE a = s
  BY <1>1, <1>3, <1>4 DEF ForUpdateGranted
<1>5. CASE b = s
  BY <1>1, <1>3, <1>5 DEF KeyShareGranted
<1>6. CASE a # s /\ b # s
  BY <1>1, <1>3, <1>6
<1> QED
  BY <1>4, <1>5, <1>6

(* Steps before a lock is used: the tables stay as they are. *)
LEMMA QuietStep ==
  ASSUME IInv, TypeOK', NEW s \in Sessions,
         UNCHANGED <<tables, remaining, dust, todo, draft>>,
         \A t \in Sessions : t # s => pc'[t] = pc[t] /\ seen'[t] = seen[t],
         \A o \in Orders : pc[o] = "done" => began'[o] = began[o],
         pc[s] # "done",
         pc'[s] # "settling",
         s \in Orders => pc'[s] # "paying",
         s \in Payments => pc'[s] \notin {"loaded", "placed", "held", "billed"},
         HoldsKeyShare(s)' /\ ~HoldsKeyShare(s) => KeyShareGranted(s),
         HoldsForUpdate(s)' /\ ~HoldsForUpdate(s) => ForUpdateGranted(s)
  PROVE  IInv'
<1> USE DEF IInv
<1>1. LockExclusion'
  BY LockExclusionStep
<1>2. SessionKinds'
  BY DEF SessionKinds
<1>3. RowsOfDone' /\ InvoiceAccounts'
  BY DEF RowsOfDone, InvoiceAccounts, Accounts, tables
<1>4. ASSUME NEW p \in Payments, pc'[p] = "settling" PROVE LoopInv(p)'
  <2>1. p # s /\ pc[p] = "settling"
    BY <1>4
  <2>2. LoopInv(p) /\ seen'[p] = seen[p]
    BY <2>1
  <2> QED
    BY <2>2, LoopUndisturbed DEF tables
<1> QED
  BY <1>1, <1>2, <1>3, <1>4

LEMMA StepsBeforeCommit ==
  ASSUME IInv, TypeOK', NEW s \in Sessions,
         \/ s \in Orders /\ (LoadCustomer(s) \/ PlaceOrder(s) \/ RecordInvoiceCreated(s))
         \/ s \in Payments /\ InsertPayment(s)
         \/ Fail(s)
         \/ DeadlockVictim(s)
  PROVE  IInv'
<1> USE DEF tables, orderLocals, paymentLocals, HoldsKeyShare, HoldsForUpdate
<1> TypeOK
  BY DEF IInv
<1>1. CASE s \in Orders /\ LoadCustomer(s)
  <2>1. /\ \A o \in Orders : pc[o] = "done" => began'[o] = began[o]
        /\ \A t \in Sessions : t # s => pc'[t] = pc[t] /\ seen'[t] = seen[t]
        /\ pc[s] = "idle" /\ pc'[s] = "loaded"
    BY <1>1 DEF LoadCustomer, TypeOK
  <2>2. UNCHANGED <<tables, remaining, dust, todo, draft>>
    BY <1>1 DEF LoadCustomer
  <2>3. ~HoldsKeyShare(s)' /\ ~HoldsForUpdate(s)'
    BY <2>1
  <2> QED
    BY <1>1, <2>1, <2>2, <2>3, QuietStep
<1>2. CASE s \in Orders /\ PlaceOrder(s)
  <2>1. /\ \A t \in Sessions : t # s => pc'[t] = pc[t]
        /\ pc[s] = "loaded" /\ pc'[s] \in {"held", "placed"}
    BY <1>2 DEF PlaceOrder, TypeOK
  <2>2. UNCHANGED <<tables, seen, began, remaining, dust, todo, draft>>
    BY <1>2 DEF PlaceOrder
  <2>3. KeyShareGranted(s) /\ ~HoldsForUpdate(s)'
    BY <1>2, <2>1 DEF PlaceOrder
  <2> QED
    BY <1>2, <2>1, <2>2, <2>3, QuietStep
<1>3. CASE s \in Orders /\ RecordInvoiceCreated(s)
  <2>1. /\ \A t \in Sessions : t # s => pc'[t] = pc[t] /\ seen'[t] = seen[t]
        /\ pc[s] = "placed" /\ pc'[s] = "billed"
    BY <1>3 DEF RecordInvoiceCreated, TypeOK
  <2>2. UNCHANGED <<tables, began, remaining, dust, todo, draft>>
    BY <1>3 DEF RecordInvoiceCreated
  <2>3. ForUpdateGranted(s) /\ HoldsKeyShare(s)
    BY <1>3 DEF RecordInvoiceCreated
  <2> QED
    BY <1>3, <2>1, <2>2, <2>3, QuietStep
<1>4. CASE s \in Payments /\ InsertPayment(s)
  <2>1. /\ \A t \in Sessions : t # s => pc'[t] = pc[t]
        /\ pc[s] = "idle" /\ pc'[s] = "paying"
    BY <1>4 DEF InsertPayment, TypeOK
  <2>2. UNCHANGED <<tables, seen, began, remaining, dust, todo, draft>>
    BY <1>4 DEF InsertPayment
  <2>3. KeyShareGranted(s) /\ ~HoldsForUpdate(s)'
    BY <1>4, <2>1 DEF InsertPayment
  <2> QED
    BY <1>4, <2>1, <2>2, <2>3, QuietStep
<1>5. CASE Fail(s) \/ DeadlockVictim(s)
  <2>1. RollBack(s) /\ pc[s] # "done"
    BY <1>5 DEF Fail, DeadlockVictim, Running, WaitsForUpdate
  <2>2. /\ \A t \in Sessions : t # s => pc'[t] = pc[t]
        /\ pc'[s] = "failed"
    BY <2>1 DEF RollBack, TypeOK
  <2>3. UNCHANGED <<tables, seen, began, remaining, dust, todo, draft>>
    BY <2>1 DEF RollBack
  <2>4. ~HoldsKeyShare(s)' /\ ~HoldsForUpdate(s)'
    BY <2>2
  <2> QED
    BY <2>1, <2>2, <2>3, <2>4, QuietStep
<1> QED
  BY <1>1, <1>2, <1>3, <1>4, <1>5

(* Commits of orders. *)
LEMMA OrderCommits ==
  ASSUME IInv, TypeOK', NEW o \in Orders, CommitHold(o) \/ CommitOrder(o)
  PROVE  IInv'
<1> USE DEF IInv
<1>1. /\ pc[o] \in {"held", "billed"} /\ HoldsKeyShare(o)
      /\ pc' = [pc EXCEPT ![o] = "done"]
      /\ \A t \in Sessions : pc'[t] = IF t = o THEN "done" ELSE pc[t]
  BY DEF CommitHold, CommitOrder, HoldsKeyShare, TypeOK
<1>2. LockExclusion'
  <2>1. ~HoldsKeyShare(o)' /\ ~HoldsForUpdate(o)'
    BY <1>1 DEF HoldsKeyShare, HoldsForUpdate
  <2> QED
    BY <1>1, <2>1, LockExclusionStep
<1>3. SessionKinds'
  BY <1>1 DEF SessionKinds
<1>4. /\ \A i \in Orders : i # o => invoices'[i] = invoices[i]
      /\ Accounts(invoices'[o])
  <2>1. CASE CommitHold(o)
    BY <2>1 DEF CommitHold, InvoiceAccounts, Accounts
  <2>2. CASE CommitOrder(o)
    <3>1. invoices'[o] = [status |-> "ISSUED", total |-> bill[o].total, paid |-> 0,
                          due |-> bill[o].total]
      BY <2>2 DEF CommitOrder, TypeOK
    <3>2. Accounts(invoices'[o])
      BY <3>1 DEF Accounts
    <3> QED
      BY <2>2, <3>2 DEF CommitOrder, TypeOK
  <2> QED
    BY <2>1, <2>2
<1>5. RowsOfDone' /\ InvoiceAccounts'
  BY <1>1, <1>4 DEF RowsOfDone, InvoiceAccounts
<1>6. \A c \in Customers : c # CustomerOf[o] => balance'[c] = balance[c]
  BY DEF CommitHold, CommitOrder, TypeOK
<1>7. ASSUME NEW p \in Payments, pc'[p] = "settling" PROVE LoopInv(p)'
  <2>1. p # o /\ pc[p] = "settling" /\ LoopInv(p)
    BY <1>1, <1>7
  <2>2. CustomerOf[p] # CustomerOf[o]
    BY <1>1, <2>1, LoopExcludes
  <2>3. /\ balance'[CustomerOf[p]] = balance[CustomerOf[p]]
        /\ \A i \in Orders : CustomerOf[i] = CustomerOf[p] => invoices'[i] = invoices[i]
    BY <1>4, <1>6, <2>2
  <2>4. UNCHANGED <<seen, began, remaining, dust, todo, draft>>
    BY DEF CommitHold, CommitOrder, orderLocals, paymentLocals
  <2> QED
    BY <2>1, <2>3, <2>4, LoopUndisturbed
<1> QED
  BY <1>2, <1>3, <1>5, <1>7

(* Only the session that takes a step changes its loop variables. *)
LEMMA OtherLoops ==
  ASSUME IInv, NEW p \in Payments, NEW q \in Payments, q # p, pc[q] = "settling",
         UNCHANGED <<tables, began>>,
         draft'[q] = draft[q], todo'[q] = todo[q], remaining'[q] = remaining[q],
         dust'[q] = dust[q], seen'[q] = seen[q]
  PROVE  LoopInv(q)'
BY LoopUndisturbed DEF IInv, tables

LEMMA LockForPaymentStep ==
  ASSUME IInv, TypeOK', NEW p \in Payments, LockForPayment(p)
  PROVE  IInv'
<1> USE DEF IInv
<1>1. /\ pc[p] = "paying" /\ pc'[p] = "settling" /\ ForUpdateGranted(p)
      /\ \A t \in Sessions : t # p => pc'[t] = pc[t] /\ seen'[t] = seen[t]
      /\ UNCHANGED <<tables, began>>
  BY DEF LockForPayment, TypeOK, orderLocals
<1>2. LockExclusion'
  BY <1>1, LockExclusionStep DEF HoldsKeyShare
<1>3. SessionKinds' /\ RowsOfDone' /\ InvoiceAccounts'
  BY <1>1 DEF SessionKinds, RowsOfDone, InvoiceAccounts, Accounts, tables
<1>4. LoopInv(p)'
  <2>1. /\ seen'[p] = balance[CustomerOf[p]]
        /\ todo'[p] = OpenInvoices(CustomerOf[p])
        /\ draft'[p] = invoices
    BY DEF LockForPayment, TypeOK
  <2>2. OpenInvoices(CustomerOf[p])' = OpenInvoices(CustomerOf[p]) /\ Visited(p)' = {}
    BY <1>1, <2>1 DEF Visited, OpenInvoices, tables
  <2>3. \A o \in Orders : Drafted(p, o)'
    BY <1>1, <2>1, <2>2 DEF Drafted, Accounts, InvoiceAccounts, tables, TypeOK, Invoice
  <2> QED
    BY <1>1, <2>1, <2>2, <2>3 DEF LoopInv, tables
<1>5. ASSUME NEW q \in Payments, q # p, pc'[q] = "settling" PROVE LoopInv(q)'
  <2>1. /\ draft'[q] = draft[q] /\ todo'[q] = todo[q] /\ remaining'[q] = remaining[q]
        /\ dust'[q] = dust[q] /\ seen'[q] = seen[q]
    BY <1>1, <1>5 DEF LockForPayment, TypeOK
  <2> QED
    BY <1>1, <1>5, <2>1, OtherLoops
<1> QED
  BY <1>2, <1>3, <1>4, <1>5

(* One turn of the loop: the oldest open invoice gets what is left, up to what
   is due on it. *)
LEMMA SettleNextStep ==
  ASSUME IInv, TypeOK', NEW p \in Payments, SettleNext(p)
  PROVE  IInv'
<1> USE DEF IInv
<1>1. /\ pc[p] = "settling" /\ UNCHANGED <<tables, pc, seen, began>>
      /\ remaining[p] > 0 \/ dust[p]
      /\ LoopInv(p)
  BY DEF SettleNext, orderLocals
<1>2. PICK o \in todo[p] :
        LET a == ApplyAmount(p, o)
            d == draft[p][o].due
        IN /\ Oldest(o, todo[p])
           /\ \E cleared \in BOOLEAN :
                /\ NearZero(d - a, cleared)
                /\ draft' = [draft EXCEPT ![p][o] = Applied(@, a, cleared)]
           /\ \E sliver \in BOOLEAN :
                /\ SliverLeft(p, a, d, sliver)
                /\ dust' = [dust EXCEPT ![p] = sliver]
           /\ remaining' = [remaining EXCEPT ![p] = @ - a]
           /\ todo' = [todo EXCEPT ![p] = @ \ {o}]
  BY DEF SettleNext
<1> DEFINE a == ApplyAmount(p, o)
           i == draft[p][o]
           c == CustomerOf[p]
<1>3. o \in Orders /\ o \in OpenInvoices(c) /\ CustomerOf[o] = c
  BY <1>1 DEF LoopInv, OpenInvoices, TypeOK
<1>4. /\ i = invoices[o] /\ i \in Invoice /\ Accounts(i)
      /\ i.status \in {"ISSUED", "PARTIALLY_PAID"}
  <2>1. o \notin Visited(p)
    BY DEF Visited
  <2> QED
    BY <1>1, <1>3, <2>1 DEF LoopInv, Drafted, OpenInvoices, TypeOK
<1>5. /\ a \in Nat /\ a <= i.due /\ a <= remaining[p] /\ i.due - a \in Nat
      /\ i.due \in Nat /\ i.paid \in Nat /\ i.total \in Nat /\ remaining[p] \in Nat
  <2>1. /\ a \in Nat /\ a <= i.due /\ a <= remaining[p]
    BY <1>3, ApplyAmountBounds
  <2>2. i.due \in Nat /\ i.paid \in Nat /\ i.total \in Nat /\ remaining[p] \in Nat
    BY <1>4 DEF Invoice, TypeOK
  <2> HIDE DEF a, i
  <2> QED
    BY <2>1, <2>2
<1>6. a = remaining[p] \/ a = i.due
  BY DEF ApplyAmount
<1>7. i.paid + i.due = i.total
  BY <1>4, <1>5 DEF Accounts
<1>8. PICK cleared \in BOOLEAN :
        /\ NearZero(i.due - a, cleared)
        /\ draft' = [draft EXCEPT ![p][o] = Applied(@, a, cleared)]
  BY <1>2
<1>9. PICK sliver \in BOOLEAN :
        /\ SliverLeft(p, a, i.due, sliver)
        /\ dust' = [dust EXCEPT ![p] = sliver]
  BY <1>2
<1>10. /\ draft'[p][o] = Applied(i, a, cleared)
       /\ \A j \in Orders : j # o => draft'[p][j] = draft[p][j]
       /\ dust'[p] = sliver
       /\ remaining'[p] = remaining[p] - a
       /\ todo'[p] = todo[p] \ {o}
       /\ \A w \in todo[p] : began[o] <= began[w]
  BY <1>2, <1>3, <1>8, <1>9 DEF TypeOK, Oldest
<1>11. /\ cleared => i.due - a \in {0, 1}
       /\ ~cleared => i.due - a > 0
  BY <1>5, <1>8 DEF NearZero
<1>12. sliver => a = i.due
  BY <1>9 DEF SliverLeft
<1>13. Accounts(draft'[p][o])
  <2>1. CASE cleared
    BY <1>4, <1>5, <1>7, <1>10, <1>11, <2>1 DEF Applied, Accounts, Invoice
  <2>2. CASE ~cleared
    BY <1>4, <1>5, <1>7, <1>10, <1>11, <2>2 DEF Applied, Accounts, Invoice
  <2> QED
    BY <2>1, <2>2
<1>14. /\ draft'[p][o].total = i.total /\ draft'[p][o].paid >= i.paid
       /\ draft'[p][o].status \in {"PARTIALLY_PAID", "PAID"}
       /\ draft'[p][o].status # "PAID" => ~cleared
  BY <1>4, <1>5, <1>10, <1>11 DEF Applied, Invoice
<1>15. (remaining'[p] > 0 \/ dust'[p]) => draft'[p][o].status = "PAID"
  <2>1. SUFFICES ASSUME remaining'[p] > 0 \/ dust'[p] PROVE cleared
    BY <1>14
  <2>2. a = i.due
    BY <1>5, <1>6, <1>10, <1>12, <2>1
  <2> QED
    BY <1>5, <1>11, <2>2
<1>16. /\ OpenInvoices(c)' = OpenInvoices(c)
       /\ Visited(p)' = Visited(p) \cup {o}
       /\ o \notin Visited(p)
  BY <1>1, <1>3, <1>10 DEF OpenInvoices, Visited, tables
<1> HIDE DEF a, i
<1>17. \A j \in Orders : CustomerOf[j] = c => Drafted(p, j)'
  <2> SUFFICES ASSUME NEW j \in Orders, CustomerOf[j] = c PROVE Drafted(p, j)'
    OBVIOUS
  <2>1. CASE j = o
    BY <1>1, <1>4, <1>13, <1>14, <1>16, <2>1 DEF Drafted, Accounts, tables
  <2>2. CASE j # o
    <3>1. Drafted(p, j) /\ draft'[p][j] = draft[p][j] /\ invoices' = invoices
      BY <1>1, <1>10, <2>2 DEF LoopInv, tables
    <3> QED
      BY <1>16, <2>2, <3>1 DEF Drafted, Accounts
  <2> QED
    BY <2>1, <2>2
<1>18. \A v \in Visited(p)' : \A w \in todo'[p] : began'[v] <= began'[w]
  BY <1>1, <1>10, <1>16 DEF LoopInv
<1>19. \A v \in Visited(p) : v \in Orders /\ v # o /\ draft'[p][v].status = "PAID"
  BY <1>1, <1>10, <1>16 DEF LoopInv, Visited, OpenInvoices
<1>20. \A v, w \in Visited(p)' : draft'[p][v].status # "PAID" => began'[w] <= began'[v]
  <2> SUFFICES ASSUME NEW v \in Visited(p)', NEW w \in Visited(p)',
                      draft'[p][v].status # "PAID"
               PROVE  began'[w] <= began'[v]
    OBVIOUS
  <2>1. v = o
    BY <1>16, <1>19
  <2>2. CASE w = o
    BY <1>1, <1>3, <2>1, <2>2 DEF TypeOK
  <2>3. CASE w # o
    BY <1>1, <1>16, <2>1, <2>3 DEF LoopInv
  <2> QED
    BY <2>2, <2>3
<1>21. LoopInv(p)'
  <2>1. seen'[p] = balance'[CustomerOf[p]]
    BY <1>1 DEF LoopInv, tables
  <2>2. todo'[p] \subseteq OpenInvoices(CustomerOf[p])'
    BY <1>1, <1>10, <1>16 DEF LoopInv
  <2>3. remaining'[p] > 0 \/ dust'[p] => \A v \in Visited(p)' : draft'[p][v].status = "PAID"
    BY <1>15, <1>16, <1>19
  <2> QED
    BY <1>17, <1>18, <1>20, <2>1, <2>2, <2>3 DEF LoopInv
<1>22. ASSUME NEW q \in Payments, q # p, pc'[q] = "settling" PROVE LoopInv(q)'
  <2>1. /\ draft'[q] = draft[q] /\ todo'[q] = todo[q] /\ remaining'[q] = remaining[q]
        /\ dust'[q] = dust[q] /\ seen'[q] = seen[q]
    BY <1>1, <1>2, <1>8, <1>9, <1>22 DEF TypeOK
  <2> QED
    BY <1>1, <1>22, <2>1, OtherLoops
<1>23. SessionKinds' /\ RowsOfDone' /\ LockExclusion' /\ InvoiceAccounts'
  BY <1>1 DEF SessionKinds, RowsOfDone, LockExclusion, HoldsForUpdate, HoldsKeyShare,
              Rivals, InvoiceAccounts, Accounts, tables
<1> QED
  BY <1>21, <1>22, <1>23

LEMMA CommitPaymentStep ==
  ASSUME IInv, TypeOK', NEW p \in Payments, CommitPayment(p)
  PROVE  IInv'
<1> USE DEF IInv
<1> DEFINE c == CustomerOf[p]
<1>1. /\ pc[p] = "settling" /\ pc'[p] = "done"
      /\ \A t \in Sessions : t # p => pc'[t] = pc[t]
      /\ UNCHANGED <<seen, began, remaining, dust, todo, draft>>
      /\ LoopInv(p) /\ HoldsKeyShare(p)
  BY DEF CommitPayment, TypeOK, orderLocals, paymentLocals, HoldsKeyShare
<1>2. /\ \A o \in Orders :
           invoices'[o] = IF CustomerOf[o] = c THEN draft[p][o] ELSE invoices[o]
      /\ \A d \in Customers : d # c => balance'[d] = balance[d]
  BY DEF CommitPayment, TypeOK
<1>3. LockExclusion'
  <2>1. ~HoldsKeyShare(p)' /\ ~HoldsForUpdate(p)'
    BY <1>1 DEF HoldsKeyShare, HoldsForUpdate
  <2> QED
    BY <1>1, <2>1, LockExclusionStep
<1>4. SessionKinds'
  BY <1>1 DEF SessionKinds
<1>5. RowsOfDone'
  <2> SUFFICES ASSUME NEW o \in Orders, invoices'[o].status # "none" PROVE pc'[o] = "done"
    BY DEF RowsOfDone
  <2>1. o # p /\ pc'[o] = pc[o]
    BY <1>1
  <2>2. CASE CustomerOf[o] = c /\ o \in Visited(p)
    BY <2>1, <2>2, OpenAreDone DEF Visited
  <2>3. CASE ~(CustomerOf[o] = c /\ o \in Visited(p))
    <3>1. invoices'[o] = invoices[o]
      BY <1>1, <1>2, <2>3 DEF LoopInv, Drafted
    <3> QED
      BY <2>1, <3>1 DEF RowsOfDone
  <2> QED
    BY <2>2, <2>3
<1>6. InvoiceAccounts'
  <2> SUFFICES ASSUME NEW o \in Orders PROVE Accounts(invoices'[o])
    BY DEF InvoiceAccounts, Accounts
  <2> QED
    BY <1>1, <1>2 DEF LoopInv, Drafted, InvoiceAccounts
<1>7. ASSUME NEW q \in Payments, pc'[q] = "settling" PROVE LoopInv(q)'
  <2>1. q # p /\ pc[q] = "settling" /\ LoopInv(q)
    BY <1>1, <1>7
  <2>2. CustomerOf[q] # c
    BY <1>1, <2>1, LoopExcludes
  <2> QED
    BY <1>1, <1>2, <2>1, <2>2, LoopUndisturbed
<1> QED
  BY <1>3, <1>4, <1>5, <1>6, <1>7

LEMMA IInvStep == IInv /\ [Next]_vars => IInv'
<1> SUFFICES ASSUME IInv, [Next]_vars PROVE IInv'
  OBVIOUS
<1>1. TypeOK'
  BY TypeOKStep DEF IInv
<1>2. ASSUME NEW o \in Orders, LoadCustomer(o) \/ OrderStep(o) PROVE IInv'
  BY <1>1, <1>2, StepsBeforeCommit, OrderCommits DEF OrderStep
<1>3. ASSUME NEW p \in Payments, InsertPayment(p) \/ PaymentStep(p) PROVE IInv'
  BY <1>1, <1>3, StepsBeforeCommit, LockForPaymentStep, SettleNextStep, CommitPaymentStep
  DEF PaymentStep
<1>4. ASSUME NEW s \in Sessions, Fail(s) \/ DeadlockVictim(s) PROVE IInv'
  BY <1>1, <1>4, StepsBeforeCommit
<1>5. CASE UNCHANGED vars
  BY <1>5 DEF vars, tables, orderLocals, paymentLocals, IInv, TypeOK, SessionKinds,
     RowsOfDone, LockExclusion, HoldsForUpdate, HoldsKeyShare, Rivals, InvoiceAccounts,
     Accounts, LoopInv, Drafted, Visited, OpenInvoices
<1> QED
  BY <1>2, <1>3, <1>4, <1>5 DEF Next, Quiescent

LEMMA Invariance == Spec => []IInv
BY IInvInit, IInvStep, PTL DEF Spec

----
(* The theorems *)

(* Every invoice's amounts agree with each other and with its status, in every
   reachable state and for any amounts. *)
THEOREM InvoicesBalance == Spec => []InvoiceAccounts
BY Invariance, PTL DEF IInv

LEMMA IInvReadsCurrent == IInv => PaymentReadsCurrent
<1> SUFFICES ASSUME IInv, NEW p \in Payments, pc[p] = "settling"
             PROVE  /\ seen[p] = balance[CustomerOf[p]]
                    /\ todo[p] \subseteq OpenInvoices(CustomerOf[p])
                    /\ \A o \in Orders : CustomerOf[o] = CustomerOf[p] =>
                         /\ draft[p][o].total = invoices[o].total
                         /\ draft[p][o].paid >= invoices[o].paid
                         /\ o \notin OpenInvoices(CustomerOf[p]) \/ o \in todo[p] =>
                              draft[p][o] = invoices[o]
  BY DEF PaymentReadsCurrent
<1>1. LoopInv(p)
  BY DEF IInv
<1> QED
  BY <1>1 DEF LoopInv, Drafted, Visited

(* The two row locks keep what a payment has read current until it commits. *)
THEOREM PaymentsReadCurrent == Spec => []PaymentReadsCurrent
BY Invariance, IInvReadsCurrent, PTL

(* What a step can do to the invoices: nothing, add one, or commit a payment. *)
LEMMA InvoiceChanges ==
  ASSUME IInv, [Next]_vars
  PROVE  \/ invoices' = invoices
         \/ \E o \in Orders : /\ invoices[o].status = "none"
                              /\ \A i \in Orders : i # o => invoices'[i] = invoices[i]
         \/ \E p \in Payments : CommitPayment(p)
<1>1. ASSUME NEW o \in Orders, CommitOrder(o)
      PROVE  /\ invoices[o].status = "none"
             /\ \A i \in Orders : i # o => invoices'[i] = invoices[i]
  BY <1>1 DEF CommitOrder, IInv, TypeOK, RowsOfDone
<1>2. ASSUME NEW s \in Sessions, Fail(s) \/ DeadlockVictim(s) PROVE invoices' = invoices
  BY <1>2 DEF Fail, DeadlockVictim, RollBack, tables
<1>3. ASSUME NEW o \in Orders,
             LoadCustomer(o) \/ PlaceOrder(o) \/ CommitHold(o) \/ RecordInvoiceCreated(o)
      PROVE  invoices' = invoices
  BY <1>3 DEF LoadCustomer, PlaceOrder, CommitHold, RecordInvoiceCreated, tables
<1>4. ASSUME NEW p \in Payments, InsertPayment(p) \/ LockForPayment(p) \/ SettleNext(p)
      PROVE  invoices' = invoices
  BY <1>4 DEF InsertPayment, LockForPayment, SettleNext, tables
<1>5. CASE UNCHANGED vars
  BY <1>5 DEF vars, tables
<1> QED
  BY <1>1, <1>2, <1>3, <1>4, <1>5 DEF Next, OrderStep, PaymentStep, Quiescent

LEMMA CommitWritesDraft ==
  ASSUME IInv, NEW p \in Payments, CommitPayment(p)
  PROVE  /\ LoopInv(p)
         /\ todo[p] = {} \/ (remaining[p] = 0 /\ ~dust[p])
         /\ \A o \in Orders :
              invoices'[o] = IF CustomerOf[o] = CustomerOf[p] THEN draft[p][o] ELSE invoices[o]
BY DEF CommitPayment, IInv

LEMMA OldestFirstStep ==
  ASSUME IInv, [Next]_vars, NEW o \in Orders, NEW i \in Orders,
         CustomerOf[o] = CustomerOf[i], began[i] < began[o],
         i \in OpenInvoices(CustomerOf[i]),
         invoices[o].status # "none", invoices'[o] # invoices[o]
  PROVE  invoices'[i].status = "PAID"
<1>1. PICK p \in Payments : CommitPayment(p)
  BY InvoiceChanges
<1>2. /\ LoopInv(p)
      /\ \A j \in Orders :
           invoices'[j] = IF CustomerOf[j] = CustomerOf[p] THEN draft[p][j] ELSE invoices[j]
  BY <1>1, CommitWritesDraft
<1>3. CustomerOf[o] = CustomerOf[p] /\ CustomerOf[i] = CustomerOf[p]
  BY <1>2
<1>4. o \in Visited(p)
  BY <1>2, <1>3 DEF LoopInv, Drafted
<1>5. began[o] \in Nat /\ began[i] \in Nat
  BY DEF IInv, TypeOK
<1>6. i \in Visited(p)
  BY <1>2, <1>3, <1>4, <1>5 DEF LoopInv, Visited
<1>7. draft[p][i].status = "PAID"
  BY <1>2, <1>4, <1>5, <1>6 DEF LoopInv
<1> QED
  BY <1>2, <1>3, <1>7

(* No payment, however payments and orders overlap, pays on an invoice while an
   older open one of the customer stays open. *)
THEOREM SettlesOldestFirst == Spec => OldestFirst
<1>1. IInv /\ [Next]_vars =>
        [\A o, i \in Orders :
           /\ CustomerOf[o] = CustomerOf[i]
           /\ began[i] < began[o]
           /\ i \in OpenInvoices(CustomerOf[i])
           /\ invoices[o].status # "none"
           /\ invoices'[o] # invoices[o]
           => invoices'[i].status = "PAID"]_vars
  BY OldestFirstStep
<1> QED
  BY <1>1, Invariance, PTL DEF Spec, OldestFirst

LEMMA LedgerGrows ==
  ASSUME IInv, [Next]_vars, NEW c \in Customers, NEW k \in 1 .. Len(ledger[c])
  PROVE  k <= Len(ledger'[c]) /\ ledger'[c][k] = ledger[c][k]
<1> ledger[c] \in Seq(Entry) /\ IInv' /\ ledger'[c] \in Seq(Entry)
  BY IInvStep DEF IInv, TypeOK
<1>1. ledger'[c] = ledger[c] \/ \E e : ledger'[c] = Append(ledger[c], e)
  <2>1. ASSUME NEW o \in Orders, CommitOrder(o)
        PROVE  ledger'[c] = ledger[c] \/ \E e : ledger'[c] = Append(ledger[c], e)
    BY <2>1 DEF CommitOrder, IInv, TypeOK
  <2>2. ASSUME NEW p \in Payments, CommitPayment(p)
        PROVE  ledger'[c] = ledger[c] \/ \E e : ledger'[c] = Append(ledger[c], e)
    BY <2>2 DEF CommitPayment, IInv, TypeOK
  <2>3. ASSUME NEW s \in Sessions, Fail(s) \/ DeadlockVictim(s) PROVE ledger' = ledger
    BY <2>3 DEF Fail, DeadlockVictim, RollBack, tables
  <2>4. ASSUME NEW o \in Orders,
               LoadCustomer(o) \/ PlaceOrder(o) \/ CommitHold(o) \/ RecordInvoiceCreated(o)
        PROVE  ledger' = ledger
    BY <2>4 DEF LoadCustomer, PlaceOrder, CommitHold, RecordInvoiceCreated, tables
  <2>5. ASSUME NEW p \in Payments, InsertPayment(p) \/ LockForPayment(p) \/ SettleNext(p)
        PROVE  ledger' = ledger
    BY <2>5 DEF InsertPayment, LockForPayment, SettleNext, tables
  <2>6. CASE UNCHANGED vars
    BY <2>6 DEF vars, tables
  <2> QED
    BY <2>1, <2>2, <2>3, <2>4, <2>5, <2>6 DEF Next, OrderStep, PaymentStep, Quiescent
<1>2. CASE ledger'[c] = ledger[c]
  BY <1>2
<1>3. ASSUME NEW e, ledger'[c] = Append(ledger[c], e)
      PROVE  k <= Len(ledger'[c]) /\ ledger'[c][k] = ledger[c][k]
  <2>1. Len(ledger[c]) \in Nat
    OBVIOUS
  <2>2. Len(ledger'[c]) = Len(ledger[c]) + 1 /\ ledger'[c][k] = ledger[c][k]
    BY <1>3
  <2> QED
    BY <2>1, <2>2
<1> QED
  BY <1>1, <1>2, <1>3

LEMMA InvoicesGrow ==
  ASSUME IInv, [Next]_vars, NEW o \in Billed
  PROVE  /\ invoices'[o].total = invoices[o].total
         /\ invoices'[o].paid >= invoices[o].paid
         /\ invoices[o].status = "PAID" => invoices'[o] = invoices[o]
<1>1. o \in Orders /\ invoices[o].status # "none" /\ invoices[o] \in Invoice
  BY DEF Billed, IInv, TypeOK
<1>2. CASE invoices'[o] = invoices[o]
  BY <1>1, <1>2 DEF Invoice
<1>3. CASE \E p \in Payments : CommitPayment(p)
  <2>1. PICK p \in Payments : CommitPayment(p)
    BY <1>3
  <2>2. /\ LoopInv(p)
        /\ invoices'[o] = IF CustomerOf[o] = CustomerOf[p] THEN draft[p][o] ELSE invoices[o]
    BY <1>1, <2>1, CommitWritesDraft
  <2>3. CASE CustomerOf[o] = CustomerOf[p]
    <3>1. Drafted(p, o)
      BY <1>1, <2>2, <2>3 DEF LoopInv
    <3>2. invoices[o].status = "PAID" => o \notin Visited(p)
      BY DEF Visited, OpenInvoices
    <3> QED
      BY <2>2, <2>3, <3>1, <3>2 DEF Drafted
  <2>4. CASE CustomerOf[o] # CustomerOf[p]
    BY <1>2, <2>2, <2>4
  <2> QED
    BY <2>3, <2>4
<1> QED
  BY <1>1, <1>2, <1>3, InvoiceChanges

(* Committed ledger entries and invoice payments are final. *)
THEOREM BooksAreFinal == Spec => BooksOnlyGrow
<1>1. IInv /\ [Next]_vars =>
        [/\ \A c \in Customers : \A k \in 1 .. Len(ledger[c]) :
              k <= Len(ledger'[c]) /\ ledger'[c][k] = ledger[c][k]
         /\ \A o \in Billed :
              /\ invoices'[o].total = invoices[o].total
              /\ invoices'[o].paid >= invoices[o].paid
              /\ invoices[o].status = "PAID" => invoices'[o] = invoices[o]]_vars
  BY LedgerGrows, InvoicesGrow
<1> QED
  BY <1>1, Invariance, PTL DEF Spec, BooksOnlyGrow

----
(* Order rows, invoices and ledger entries commit together. *)

EntryOf(o, k) ==
  /\ k \in 1 .. Len(ledger[CustomerOf[o]])
  /\ ledger[CustomerOf[o]][k].kind = "INVOICE_CREATED"
  /\ ledger[CustomerOf[o]][k].ref = o

BilledOnce(o) ==
  /\ orderStatus[o] # "none" => pc[o] = "done"
  /\ orderStatus[o] = "CONFIRMED" <=> invoices[o].status # "none"
  /\ orderStatus[o] = "CONFIRMED" <=> \E k : EntryOf(o, k)
  /\ \A j, k : EntryOf(o, j) /\ EntryOf(o, k) => j = k
BilledInv == \A o \in Orders : BilledOnce(o)

LEMMA BilledInit == Init => BilledInv
BY CustomerOfAssumption DEF Init, BilledInv, BilledOnce, EntryOf, NoInvoice, Sessions

(* A step that leaves invoices and ledger alone, and order rows but for those
   of sessions that put them on hold as they end. *)
LEMMA BilledKept ==
  ASSUME BilledInv, ledger' = ledger, invoices' = invoices,
         \A o \in Orders :
           \/ orderStatus'[o] = orderStatus[o] /\ (pc[o] = "done" => pc'[o] = "done")
           \/ orderStatus[o] # "CONFIRMED" /\ orderStatus'[o] = "CREDIT_HOLD" /\ pc'[o] = "done"
  PROVE  BilledInv'
<1> SUFFICES ASSUME NEW o \in Orders PROVE BilledOnce(o)'
  BY DEF BilledInv
<1>1. \A k : EntryOf(o, k)' <=> EntryOf(o, k)
  BY DEF EntryOf
<1>2. BilledOnce(o)
  BY DEF BilledInv
<1>3. orderStatus'[o] = "CONFIRMED" <=> orderStatus[o] = "CONFIRMED"
  OBVIOUS
<1>4. orderStatus'[o] # "none" => pc'[o] = "done"
  BY <1>2 DEF BilledOnce
<1> QED
  BY <1>1, <1>2, <1>3, <1>4 DEF BilledOnce

LEMMA BilledStep == IInv /\ BilledInv /\ [Next]_vars => BilledInv'
<1> SUFFICES ASSUME IInv, BilledInv, [Next]_vars PROVE BilledInv'
  OBVIOUS
<1> TypeOK /\ TypeOK'
  BY TypeOKStep DEF IInv
<1>1. ASSUME NEW p \in Orders, CommitOrder(p) PROVE BilledInv'
  <2> DEFINE c == CustomerOf[p]
             e == [kind |-> "INVOICE_CREATED", ref |-> p,
                   amount |-> bill[p].total, after |-> seen[p]]
             n == Len(ledger[c]) + 1
  <2>1. /\ pc[p] = "billed" /\ orderStatus[p] # "CONFIRMED"
        /\ ledger[c] \in Seq(Entry) /\ c \in Customers
    BY <1>1 DEF CommitOrder, BilledInv, BilledOnce, TypeOK
  <2>2. /\ ledger'[c] = Append(ledger[c], e)
        /\ \A d \in Customers : d # c => ledger'[d] = ledger[d]
        /\ \A o \in Orders : o # p => /\ orderStatus'[o] = orderStatus[o]
                                   /\ invoices'[o] = invoices[o] /\ pc'[o] = pc[o]
        /\ orderStatus'[p] = "CONFIRMED" /\ pc'[p] = "done"
        /\ invoices'[p].status = "ISSUED"
    BY <1>1 DEF CommitOrder, TypeOK
  <2>3. /\ Len(ledger'[c]) = n /\ n \in Nat /\ ledger'[c][n] = e
        /\ \A k \in 1 .. Len(ledger[c]) : ledger'[c][k] = ledger[c][k]
        /\ 1 .. n = (1 .. Len(ledger[c])) \cup {n} /\ n \notin 1 .. Len(ledger[c])
    BY <2>1, <2>2
  <2> e.kind = "INVOICE_CREATED" /\ e.ref = p
    OBVIOUS
  <2> HIDE DEF e, n
  <2>4. ASSUME NEW o \in Orders, o # p, NEW k PROVE EntryOf(o, k)' <=> EntryOf(o, k)
    <3>1. CustomerOf[o] \in Customers
      BY CustomerOfAssumption DEF Sessions
    <3>2. CASE CustomerOf[o] # c
      BY <2>2, <3>1, <3>2 DEF EntryOf
    <3>3. CASE CustomerOf[o] = c /\ k = n
      BY <2>3, <2>4, <3>3 DEF EntryOf
    <3>4. CASE CustomerOf[o] = c /\ k # n
      BY <2>3, <3>4 DEF EntryOf
    <3> QED
      BY <3>2, <3>3, <3>4
  <2>5. \A k : EntryOf(p, k)' <=> k = n
    <3>1. \A k : ~EntryOf(p, k)
      BY <2>1 DEF BilledInv, BilledOnce
    <3> QED
      BY <2>3, <3>1 DEF EntryOf
  <2>6. \A o \in Orders : o # p => BilledOnce(o)'
    BY <2>2, <2>4 DEF BilledInv, BilledOnce
  <2>7. BilledOnce(p)'
    BY <2>2, <2>5 DEF BilledOnce
  <2> QED
    BY <2>6, <2>7 DEF BilledInv
<1>2. ASSUME NEW p \in Payments, CommitPayment(p) PROVE BilledInv'
  <2> DEFINE c == CustomerOf[p]
             e == [kind |-> "PAYMENT_RECEIVED", ref |-> p,
                   amount |-> -Settled(p), after |-> ReducedBalance(p)]
             n == Len(ledger[c]) + 1
  <2>1. /\ ledger'[c] = Append(ledger[c], e)
        /\ \A d \in Customers : d # c => ledger'[d] = ledger[d]
        /\ orderStatus' = orderStatus
        /\ \A o \in Orders : pc'[o] = pc[o]
        /\ ledger[c] \in Seq(Entry)
    BY <1>2 DEF CommitPayment, TypeOK
  <2>2. /\ Len(ledger'[c]) = n /\ n \in Nat /\ ledger'[c][n] = e
        /\ \A k \in 1 .. Len(ledger[c]) : ledger'[c][k] = ledger[c][k]
        /\ 1 .. n = (1 .. Len(ledger[c])) \cup {n} /\ n \notin 1 .. Len(ledger[c])
    BY <2>1
  <2> e.kind = "PAYMENT_RECEIVED"
    OBVIOUS
  <2> HIDE DEF e, n
  <2>3. ASSUME NEW o \in Orders, NEW k PROVE EntryOf(o, k)' <=> EntryOf(o, k)
    BY <2>1, <2>2 DEF EntryOf
  <2>4. \A o \in Orders : invoices'[o].status # "none" <=> invoices[o].status # "none"
    BY <1>2, CommitWritesDraft DEF LoopInv, Drafted, Visited, OpenInvoices
  <2> QED
    BY <2>1, <2>3, <2>4 DEF BilledInv, BilledOnce
<1>3. ASSUME NEW o \in Orders, CommitHold(o) PROVE BilledInv'
  <2>1. ledger' = ledger /\ invoices' = invoices
    BY <1>3 DEF CommitHold
  <2>2. orderStatus[o] = "none" \/ pc[o] = "done"
    BY DEF BilledInv, BilledOnce
  <2>3. orderStatus[o] # "CONFIRMED" /\ orderStatus'[o] = "CREDIT_HOLD" /\ pc'[o] = "done"
    BY <1>3, <2>2 DEF CommitHold, TypeOK, Sessions
  <2>4. \A i \in Orders \ {o} : orderStatus'[i] = orderStatus[i] /\ pc'[i] = pc[i]
    BY <1>3 DEF CommitHold, TypeOK, Sessions
  <2> QED
    BY <2>1, <2>3, <2>4, BilledKept
<1>4. ASSUME NEW s \in Sessions, Fail(s) \/ DeadlockVictim(s) PROVE BilledInv'
  <2>1. RollBack(s) /\ pc[s] # "done"
    BY <1>4 DEF Fail, DeadlockVictim, Running, WaitsForUpdate
  <2>2. ledger' = ledger /\ invoices' = invoices /\ orderStatus' = orderStatus
    BY <2>1 DEF RollBack, tables
  <2>3. \A o \in Orders : pc[o] = "done" => pc'[o] = "done"
    BY <2>1 DEF RollBack, TypeOK, Sessions
  <2> QED
    BY <2>2, <2>3, BilledKept
<1>5. ASSUME NEW o \in Orders,
             LoadCustomer(o) \/ PlaceOrder(o) \/ RecordInvoiceCreated(o)
      PROVE  BilledInv'
  <2>1. ledger' = ledger /\ invoices' = invoices /\ orderStatus' = orderStatus
    BY <1>5 DEF LoadCustomer, PlaceOrder, RecordInvoiceCreated, tables
  <2>2. \A i \in Orders : pc[i] = "done" => pc'[i] = "done"
    BY <1>5 DEF LoadCustomer, PlaceOrder, RecordInvoiceCreated, TypeOK, Sessions
  <2> QED
    BY <2>1, <2>2, BilledKept
<1>6. ASSUME NEW p \in Payments, InsertPayment(p) \/ LockForPayment(p) \/ SettleNext(p)
      PROVE  BilledInv'
  <2>1. ledger' = ledger /\ invoices' = invoices /\ orderStatus' = orderStatus
    BY <1>6 DEF InsertPayment, LockForPayment, SettleNext, tables
  <2>2. \A i \in Orders : pc[i] = "done" => pc'[i] = "done"
    BY <1>6 DEF InsertPayment, LockForPayment, SettleNext, TypeOK, Sessions
  <2> QED
    BY <2>1, <2>2, BilledKept
<1>7. CASE UNCHANGED vars
  BY <1>7, BilledKept DEF vars, tables
<1> QED
  BY <1>1, <1>2, <1>3, <1>4, <1>5, <1>6, <1>7 DEF Next, OrderStep, PaymentStep, Quiescent

LEMMA BilledInvOnce == BilledInv => OrderBilledOnce
<1> SUFFICES ASSUME BilledInv, NEW o \in Orders
             PROVE  LET c == CustomerOf[o]
                        mine == {k \in Entries(c, "INVOICE_CREATED") : ledger[c][k].ref = o}
                    IN IF orderStatus[o] = "CONFIRMED"
                         THEN o \in Billed /\ Cardinality(mine) = 1
                         ELSE o \notin Billed /\ mine = {}
  BY DEF OrderBilledOnce
<1> DEFINE c == CustomerOf[o]
           mine == {k \in Entries(c, "INVOICE_CREATED") : ledger[c][k].ref = o}
<1>1. \A k : k \in mine <=> EntryOf(o, k)
  BY DEF EntryOf, Entries
<1>2. o \in Billed <=> orderStatus[o] = "CONFIRMED"
  BY DEF BilledInv, BilledOnce, Billed
<1> HIDE DEF mine
<1>3. CASE orderStatus[o] = "CONFIRMED"
  <2>1. PICK k : EntryOf(o, k)
    BY <1>3 DEF BilledInv, BilledOnce
  <2>2. mine = {k}
    BY <1>1, <2>1 DEF BilledInv, BilledOnce
  <2> QED
    BY <1>2, <1>3, <2>2, FS_Singleton DEF mine
<1>4. CASE orderStatus[o] # "CONFIRMED"
  <2>1. mine = {}
    BY <1>1, <1>4 DEF BilledInv, BilledOnce
  <2> QED
    BY <1>2, <1>4, <2>1 DEF mine
<1> QED
  BY <1>3, <1>4

(* A confirmed order has its invoice and exactly one ledger entry, any other
   order has neither, whichever sessions fail or are rolled back. *)
THEOREM OrdersBilledOnce == Spec => []OrderBilledOnce
BY Invariance, BilledInit, BilledStep, BilledInvOnce, PTL DEF Spec

----
(* The books of a customer.  Ledger, invoices and balance agree after every
   commit; on its way there a payment has taken from its remainder what it has
   put on the invoices in its draft. *)

Paid(c) == [o \in BilledTo(c) |-> invoices[o].paid]
Total(c) == [o \in BilledTo(c) |-> invoices[o].total]
LastAfter(c) == IF ledger[c] = <<>> THEN 0 ELSE ledger[c][Len(ledger[c])].after

Books(c) ==
  /\ IsFiniteSet(BilledTo(c))
  /\ SumFunction(Amounts(c, "PAYMENT_RECEIVED")) = -SumFunction(Paid(c))
  /\ SumFunction(Amounts(c, "INVOICE_CREATED")) = SumFunction(Total(c))
  /\ Chained(c) =>
       /\ balance[c] = SumFunction(Total(c)) - SumFunction(Paid(c))
       /\ balance[c] = LastAfter(c)

DraftPaid(p) == [o \in BilledTo(CustomerOf[p]) |-> draft[p][o].paid]
SettledInDraft(p) ==
  SumFunction(DraftPaid(p)) = SumFunction(Paid(CustomerOf[p])) + receipt[p] - remaining[p]

BooksInv ==
  /\ \A c \in Customers : Books(c)
  /\ \A p \in Payments : pc[p] = "settling" => SettledInDraft(p)

LEMMA SumNothing == ASSUME NEW f, DOMAIN f = {} PROVE SumFunction(f) = 0
BY SumEmpty DEF SumFunction

LEMMA BooksInit == Init => BooksInv
<1> SUFFICES ASSUME Init PROVE BooksInv
  OBVIOUS
<1>1. ASSUME NEW c \in Customers PROVE Books(c)
  <2>1. BilledTo(c) = {} /\ \A kind : Entries(c, kind) = {}
    BY DEF Init, BilledTo, Billed, NoInvoice, Entries
  <2>2. /\ SumFunction(Paid(c)) = 0 /\ SumFunction(Total(c)) = 0
        /\ \A kind : SumFunction(Amounts(c, kind)) = 0
    BY <2>1, SumNothing DEF Paid, Total, Amounts
  <2>3. balance[c] = 0 /\ LastAfter(c) = 0
    BY DEF Init, LastAfter
  <2> QED
    BY <2>1, <2>2, <2>3, FS_EmptySet DEF Books
<1>2. \A p \in Payments : pc[p] # "settling"
  BY DEF Init
<1> QED
  BY <1>1, <1>2 DEF BooksInv

LEMMA BooksTypes ==
  ASSUME TypeOK, NEW c \in Customers
  PROVE  /\ Paid(c) \in [BilledTo(c) -> Int]
         /\ Total(c) \in [BilledTo(c) -> Int]
         /\ \A kind : Amounts(c, kind) \in [Entries(c, kind) -> Int]
         /\ \A kind : IsFiniteSet(Entries(c, kind))
<1>1. \A o \in BilledTo(c) : invoices[o].paid \in Nat /\ invoices[o].total \in Nat
  BY DEF TypeOK, BilledTo, Billed, Invoice
<1>2. ledger[c] \in Seq(Entry)
  BY DEF TypeOK
<1>3. \A k \in 1 .. Len(ledger[c]) : ledger[c][k].amount \in Int
  <2>1. \A k \in 1 .. Len(ledger[c]) : ledger[c][k] \in Entry
    BY <1>2
  <2> QED
    BY <2>1 DEF Entry
<1>4. ASSUME NEW kind
      PROVE  Amounts(c, kind) \in [Entries(c, kind) -> Int] /\ IsFiniteSet(Entries(c, kind))
  <2>1. Len(ledger[c]) \in Int /\ Entries(c, kind) \subseteq 1 .. Len(ledger[c])
    BY <1>2 DEF Entries
  <2>2. IsFiniteSet(1 .. Len(ledger[c]))
    BY <2>1, FS_Interval
  <2> QED
    BY <1>3, <2>1, <2>2, FS_Subset DEF Amounts
<1> QED
  BY <1>1, <1>4 DEF Paid, Total

(* longer is the sequence log with e behind it, at place n. *)
OneLonger(log, e, longer, n) ==
  /\ n \in Nat /\ n \in 1 .. n /\ Len(longer) = n
  /\ longer[n] = e /\ longer # <<>>
  /\ \A k \in 1 .. Len(log) : longer[k] = log[k]
  /\ 1 .. n = (1 .. Len(log)) \cup {n} /\ n \notin 1 .. Len(log)
  /\ IF log = <<>> THEN n = 1 ELSE n # 1 /\ n - 1 = Len(log) /\ Len(log) \in 1 .. Len(log)
  /\ \A k \in 1 .. Len(log) : k # 1 => k - 1 \in 1 .. Len(log)

LEMMA Appended ==
  ASSUME NEW S, NEW log \in Seq(S), NEW e \in S
  PROVE  OneLonger(log, e, Append(log, e), Len(log) + 1)
<1> DEFINE longer == Append(log, e)
           n == Len(log) + 1
<1>1. /\ Len(longer) = n /\ longer[n] = e /\ longer # <<>>
      /\ \A k \in 1 .. Len(log) : longer[k] = log[k]
  BY AppendProperties
<1>2. Len(log) \in Nat /\ (log = <<>> <=> Len(log) = 0)
  BY EmptySeq
<1>3. /\ n \in Nat /\ n \in 1 .. n
      /\ 1 .. n = (1 .. Len(log)) \cup {n} /\ n \notin 1 .. Len(log)
      /\ \A k \in 1 .. Len(log) : k # 1 => k - 1 \in 1 .. Len(log)
  BY <1>2
<1>4. IF log = <<>> THEN n = 1 ELSE n # 1 /\ n - 1 = Len(log) /\ Len(log) \in 1 .. Len(log)
  BY <1>2
<1> HIDE DEF longer, n
<1>5. OneLonger(log, e, longer, n)
  BY <1>1, <1>3, <1>4 DEF OneLonger
<1> QED
  BY <1>5 DEF longer, n

(* What one more entry does to the sums of the ledger and to the chain. *)
LEMMA OneMoreEntry ==
  ASSUME TypeOK, NEW c \in Customers, NEW e \in Entry, ledger'[c] = Append(ledger[c], e)
  PROVE  /\ SumFunction(Amounts(c, e.kind))' = SumFunction(Amounts(c, e.kind)) + e.amount
         /\ SumFunction(Amounts(c, e.kind)) \in Int
         /\ \A kind : kind # e.kind => Amounts(c, kind)' = Amounts(c, kind)
         /\ Chained(c)' => Chained(c) /\ e.after = LastAfter(c) + e.amount
         /\ LastAfter(c)' = e.after
<1> DEFINE log == ledger[c]
           longer == ledger'[c]
           n == Len(log) + 1
<1>1. log \in Seq(Entry)
  BY DEF TypeOK
<1>2. n = Len(log) + 1 /\ longer = Append(log, e)
  OBVIOUS
<1>3. /\ LastAfter(c) = IF log = <<>> THEN 0 ELSE log[Len(log)].after
      /\ LastAfter(c)' = IF longer = <<>> THEN 0 ELSE longer[Len(longer)].after
  BY DEF LastAfter
<1>5. /\ Chained(c) <=> \A k \in 1 .. Len(log) :
           log[k].after = (IF k = 1 THEN 0 ELSE log[k - 1].after) + log[k].amount
      /\ Chained(c)' <=> \A k \in 1 .. Len(longer) :
           longer[k].after = (IF k = 1 THEN 0 ELSE longer[k - 1].after) + longer[k].amount
  BY DEF Chained, Before
<1>6. \A kind : /\ Entries(c, kind) = {k \in 1 .. Len(log) : log[k].kind = kind}
                /\ Entries(c, kind)' = {k \in 1 .. Len(longer) : longer[k].kind = kind}
                /\ Amounts(c, kind) = [k \in Entries(c, kind) |-> log[k].amount]
                /\ Amounts(c, kind)' = [k \in Entries(c, kind)' |-> longer[k].amount]
  BY DEF Entries, Amounts
<1> HIDE DEF n, log, longer
<1>7. OneLonger(log, e, longer, n)
  BY <1>1, <1>2, Appended
<1> USE DEF OneLonger
<1>8. \A k \in 1 .. Len(log) : log[k] \in Entry
  BY <1>1
<1>9. ASSUME NEW kind, kind # e.kind PROVE Amounts(c, kind)' = Amounts(c, kind)
  <2>1. Entries(c, kind)' = Entries(c, kind)
    BY <1>6, <1>7, <1>9
  <2>2. \A k \in Entries(c, kind) : longer[k].amount = log[k].amount
    BY <1>6, <1>7
  <2> DEFINE E == Entries(c, kind)
  <2>3. [k \in E |-> log[k].amount] = [k \in E |-> longer[k].amount]
    <3> HIDE DEF E
    <3> QED
      BY <2>2 DEF E
  <2>4. Amounts(c, kind) = [k \in E |-> log[k].amount] /\ Amounts(c, kind)' = [k \in E |-> longer[k].amount]
    BY <1>6, <2>1
  <2> QED
    BY <2>3, <2>4, Zenon
<1>10. /\ SumFunction(Amounts(c, e.kind))' = SumFunction(Amounts(c, e.kind)) + e.amount
       /\ SumFunction(Amounts(c, e.kind)) \in Int
  <2> DEFINE E == Entries(c, e.kind)
             before == Amounts(c, e.kind)
             after == Amounts(c, e.kind)'
  <2>1. /\ Entries(c, e.kind)' = E \cup {n} /\ n \notin E /\ E \subseteq 1 .. Len(log)
    BY <1>6, <1>7
  <2>2. /\ \A k \in E : after[k] = before[k]
        /\ after[n] = e.amount
    BY <1>6, <1>7, <2>1
  <2>3. before \in [E -> Int] /\ IsFiniteSet(E)
    BY BooksTypes
  <2>4. \A k \in E \cup {n} : longer[k].amount \in Int
    BY <1>7, <1>8, <2>1 DEF Entry
  <2>5. after \in [E \cup {n} -> Int]
    <3>1. after = [k \in E \cup {n} |-> longer[k].amount]
      BY <1>6, <2>1
    <3> HIDE DEF E, after
    <3> QED
      BY <2>4, <3>1
  <2>6. SumFunction(after) = SumFunction(before) + after[n] /\ SumFunction(before) \in Int
    <3>1. n \notin E
      BY <2>1
    <3> HIDE DEF E, before, after
    <3> QED
      BY ONLY <3>1, <2>2, <2>3, <2>5, SumNext
  <2> QED
    BY <2>2, <2>6
<1>11. LastAfter(c)' = e.after
  BY <1>3, <1>7
<1>12. (IF n = 1 THEN 0 ELSE longer[n - 1].after) = LastAfter(c)
  <2>1. CASE log = <<>>
    BY <1>3, <1>7, <2>1
  <2>2. CASE log # <<>>
    <3>1. n # 1 /\ n - 1 = Len(log) /\ longer[n - 1] = log[Len(log)]
      BY <1>7, <2>2
    <3> QED
      BY <1>3, <2>2, <3>1
  <2> QED
    BY <2>1, <2>2
<1>13. ASSUME Chained(c)' PROVE Chained(c) /\ e.after = LastAfter(c) + e.amount
  <2>1. \A k \in 1 .. n :
          longer[k].after = (IF k = 1 THEN 0 ELSE longer[k - 1].after) + longer[k].amount
    BY <1>5, <1>7, <1>13
  <2>2. ASSUME NEW k \in 1 .. Len(log)
        PROVE  log[k].after = (IF k = 1 THEN 0 ELSE log[k - 1].after) + log[k].amount
    <3>1. k = 1 \/ longer[k - 1] = log[k - 1]
      BY <1>7
    <3>2. k \in 1 .. n /\ longer[k] = log[k]
      BY <1>7
    <3> QED
      BY <2>1, <3>1, <3>2
  <2>3. longer[n].after = LastAfter(c) + longer[n].amount
    BY <1>7, <1>12, <2>1
  <2> QED
    BY <1>5, <1>7, <2>2, <2>3
<1> QED
  BY <1>9, <1>10, <1>11, <1>13

(* A step that leaves a customer's rows alone leaves the books right. *)
LEMMA BooksUndisturbed ==
  ASSUME NEW c \in Customers, Books(c), ledger'[c] = ledger[c], balance'[c] = balance[c],
         \A o \in Orders : CustomerOf[o] = c => invoices'[o] = invoices[o]
  PROVE  Books(c)'
<1>1. BilledTo(c)' = BilledTo(c)
  BY DEF BilledTo, Billed
<1>2. \A o \in BilledTo(c) : invoices'[o] = invoices[o]
  BY DEF BilledTo, Billed
<1>3. Paid(c)' = Paid(c) /\ Total(c)' = Total(c)
  BY <1>1, <1>2 DEF Paid, Total
<1>4. \A kind : Amounts(c, kind)' = Amounts(c, kind)
  BY DEF Amounts, Entries
<1>5. (Chained(c)' <=> Chained(c)) /\ LastAfter(c)' = LastAfter(c)
  BY DEF Chained, Before, LastAfter
<1> QED
  BY <1>1, <1>3, <1>4, <1>5 DEF Books

LEMMA SettledUndisturbed ==
  ASSUME NEW p \in Payments, SettledInDraft(p),
         draft'[p] = draft[p], receipt'[p] = receipt[p], remaining'[p] = remaining[p],
         \A o \in Orders : CustomerOf[o] = CustomerOf[p] => invoices'[o] = invoices[o]
  PROVE  SettledInDraft(p)'
<1>1. BilledTo(CustomerOf[p])' = BilledTo(CustomerOf[p])
  BY DEF BilledTo, Billed
<1>2. \A o \in BilledTo(CustomerOf[p]) : invoices'[o] = invoices[o]
  BY DEF BilledTo, Billed
<1>3. Paid(CustomerOf[p])' = Paid(CustomerOf[p]) /\ DraftPaid(p)' = DraftPaid(p)
  BY <1>1, <1>2 DEF Paid, DraftPaid
<1> QED
  BY <1>3 DEF SettledInDraft

LEMMA OrderBooks ==
  ASSUME IInv, NEW o \in Orders, NEW c, c = CustomerOf[o], Books(c), CommitOrder(o)
  PROVE  Books(c)'
<1> DEFINE e == [kind |-> "INVOICE_CREATED", ref |-> o,
                 amount |-> bill[o].total, after |-> seen[o]]
           t == bill[o].total
           B == BilledTo(c)
<1>1. c \in Customers /\ t \in Nat /\ seen[o] \in Nat /\ balance[c] \in Nat /\ TypeOK
  BY DEF IInv, TypeOK
<1>2. e \in Entry
  BY <1>1 DEF Entry
<1>3. /\ ledger'[c] = Append(ledger[c], e)
      /\ balance'[c] = IF t = 0 THEN balance[c] ELSE seen[o]
      /\ invoices'[o] = [status |-> "ISSUED", total |-> t, paid |-> 0, due |-> t]
      /\ \A i \in Orders : i # o => invoices'[i] = invoices[i]
      /\ pc[o] = "billed"
  BY <1>1 DEF CommitOrder, WrittenBalance, TypeOK
<1>4. BilledTo(c)' = B \cup {o} /\ o \notin B
  BY <1>3 DEF BilledTo, Billed, IInv, RowsOfDone
<1>5. /\ Paid(c) \in [B -> Int] /\ Total(c) \in [B -> Int]
      /\ Paid(c)' \in [B \cup {o} -> Int] /\ Paid(c)'[o] = 0
      /\ Total(c)' \in [B \cup {o} -> Int] /\ Total(c)'[o] = t
      /\ \A i \in B : Paid(c)'[i] = Paid(c)[i] /\ Total(c)'[i] = Total(c)[i]
  <2>1. Paid(c) \in [B -> Int] /\ Total(c) \in [B -> Int]
    BY <1>1, BooksTypes
  <2>2. /\ Paid(c)' = [i \in B \cup {o} |-> invoices'[i].paid]
        /\ Total(c)' = [i \in B \cup {o} |-> invoices'[i].total]
        /\ Paid(c) = [i \in B |-> invoices[i].paid]
        /\ Total(c) = [i \in B |-> invoices[i].total]
    BY <1>4 DEF Paid, Total
  <2>3. \A i \in B : invoices'[i] = invoices[i] /\ i # o
    BY <1>3, <1>4 DEF BilledTo, Billed
  <2>4. invoices'[o].paid = 0 /\ invoices'[o].total = t
    BY <1>3
  <2> HIDE DEF B, t
  <2>5. \A i \in B : invoices'[i].paid \in Int /\ invoices'[i].total \in Int
    BY <2>1, <2>2, <2>3
  <2> QED
    BY <1>1, <2>1, <2>2, <2>3, <2>4, <2>5
<1>6. IsFiniteSet(B)
  BY DEF Books
<1>7. /\ SumFunction(Paid(c)') = SumFunction(Paid(c)) + 0 /\ SumFunction(Paid(c)) \in Int
      /\ SumFunction(Total(c)') = SumFunction(Total(c)) + t /\ SumFunction(Total(c)) \in Int
  <2> HIDE DEF B, t
  <2>1. SumFunction(Paid(c)') = SumFunction(Paid(c)) + 0 /\ SumFunction(Paid(c)) \in Int
    BY ONLY <1>4, <1>5, <1>6, SumNext
  <2>2. SumFunction(Total(c)') = SumFunction(Total(c)) + t /\ SumFunction(Total(c)) \in Int
    BY ONLY <1>4, <1>5, <1>6, SumNext
  <2> QED
    BY <2>1, <2>2
<1>8. e.kind = "INVOICE_CREATED" /\ e.amount = t /\ e.after = seen[o]
  OBVIOUS
<1> HIDE DEF e, t, B
<1>9. /\ SumFunction(Amounts(c, "INVOICE_CREATED"))' = SumFunction(Amounts(c, "INVOICE_CREATED")) + t
      /\ Amounts(c, "PAYMENT_RECEIVED")' = Amounts(c, "PAYMENT_RECEIVED")
      /\ Chained(c)' => Chained(c) /\ seen[o] = LastAfter(c) + t
      /\ LastAfter(c)' = seen[o]
  BY <1>1, <1>2, <1>3, <1>8, OneMoreEntry
<1>10. IsFiniteSet(BilledTo(c)')
  BY <1>4, <1>6, FS_AddElement
<1>11. Chained(c)' => balance'[c] = balance[c] + t /\ balance'[c] = LastAfter(c)'
                      /\ balance[c] = SumFunction(Total(c)) - SumFunction(Paid(c))
  BY <1>1, <1>3, <1>9 DEF Books
<1> QED
  BY <1>1, <1>7, <1>9, <1>10, <1>11 DEF Books

LEMMA PaymentBooks ==
  ASSUME IInv, NEW p \in Payments, NEW c, c = CustomerOf[p], Books(c), SettledInDraft(p),
         CommitPayment(p)
  PROVE  Books(c)'
<1> DEFINE e == [kind |-> "PAYMENT_RECEIVED", ref |-> p,
                 amount |-> -Settled(p), after |-> ReducedBalance(p)]
           B == BilledTo(c)
<1>1. c \in Customers /\ TypeOK /\ LoopInv(p)
  BY CommitWritesDraft DEF IInv
<1>2. Settled(p) \in Int /\ ReducedBalance(p) \in Nat /\ balance[c] \in Nat /\ seen[p] = balance[c]
  BY <1>1 DEF Settled, ReducedBalance, TypeOK, LoopInv
<1>3. e \in Entry
  BY <1>2 DEF Entry
<1>4. /\ ledger'[c] = Append(ledger[c], e)
      /\ balance'[c] = ReducedBalance(p)
      /\ \A i \in Orders : CustomerOf[i] = c => invoices'[i] = draft[p][i]
  BY <1>1 DEF CommitPayment, TypeOK
<1>5. \A i \in Orders : CustomerOf[i] = c =>
        /\ draft[p][i].total = invoices[i].total
        /\ draft[p][i].status # "none" <=> invoices[i].status # "none"
  BY <1>1 DEF LoopInv, Drafted, Visited, OpenInvoices
<1>6. BilledTo(c)' = B
  BY <1>4, <1>5 DEF BilledTo, Billed
<1>7. \A i \in B : /\ invoices'[i].paid = draft[p][i].paid
                   /\ invoices'[i].total = invoices[i].total
  BY <1>4, <1>5 DEF BilledTo, Billed
<1>8. Paid(c)' = DraftPaid(p) /\ Total(c)' = Total(c)
  BY <1>6, <1>7 DEF Paid, Total, DraftPaid
<1>9. e.kind = "PAYMENT_RECEIVED" /\ e.amount = -Settled(p) /\ e.after = ReducedBalance(p)
  OBVIOUS
<1> HIDE DEF e, B
<1>10. /\ SumFunction(Amounts(c, "PAYMENT_RECEIVED"))' =
            SumFunction(Amounts(c, "PAYMENT_RECEIVED")) - Settled(p)
       /\ Amounts(c, "INVOICE_CREATED")' = Amounts(c, "INVOICE_CREATED")
       /\ Chained(c)' => Chained(c) /\ ReducedBalance(p) = LastAfter(c) - Settled(p)
       /\ LastAfter(c)' = ReducedBalance(p)
  <2> DEFINE a == e.amount
             after == e.after
  <2>1. a = -Settled(p) /\ after = ReducedBalance(p)
    BY <1>9
  <2> HIDE DEF a, after
  <2>2. /\ SumFunction(Amounts(c, "PAYMENT_RECEIVED"))' =
             SumFunction(Amounts(c, "PAYMENT_RECEIVED")) + a
        /\ SumFunction(Amounts(c, "PAYMENT_RECEIVED")) \in Int
        /\ Amounts(c, "INVOICE_CREATED")' = Amounts(c, "INVOICE_CREATED")
        /\ Chained(c)' => Chained(c) /\ after = LastAfter(c) + a
        /\ LastAfter(c)' = after
    BY <1>1, <1>3, <1>4, <1>9, OneMoreEntry DEF a, after
  <2>3. Chained(c) => LastAfter(c) \in Int
    BY <1>2 DEF Books
  <2> QED
    BY <1>2, <2>1, <2>2, <2>3
<1>11. SumFunction(DraftPaid(p)) = SumFunction(Paid(c)) + Settled(p)
  <2>1. receipt[p] \in Nat /\ remaining[p] \in Nat
    BY <1>1 DEF TypeOK
  <2>2. SumFunction(Paid(c)) \in Int
    BY <1>1, BooksTypes, SumInt DEF SumFunction, Books
  <2> QED
    BY <2>1, <2>2 DEF SettledInDraft, Settled
<1>12. SumFunction(Paid(c)) \in Int /\ SumFunction(Total(c)) \in Int
  BY <1>1, BooksTypes, SumInt DEF SumFunction, Books
<1>13. Chained(c)' => balance'[c] = balance[c] - Settled(p) /\ balance'[c] = LastAfter(c)'
                      /\ balance[c] = SumFunction(Total(c)) - SumFunction(Paid(c))
  BY <1>2, <1>4, <1>10 DEF Books
<1> QED
  BY <1>1, <1>2, <1>6, <1>8, <1>10, <1>11, <1>12, <1>13 DEF Books, B

(* One turn of the loop moves an amount from the remainder to an invoice. *)
LEMMA SettleBooks ==
  ASSUME IInv, NEW p \in Payments, SettleNext(p), IsFiniteSet(BilledTo(CustomerOf[p])),
         SettledInDraft(p)
  PROVE  SettledInDraft(p)'
<1> DEFINE c == CustomerOf[p]
           B == BilledTo(c)
<1>1. /\ pc[p] = "settling" /\ LoopInv(p) /\ UNCHANGED <<invoices, receipt>> /\ TypeOK
      /\ c \in Customers
  BY DEF SettleNext, tables, IInv
<1>2. PICK o \in todo[p] :
        /\ \E cleared \in BOOLEAN :
             draft' = [draft EXCEPT ![p][o] = Applied(@, ApplyAmount(p, o), cleared)]
        /\ remaining' = [remaining EXCEPT ![p] = @ - ApplyAmount(p, o)]
  BY DEF SettleNext
<1> DEFINE a == ApplyAmount(p, o)
<1>3. o \in Orders /\ o \in B
  BY <1>1 DEF LoopInv, OpenInvoices, BilledTo, Billed, TypeOK
<1>4. draft[p][o] \in Invoice /\ draft[p] \in [Orders -> Invoice]
  BY <1>1, <1>3 DEF TypeOK
<1>5. a \in Nat /\ remaining[p] \in Nat /\ receipt[p] \in Nat
  BY <1>1, <1>3, ApplyAmountBounds DEF TypeOK
<1>6. /\ draft'[p][o].paid = draft[p][o].paid + a
      /\ \A i \in Orders : i # o => draft'[p][i] = draft[p][i]
      /\ remaining'[p] = remaining[p] - a
  <2>1. PICK cleared \in BOOLEAN :
          draft' = [draft EXCEPT ![p][o] = Applied(@, a, cleared)]
    BY <1>2
  <2>2. /\ draft'[p][o] = Applied(draft[p][o], a, cleared)
        /\ \A i \in Orders : i # o => draft'[p][i] = draft[p][i]
    BY <1>1, <1>3, <2>1 DEF TypeOK
  <2>3. remaining'[p] = remaining[p] - a
    BY <1>1, <1>2 DEF TypeOK
  <2> HIDE DEF a
  <2>4. Applied(draft[p][o], a, cleared).paid = draft[p][o].paid + a
    BY <1>4 DEF Applied, Invoice
  <2> QED
    BY <2>2, <2>3, <2>4
<1> HIDE DEF a
<1>7. BilledTo(c)' = B /\ Paid(c)' = Paid(c)
  BY <1>1 DEF BilledTo, Billed, Paid
<1>8. /\ DraftPaid(p) = [i \in B |-> draft[p][i].paid]
      /\ DraftPaid(p)' = [i \in B |-> draft'[p][i].paid]
      /\ B \subseteq Orders
  BY <1>7 DEF DraftPaid, BilledTo, Billed
<1>9. \A i \in B : draft[p][i].paid \in Int
  BY <1>4, <1>8 DEF Invoice
<1>10. \A i \in B \ {o} : draft'[p][i].paid = draft[p][i].paid
  BY <1>6, <1>8
<1>11. draft'[p][o].paid \in Int
  BY <1>3, <1>5, <1>6, <1>9
<1> DEFINE before == DraftPaid(p)
           after == DraftPaid(p)'
<1>12. /\ before \in [B -> Int] /\ after \in [B -> Int]
       /\ \A i \in B \ {o} : after[i] = before[i]
       /\ before[o] = draft[p][o].paid /\ after[o] = before[o] + a
       /\ before[o] \in Int
  <2>1. \A i \in B : draft'[p][i].paid \in Int
    BY <1>9, <1>10, <1>11
  <2>2. before \in [B -> Int] /\ after \in [B -> Int]
    BY <1>8, <1>9, <2>1
  <2>3. /\ \A i \in B : before[i] = draft[p][i].paid
        /\ \A i \in B : after[i] = draft'[p][i].paid
    BY <1>8
  <2> HIDE DEF before, after, B
  <2> QED
    BY <1>3, <1>6, <1>9, <1>10, <2>2, <2>3
<1>13. SumFunction(after) = SumFunction(before) + after[o] - before[o] /\ SumFunction(before) \in Int
  <2> HIDE DEF before, after
  <2> QED
    BY ONLY <1>3, <1>12, IsFiniteSet(B), SumChange
<1>14. SumFunction(after) = SumFunction(before) + a
  <2> HIDE DEF before, after
  <2> QED
    BY <1>5, <1>12, <1>13
<1>15. SumFunction(Paid(c)) \in Int
  BY <1>1, BooksTypes, SumInt DEF SumFunction
<1> HIDE DEF c, B
<1>16. SumFunction(after) = SumFunction(Paid(c)) + receipt[p] - (remaining[p] - a)
  BY <1>5, <1>14, <1>15 DEF SettledInDraft, c
<1> QED
  BY <1>1, <1>6, <1>7, <1>16 DEF SettledInDraft, c

(* What a step leaves alone of a payment in its loop, unless it is that
   payment's own. *)
LEMMA OthersSettled ==
  ASSUME IInv, BooksInv, NEW s \in Sessions, NEW p \in Payments, p # s,
         pc[p] = "settling",
         draft'[p] = draft[p], receipt'[p] = receipt[p], remaining'[p] = remaining[p],
         \A o \in Orders : CustomerOf[o] # CustomerOf[s] => invoices'[o] = invoices[o],
         HoldsKeyShare(s) \/ invoices' = invoices
  PROVE  SettledInDraft(p)'
<1>1. SettledInDraft(p)
  BY DEF BooksInv
<1>2. CASE CustomerOf[s] = CustomerOf[p]
  <2>1. invoices' = invoices
    BY <1>2, LoopExcludes DEF IInv
  <2> QED
    BY <1>1, <2>1, SettledUndisturbed
<1>3. CASE CustomerOf[s] # CustomerOf[p]
  BY <1>1, <1>3, SettledUndisturbed
<1> QED
  BY <1>2, <1>3

LEMMA BooksStep == IInv /\ BooksInv /\ [Next]_vars => BooksInv'
<1> SUFFICES ASSUME IInv, BooksInv, [Next]_vars PROVE BooksInv'
  OBVIOUS
<1> TypeOK
  BY DEF IInv
<1>1. ASSUME UNCHANGED <<balance, invoices, ledger>>,
             \A p \in Payments : pc'[p] = "settling" =>
               \/ SettledInDraft(p)'
               \/ pc[p] = "settling" /\ UNCHANGED <<draft[p], receipt[p], remaining[p]>>
      PROVE  BooksInv'
  <2>1. \A c \in Customers : Books(c)'
    BY <1>1, BooksUndisturbed DEF BooksInv
  <2>2. \A p \in Payments : pc'[p] = "settling" => SettledInDraft(p)'
    BY <1>1, SettledUndisturbed DEF BooksInv
  <2> QED
    BY <2>1, <2>2 DEF BooksInv
<1>2. ASSUME NEW o \in Orders,
             LoadCustomer(o) \/ PlaceOrder(o) \/ CommitHold(o) \/ RecordInvoiceCreated(o)
      PROVE  BooksInv'
  <2>1. UNCHANGED <<balance, invoices, ledger, draft, receipt, remaining>>
    BY <1>2 DEF LoadCustomer, PlaceOrder, CommitHold, RecordInvoiceCreated, tables, paymentLocals
  <2>2. \A p \in Payments : pc'[p] = pc[p]
    BY <1>2 DEF LoadCustomer, PlaceOrder, CommitHold, RecordInvoiceCreated, TypeOK
  <2> QED
    BY <1>1, <2>1, <2>2
<1>3. ASSUME NEW o \in Orders, CommitOrder(o) PROVE BooksInv'
  <2>1. /\ \A i \in Orders : CustomerOf[i] # CustomerOf[o] => invoices'[i] = invoices[i]
        /\ \A c \in Customers : c # CustomerOf[o] =>
             ledger'[c] = ledger[c] /\ balance'[c] = balance[c]
        /\ UNCHANGED <<draft, receipt, remaining>>
        /\ \A p \in Payments : pc'[p] = pc[p]
        /\ HoldsKeyShare(o) /\ o \in Sessions
    BY <1>3 DEF CommitOrder, TypeOK, paymentLocals, HoldsKeyShare
  <2>2. \A c \in Customers : Books(c)'
    BY <1>3, <2>1, OrderBooks, BooksUndisturbed DEF BooksInv
  <2>3. ASSUME NEW p \in Payments, pc'[p] = "settling" PROVE SettledInDraft(p)'
    BY <2>1, <2>3, OthersSettled
  <2> QED
    BY <2>2, <2>3 DEF BooksInv
<1>4. ASSUME NEW p \in Payments, InsertPayment(p) PROVE BooksInv'
  <2>1. /\ UNCHANGED <<balance, invoices, ledger, draft, remaining>>
        /\ pc'[p] = "paying"
        /\ \A q \in Payments : q # p => pc'[q] = pc[q] /\ receipt'[q] = receipt[q]
    BY <1>4 DEF InsertPayment, TypeOK, tables
  <2> QED
    BY <1>1, <2>1
<1>5. ASSUME NEW p \in Payments, LockForPayment(p) PROVE BooksInv'
  <2>1. /\ UNCHANGED <<balance, invoices, ledger, receipt>>
        /\ draft'[p] = invoices /\ remaining'[p] = receipt[p]
        /\ \A q \in Payments : q # p =>
             pc'[q] = pc[q] /\ UNCHANGED <<draft[q], remaining[q]>>
    BY <1>5 DEF LockForPayment, TypeOK, tables
  <2>2. DraftPaid(p)' = Paid(CustomerOf[p])'
    BY <2>1 DEF DraftPaid, Paid
  <2>3. Paid(CustomerOf[p])' = Paid(CustomerOf[p]) /\ CustomerOf[p] \in Customers
    BY <2>1 DEF Paid, BilledTo, Billed
  <2>4. SumFunction(Paid(CustomerOf[p])) \in Int /\ receipt[p] \in Int
    BY <2>3, BooksTypes, SumInt DEF SumFunction, BooksInv, Books, TypeOK
  <2>5. SettledInDraft(p)'
    BY <2>1, <2>2, <2>3, <2>4 DEF SettledInDraft
  <2> QED
    BY <1>1, <2>1, <2>5
<1>6. ASSUME NEW p \in Payments, SettleNext(p) PROVE BooksInv'
  <2>1. /\ UNCHANGED <<balance, invoices, ledger, receipt, pc>>
        /\ \A q \in Payments : q # p => UNCHANGED <<draft[q], remaining[q]>>
        /\ pc[p] = "settling"
    BY <1>6 DEF SettleNext, TypeOK, tables
  <2>2. SettledInDraft(p)'
    BY <1>6, <2>1, SettleBooks DEF BooksInv, Books
  <2> QED
    BY <1>1, <2>1, <2>2
<1>7. ASSUME NEW p \in Payments, CommitPayment(p) PROVE BooksInv'
  <2>1. /\ \A i \in Orders : CustomerOf[i] # CustomerOf[p] => invoices'[i] = invoices[i]
        /\ \A c \in Customers : c # CustomerOf[p] =>
             ledger'[c] = ledger[c] /\ balance'[c] = balance[c]
        /\ UNCHANGED <<draft, receipt, remaining>>
        /\ pc[p] = "settling" /\ pc'[p] = "done"
        /\ \A q \in Payments : q # p => pc'[q] = pc[q]
        /\ HoldsKeyShare(p) /\ p \in Sessions
    BY <1>7 DEF CommitPayment, TypeOK, paymentLocals, HoldsKeyShare
  <2>2. SettledInDraft(p)
    BY <2>1 DEF BooksInv
  <2>3. \A c \in Customers : Books(c)'
    BY <1>7, <2>1, <2>2, PaymentBooks, BooksUndisturbed DEF BooksInv
  <2>4. ASSUME NEW q \in Payments, pc'[q] = "settling" PROVE SettledInDraft(q)'
    BY <2>1, <2>4, OthersSettled
  <2> QED
    BY <2>3, <2>4 DEF BooksInv
<1>8. ASSUME NEW s \in Sessions, Fail(s) \/ DeadlockVictim(s) PROVE BooksInv'
  <2>1. RollBack(s)
    BY <1>8 DEF Fail, DeadlockVictim
  <2>2. /\ UNCHANGED <<balance, invoices, ledger, draft, receipt, remaining>>
        /\ \A p \in Payments : pc'[p] = "settling" => pc[p] = "settling"
    BY <2>1 DEF RollBack, TypeOK, tables, paymentLocals
  <2> QED
    BY <1>1, <2>2
<1>9. CASE UNCHANGED vars
  BY <1>1, <1>9 DEF vars, tables, paymentLocals
<1> QED
  BY <1>2, <1>3, <1>4, <1>5, <1>6, <1>7, <1>8, <1>9 DEF Next, OrderStep, PaymentStep, Quiescent

LEMMA BooksAgree == BooksInv => LedgerMatchesInvoices
BY DEF BooksInv, Books, LedgerMatchesInvoices, Paid, Total

LEMMA BooksTrusted == TypeOK /\ BooksInv => ChainedLedgerIsRight
<1> SUFFICES ASSUME TypeOK, BooksInv, NEW c \in Customers, Chained(c)
             PROVE  /\ balance[c] =
                         SumFunction([o \in BilledTo(c) |-> invoices[o].total - invoices[o].paid])
                    /\ ledger[c] # <<>> => balance[c] = ledger[c][Len(ledger[c])].after
  BY DEF ChainedLedgerIsRight
<1> DEFINE B == BilledTo(c)
           f == Total(c)
           g == Paid(c)
<1>1. Books(c) /\ f \in [B -> Int] /\ g \in [B -> Int]
  BY BooksTypes DEF BooksInv
<1>2. [o \in B |-> invoices[o].total - invoices[o].paid] = [o \in B |-> f[o] - g[o]]
  BY DEF Total, Paid
<1>3. SumFunction([o \in B |-> f[o] - g[o]]) = SumFunction(f) - SumFunction(g)
  <2>1. IsFiniteSet(B)
    BY <1>1 DEF Books
  <2> HIDE DEF B, f, g
  <2> QED
    BY <1>1, <2>1, SumMinus
<1>4. balance[c] = SumFunction(f) - SumFunction(g) /\ balance[c] = LastAfter(c)
  BY <1>1 DEF Books
<1> QED
  BY <1>2, <1>3, <1>4 DEF LastAfter

(* Ledger and invoices agree to the paisa on what was billed and received, for
   any customers, sessions and amounts, whichever sessions failed. *)
THEOREM BooksMatch == Spec => []LedgerMatchesInvoices
BY Invariance, BooksInit, BooksStep, BooksAgree, PTL DEF Spec

(* A ledger whose running balances follow from its amounts proves the balance
   right: no lost update leaves an unbroken chain. *)
THEOREM ChainProvesBalance == Spec => []ChainedLedgerIsRight
BY Invariance, BooksInit, BooksStep, BooksTrusted, PTL DEF Spec, IInv

----
(* The credit limit.  What a customer's invoices still owe is at most what the
   balance says, and what an order saw of them when it began is at most what it
   was checked on, as long as no two of these invoices are of overlapping orders. *)

Alone(S) == \A o, i \in S : ~Overlapped(o, i)
Owes(S) == SumFunction([o \in S |-> invoices[o].total - invoices[o].paid])
KnownTo(o) == {i \in known[o] : CustomerOf[i] = CustomerOf[o]}

(* The balance an order was checked on. *)
CheckedOn(o) == IF pc[o] = "billed" THEN seen[o] - bill[o].total ELSE seen[o]

Checked(o) ==
  /\ known[o] \subseteq Billed
  /\ pc[o] \in {"loaded", "placed", "billed"} /\ Alone(KnownTo(o)) =>
       Owes(KnownTo(o)) <= CheckedOn(o)
  /\ pc[o] \in {"placed", "billed"} =>
       CheckedOn(o) + bill[o].subtotal <= Limit[CustomerOf[o]]

WithinLimit(c) ==
  LET owed == Owes(BilledTo(c))
  IN  \/ owed <= Limit[c]
      \/ \E o \in BilledTo(c) : owed <= Limit[c] + bill[o].total - bill[o].subtotal

Solvent(c) ==
  Alone(BilledTo(c)) => Owes(BilledTo(c)) <= balance[c] /\ WithinLimit(c)

LimitInv == (\A o \in Orders : Checked(o)) /\ (\A c \in Customers : Solvent(c))

LEMMA LimitInit == Init => LimitInv
<1> SUFFICES ASSUME Init PROVE LimitInv
  OBVIOUS
<1>1. \A o \in Orders : Checked(o)
  BY DEF Init, Checked
<1>2. ASSUME NEW c \in Customers PROVE Solvent(c)
  <2>1. BilledTo(c) = {}
    BY DEF Init, BilledTo, Billed, NoInvoice
  <2>2. Owes(BilledTo(c)) = 0
    BY <2>1, SumNothing DEF Owes
  <2>3. balance[c] = 0 /\ Limit[c] >= 0
    BY LimitAssumption DEF Init
  <2> QED
    BY <2>2, <2>3 DEF Solvent, WithinLimit
<1> QED
  BY <1>1, <1>2 DEF LimitInv

LEMMA OwesInt ==
  ASSUME TypeOK, NEW S, S \subseteq Orders, IsFiniteSet(S)
  PROVE  Owes(S) \in Int
<1> DEFINE f == [o \in S |-> invoices[o].total - invoices[o].paid]
<1>1. \A o \in S : f[o] \in Int
  BY DEF TypeOK, Invoice
<1>2. DOMAIN f = S
  OBVIOUS
<1> HIDE DEF f
<1>3. SumFunction(f) \in Int
  BY <1>1, <1>2, SumInt DEF SumFunction
<1> QED
  BY <1>3 DEF Owes, f

(* Payments only lower what invoices owe. *)
LEMMA OwesLess ==
  ASSUME IInv, [Next]_vars, NEW S, S \subseteq Billed, IsFiniteSet(S)
  PROVE  Owes(S)' <= Owes(S) /\ Owes(S) \in Int /\ Owes(S)' \in Int
<1> DEFINE f == [o \in S |-> invoices[o].total - invoices[o].paid]
           g == [o \in S |-> invoices'[o].total - invoices'[o].paid]
<1>1. TypeOK /\ TypeOK' /\ S \subseteq Orders
  BY TypeOKStep DEF IInv, Billed
<1>2. \A o \in S : /\ invoices[o].total \in Int /\ invoices[o].paid \in Int
                   /\ invoices'[o].total \in Int /\ invoices'[o].paid \in Int
  BY <1>1 DEF TypeOK, Invoice
<1>3. \A o \in S : invoices'[o].total = invoices[o].total /\ invoices'[o].paid >= invoices[o].paid
  BY InvoicesGrow
<1>4. f \in [S -> Int] /\ g \in [S -> Int] /\ \A o \in S : g[o] <= f[o]
  BY <1>2, <1>3
<1>5. Owes(S) = SumFunction(f) /\ Owes(S)' = SumFunction(g)
  BY DEF Owes
<1>6. DOMAIN f = S /\ DOMAIN g = S
  OBVIOUS
<1> HIDE DEF f, g
<1>7. SumFunction(g) <= SumFunction(f)
  BY <1>4, SumAtMost
<1>8. SumFunction(f) \in Int /\ SumFunction(g) \in Int
  BY <1>4, <1>6, SumInt DEF SumFunction
<1> QED
  BY <1>5, <1>7, <1>8

LEMMA BilledStays ==
  ASSUME IInv, [Next]_vars
  PROVE  /\ Billed \subseteq Billed'
         /\ \A o \in Billed : known'[o] = known[o] /\ bill'[o] = bill[o]
<1>1. ASSUME NEW o \in Billed PROVE o \in Billed'
  <2>1. o \in Orders /\ invoices[o].status # "none"
    BY DEF Billed
  <2>2. CASE invoices'[o] = invoices[o]
    BY <2>1, <2>2 DEF Billed
  <2>3. ASSUME NEW p \in Payments, CommitPayment(p) PROVE o \in Billed'
    <3>1. /\ LoopInv(p)
          /\ invoices'[o] = IF CustomerOf[o] = CustomerOf[p] THEN draft[p][o] ELSE invoices[o]
      BY <2>1, <2>3, CommitWritesDraft
    <3>2. CustomerOf[o] = CustomerOf[p] => draft[p][o].status # "none"
      BY <2>1, <3>1 DEF LoopInv, Drafted
    <3> QED
      BY <2>1, <3>1, <3>2 DEF Billed
  <2> QED
    BY <2>1, <2>2, <2>3, InvoiceChanges
<1>2. ASSUME NEW o \in Billed PROVE known'[o] = known[o] /\ bill'[o] = bill[o]
  <2>1. o \in Orders /\ pc[o] = "done" /\ TypeOK
    BY DEF Billed, IInv, RowsOfDone
  <2>2. ASSUME NEW i \in Orders, LoadCustomer(i) PROVE known'[o] = known[o] /\ bill'[o] = bill[o]
    BY <2>1, <2>2 DEF LoadCustomer, TypeOK
  <2>3. ASSUME NEW i \in Orders, OrderStep(i) PROVE known' = known /\ bill' = bill
    BY <2>3 DEF OrderStep, PlaceOrder, CommitHold, RecordInvoiceCreated, CommitOrder, orderLocals
  <2>4. ASSUME NEW p \in Payments, InsertPayment(p) \/ PaymentStep(p)
        PROVE  known' = known /\ bill' = bill
    BY <2>4 DEF PaymentStep, InsertPayment, LockForPayment, SettleNext, CommitPayment, orderLocals
  <2>5. ASSUME NEW t \in Sessions, Fail(t) \/ DeadlockVictim(t) PROVE known' = known /\ bill' = bill
    BY <2>5 DEF Fail, DeadlockVictim, RollBack, orderLocals
  <2>6. CASE UNCHANGED vars
    BY <2>6 DEF vars, orderLocals
  <2> QED
    BY <2>2, <2>3, <2>4, <2>5, <2>6 DEF Next, Quiescent
<1> QED
  BY <1>1, <1>2

LEMMA AloneStays ==
  ASSUME IInv, [Next]_vars, NEW S, S \subseteq Billed
  PROVE  Alone(S)' <=> Alone(S)
BY BilledStays DEF Alone, Overlapped

(* What a step does to an order. *)
LEMMA OrderMoves ==
  ASSUME IInv, [Next]_vars, NEW o \in Orders
  PROVE  \/ LoadCustomer(o)
         \/ /\ known'[o] = known[o]
            /\ \/ pc'[o] \notin {"loaded", "placed", "billed"}
               \/ pc'[o] = pc[o] /\ seen'[o] = seen[o] /\ bill'[o] = bill[o]
               \/ /\ pc[o] = "loaded" /\ pc'[o] = "placed" /\ ~WouldExceed(o)
                  /\ seen'[o] = seen[o] /\ bill'[o] = bill[o]
               \/ /\ pc[o] = "placed" /\ pc'[o] = "billed"
                  /\ seen'[o] = seen[o] + bill[o].total /\ bill'[o] = bill[o]
<1> TypeOK /\ o \in Sessions
  BY DEF IInv
<1>1. ASSUME NEW i \in Orders, i # o, LoadCustomer(i)
      PROVE  pc'[o] = pc[o] /\ seen'[o] = seen[o] /\ bill'[o] = bill[o] /\ known'[o] = known[o]
  BY <1>1 DEF LoadCustomer, TypeOK
<1>2. ASSUME NEW i \in Orders, i # o, OrderStep(i)
      PROVE  pc'[o] = pc[o] /\ seen'[o] = seen[o] /\ bill'[o] = bill[o] /\ known'[o] = known[o]
  BY <1>2 DEF OrderStep, PlaceOrder, CommitHold, RecordInvoiceCreated, CommitOrder, orderLocals,
     TypeOK
<1>3. CASE PlaceOrder(o)
  <2>1. /\ pc[o] = "loaded" /\ known' = known /\ bill' = bill /\ seen' = seen
        /\ pc'[o] = IF WouldExceed(o) THEN "held" ELSE "placed"
    BY <1>3 DEF PlaceOrder, orderLocals, TypeOK
  <2> QED
    BY <2>1
<1>4. CASE RecordInvoiceCreated(o)
  BY <1>4 DEF RecordInvoiceCreated, orderLocals, TypeOK
<1>5. CASE CommitHold(o) \/ CommitOrder(o)
  <2>1. pc'[o] = "done" /\ known' = known
    BY <1>5 DEF CommitHold, CommitOrder, orderLocals, TypeOK
  <2> QED
    BY <2>1
<1>6. ASSUME NEW p \in Payments, InsertPayment(p) \/ PaymentStep(p)
      PROVE  pc'[o] = pc[o] /\ seen'[o] = seen[o] /\ bill'[o] = bill[o] /\ known'[o] = known[o]
  <2>1. p # o
    BY SessionsAssumption
  <2> QED
    BY <1>6, <2>1 DEF PaymentStep, InsertPayment, LockForPayment, SettleNext, CommitPayment,
       orderLocals, TypeOK
<1>7. ASSUME NEW t \in Sessions, Fail(t) \/ DeadlockVictim(t)
      PROVE  /\ known' = known /\ bill' = bill /\ seen' = seen
             /\ pc'[o] = pc[o] \/ pc'[o] = "failed"
  BY <1>7 DEF Fail, DeadlockVictim, RollBack, orderLocals, TypeOK
<1>8. CASE UNCHANGED vars
  BY <1>8 DEF vars, orderLocals
<1> QED
  BY <1>1, <1>2, <1>3, <1>4, <1>5, <1>6, <1>7, <1>8 DEF Next, Quiescent, OrderStep

LEMMA KnownFinite ==
  ASSUME BooksInv, NEW o \in Orders, known[o] \subseteq Billed
  PROVE  /\ KnownTo(o) \subseteq BilledTo(CustomerOf[o])
         /\ KnownTo(o) \subseteq Billed /\ IsFiniteSet(KnownTo(o))
<1>1. KnownTo(o) \subseteq BilledTo(CustomerOf[o]) /\ BilledTo(CustomerOf[o]) \subseteq Billed
  BY DEF KnownTo, BilledTo
<1>2. CustomerOf[o] \in Customers
  BY CustomerOfAssumption DEF Sessions
<1>3. IsFiniteSet(BilledTo(CustomerOf[o]))
  BY <1>2 DEF BooksInv, Books
<1> QED
  BY <1>1, <1>3, FS_Subset

(* What an order was checked on covers what it knows of for good, as it falls
   with payments only. *)
LEMMA CheckedStep ==
  ASSUME IInv, BooksInv, LimitInv, [Next]_vars, NEW o \in Orders
  PROVE  Checked(o)'
<1> DEFINE c == CustomerOf[o]
<1>1. /\ TypeOK /\ c \in Customers /\ Limit[c] \in Nat /\ Checked(o) /\ Solvent(c)
      /\ seen[o] \in Nat /\ bill[o].total \in Nat /\ bill[o].subtotal \in Nat
  BY CustomerOfAssumption, LimitAssumption DEF IInv, TypeOK, LimitInv, Sessions
<1>2. Billed \subseteq Billed'
  BY BilledStays
<1>3. CASE LoadCustomer(o)
  <2>1. /\ pc'[o] = "loaded" /\ seen'[o] = balance[c] /\ known'[o] = Billed
        /\ invoices' = invoices
    BY <1>1, <1>3 DEF LoadCustomer, TypeOK, tables
  <2>2. KnownTo(o)' = BilledTo(c)
    BY <2>1 DEF KnownTo, BilledTo
  <2>3. BilledTo(c) \subseteq Billed /\ (Alone(BilledTo(c))' <=> Alone(BilledTo(c)))
    <3>1. BilledTo(c)' = BilledTo(c) /\ BilledTo(c) \subseteq Billed
      BY <2>1 DEF BilledTo, Billed
    <3> QED
      BY <3>1, BilledStays DEF Alone, Overlapped
  <2>4. Owes(KnownTo(o))' = Owes(BilledTo(c))
    BY <2>1, <2>2 DEF Owes
  <2>5. Alone(KnownTo(o))' => Alone(BilledTo(c))
    <3>1. BilledTo(c)' = BilledTo(c)
      BY <2>1 DEF BilledTo, Billed
    <3> QED
      BY <2>2, <2>3, <3>1 DEF Alone
  <2>6. CheckedOn(o)' = balance[c]
    BY <2>1 DEF CheckedOn
  <2> QED
    BY <1>1, <1>2, <2>1, <2>4, <2>5, <2>6 DEF Checked, Solvent
<1>4. CASE known'[o] = known[o]
  <2>0. PICK K : K = KnownTo(o)
    OBVIOUS
  <2>1. K \subseteq Billed /\ IsFiniteSet(K) /\ KnownTo(o)' = K /\ known'[o] \subseteq Billed'
    BY <1>1, <1>2, <1>4, <2>0, KnownFinite DEF Checked, KnownTo
  <2>2. Owes(K)' <= Owes(K) /\ Owes(K) \in Int /\ Owes(K)' \in Int
    BY <2>1, OwesLess
  <2>3. (Alone(KnownTo(o))' => Alone(K)) /\ Owes(KnownTo(o))' <= Owes(K)
        /\ Owes(KnownTo(o))' \in Int /\ Owes(K) \in Int
    <3>1. Alone(KnownTo(o))' => Alone(K)
      BY <2>1, BilledStays DEF Alone, Overlapped
    <3>2. Owes(KnownTo(o))' = Owes(K)'
      BY <2>1 DEF Owes
    <3> QED
      BY <2>2, <3>1, <3>2
  <2>4. ASSUME pc'[o] \in {"loaded", "placed", "billed"}, pc[o] \in {"loaded", "placed", "billed"},
               CheckedOn(o)' = CheckedOn(o), CheckedOn(o) \in Int, bill'[o] = bill[o],
               pc'[o] \in {"placed", "billed"} =>
                 CheckedOn(o) + bill[o].subtotal <= Limit[c]
        PROVE  Checked(o)'
    <3>1. Alone(K) => Owes(K) <= CheckedOn(o)
      BY <1>1, <2>0, <2>4 DEF Checked
    <3>2. Alone(KnownTo(o))' => Owes(KnownTo(o))' <= CheckedOn(o)'
      BY <2>3, <2>4, <3>1
    <3> QED
      BY <2>1, <2>4, <3>2 DEF Checked
  <2>5. CASE pc'[o] \notin {"loaded", "placed", "billed"}
    BY <2>1, <2>5 DEF Checked
  <2>6. CASE pc'[o] \in {"loaded", "placed", "billed"} /\ pc'[o] = pc[o] /\ seen'[o] = seen[o]
             /\ bill'[o] = bill[o]
    <3>1. CheckedOn(o)' = CheckedOn(o) /\ CheckedOn(o) \in Int
      BY <1>1, <2>6 DEF CheckedOn
    <3>2. pc'[o] \in {"placed", "billed"} => CheckedOn(o) + bill[o].subtotal <= Limit[c]
      BY <1>1, <2>6 DEF Checked
    <3> QED
      BY <2>4, <2>6, <3>1, <3>2
  <2>7. CASE /\ pc[o] = "loaded" /\ pc'[o] = "placed" /\ ~WouldExceed(o)
             /\ seen'[o] = seen[o] /\ bill'[o] = bill[o]
    <3>1. CheckedOn(o)' = CheckedOn(o) /\ CheckedOn(o) = seen[o]
      BY <2>7 DEF CheckedOn
    <3>2. seen[o] + bill[o].subtotal <= Limit[c]
      BY <1>1, <2>7 DEF WouldExceed
    <3> QED
      BY <1>1, <2>4, <2>7, <3>1, <3>2
  <2>8. CASE /\ pc[o] = "placed" /\ pc'[o] = "billed"
             /\ seen'[o] = seen[o] + bill[o].total /\ bill'[o] = bill[o]
    <3>1. CheckedOn(o)' = CheckedOn(o) /\ CheckedOn(o) = seen[o]
      BY <1>1, <2>8 DEF CheckedOn
    <3>2. CheckedOn(o) + bill[o].subtotal <= Limit[c]
      BY <1>1, <2>8 DEF Checked
    <3> QED
      BY <1>1, <2>4, <2>8, <3>1, <3>2
  <2> QED
    BY <1>3, <2>5, <2>6, <2>7, <2>8, OrderMoves
<1> QED
  BY <1>3, <1>4, OrderMoves

(* Steps that add no invoice, lower no balance and do not touch the limit. *)
LEMMA SolventStays ==
  ASSUME IInv, BooksInv, LimitInv, [Next]_vars, NEW c \in Customers,
         BilledTo(c)' = BilledTo(c), balance'[c] = balance[c]
  PROVE  Solvent(c)'
<1>1. PICK B : B = BilledTo(c)
  OBVIOUS
<1>2. /\ B \subseteq Billed /\ IsFiniteSet(B) /\ BilledTo(c)' = B /\ Limit[c] \in Nat
      /\ balance[c] \in Nat /\ Solvent(c)
  BY <1>1, LimitAssumption DEF BilledTo, BooksInv, Books, LimitInv, IInv, TypeOK
<1>3. Owes(B)' <= Owes(B) /\ Owes(B) \in Int /\ Owes(B)' \in Int
  BY <1>2, OwesLess
<1>4. (Alone(B)' <=> Alone(B)) /\ \A o \in B : bill'[o] = bill[o] /\ bill[o] \in [subtotal : Nat, total : Nat]
  BY <1>2, AloneStays, BilledStays DEF IInv, TypeOK, Billed
<1>5. Alone(B) => Owes(B) <= balance[c] /\ WithinLimit(c)
  BY <1>1, <1>2 DEF Solvent
<1>6. /\ Owes(BilledTo(c))' = Owes(B)'
      /\ Alone(BilledTo(c))' <=> Alone(B)'
      /\ Owes(BilledTo(c)) = Owes(B)
  BY <1>1, <1>2 DEF Owes, Alone
<1>7. WithinLimit(c) => WithinLimit(c)'
  <2>1. CASE Owes(B) <= Limit[c]
    BY <1>2, <1>3, <1>6, <2>1 DEF WithinLimit
  <2>2. ASSUME NEW o \in B, Owes(B) <= Limit[c] + bill[o].total - bill[o].subtotal
        PROVE  WithinLimit(c)'
    <3>1. Owes(B)' <= Limit[c] + bill'[o].total - bill'[o].subtotal
      BY <1>2, <1>3, <1>4, <2>2
    <3> QED
      BY <1>2, <1>6, <3>1 DEF WithinLimit
  <2> QED
    BY <1>1, <2>1, <2>2 DEF WithinLimit
<1>8. Alone(B) => Owes(B)' <= balance'[c]
  BY <1>2, <1>3, <1>5
<1> QED
  BY <1>4, <1>5, <1>6, <1>7, <1>8 DEF Solvent

(* The newest of orders that do not overlap knows of all the others. *)
LEMMA OrderSolvent ==
  ASSUME IInv, BooksInv, LimitInv, [Next]_vars, NEW o \in Orders, CommitOrder(o)
  PROVE  Solvent(CustomerOf[o])'
<1>0. PICK c : c = CustomerOf[o]
  OBVIOUS
<1>1. PICK B : B = BilledTo(c)
  OBVIOUS
<1>2. /\ TypeOK /\ c \in Customers /\ Limit[c] \in Nat /\ Checked(o) /\ Solvent(c) /\ Books(c)
      /\ seen[o] \in Nat /\ bill[o].total \in Nat /\ bill[o].subtotal \in Nat
      /\ balance[c] \in Nat
  BY <1>0, CustomerOfAssumption, LimitAssumption DEF IInv, TypeOK, LimitInv, BooksInv, Sessions
<1>3. PICK t \in Nat : t = bill[o].total
  BY <1>2
<1>4. /\ balance'[c] = IF t = 0 THEN balance[c] ELSE seen[o]
      /\ invoices'[o] = [status |-> "ISSUED", total |-> t, paid |-> 0, due |-> t]
      /\ \A i \in Orders : i # o => invoices'[i] = invoices[i]
      /\ pc[o] = "billed" /\ known' = known /\ bill' = bill
  BY <1>0, <1>2, <1>3 DEF CommitOrder, WrittenBalance, TypeOK, orderLocals
<1>5. BilledTo(c)' = B \cup {o} /\ o \notin B /\ o \notin Billed /\ B \subseteq Billed
      /\ B \subseteq Orders
  BY <1>0, <1>1, <1>4 DEF BilledTo, Billed, IInv, RowsOfDone
<1>6. IsFiniteSet(B)
  BY <1>1, <1>2 DEF Books
<1>7. Owes(BilledTo(c))' = Owes(B) + t /\ Owes(B) \in Int
  <2> DEFINE f == [i \in B |-> invoices[i].total - invoices[i].paid]
             g == [i \in B \cup {o} |-> invoices'[i].total - invoices'[i].paid]
  <2>1. \A i \in B : invoices[i].total - invoices[i].paid \in Int /\ invoices'[i] = invoices[i]
    <3>1. \A i \in B : i # o /\ invoices[i] \in Invoice
      BY <1>2, <1>5 DEF TypeOK
    <3> QED
      BY <1>4, <1>5, <3>1 DEF Invoice
  <2>2. g[o] = t /\ t \in Int
    BY <1>4
  <2>3. \A i \in B : g[i] = f[i]
    BY <2>1
  <2>4. f \in [B -> Int]
    BY <2>1
  <2>5. g \in [B \cup {o} -> Int]
    BY <2>1, <2>2
  <2>6. Owes(BilledTo(c))' = SumFunction(g) /\ Owes(B) = SumFunction(f)
    BY <1>5 DEF Owes
  <2> HIDE DEF f, g
  <2>7. SumFunction(g) = SumFunction(f) + g[o] /\ SumFunction(f) \in Int
    BY ONLY <1>5, <1>6, <2>3, <2>4, <2>5, SumNext
  <2> QED
    BY <2>2, <2>6, <2>7
<1>8. SUFFICES ASSUME Alone(BilledTo(c))'
               PROVE  Owes(BilledTo(c))' <= balance'[c] /\ WithinLimit(c)'
  BY <1>0 DEF Solvent
<1>9. \A i, j \in B \cup {o} : ~Overlapped(i, j)
  BY <1>4, <1>5, <1>8 DEF Alone, Overlapped
<1>10. Alone(B)
  BY <1>9 DEF Alone
<1>11. KnownTo(o) = B
  <2>1. KnownTo(o) \subseteq B
    BY <1>0, <1>1, <1>2 DEF Checked, KnownTo, BilledTo
  <2>2. ASSUME NEW i \in B PROVE i \in KnownTo(o)
    <3>1. known[i] \subseteq Billed /\ i # o
      BY <1>5 DEF LimitInv, Checked
    <3>2. i \in known[o]
      BY <1>5, <1>9, <3>1 DEF Overlapped
    <3> QED
      BY <1>0, <1>1, <3>2 DEF KnownTo, BilledTo
  <2> QED
    BY <2>1, <2>2
<1>12. Owes(B) <= seen[o] - t /\ seen[o] - t + bill[o].subtotal <= Limit[c]
  BY <1>0, <1>2, <1>3, <1>4, <1>10, <1>11 DEF Checked, CheckedOn
<1>13. Owes(B) <= balance[c]
  BY <1>1, <1>2, <1>10 DEF Solvent
<1>14. Owes(BilledTo(c))' <= balance'[c]
  BY <1>2, <1>4, <1>7, <1>12, <1>13
<1>15. Owes(BilledTo(c))' <= Limit[c] + bill[o].total - bill[o].subtotal
  BY <1>2, <1>3, <1>7, <1>12
<1>16. WithinLimit(c)'
  BY <1>4, <1>5, <1>15 DEF WithinLimit
<1> QED
  BY <1>14, <1>16

(* A payment takes from the balance what it puts on the invoices. *)
LEMMA PaymentSolvent ==
  ASSUME IInv, BooksInv, LimitInv, [Next]_vars, NEW p \in Payments, CommitPayment(p)
  PROVE  Solvent(CustomerOf[p])'
<1>0. PICK c : c = CustomerOf[p]
  OBVIOUS
<1>1. PICK B : B = BilledTo(c)
  OBVIOUS
<1>2. /\ TypeOK /\ c \in Customers /\ Limit[c] \in Nat /\ Solvent(c) /\ Books(c) /\ LoopInv(p)
      /\ SettledInDraft(p)
  BY <1>0, CustomerOfAssumption, LimitAssumption, CommitWritesDraft
  DEF IInv, LimitInv, BooksInv, Sessions, CommitPayment
<1>3. /\ Settled(p) \in Int /\ seen[p] = balance[c] /\ balance[c] \in Nat
      /\ receipt[p] \in Nat /\ remaining[p] \in Nat
  BY <1>0, <1>2 DEF Settled, TypeOK, LoopInv
<1>4. /\ balance'[c] = ReducedBalance(p)
      /\ \A i \in Orders : CustomerOf[i] = c => invoices'[i] = draft[p][i]
      /\ known' = known /\ bill' = bill
  BY <1>0, <1>2 DEF CommitPayment, TypeOK, orderLocals
<1>5. \A i \in Orders : CustomerOf[i] = c =>
        /\ draft[p][i].total = invoices[i].total
        /\ draft[p][i].status # "none" <=> invoices[i].status # "none"
  BY <1>0, <1>2 DEF LoopInv, Drafted, Visited, OpenInvoices
<1>6. BilledTo(c)' = B /\ B \subseteq Billed /\ IsFiniteSet(B)
  BY <1>1, <1>2, <1>4, <1>5 DEF BilledTo, Billed, Books
<1>7. Owes(B)' <= Owes(B) /\ Owes(B) \in Int /\ Owes(B)' \in Int
  BY <1>6, OwesLess
<1>8. Owes(B)' = Owes(B) - Settled(p)
  <2>1. /\ Total(c) = [i \in B |-> invoices[i].total] /\ Paid(c) = [i \in B |-> invoices[i].paid]
        /\ DraftPaid(p) = [i \in B |-> draft[p][i].paid]
    BY <1>0, <1>1 DEF Total, Paid, DraftPaid
  <2>2. Total(c) \in [B -> Int] /\ Paid(c) \in [B -> Int]
    BY <1>1, <1>2, BooksTypes
  <2>3. \A i \in B : /\ invoices'[i].total = invoices[i].total
                     /\ invoices'[i].paid = draft[p][i].paid
    BY <1>1, <1>4, <1>5 DEF BilledTo, Billed
  <2>4. DraftPaid(p) \in [B -> Int]
    <3>1. \A i \in B : draft[p][i] \in Invoice
      BY <1>1, <1>2 DEF TypeOK, BilledTo, Billed
    <3> QED
      BY <2>1, <3>1 DEF Invoice
  <2>5. [i \in B |-> invoices[i].total - invoices[i].paid] = [i \in B |-> Total(c)[i] - Paid(c)[i]]
    BY <2>1
  <2>6. [i \in B |-> invoices'[i].total - invoices'[i].paid] =
          [i \in B |-> Total(c)[i] - DraftPaid(p)[i]]
    BY <2>1, <2>3
  <2>7. Owes(B) = SumFunction(Total(c)) - SumFunction(Paid(c))
    BY <1>6, <2>2, <2>5, SumMinus DEF Owes
  <2>8. Owes(B)' = SumFunction(Total(c)) - SumFunction(DraftPaid(p))
    BY <1>6, <2>2, <2>4, <2>6, SumMinus DEF Owes
  <2>9. SumFunction(DraftPaid(p)) = SumFunction(Paid(c)) + receipt[p] - remaining[p]
    BY <1>0, <1>2 DEF SettledInDraft
  <2>10. SumFunction(Paid(c)) \in Int /\ SumFunction(Total(c)) \in Int
    BY <1>2, BooksTypes, SumInt DEF SumFunction, Books
  <2> QED
    BY <1>3, <2>7, <2>8, <2>9, <2>10 DEF Settled
<1>9. /\ Owes(BilledTo(c))' = Owes(B)'
      /\ Alone(BilledTo(c))' <=> Alone(B)'
      /\ Alone(B)' <=> Alone(B)
  BY <1>6, AloneStays DEF Owes, Alone
<1>10. Alone(B) => Owes(B) <= balance[c] /\ WithinLimit(c)
  BY <1>1, <1>2 DEF Solvent
<1>11. Alone(B) => Owes(B)' <= balance'[c]
  BY <1>3, <1>4, <1>7, <1>8, <1>10 DEF ReducedBalance
<1>12. WithinLimit(c) => WithinLimit(c)'
  <2>1. \A o \in B : bill[o] \in [subtotal : Nat, total : Nat]
    BY <1>2, <1>6 DEF TypeOK, Billed
  <2>2. CASE Owes(B) <= Limit[c]
    BY <1>2, <1>7, <1>9, <2>2 DEF WithinLimit
  <2>3. ASSUME NEW o \in B, Owes(B) <= Limit[c] + bill[o].total - bill[o].subtotal
        PROVE  WithinLimit(c)'
    <3>1. Owes(B)' <= Limit[c] + bill'[o].total - bill'[o].subtotal
      BY <1>2, <1>4, <1>7, <2>1, <2>3
    <3> QED
      BY <1>6, <1>9, <3>1 DEF WithinLimit
  <2> QED
    BY <1>1, <2>2, <2>3 DEF WithinLimit
<1> QED
  BY <1>0, <1>9, <1>10, <1>11, <1>12 DEF Solvent

LEMMA LimitStep == IInv /\ BooksInv /\ LimitInv /\ [Next]_vars => LimitInv'
<1> SUFFICES ASSUME IInv, BooksInv, LimitInv, [Next]_vars PROVE LimitInv'
  OBVIOUS
<1>1. \A o \in Orders : Checked(o)'
  BY CheckedStep
<1>2. ASSUME NEW c \in Customers PROVE Solvent(c)'
  <2>1. ASSUME invoices' = invoices, balance' = balance PROVE Solvent(c)'
    <3>1. BilledTo(c)' = BilledTo(c)
      BY <2>1 DEF BilledTo, Billed
    <3> QED
      BY <2>1, <3>1, SolventStays
  <2>2. ASSUME NEW o \in Orders, CommitOrder(o) PROVE Solvent(c)'
    <3>1. CASE c = CustomerOf[o]
      BY <2>2, <3>1, OrderSolvent
    <3>2. CASE c # CustomerOf[o]
      <4>1. /\ \A i \in Orders : CustomerOf[i] = c => invoices'[i] = invoices[i]
            /\ balance'[c] = balance[c]
        BY <2>2, <3>2 DEF CommitOrder, IInv, TypeOK
      <4>2. BilledTo(c)' = BilledTo(c)
        BY <4>1 DEF BilledTo, Billed
      <4> QED
        BY <4>1, <4>2, SolventStays
    <3> QED
      BY <3>1, <3>2
  <2>3. ASSUME NEW p \in Payments, CommitPayment(p) PROVE Solvent(c)'
    <3>1. CASE c = CustomerOf[p]
      BY <2>3, <3>1, PaymentSolvent
    <3>2. CASE c # CustomerOf[p]
      <4>1. /\ \A i \in Orders : CustomerOf[i] = c => invoices'[i] = invoices[i]
            /\ balance'[c] = balance[c]
        BY <2>3, <3>2 DEF CommitPayment, IInv, TypeOK
      <4>2. BilledTo(c)' = BilledTo(c)
        BY <4>1 DEF BilledTo, Billed
      <4> QED
        BY <4>1, <4>2, SolventStays
    <3> QED
      BY <3>1, <3>2
  <2>4. ASSUME NEW o \in Orders,
               LoadCustomer(o) \/ PlaceOrder(o) \/ CommitHold(o) \/ RecordInvoiceCreated(o)
        PROVE  invoices' = invoices /\ balance' = balance
    BY <2>4 DEF LoadCustomer, PlaceOrder, CommitHold, RecordInvoiceCreated, tables
  <2>5. ASSUME NEW p \in Payments, InsertPayment(p) \/ LockForPayment(p) \/ SettleNext(p)
        PROVE  invoices' = invoices /\ balance' = balance
    BY <2>5 DEF InsertPayment, LockForPayment, SettleNext, tables
  <2>6. ASSUME NEW s \in Sessions, Fail(s) \/ DeadlockVictim(s)
        PROVE  invoices' = invoices /\ balance' = balance
    BY <2>6 DEF Fail, DeadlockVictim, RollBack, tables
  <2>7. CASE UNCHANGED vars
    BY <2>1, <2>7 DEF vars, tables
  <2> QED
    BY <2>1, <2>2, <2>3, <2>4, <2>5, <2>6, <2>7 DEF Next, OrderStep, PaymentStep, Quiescent
<1> QED
  BY <1>1, <1>2 DEF LimitInv

LEMMA LimitIsKept == LimitInv => OnlyOverlapPassesLimit
<1> SUFFICES ASSUME LimitInv, NEW c \in Customers
             PROVE  \/ Owes(BilledTo(c)) <= Limit[c]
                    \/ \E o \in BilledTo(c) :
                         Owes(BilledTo(c)) <= Limit[c] + bill[o].total - bill[o].subtotal
                    \/ \E o, i \in BilledTo(c) : Overlapped(o, i)
  BY DEF OnlyOverlapPassesLimit, Owes
<1> QED
  BY DEF LimitInv, Solvent, WithinLimit, Alone

(* For any limits and amounts, a customer whose orders did not overlap owes no
   more than the limit and the tax of one order. *)
THEOREM LimitHolds == Spec => []OnlyOverlapPassesLimit
BY Invariance, BooksInit, BooksStep, LimitInit, LimitStep, LimitIsKept, PTL DEF Spec

====
