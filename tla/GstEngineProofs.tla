---- MODULE GstEngineProofs ----
(***************************************************************************)
(* Proofs about GstEngine for any table of rates taken from the slabs, any  *)
(* items and any states.  Since a rate is one of five numbers, what rounding *)
(* does to a line is linear arithmetic in each of five cases.               *)
(***************************************************************************)
EXTENDS GstEngine, FiniteSetTheorems, SequenceTheorems, WellFoundedInduction, TLAPS

----
(* Sums over the domain of a function: SumFunction unfolds into a function
   iter on the finite subsets of the domain that takes the chosen elements away
   one by one.  The lemmas look at a smallest set that is an exception. *)

Chosen(s) == CHOOSE x \in s : TRUE

(* iter is that function for f, on the subsets of S that are in sets. *)
Iterates(iter, f, sets) ==
  iter = [s \in sets |-> IF s = {} THEN 0 ELSE f[Chosen(s)] + iter[s \ {Chosen(s)}]]

LEMMA LeastNatural ==
  ASSUME NEW T \in SUBSET Nat, T # {}
  PROVE  \E n \in T : \A m \in T : n <= m
<1> DEFINE R == OpToRel(<, Nat)
<1>1. IsWellFoundedOn(R, Nat)
  BY NatLessThanWellFounded
<1>2. \A m, n \in Nat : m < n => <<m, n>> \in R
  BY DEF OpToRel
<1> HIDE DEF R
<1>3. PICK n \in T : \A m \in T : <<m, n>> \notin R
  BY <1>1, WFMin
<1>4. ASSUME NEW m \in T PROVE n <= m
  <2>1. m \in Nat /\ n \in Nat
    OBVIOUS
  <2>2. ~(m < n)
    BY <1>2, <1>3, <2>1
  <2> QED
    BY <2>1, <2>2
<1> QED
  BY <1>4

(* A family of finite sets is all of subsets, or leaves out a smallest one. *)
LEMMA SmallestSet ==
  ASSUME NEW S, IsFiniteSet(S), NEW good, \E s \in SUBSET S : s \notin good
  PROVE  \E s \in SUBSET S : /\ s \notin good /\ IsFiniteSet(s)
                             /\ \A x \in s : s \ {x} \in good
<1> DEFINE sizes == {Cardinality(s) : s \in (SUBSET S) \ good}
<1>1. \A s \in SUBSET S : IsFiniteSet(s) /\ Cardinality(s) \in Nat
  BY FS_Subset, FS_CardinalityType
<1>2. sizes \in SUBSET Nat /\ sizes # {}
  BY <1>1
<1>3. PICK n \in sizes : \A m \in sizes : n <= m
  BY <1>2, LeastNatural
<1>4. PICK s \in (SUBSET S) \ good : Cardinality(s) = n
  BY <1>3
<1>5. ASSUME NEW x \in s PROVE s \ {x} \in good
  <2>1. Cardinality(s \ {x}) = Cardinality(s) - 1
    BY <1>1, FS_RemoveElement
  <2>2. Cardinality(s \ {x}) \notin sizes
    BY <1>1, <1>3, <1>4, <2>1
  <2> QED
    BY <2>2
<1>6. s \in SUBSET S /\ s \notin good /\ IsFiniteSet(s)
  <2>1. s \in SUBSET S /\ s \notin good
    OBVIOUS
  <2> QED
    BY <1>1, <2>1
<1> QED
  BY <1>5, <1>6, Zenon

LEMMA ChosenIn == \A s : s # {} => Chosen(s) \in s
BY DEF Chosen

LEMMA IterUnique ==
  ASSUME NEW f, NEW S, IsFiniteSet(S), NEW T, S \subseteq T, NEW g, NEW h,
         Iterates(g, f, SUBSET S), Iterates(h, f, SUBSET T)
  PROVE  g[S] = h[S]
<1> DEFINE good == {s \in SUBSET S : g[s] = h[s]}
<1> SUFFICES ASSUME S \notin good PROVE FALSE
  OBVIOUS
<1>1. PICK s \in SUBSET S :
        s \notin good /\ IsFiniteSet(s) /\ \A x \in s : s \ {x} \in good
  <2>1. \E s \in SUBSET S : s \notin good
    OBVIOUS
  <2> HIDE DEF good
  <2> QED
    BY <2>1, SmallestSet
<1>2. /\ g[s] = IF s = {} THEN 0 ELSE f[Chosen(s)] + g[s \ {Chosen(s)}]
      /\ h[s] = IF s = {} THEN 0 ELSE f[Chosen(s)] + h[s \ {Chosen(s)}]
  BY DEF Iterates
<1> QED
  BY <1>1, <1>2, ChosenIn

LEMMA IterExists ==
  ASSUME NEW f, NEW S, IsFiniteSet(S)
  PROVE  \E g : Iterates(g, f, SUBSET S)
<1> DEFINE upTo(n) == {s \in SUBSET S : Cardinality(s) <= n}
           bad == {n \in Nat : ~\E g : Iterates(g, f, upTo(n))}
<1>1. \A s \in SUBSET S : IsFiniteSet(s) /\ Cardinality(s) \in Nat
  BY FS_Subset, FS_CardinalityType
<1>2. ASSUME bad # {} PROVE FALSE
  <2>1. PICK n \in bad : \A m \in bad : n <= m
    BY <1>2, LeastNatural
  <2>2. CASE n = 0
    <3> DEFINE g == [s \in upTo(0) |-> IF s = {} THEN 0 ELSE f[Chosen(s)]]
    <3>1. \A s \in upTo(0) : s = {}
      BY <1>1, FS_EmptySet
    <3>2. Iterates(g, f, upTo(0))
      BY <3>1 DEF Iterates
    <3> QED
      BY <2>1, <2>2, <3>2
  <2>3. CASE n > 0
    <3>1. n - 1 \in Nat /\ n - 1 \notin bad
      <4>1. n \in Nat
        BY <2>1
      <4> HIDE DEF bad
      <4> QED
        BY <2>1, <2>3, <4>1
    <3>2. PICK h : Iterates(h, f, upTo(n - 1))
      BY <3>1
    <3> DEFINE g == [s \in upTo(n) |->
                       IF s = {} THEN 0 ELSE f[Chosen(s)] + h[s \ {Chosen(s)}]]
    <3>3. ASSUME NEW s \in upTo(n - 1)
          PROVE  s \in upTo(n) /\ g[s] = h[s]
      <4>1. s \in upTo(n)
        BY <1>1, <2>1
      <4>2. h[s] = IF s = {} THEN 0 ELSE f[Chosen(s)] + h[s \ {Chosen(s)}]
        BY <3>2 DEF Iterates
      <4> QED
        BY <4>1, <4>2
    <3>4. ASSUME NEW s \in upTo(n), s # {} PROVE s \ {Chosen(s)} \in upTo(n - 1)
      BY <1>1, <2>1, <3>4, ChosenIn, FS_RemoveElement
    <3>5. ASSUME NEW s \in upTo(n)
          PROVE  g[s] = IF s = {} THEN 0 ELSE f[Chosen(s)] + g[s \ {Chosen(s)}]
      BY <3>3, <3>4
    <3>6. Iterates(g, f, upTo(n))
      <4>1. g = [s \in upTo(n) |-> g[s]]
        OBVIOUS
      <4> HIDE DEF g
      <4> QED
        BY <3>5, <4>1 DEF Iterates
    <3> QED
      BY <2>1, <3>6
  <2> QED
    BY <2>1, <2>2, <2>3
<1>3. upTo(Cardinality(S)) = SUBSET S
  BY <1>1, FS_Subset
<1>4. Cardinality(S) \in Nat \ bad
  BY <1>1, <1>2
<1> QED
  BY <1>3, <1>4

LEMMA SumIterates ==
  ASSUME NEW f, NEW S, IsFiniteSet(S)
  PROVE  \E g : Iterates(g, f, SUBSET S) /\ SumFunctionOnSet(f, S) = g[S]
<1> DEFINE g == CHOOSE h : Iterates(h, f, SUBSET S)
<1>1. Iterates(g, f, SUBSET S)
  BY IterExists, Zenon
<1>2. SumFunctionOnSet(f, S) = g[S]
  BY DEF SumFunctionOnSet, FoldFunctionOnSet, MapThenFoldSet, Iterates, Chosen
<1> QED
  BY <1>1, <1>2, Zenon

LEMMA SumEmpty == ASSUME NEW f PROVE SumFunctionOnSet(f, {}) = 0
<1>1. PICK g : Iterates(g, f, SUBSET {}) /\ SumFunctionOnSet(f, {}) = g[{}]
  BY SumIterates, FS_EmptySet
<1> QED
  BY <1>1 DEF Iterates

LEMMA SumChosen ==
  ASSUME NEW f, NEW S, IsFiniteSet(S), S # {}
  PROVE  SumFunctionOnSet(f, S) = f[Chosen(S)] + SumFunctionOnSet(f, S \ {Chosen(S)})
<1> DEFINE x == Chosen(S)
<1>1. x \in S /\ IsFiniteSet(S \ {x})
  BY ChosenIn, FS_RemoveElement
<1>2. PICK g : Iterates(g, f, SUBSET S) /\ SumFunctionOnSet(f, S) = g[S]
  BY SumIterates
<1>3. PICK h : /\ Iterates(h, f, SUBSET (S \ {x}))
               /\ SumFunctionOnSet(f, S \ {x}) = h[S \ {x}]
  BY <1>1, SumIterates
<1>4. g[S] = f[x] + g[S \ {x}]
  BY <1>2 DEF Iterates
<1>5. h[S \ {x}] = g[S \ {x}]
  <2>1. S \ {x} \subseteq S
    OBVIOUS
  <2> QED
    BY <1>1, <1>2, <1>3, <2>1, IterUnique
<1> QED
  BY <1>2, <1>3, <1>4, <1>5

LEMMA SumInt ==
  ASSUME NEW f, NEW S, IsFiniteSet(S), \A x \in S : f[x] \in Int
  PROVE  SumFunctionOnSet(f, S) \in Int
<1> DEFINE good == {s \in SUBSET S : SumFunctionOnSet(f, s) \in Int}
<1> SUFFICES ASSUME S \notin good PROVE FALSE
  OBVIOUS
<1>1. PICK s \in SUBSET S : s \notin good /\ IsFiniteSet(s) /\ \A x \in s : s \ {x} \in good
  <2>1. \E s \in SUBSET S : s \notin good
    OBVIOUS
  <2> HIDE DEF good
  <2> QED
    BY <2>1, SmallestSet
<1>2. s # {}
  BY <1>1, SumEmpty
<1>3. Chosen(s) \in s /\ SumFunctionOnSet(f, s \ {Chosen(s)}) \in Int
  BY <1>1, <1>2, ChosenIn
<1>4. SumFunctionOnSet(f, s) = f[Chosen(s)] + SumFunctionOnSet(f, s \ {Chosen(s)})
  BY <1>1, <1>2, SumChosen
<1> QED
  BY <1>1, <1>3, <1>4

(* Any element may be taken first. *)
LEMMA SumMember ==
  ASSUME NEW f, NEW S, IsFiniteSet(S), \A x \in S : f[x] \in Int
  PROVE  \A x \in S : SumFunctionOnSet(f, S) = f[x] + SumFunctionOnSet(f, S \ {x})
<1> DEFINE T(s) == SumFunctionOnSet(f, s)
           good == {s \in SUBSET S : \A x \in s : T(s) = f[x] + T(s \ {x})}
<1> SUFFICES ASSUME S \notin good PROVE FALSE
  OBVIOUS
<1>1. PICK s \in SUBSET S : s \notin good /\ IsFiniteSet(s) /\ \A x \in s : s \ {x} \in good
  <2>1. \E s \in SUBSET S : s \notin good
    OBVIOUS
  <2> HIDE DEF good
  <2> QED
    BY <2>1, SmallestSet
<1>2. PICK x \in s : T(s) # f[x] + T(s \ {x})
  BY <1>1
<1> DEFINE y == Chosen(s)
<1>3. y \in s /\ T(s) = f[y] + T(s \ {y})
  BY <1>1, ChosenIn, SumChosen
<1>4. x # y
  BY <1>2, <1>3
<1>5. T(s \ {y}) = f[x] + T((s \ {y}) \ {x})
  BY <1>1, <1>3, <1>4
<1>6. T(s \ {x}) = f[y] + T((s \ {x}) \ {y})
  BY <1>1, <1>3, <1>4
<1> DEFINE rest == (s \ {x}) \ {y}
<1>7. (s \ {y}) \ {x} = rest /\ IsFiniteSet(rest)
  BY <1>1, FS_RemoveElement
<1>8. T(rest) \in Int /\ f[x] \in Int /\ f[y] \in Int
  BY <1>3, <1>7, SumInt
<1>9. T(s) = f[y] + (f[x] + T(rest)) /\ T(s \ {x}) = f[y] + T(rest)
  BY <1>3, <1>5, <1>6, <1>7
<1> HIDE DEF T, y, rest, good
<1>10. T(s) = f[x] + T(s \ {x})
  BY <1>8, <1>9
<1> QED
  BY <1>2, <1>10

LEMMA SumSame ==
  ASSUME NEW f, NEW g, NEW S, IsFiniteSet(S), \A x \in S : f[x] = g[x]
  PROVE  SumFunctionOnSet(f, S) = SumFunctionOnSet(g, S)
<1> DEFINE good == {s \in SUBSET S : SumFunctionOnSet(f, s) = SumFunctionOnSet(g, s)}
<1> SUFFICES ASSUME S \notin good PROVE FALSE
  OBVIOUS
<1>1. PICK s \in SUBSET S : s \notin good /\ IsFiniteSet(s) /\ \A x \in s : s \ {x} \in good
  <2>1. \E s \in SUBSET S : s \notin good
    OBVIOUS
  <2> HIDE DEF good
  <2> QED
    BY <2>1, SmallestSet
<1>2. s # {}
  BY <1>1, SumEmpty
<1>3. f[Chosen(s)] = g[Chosen(s)] /\ s \ {Chosen(s)} \in good
  BY <1>1, <1>2, ChosenIn
<1>4. SumFunctionOnSet(f, s) = f[Chosen(s)] + SumFunctionOnSet(f, s \ {Chosen(s)})
  BY <1>1, <1>2, SumChosen
<1>5. SumFunctionOnSet(g, s) = g[Chosen(s)] + SumFunctionOnSet(g, s \ {Chosen(s)})
  BY <1>1, <1>2, SumChosen
<1> QED
  BY <1>1, <1>3, <1>4, <1>5

(* One more value. *)
LEMMA SumNext ==
  ASSUME NEW S, IsFiniteSet(S), NEW x, x \notin S,
         NEW f \in [S -> Int], NEW g \in [S \cup {x} -> Int], \A y \in S : g[y] = f[y]
  PROVE  SumFunction(g) = SumFunction(f) + g[x] /\ SumFunction(f) \in Int
<1>1. IsFiniteSet(S \cup {x}) /\ (S \cup {x}) \ {x} = S
  BY FS_AddElement
<1>2. SumFunctionOnSet(g, S \cup {x}) = g[x] + SumFunctionOnSet(g, S)
  BY <1>1, SumMember
<1>3. SumFunctionOnSet(g, S) = SumFunctionOnSet(f, S)
  BY SumSame
<1>4. SumFunctionOnSet(f, S) \in Int
  BY SumInt
<1> QED
  BY <1>2, <1>3, <1>4 DEF SumFunction

----
(* Rounding. *)

LEMMA RoundedToPaise ==
  ASSUME NEW n \in Nat
  PROVE  /\ Round(n, 10) \in Nat
         /\ 10 * Round(n, 10) <= n + 5
         /\ n <= 10 * Round(n, 10) + 5
BY DEF Round

LEMMA RoundedTax ==
  ASSUME NEW n \in Nat
  PROVE  /\ Round(n, 10000) \in Nat
         /\ 10000 * Round(n, 10000) <= n + 5000
         /\ n <= 10000 * Round(n, 10000) + 5000
BY DEF Round

LEMMA HalvesAreExact ==
  ASSUME NEW rate \in Slabs
  PROVE  HalfRate(rate) \in Nat /\ 2 * HalfRate(rate) = rate
BY DEF HalfRate, Round, Slabs

----
(* One line. *)

LEMMA CodeType ==
  ASSUME NEW item \in Items
  PROVE  ResolvedHsn(item) \in Seq(Nat)
BY ItemsAssumption, CodesAssumption DEF ResolvedHsn, HsnForProduct, Fallback, NoCode

LEMMA RateType ==
  ASSUME NEW code \in Seq(Nat)
  PROVE  GstRate(code) \in Slabs
<1> DEFINE tried == {code, Prefix(code, 2), Prefix(code, 1)}
           known == {c \in tried : c \in DOMAIN Rates}
           longest(c) == c \in known /\ \A d \in known : Len(d) <= Len(c)
<1>1. CASE known = {}
  BY <1>1 DEF GstRate, Slabs
<1>2. CASE known # {}
  <2>1. \A c \in known : Len(c) \in Nat
    BY CodesAssumption
  <2>2. \E c : longest(c)
    <3> DEFINE a == code
               b == Prefix(code, 2)
               e == Prefix(code, 1)
    <3>1. known \subseteq {a, b, e}
      OBVIOUS
    <3> HIDE DEF known, a, b, e
    <3> QED
      BY <1>2, <2>1, <3>1
  <2>3. (CHOOSE c \in known : \A d \in known : Len(d) <= Len(c)) \in known
    BY <2>2
  <2> QED
    BY <1>2, <2>3, RatesAssumption DEF GstRate
<1> QED
  BY <1>1, <1>2

LEMMA LineType ==
  ASSUME NEW item \in Items, NEW inter \in BOOLEAN
  PROVE  Breakdown(item, inter) \in Line
<1> DEFINE rate == GstRate(ResolvedHsn(item))
           taxable == Taxable(item)
<1>1. rate \in Slabs /\ rate \in Nat /\ HalfRate(rate) \in Nat
  BY CodeType, RateType, HalvesAreExact DEF Slabs
<1>2. taxable \in Nat
  <2>1. item.price * item.quantity \in Nat
    BY ItemsAssumption
  <2> QED
    BY <2>1, RoundedToPaise DEF Taxable
<1>3. taxable * rate \in Nat /\ taxable * HalfRate(rate) \in Nat
  BY <1>1, <1>2
<1>4. Tax(taxable, rate) \in Nat /\ Tax(taxable, HalfRate(rate)) \in Nat
  BY <1>3, RoundedTax DEF Tax
<1> QED
  BY <1>1, <1>2, <1>4, CodeType DEF Breakdown, Line

(* Both kinds of tax on a line, against taxable amount times rate. *)
LEMMA HalvesAndWhole ==
  ASSUME NEW taxable \in Nat, NEW rate \in Slabs
  PROVE  LET whole == Tax(taxable, rate)
             half == Tax(taxable, HalfRate(rate))
         IN  /\ whole \in Nat /\ half \in Nat
             /\ 10000 * whole <= taxable * rate + 5000
             /\ taxable * rate <= 10000 * whole + 5000
             /\ 20000 * half <= taxable * rate + 10000
             /\ taxable * rate <= 20000 * half + 10000
<1> DEFINE h == HalfRate(rate)
<1>1. h \in Nat /\ 2 * h = rate /\ rate \in Nat
  BY HalvesAreExact DEF Slabs
<1> HIDE DEF h
<1>2. taxable * rate \in Nat /\ taxable * h \in Nat /\ 2 * (taxable * h) = taxable * rate
  BY <1>1
<1>3. Tax(taxable, rate) = Round(taxable * rate, 10000)
  BY DEF Tax
<1>4. Tax(taxable, h) = Round(taxable * h, 10000)
  BY DEF Tax
<1>5. LET whole == Tax(taxable, rate)
          half == Tax(taxable, h)
      IN  /\ whole \in Nat /\ half \in Nat
          /\ 10000 * whole <= taxable * rate + 5000
          /\ taxable * rate <= 10000 * whole + 5000
          /\ 20000 * half <= taxable * rate + 10000
          /\ taxable * rate <= 20000 * half + 10000
  <2> DEFINE y == taxable * rate
             x == taxable * h
  <2>1. x \in Nat /\ y \in Nat /\ 2 * x = y
    BY <1>2
  <2>2. Tax(taxable, rate) = Round(y, 10000) /\ Tax(taxable, h) = Round(x, 10000)
    BY <1>3, <1>4
  <2> HIDE DEF x, y
  <2>3. /\ Round(y, 10000) \in Nat /\ Round(x, 10000) \in Nat
        /\ 10000 * Round(y, 10000) <= y + 5000
        /\ y <= 10000 * Round(y, 10000) + 5000
        /\ 20000 * Round(x, 10000) <= y + 10000
        /\ y <= 20000 * Round(x, 10000) + 10000
    BY <2>1, RoundedTax
  <2> QED
    BY <2>2, <2>3 DEF y
<1> QED
  BY <1>5 DEF h
(* What a line's tax is against price times quantity times rate, and against *)
(* the tax of the same line in the other kind.                               *)
LEMMA LineClose ==
  ASSUME NEW item \in Items, NEW inter \in BOOLEAN
  PROVE  LET line == Breakdown(item, inter)
             due == item.price * item.quantity * line.rate
             slack == IF inter THEN 64000 ELSE 114000
         IN  /\ due \in Nat /\ TotalTax(line) \in Nat
             /\ 100000 * TotalTax(line) <= due + slack
             /\ due <= 100000 * TotalTax(line) + slack
<1> DEFINE rate == GstRate(ResolvedHsn(item))
           taxable == Taxable(item)
           amount == item.price * item.quantity
           whole == Tax(taxable, rate)
           half == Tax(taxable, HalfRate(rate))
<1>1. rate \in Slabs
  BY CodeType, RateType
<1>2. amount \in Nat
  BY ItemsAssumption
<1>3. taxable \in Nat /\ 10 * taxable <= amount + 5 /\ amount <= 10 * taxable + 5
  <2>1. taxable = Round(amount, 10)
    BY DEF Taxable
  <2> QED
    BY <1>2, <2>1, RoundedToPaise
<1>4. /\ whole \in Nat /\ half \in Nat
      /\ 10000 * whole <= taxable * rate + 5000
      /\ taxable * rate <= 10000 * whole + 5000
      /\ 20000 * half <= taxable * rate + 10000
      /\ taxable * rate <= 20000 * half + 10000
  BY <1>1, <1>3, HalvesAndWhole
<1>5. /\ Breakdown(item, inter).rate = rate
      /\ inter => TotalTax(Breakdown(item, inter)) = whole + 0
      /\ ~inter => TotalTax(Breakdown(item, inter)) = 2 * half
  BY <1>4 DEF Breakdown, TotalTax
<1> HIDE DEF rate, taxable, amount, whole, half
<1>6. /\ amount * rate \in Nat
      /\ 10 * (taxable * rate) <= amount * rate + 14000
      /\ amount * rate <= 10 * (taxable * rate) + 14000
  BY <1>1, <1>2, <1>3 DEF Slabs
<1>7. ASSUME NEW p \in Nat, NEW q \in Nat, p = taxable * rate, q = amount * rate
      PROVE  /\ 100000 * whole <= q + 64000 /\ q <= 100000 * whole + 64000
             /\ 100000 * (2 * half) <= q + 114000 /\ q <= 100000 * (2 * half) + 114000
  <2>1. /\ 10000 * whole <= p + 5000 /\ p <= 10000 * whole + 5000
        /\ 20000 * half <= p + 10000 /\ p <= 20000 * half + 10000
        /\ 10 * p <= q + 14000 /\ q <= 10 * p + 14000
    BY <1>4, <1>6, <1>7
  <2> QED
    BY <2>1, <1>4
<1>8. taxable * rate \in Nat
  BY <1>1, <1>3 DEF Slabs
<1>9. /\ 100000 * whole <= amount * rate + 64000 /\ amount * rate <= 100000 * whole + 64000
      /\ 100000 * (2 * half) <= amount * rate + 114000
      /\ amount * rate <= 100000 * (2 * half) + 114000
  BY <1>6, <1>7, <1>8
<1> QED
  <2>1. item.price * item.quantity * Breakdown(item, inter).rate = amount * rate
    BY <1>5 DEF amount
  <2> QED
    BY <2>1, <1>4, <1>5, <1>6, <1>9

LEMMA KindsClose ==
  ASSUME NEW item \in Items, NEW inter \in BOOLEAN
  PROVE  TotalTax(Breakdown(item, inter)) - TotalTax(Breakdown(item, ~inter)) \in {-1, 0, 1}
<1> DEFINE rate == GstRate(ResolvedHsn(item))
           taxable == Taxable(item)
           whole == Tax(taxable, rate)
           half == Tax(taxable, HalfRate(rate))
<1>1. rate \in Slabs
  BY CodeType, RateType
<1>2. taxable \in Nat
  BY LineType DEF Breakdown, Line
<1>3. /\ whole \in Nat /\ half \in Nat
      /\ 10000 * whole <= taxable * rate + 5000
      /\ taxable * rate <= 10000 * whole + 5000
      /\ 20000 * half <= taxable * rate + 10000
      /\ taxable * rate <= 20000 * half + 10000
  BY <1>1, <1>2, HalvesAndWhole
<1>4. taxable * rate \in Nat
  BY <1>1, <1>2 DEF Slabs
<1>5. ASSUME NEW k \in BOOLEAN
      PROVE  TotalTax(Breakdown(item, k)) = IF k THEN whole ELSE 2 * half
  BY <1>3 DEF Breakdown, TotalTax
<1> HIDE DEF rate, taxable, whole, half
<1>6. ASSUME NEW p \in Nat, p = taxable * rate
      PROVE  2 * half - whole \in {-1, 0, 1} /\ whole - 2 * half \in {-1, 0, 1}
  BY <1>3, <1>6
<1>7. 2 * half - whole \in {-1, 0, 1} /\ whole - 2 * half \in {-1, 0, 1}
  BY <1>4, <1>6
<1> QED
  BY <1>5, <1>7
----
(* The invoice.  The lines are the breakdowns of the first items, and the   *)
(* totals hold one kind of tax.                                             *)

LinesInv == \A k \in 1..Len(lines) : lines[k] = Breakdown(order.items[k], Inter)
TotalsInv ==
  /\ totals.cgst = totals.sgst
  /\ IF Inter THEN totals.cgst = 0 ELSE totals.igst = 0
IInv == TypeOK /\ LinesInv /\ TotalsInv /\ TaxClose

LEMMA InterType == Inter \in BOOLEAN
BY DEF Inter, InterState

LEMMA InitIInv == Init => IInv
<1> SUFFICES ASSUME Init PROVE IInv
  OBVIOUS
<1>1. order.items \in Seq(Items) /\ order.seller \in Fields /\ order.customer \in Fields
  BY BoundAssumption DEF Init
<1>2. TypeOK
  BY <1>1 DEF Init, TypeOK, Totals, Zero
<1> QED
  BY <1>2 DEF Init, IInv, LinesInv, TotalsInv, TaxClose, TotalTax, Zero

LEMMA StepIInv == IInv /\ [Next]_vars => IInv'
<1> SUFFICES ASSUME IInv, [Next]_vars PROVE IInv'
  OBVIOUS
<1> USE DEF IInv
<1>1. CASE TaxLine
  <2> DEFINE n == Len(lines)
             item == order.items[n + 1]
             line == Breakdown(item, Inter)
             due == item.price * item.quantity * line.rate
  <2>1. order' = order /\ Inter' = Inter
    BY <1>1 DEF TaxLine, Inter, Buyer
  <2>2. n \in Nat /\ n + 1 <= Len(order.items) /\ item \in Items
    BY <1>1 DEF TaxLine, TypeOK
  <2>3. line \in Line
    BY <2>2, LineType, InterType
  <2>4. lines' = Append(lines, line) /\ Len(lines') = n + 1
    BY <1>1 DEF TaxLine, TypeOK
  <2>5. totals' = Plus(totals, line) /\ exact' = exact + due
    BY <1>1 DEF TaxLine
  <2>6. /\ due \in Nat /\ TotalTax(line) \in Nat
        /\ 100000 * TotalTax(line) <= due + (IF Inter THEN 64000 ELSE 114000)
        /\ due <= 100000 * TotalTax(line) + (IF Inter THEN 64000 ELSE 114000)
    BY <2>2, InterType, LineClose
  <2>7. /\ line.cgst = line.sgst
        /\ IF Inter THEN line.cgst = 0 ELSE line.igst = 0
    BY DEF Breakdown
  <2> HIDE DEF line, due
  <2>8. TypeOK'
    <3>1. lines' \in Seq(Line)
      BY <2>3, <2>4 DEF TypeOK
    <3>2. totals' \in Totals
      <4>1. line.taxable \in Nat /\ line.cgst \in Nat /\ line.sgst \in Nat /\ line.igst \in Nat
        BY <2>3 DEF Line
      <4>2. totals \in Totals
        BY DEF TypeOK
      <4>3. Plus(totals, line) \in Totals
        BY <4>1, <4>2 DEF Plus, Totals
      <4> QED
        BY <2>5, <4>3
    <3> QED
      BY <1>1, <2>1, <2>2, <2>4, <2>5, <2>6, <3>1, <3>2 DEF TaxLine, TypeOK
  <2>9. LinesInv'
    <3> SUFFICES ASSUME NEW k \in 1..(n + 1)
                 PROVE  lines'[k] = Breakdown(order.items[k], Inter)
      BY <2>1, <2>4 DEF LinesInv
    <3>1. CASE k \in 1..n
      BY <2>2, <2>4, <3>1 DEF LinesInv, TypeOK
    <3>2. CASE k = n + 1
      BY <2>2, <2>4, <3>2 DEF line, TypeOK
    <3> QED
      BY <2>2, <3>1, <3>2
  <2>10. TotalsInv'
    BY <2>1, <2>3, <2>5, <2>7 DEF TotalsInv, Plus, TypeOK, Totals, Line
  <2>11. TaxClose'
    <3> DEFINE t == TotalTax(totals)
               u == TotalTax(line)
    <3>0. totals \in Totals /\ exact \in Nat
      BY DEF TypeOK
    <3>1. t \in Nat /\ exact \in Nat /\ u \in Nat
      BY <3>0, <2>6 DEF Totals, TotalTax
    <3>2. TotalTax(totals') = t + u
      <4>1. /\ totals.taxable \in Nat /\ totals.cgst \in Nat
            /\ totals.sgst \in Nat /\ totals.igst \in Nat
        BY <3>0 DEF Totals
      <4>2. line.cgst \in Nat /\ line.sgst \in Nat /\ line.igst \in Nat
        BY <2>3 DEF Line
      <4>3. /\ totals'.cgst = totals.cgst + line.cgst
            /\ totals'.sgst = totals.sgst + line.sgst
            /\ totals'.igst = totals.igst + line.igst
        BY <2>5 DEF Plus
      <4> QED
        BY <4>1, <4>2, <4>3 DEF TotalTax
    <3>3. CASE Inter
      <4>1. 100000 * t - exact <= n * 64000 /\ exact - 100000 * t <= n * 64000
        BY <3>3 DEF TaxClose
      <4>2. 100000 * u <= due + 64000 /\ due <= 100000 * u + 64000
        BY <2>6, <3>3
      <4> HIDE DEF t, u, n
      <4>3. /\ 100000 * (t + u) - (exact + due) <= (n + 1) * 64000
            /\ (exact + due) - 100000 * (t + u) <= (n + 1) * 64000
        BY <2>2, <2>6, <3>1, <4>1, <4>2
      <4>4. Len(lines') * (IF Inter' THEN 64000 ELSE 114000) = (n + 1) * 64000
        BY <2>1, <2>4, <3>3
      <4>5. exact' = exact + due /\ TotalTax(totals)' = t + u
        BY <2>5, <3>2
      <4> QED
        BY <4>3, <4>4, <4>5 DEF TaxClose
    <3>4. CASE ~Inter
      <4>1. 100000 * t - exact <= n * 114000 /\ exact - 100000 * t <= n * 114000
        BY <3>4 DEF TaxClose
      <4>2. 100000 * u <= due + 114000 /\ due <= 100000 * u + 114000
        BY <2>6, <3>4
      <4> HIDE DEF t, u, n
      <4>3. /\ 100000 * (t + u) - (exact + due) <= (n + 1) * 114000
            /\ (exact + due) - 100000 * (t + u) <= (n + 1) * 114000
        BY <2>2, <2>6, <3>1, <4>1, <4>2
      <4>4. Len(lines') * (IF Inter' THEN 64000 ELSE 114000) = (n + 1) * 114000
        BY <2>1, <2>4, <3>4
      <4>5. exact' = exact + due /\ TotalTax(totals)' = t + u
        BY <2>5, <3>2
      <4> QED
        BY <4>3, <4>4, <4>5 DEF TaxClose
    <3> QED
      BY <3>3, <3>4
  <2> QED
    BY <2>8, <2>9, <2>10, <2>11
<1>2. CASE UNCHANGED <<order, lines, totals, exact>> /\ TypeOK'
  <2>1. Inter' = Inter
    BY <1>2 DEF Inter, Buyer
  <2> QED
    BY <1>2, <2>1 DEF LinesInv, TotalsInv, TaxClose
<1>3. CASE Summarise
  <2>1. TotalTax(totals) \in Nat /\ totals.taxable + TotalTax(totals) \in Nat
    BY DEF TypeOK, Totals, TotalTax
  <2>2. summary' \in [tax : Nat, total : Nat, inter : BOOLEAN]
    BY <1>3, <2>1 DEF Summarise
  <2>3. TypeOK'
    BY <1>3, <2>2 DEF Summarise, TypeOK
  <2> QED
    BY <1>2, <1>3, <2>3 DEF Summarise
<1>4. CASE Issue
  <2>1. TypeOK'
    BY <1>4 DEF Issue, TypeOK
  <2> QED
    BY <1>2, <1>4, <2>1 DEF Issue
<1>5. CASE Raise
  <2>1. TypeOK'
    BY <1>5 DEF Raise, TypeOK
  <2> QED
    BY <1>2, <1>5, <2>1 DEF Raise
<1>6. CASE UNCHANGED vars
  <2>1. TypeOK'
    BY <1>6 DEF vars, TypeOK
  <2> QED
    BY <1>2, <1>6, <2>1 DEF vars
<1> QED
  BY <1>1, <1>3, <1>4, <1>5, <1>6 DEF Next

LEMMA Invariance == Spec => []IInv
BY InitIInv, StepIInv, PTL DEF Spec

(* calculate_invoice_tax: amounts are never negative, rates are slabs.       *)
THEOREM TypeCorrect == Spec => []TypeOK
<1>1. IInv => TypeOK
  BY DEF IInv
<1> QED
  BY Invariance, <1>1, PTL

(* _round2: an invoice's tax stays within 0.64 or 1.14 paise a line of the   *)
(* exact one, for any items.                                                 *)
THEOREM TaxStaysClose == Spec => []TaxClose
<1>1. IInv => TaxClose
  BY DEF IInv
<1> QED
  BY Invariance, <1>1, PTL

(* calculate_line_item_tax: IGST and CGST plus SGST are a paisa apart at     *)
(* most.                                                                     *)
THEOREM PlaceIsNearlyNeutral == Spec => []PlaceMattersLittle
<1>1. IInv => PlaceMattersLittle
  <2> SUFFICES ASSUME IInv, NEW k \in 1..Len(lines)
               PROVE  TotalTax(lines[k]) - TotalTax(Breakdown(order.items[k], ~lines[k].inter))
                        \in {-1, 0, 1}
    BY DEF PlaceMattersLittle
  <2>1. order.items[k] \in Items
    BY DEF IInv, TypeOK
  <2>2. lines[k] = Breakdown(order.items[k], Inter) /\ lines[k].inter = Inter
    BY DEF IInv, LinesInv, Breakdown
  <2> QED
    BY <2>1, <2>2, InterType, KindsClose
<1> QED
  BY Invariance, <1>1, PTL

(* calculate_invoice_tax: one kind of tax on an invoice, IGST only across    *)
(* states.                                                                   *)
THEOREM OneKind == Spec => []OneKindOfTax
<1>1. IInv => OneKindOfTax
  <2> SUFFICES ASSUME IInv PROVE OneKindOfTax
    OBVIOUS
  <2>1. totals.cgst \in Nat /\ totals.sgst \in Nat /\ totals.igst \in Nat
    BY DEF IInv, TypeOK, Totals
  <2>2. totals.cgst = totals.sgst /\ IF Inter THEN totals.cgst = 0 ELSE totals.igst = 0
    BY DEF IInv, TotalsInv
  <2>3. Inter => order.seller.state # order.customer.state /\ order.customer # Missing
    BY DEF Inter, InterState, Buyer, StateCode
  <2> QED
    BY <2>1, <2>2, <2>3 DEF OneKindOfTax
<1> QED
  BY Invariance, <1>1, PTL

----
(* The rate of the closest entry. *)

LEMMA PrefixLength ==
  ASSUME NEW code \in Seq(Nat), NEW n \in 1..Len(code)
  PROVE  Prefix(code, n) \in Seq(Nat) /\ Len(Prefix(code, n)) = n
<1>1. Prefix(code, n) = SubSeq(code, 1, n) /\ n \in Nat /\ Len(code) \in Nat
  BY DEF Prefix
<1> QED
  BY <1>1

LEMMA WholePrefix ==
  ASSUME NEW code \in Seq(Nat), NEW n \in Nat, Len(code) <= n
  PROVE  Prefix(code, n) = code
<1>1. Prefix(code, n) = SubSeq(code, 1, Len(code))
  BY DEF Prefix
<1> QED
  BY <1>1

LEMMA GreatestOfThree ==
  ASSUME NEW K \in SUBSET (1..3), K # {}
  PROVE  Max(K) \in K /\ \A n \in K : n <= Max(K)
<1>1. \E m \in K : \A n \in K : m >= n
  <2>1. CASE 3 \in K
    BY <2>1
  <2>2. CASE 3 \notin K /\ 2 \in K
    <3>1. \A n \in K : 2 >= n
      BY <2>2
    <3> QED
      BY <2>2, <3>1
  <2>3. CASE 3 \notin K /\ 2 \notin K
    <3>1. \A n \in K : n = 1
      BY <2>3
    <3>2. PICK m \in K : TRUE
      OBVIOUS
    <3>3. \A n \in K : m >= n
      BY <3>1, <3>2
    <3> QED
      BY <3>2, <3>3
  <2> QED
    BY <2>1, <2>2, <2>3
<1>2. Max(K) \in K /\ \A n \in K : Max(K) >= n
  BY <1>1 DEF Max
<1> QED
  BY <1>2

LEMMA SmallLength ==
  ASSUME NEW n \in Nat, n # 0, n <= 3
  PROVE  n \in 1..3 /\ n \in 1..n /\ n <= n
OBVIOUS

(* The code, its heading and its chapter are all its prefixes, as long as it *)
(* has no more than six digits.                                              *)
LEMMA RateIsClosest ==
  ASSUME NEW code \in Seq(Nat), code # NoCode, Len(code) <= 3
  PROVE  GstRate(code) = Closest(code)
<1> DEFINE tried == {code, Prefix(code, 2), Prefix(code, 1)}
           known == {c \in tried : c \in DOMAIN Rates}
           lengths == {n \in 1..Len(code) : Prefix(code, n) \in DOMAIN Rates}
<1>1. Len(code) \in Nat /\ Len(code) \in 1..3 /\ Len(code) \in 1..Len(code) /\ Len(code) <= Len(code)
  <2>1. Len(code) # 0
    BY EmptySeq DEF NoCode
  <2>2. Len(code) \in Nat
    OBVIOUS
  <2> QED
    BY <2>1, <2>2, SmallLength
<1>2. \A n \in 1..Len(code) : Prefix(code, n) \in tried
  <2>1. Prefix(code, Len(code)) = code
    BY <1>1, WholePrefix
  <2>2. \A n \in 1..Len(code) : n = 1 \/ n = 2 \/ n = Len(code)
    BY <1>1
  <2> QED
    BY <2>1, <2>2
<1>3. \A c \in tried : Len(c) \in 1..Len(code) /\ c = Prefix(code, Len(c))
  <2>1. \A n \in 1..Len(code) :
          Len(Prefix(code, n)) = n /\ Prefix(code, n) = Prefix(code, Len(Prefix(code, n)))
    BY PrefixLength
  <2>2. code = Prefix(code, Len(code)) /\ Len(code) \in 1..Len(code)
    BY <1>1, WholePrefix
  <2>3. Prefix(code, 2) = code \/ 2 \in 1..Len(code)
    <3>1. CASE Len(code) <= 2
      BY <3>1, WholePrefix
    <3>2. CASE ~(Len(code) <= 2)
      BY <1>1, <3>2
    <3> QED
      BY <3>1, <3>2
  <2>4. 1 \in 1..Len(code)
    BY <1>1
  <2>5. \A c \in tried : \E n \in 1..Len(code) : c = Prefix(code, n)
    BY <2>2, <2>3, <2>4, Zenon
  <2> QED
    BY <2>1, <2>5
<1>4. \A c \in known : Len(c) \in lengths
  BY <1>3
<1>5. \A n \in lengths : Prefix(code, n) \in known
  BY <1>2
<1>6. CASE known = {}
  <2>1. lengths = {}
    BY <1>5, <1>6
  <2> QED
    BY <1>6, <2>1 DEF GstRate, Closest
<1>7. CASE known # {}
  <2>1. lengths # {} /\ lengths \in SUBSET (1..3)
    <3>1. lengths # {}
      BY <1>4, <1>7
    <3>2. \A n \in 1..Len(code) : n \in 1..3
      BY <1>1
    <3> QED
      BY <3>1, <3>2
  <2> DEFINE m == Max(lengths)
             longest(c) == \A d \in known : Len(d) <= Len(c)
             chosen == CHOOSE c \in known : longest(c)
  <2>2. m \in lengths /\ \A n \in lengths : n <= m
    BY <2>1, GreatestOfThree
  <2>3. m \in 1..Len(code) /\ Prefix(code, m) \in known /\ Len(Prefix(code, m)) = m
    BY <1>5, <2>2, PrefixLength
  <2>4. longest(Prefix(code, m))
    BY <1>4, <2>2, <2>3
  <2>5. chosen \in known /\ longest(chosen)
    BY <2>3, <2>4
  <2>6. Len(chosen) = m
    <3>1. m <= Len(chosen)
      BY <2>3, <2>5
    <3>2. Len(chosen) \in lengths
      BY <1>4, <2>5
    <3> HIDE DEF m, chosen
    <3> QED
      BY <2>2, <3>1, <3>2
  <2>7. chosen = Prefix(code, m)
    <3>1. chosen \in tried
      BY <2>5
    <3> HIDE DEF tried, m, chosen
    <3> QED
      BY <1>3, <2>6, <3>1
  <2>8. GstRate(code) = Rates[chosen]
    BY <1>7 DEF GstRate
  <2>9. Closest(code) = Rates[Prefix(code, m)]
    BY <2>1 DEF Closest
  <2> QED
    BY <2>7, <2>8, <2>9
<1> QED
  BY <1>6, <1>7

(* get_gst_rate: the ladder of code, heading and chapter finds the closest   *)
(* entry of any table for every code of up to six digits.                    *)
THEOREM RateOfClosestEntry == Spec => []ClosestRateUpToSixDigits
<1>1. IInv => ClosestRateUpToSixDigits
  <2> SUFFICES ASSUME IInv, NEW k \in 1..Len(lines), Len(lines[k].hsn) <= 3
               PROVE  lines[k].rate = Closest(lines[k].hsn)
    BY DEF ClosestRateUpToSixDigits
  <2>1. order.items[k] \in Items
    BY DEF IInv, TypeOK
  <2> DEFINE code == ResolvedHsn(order.items[k])
  <2>2. code \in Seq(Nat) /\ code # NoCode
    BY <2>1, CodeType DEF ResolvedHsn, Fallback, NoCode
  <2>3. lines[k].hsn = code /\ lines[k].rate = GstRate(code)
    <3>1. lines[k] = Breakdown(order.items[k], Inter)
      BY DEF IInv, LinesInv
    <3> QED
      BY <3>1 DEF Breakdown
  <2> HIDE DEF code
  <2> QED
    BY <2>2, <2>3, RateIsClosest
<1> QED
  BY Invariance, <1>1, PTL
----
(* The invoice adds up.  While the lines are taxed the totals hold the sum  *)
(* of the lines; the summary then copies it.  An order has an item, so the  *)
(* lines tell whether it is inter-state.                                    *)

Shown(ls) == [k \in 1..Len(ls) |-> ls[k].taxable + TotalTax(ls[k])]

SumInv == SumFunction(Shown(lines)) = totals.taxable + TotalTax(totals)
SummaryInv ==
  /\ order.items # <<>>
  /\ pc # "taxing" => /\ summary.total = totals.taxable + TotalTax(totals)
                      /\ summary.inter = Inter
AddsInv == SumInv /\ SummaryInv

LEMMA ShownType ==
  ASSUME NEW ls \in Seq(Line)
  PROVE  Shown(ls) \in [1..Len(ls) -> Int] /\ IsFiniteSet(1..Len(ls))
<1>1. Len(ls) \in Nat
  OBVIOUS
<1>2. IsFiniteSet(1..Len(ls))
  BY <1>1, FS_Interval
<1>3. ASSUME NEW k \in 1..Len(ls) PROVE ls[k].taxable + TotalTax(ls[k]) \in Int
  <2>1. ls[k] \in Line
    OBVIOUS
  <2>2. ls[k].taxable \in Nat /\ ls[k].cgst \in Nat /\ ls[k].sgst \in Nat /\ ls[k].igst \in Nat
    BY <2>1 DEF Line
  <2> QED
    BY <2>2 DEF TotalTax
<1> QED
  BY <1>2, <1>3 DEF Shown

LEMMA OneMoreLine ==
  ASSUME NEW ls \in Seq(Line), NEW line \in Line
  PROVE  /\ SumFunction(Shown(Append(ls, line)))
              = SumFunction(Shown(ls)) + (line.taxable + TotalTax(line))
         /\ SumFunction(Shown(ls)) \in Int
<1> DEFINE n == Len(ls)
           next == n + 1
           longer == Append(ls, line)
           S == 1..n
           f == Shown(ls)
           g == Shown(longer)
<1>1. /\ n \in Nat /\ longer \in Seq(Line) /\ Len(longer) = next
      /\ longer[next] = line /\ \A k \in S : longer[k] = ls[k]
  BY AppendProperties
<1>2. S \cup {next} = 1..Len(longer) /\ next \notin S
  BY <1>1
<1>3. f \in [S -> Int] /\ IsFiniteSet(S)
  BY ShownType
<1>4. g \in [S \cup {next} -> Int]
  BY <1>1, <1>2, ShownType
<1>5. \A k \in S : g[k] = f[k]
  BY <1>1, <1>2 DEF Shown
<1>6. g[next] = line.taxable + TotalTax(line)
  BY <1>1, <1>2 DEF Shown
<1> HIDE DEF S, f, g, n, next, longer
<1>7. SumFunction(g) = SumFunction(f) + g[next] /\ SumFunction(f) \in Int
  BY ONLY <1>2, <1>3, <1>4, <1>5, SumNext
<1> QED
  BY <1>6, <1>7 DEF f, g, longer

LEMMA AddsInit == Init => AddsInv
<1> SUFFICES ASSUME Init PROVE AddsInv
  OBVIOUS
<1>1. order.items # <<>>
  <2>1. PICK n \in 1..MaxItems : order.items \in [1..n -> Items]
    BY DEF Init
  <2>2. 1 \in DOMAIN order.items
    BY <2>1, BoundAssumption
  <2> QED
    BY <2>2
<1>2. DOMAIN Shown(<<>>) = {}
  BY DEF Shown
<1>3. SumFunction(Shown(<<>>)) = 0
  BY <1>2, SumEmpty DEF SumFunction
<1> QED
  BY <1>1, <1>3 DEF Init, AddsInv, SumInv, SummaryInv, Zero, TotalTax

LEMMA AddsStep == IInv /\ AddsInv /\ [Next]_vars => AddsInv'
<1> SUFFICES ASSUME IInv, AddsInv, [Next]_vars PROVE AddsInv'
  OBVIOUS
<1>0. TypeOK /\ totals \in Totals
  BY DEF IInv, TypeOK
<1>1. CASE TaxLine
  <2>1. PICK line : line = Breakdown(order.items[Len(lines) + 1], Inter)
    OBVIOUS
  <2>2. /\ lines' = Append(lines, line) /\ totals' = Plus(totals, line)
        /\ order' = order /\ pc = "taxing" /\ pc' = pc
    BY <1>1, <2>1 DEF TaxLine
  <2>3. line \in Line /\ lines \in Seq(Line)
    <3>1. order.items[Len(lines) + 1] \in Items
      BY <1>0, <1>1 DEF TaxLine, TypeOK
    <3> QED
      BY <1>0, <2>1, <3>1, InterType, LineType DEF TypeOK
  <2>4. /\ SumFunction(Shown(Append(lines, line)))
             = SumFunction(Shown(lines)) + (line.taxable + TotalTax(line))
    BY <2>3, OneMoreLine
  <2>5. /\ line.taxable \in Nat /\ line.cgst \in Nat /\ line.sgst \in Nat /\ line.igst \in Nat
        /\ totals.taxable \in Nat /\ totals.cgst \in Nat
        /\ totals.sgst \in Nat /\ totals.igst \in Nat
    BY <1>0, <2>3 DEF Line, Totals
  <2>6. /\ totals'.taxable = totals.taxable + line.taxable
        /\ totals'.cgst = totals.cgst + line.cgst
        /\ totals'.sgst = totals.sgst + line.sgst
        /\ totals'.igst = totals.igst + line.igst
    BY <2>2 DEF Plus
  <2>7. totals'.taxable + TotalTax(totals')
          = totals.taxable + TotalTax(totals) + (line.taxable + TotalTax(line))
    BY <2>5, <2>6 DEF TotalTax
  <2>8. SumFunction(Shown(lines')) = totals'.taxable + TotalTax(totals')
    BY <2>2, <2>4, <2>7 DEF AddsInv, SumInv
  <2> QED
    BY <2>2, <2>8 DEF AddsInv, SumInv, SummaryInv
<1>2. CASE Summarise
  <2>1. /\ summary'.total = totals.taxable + TotalTax(totals)
        /\ summary'.inter = \E k \in 1..Len(lines) : lines[k].inter
        /\ UNCHANGED <<order, lines, totals>> /\ Len(lines) = Len(order.items)
    BY <1>2 DEF Summarise
  <2>2. \A k \in 1..Len(lines) : lines[k].inter = Inter
    <3>1. \A k \in 1..Len(lines) : lines[k] = Breakdown(order.items[k], Inter)
      BY DEF IInv, LinesInv
    <3>2. \A item : Breakdown(item, Inter).inter = Inter
      BY DEF Breakdown
    <3> QED
      BY <3>1, <3>2
  <2>3. 1 \in 1..Len(lines)
    <3>1. Len(order.items) \in Nat /\ Len(order.items) # 0
      BY <1>0, EmptySeq DEF AddsInv, SummaryInv, TypeOK
    <3> QED
      BY <2>1, <3>1
  <2>4. summary'.inter = Inter /\ Inter' = Inter
    BY <2>1, <2>2, <2>3, InterType DEF Inter, Buyer
  <2> QED
    BY <2>1, <2>4 DEF AddsInv, SumInv, SummaryInv
<1>3. CASE Issue \/ Raise \/ UNCHANGED vars
  <2>1. UNCHANGED <<order, lines, totals, summary>> /\ (pc = "taxing" => pc' = "taxing")
    BY <1>3 DEF Issue, Raise, vars
  <2>2. Inter' = Inter
    BY <2>1 DEF Inter, Buyer
  <2> QED
    BY <2>1, <2>2 DEF AddsInv, SumInv, SummaryInv
<1> QED
  BY <1>1, <1>2, <1>3 DEF Next

(* calculate_invoice_tax: the total of a summary is the sum of its lines, for *)
(* orders of any length.                                                     *)
THEOREM SummaryIsSum == Spec => []SummaryAddsUp
<1>1. AddsInv => SummaryAddsUp
  BY DEF AddsInv, SumInv, SummaryInv, SummaryAddsUp, Shown
<1> QED
  BY Invariance, AddsInit, AddsStep, <1>1, PTL DEF Spec
====
