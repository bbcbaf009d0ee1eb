---- MODULE ReferenceAnalyzerProofs ----
(***************************************************************************)
(* Proofs about ReferenceAnalyzer for every 24-bit colour, any lightness of *)
(* the colours, any max_pixels, and images of any size.                     *)
(***************************************************************************)
EXTENDS ReferenceAnalyzer, FiniteSetTheorems, WellFoundedInduction, TLAPS

Colour == [r : 0..255, g : 0..255, b : 0..255]

----
(* Sums over the domain of a function: SumFunction unfolds into a function
   iter on the finite subsets of the domain that takes the chosen elements away
   one by one.  The lemmas look at a smallest set that is an exception. *)

Chosen(s) == CHOOSE x \in s : TRUE

(* iter is that function for f, on the subsets of S that are in sets. *)
Iterates(iter, f, sets) ==
  iter = [s \in sets |-> IF s = {} THEN 0 ELSE f[Chosen(s)] + iter[s \ {Chosen(s)}]]

LEMMA LeastNatural ==
  ASSUME NEW T \in SUBSET Nat, T # {}
  PROVE  \E n \in T : \A m \in T : n <= m
<1> DEFINE R == OpToRel(<, Nat)
<1>1. IsWellFoundedOn(R, Nat)
  BY NatLessThanWellFounded
<1>2. \A m, n \in Nat : m < n => <<m, n>> \in R
  BY DEF OpToRel
<1> HIDE DEF R
<1>3. PICK n \in T : \A m \in T : <<m, n>> \notin R
  BY <1>1, WFMin
<1>4. ASSUME NEW m \in T PROVE n <= m
  <2>1. m \in Nat /\ n \in Nat
    OBVIOUS
  <2>2. ~(m < n)
    BY <1>2, <1>3, <2>1
  <2> QED
    BY <2>1, <2>2
<1> QED
  BY <1>4

(* A family of finite sets is all of subsets, or leaves out a smallest one. *)
LEMMA SmallestSet ==
  ASSUME NEW S, IsFiniteSet(S), NEW good, \E s \in SUBSET S : s \notin good
  PROVE  \E s \in SUBSET S : /\ s \notin good /\ IsFiniteSet(s)
                             /\ \A x \in s : s \ {x} \in good
<1> DEFINE sizes == {Cardinality(s) : s \in (SUBSET S) \ good}
<1>1. \A s \in SUBSET S : IsFiniteSet(s) /\ Cardinality(s) \in Nat
  BY FS_Subset, FS_CardinalityType
<1>2. sizes \in SUBSET Nat /\ sizes # {}
  BY <1>1
<1>3. PICK n \in sizes : \A m \in sizes : n <= m
  BY <1>2, LeastNatural
<1>4. PICK s \in (SUBSET S) \ good : Cardinality(s) = n
  BY <1>3
<1>5. ASSUME NEW x \in s PROVE s \ {x} \in good
  <2>1. Cardinality(s \ {x}) = Cardinality(s) - 1
    BY <1>1, FS_RemoveElement
  <2>2. Cardinality(s \ {x}) \notin sizes
    BY <1>1, <1>3, <1>4, <2>1
  <2> QED
    BY <2>2
<1>6. s \in SUBSET S /\ s \notin good /\ IsFiniteSet(s)
  <2>1. s \in SUBSET S /\ s \notin good
    OBVIOUS
  <2> QED
    BY <1>1, <2>1
<1> QED
  BY <1>5, <1>6, Zenon

LEMMA ChosenIn == \A s : s # {} => Chosen(s) \in s
BY DEF Chosen

LEMMA IterUnique ==
  ASSUME NEW f, NEW S, IsFiniteSet(S), NEW T, S \subseteq T, NEW g, NEW h,
         Iterates(g, f, SUBSET S), Iterates(h, f, SUBSET T)
  PROVE  g[S] = h[S]
<1> DEFINE good == {s \in SUBSET S : g[s] = h[s]}
<1> SUFFICES ASSUME S \notin good PROVE FALSE
  OBVIOUS
<1>1. PICK s \in SUBSET S :
        s \notin good /\ IsFiniteSet(s) /\ \A x \in s : s \ {x} \in good
  <2>1. \E s \in SUBSET S : s \notin good
    OBVIOUS
  <2> HIDE DEF good
  <2> QED
    BY <2>1, SmallestSet
<1>2. /\ g[s] = IF s = {} THEN 0 ELSE f[Chosen(s)] + g[s \ {Chosen(s)}]
      /\ h[s] = IF s = {} THEN 0 ELSE f[Chosen(s)] + h[s \ {Chosen(s)}]
  BY DEF Iterates
<1> QED
  BY <1>1, <1>2, ChosenIn

LEMMA IterExists ==
  ASSUME NEW f, NEW S, IsFiniteSet(S)
  PROVE  \E g : Iterates(g, f, SUBSET S)
<1> DEFINE upTo(n) == {s \in SUBSET S : Cardinality(s) <= n}
           bad == {n \in Nat : ~\E g : Iterates(g, f, upTo(n))}
<1>1. \A s \in SUBSET S : IsFiniteSet(s) /\ Cardinality(s) \in Nat
  BY FS_Subset, FS_CardinalityType
<1>2. ASSUME bad # {} PROVE FALSE
  <2>1. PICK n \in bad : \A m \in bad : n <= m
    BY <1>2, LeastNatural
  <2>2. CASE n = 0
    <3> DEFINE g == [s \in upTo(0) |-> IF s = {} THEN 0 ELSE f[Chosen(s)]]
    <3>1. \A s \in upTo(0) : s = {}
      BY <1>1, FS_EmptySet
    <3>2. Iterates(g, f, upTo(0))
      BY <3>1 DEF Iterates
    <3> QED
      BY <2>1, <2>2, <3>2
  <2>3. CASE n > 0
    <3>1. n - 1 \in Nat /\ n - 1 \notin bad
      <4>1. n \in Nat
        BY <2>1
      <4> HIDE DEF bad
      <4> QED
        BY <2>1, <2>3, <4>1
    <3>2. PICK h : Iterates(h, f, upTo(n - 1))
      BY <3>1
    <3> DEFINE g == [s \in upTo(n) |->
                       IF s = {} THEN 0 ELSE f[Chosen(s)] + h[s \ {Chosen(s)}]]
    <3>3. ASSUME NEW s \in upTo(n - 1)
          PROVE  s \in upTo(n) /\ g[s] = h[s]
      <4>1. s \in upTo(n)
        BY <1>1, <2>1
      <4>2. h[s] = IF s = {} THEN 0 ELSE f[Chosen(s)] + h[s \ {Chosen(s)}]
        BY <3>2 DEF Iterates
      <4> QED
        BY <4>1, <4>2
    <3>4. ASSUME NEW s \in upTo(n), s # {} PROVE s \ {Chosen(s)} \in upTo(n - 1)
      BY <1>1, <2>1, <3>4, ChosenIn, FS_RemoveElement
    <3>5. ASSUME NEW s \in upTo(n)
          PROVE  g[s] = IF s = {} THEN 0 ELSE f[Chosen(s)] + g[s \ {Chosen(s)}]
      BY <3>3, <3>4
    <3>6. Iterates(g, f, upTo(n))
      <4>1. g = [s \in upTo(n) |-> g[s]]
        OBVIOUS
      <4> HIDE DEF g
      <4> QED
        BY <3>5, <4>1 DEF Iterates
    <3> QED
      BY <2>1, <3>6
  <2> QED
    BY <2>1, <2>2, <2>3
<1>3. upTo(Cardinality(S)) = SUBSET S
  BY <1>1, FS_Subset
<1>4. Cardinality(S) \in Nat \ bad
  BY <1>1, <1>2
<1> QED
  BY <1>3, <1>4

LEMMA SumIterates ==
  ASSUME NEW f, NEW S, IsFiniteSet(S)
  PROVE  \E g : Iterates(g, f, SUBSET S) /\ SumFunctionOnSet(f, S) = g[S]
<1> DEFINE g == CHOOSE h : Iterates(h, f, SUBSET S)
<1>1. Iterates(g, f, SUBSET S)
  BY IterExists, Zenon
<1>2. SumFunctionOnSet(f, S) = g[S]
  BY DEF SumFunctionOnSet, FoldFunctionOnSet, MapThenFoldSet, Iterates, Chosen
<1> QED
  BY <1>1, <1>2, Zenon

LEMMA SumEmpty == ASSUME NEW f PROVE SumFunctionOnSet(f, {}) = 0
<1>1. PICK g : Iterates(g, f, SUBSET {}) /\ SumFunctionOnSet(f, {}) = g[{}]
  BY SumIterates, FS_EmptySet
<1> QED
  BY <1>1 DEF Iterates

LEMMA SumChosen ==
  ASSUME NEW f, NEW S, IsFiniteSet(S), S # {}
  PROVE  SumFunctionOnSet(f, S) = f[Chosen(S)] + SumFunctionOnSet(f, S \ {Chosen(S)})
<1> DEFINE x == Chosen(S)
<1>1. x \in S /\ IsFiniteSet(S \ {x})
  BY ChosenIn, FS_RemoveElement
<1>2. PICK g : Iterates(g, f, SUBSET S) /\ SumFunctionOnSet(f, S) = g[S]
  BY SumIterates
<1>3. PICK h : /\ Iterates(h, f, SUBSET (S \ {x}))
               /\ SumFunctionOnSet(f, S \ {x}) = h[S \ {x}]
  BY <1>1, SumIterates
<1>4. g[S] = f[x] + g[S \ {x}]
  BY <1>2 DEF Iterates
<1>5. h[S \ {x}] = g[S \ {x}]
  <2>1. S \ {x} \subseteq S
    OBVIOUS
  <2> QED
    BY <1>1, <1>2, <1>3, <2>1, IterUnique
<1> QED
  BY <1>2, <1>3, <1>4, <1>5

LEMMA SumInt ==
  ASSUME NEW f, NEW S, IsFiniteSet(S), \A x \in S : f[x] \in Int
  PROVE  SumFunctionOnSet(f, S) \in Int
<1> DEFINE good == {s \in SUBSET S : SumFunctionOnSet(f, s) \in Int}
<1> SUFFICES ASSUME S \notin good PROVE FALSE
  OBVIOUS
<1>1. PICK s \in SUBSET S : s \notin good /\ IsFiniteSet(s) /\ \A x \in s : s \ {x} \in good
  <2>1. \E s \in SUBSET S : s \notin good
    OBVIOUS
  <2> HIDE DEF good
  <2> QED
    BY <2>1, SmallestSet
<1>2. s # {}
  BY <1>1, SumEmpty
<1>3. Chosen(s) \in s /\ SumFunctionOnSet(f, s \ {Chosen(s)}) \in Int
  BY <1>1, <1>2, ChosenIn
<1>4. SumFunctionOnSet(f, s) = f[Chosen(s)] + SumFunctionOnSet(f, s \ {Chosen(s)})
  BY <1>1, <1>2, SumChosen
<1> QED
  BY <1>1, <1>3, <1>4

(* Any element may be taken first. *)
LEMMA SumMember ==
  ASSUME NEW f, NEW S, IsFiniteSet(S), \A x \in S : f[x] \in Int
  PROVE  \A x \in S : SumFunctionOnSet(f, S) = f[x] + SumFunctionOnSet(f, S \ {x})
<1> DEFINE T(s) == SumFunctionOnSet(f, s)
           good == {s \in SUBSET S : \A x \in s : T(s) = f[x] + T(s \ {x})}
<1> SUFFICES ASSUME S \notin good PROVE FALSE
  OBVIOUS
<1>1. PICK s \in SUBSET S : s \notin good /\ IsFiniteSet(s) /\ \A x \in s : s \ {x} \in good
  <2>1. \E s \in SUBSET S : s \notin good
    OBVIOUS
  <2> HIDE DEF good
  <2> QED
    BY <2>1, SmallestSet
<1>2. PICK x \in s : T(s) # f[x] + T(s \ {x})
  BY <1>1
<1> DEFINE y == Chosen(s)
<1>3. y \in s /\ T(s) = f[y] + T(s \ {y})
  BY <1>1, ChosenIn, SumChosen
<1>4. x # y
  BY <1>2, <1>3
<1>5. T(s \ {y}) = f[x] + T((s \ {y}) \ {x})
  BY <1>1, <1>3, <1>4
<1>6. T(s \ {x}) = f[y] + T((s \ {x}) \ {y})
  BY <1>1, <1>3, <1>4
<1> DEFINE rest == (s \ {x}) \ {y}
<1>7. (s \ {y}) \ {x} = rest /\ IsFiniteSet(rest)
  BY <1>1, FS_RemoveElement
<1>8. T(rest) \in Int /\ f[x] \in Int /\ f[y] \in Int
  BY <1>3, <1>7, SumInt
<1>9. T(s) = f[y] + (f[x] + T(rest)) /\ T(s \ {x}) = f[y] + T(rest)
  BY <1>3, <1>5, <1>6, <1>7
<1> HIDE DEF T, y, rest, good
<1>10. T(s) = f[x] + T(s \ {x})
  BY <1>8, <1>9
<1> QED
  BY <1>2, <1>10

LEMMA SumSame ==
  ASSUME NEW f, NEW g, NEW S, IsFiniteSet(S), \A x \in S : f[x] = g[x]
  PROVE  SumFunctionOnSet(f, S) = SumFunctionOnSet(g, S)
<1> DEFINE good == {s \in SUBSET S : SumFunctionOnSet(f, s) = SumFunctionOnSet(g, s)}
<1> SUFFICES ASSUME S \notin good PROVE FALSE
  OBVIOUS
<1>1. PICK s \in SUBSET S : s \notin good /\ IsFiniteSet(s) /\ \A x \in s : s \ {x} \in good
  <2>1. \E s \in SUBSET S : s \notin good
    OBVIOUS
  <2> HIDE DEF good
  <2> QED
    BY <2>1, SmallestSet
<1>2. s # {}
  BY <1>1, SumEmpty
<1>3. f[Chosen(s)] = g[Chosen(s)] /\ s \ {Chosen(s)} \in good
  BY <1>1, <1>2, ChosenIn
<1>4. SumFunctionOnSet(f, s) = f[Chosen(s)] + SumFunctionOnSet(f, s \ {Chosen(s)})
  BY <1>1, <1>2, SumChosen
<1>5. SumFunctionOnSet(g, s) = g[Chosen(s)] + SumFunctionOnSet(g, s \ {Chosen(s)})
  BY <1>1, <1>2, SumChosen
<1> QED
  BY <1>1, <1>3, <1>4, <1>5

----
(* The hue of a colour. *)

LEMMA SmallMod ==
  ASSUME NEW m \in Nat, NEW x \in Int, 0 <= x, x < m
  PROVE  x % m = x
OBVIOUS

LEMMA NegativeMod ==
  ASSUME NEW m \in Nat, NEW x \in Int, 0 - m <= x, x < 0
  PROVE  x % m = x + m
OBVIOUS

LEMMA Extremes ==
  ASSUME NEW x \in Int, NEW y \in Int, NEW z \in Int
  PROVE  /\ Max({x, y, z}) \in {x, y, z}
         /\ Max({x, y, z}) >= x /\ Max({x, y, z}) >= y /\ Max({x, y, z}) >= z
         /\ Min({x, y, z}) \in {x, y, z}
         /\ Min({x, y, z}) <= x /\ Min({x, y, z}) <= y /\ Min({x, y, z}) <= z
<1> DEFINE S == {x, y, z}
<1>1. \E m \in S : \A n \in S : m >= n
  <2>1. CASE x >= y /\ x >= z
    BY <2>1
  <2>2. CASE y >= x /\ y >= z
    BY <2>2
  <2>3. CASE z >= x /\ z >= y
    BY <2>3
  <2> QED
    BY <2>1, <2>2, <2>3
<1>2. \E m \in S : \A n \in S : m <= n
  <2>1. CASE x <= y /\ x <= z
    BY <2>1
  <2>2. CASE y <= x /\ y <= z
    BY <2>2
  <2>3. CASE z <= x /\ z <= y
    BY <2>3
  <2> QED
    BY <2>1, <2>2, <2>3
<1>3. Max(S) \in S /\ \A n \in S : Max(S) >= n
  <2> HIDE DEF S
  <2> QED
    BY <1>1 DEF Max
<1>4. Min(S) \in S /\ \A n \in S : Min(S) <= n
  <2> HIDE DEF S
  <2> QED
    BY <1>2 DEF Min
<1> QED
  BY <1>3, <1>4

(* The hue without a remainder: only a hue next to 360 degrees has one.     *)
IsHue(h, r, g, b, most, d) ==
  h = IF d = 0 THEN 0
  ELSE IF b = most THEN 60 * (r - g) + 240 * d
  ELSE IF g = most THEN 60 * (b - r) + 120 * d
  ELSE IF g >= b THEN 60 * (g - b) ELSE 60 * (g - b) + 360 * d

IsRawHue(h, r, g, b, most, d) ==
  h = IF d = 0 THEN 0
  ELSE IF b = most THEN 60 * (r - g) + 240 * d
  ELSE IF g = most THEN 60 * (b - r) + 120 * d
  ELSE (60 * (g - b)) % (360 * d)

(* What the bands need of the largest channel and the spread.               *)
Spread(r, g, b, most, d) ==
  /\ most \in 0..255 /\ d \in 0..255
  /\ most \in {r, g, b} /\ most - d \in {r, g, b}
  /\ r <= most /\ g <= most /\ b <= most
  /\ most - d <= r /\ most - d <= g /\ most - d <= b

LEMMA SpreadOf ==
  ASSUME NEW r \in 0..255, NEW g \in 0..255, NEW b \in 0..255
  PROVE  Spread(r, g, b, Max({r, g, b}), Max({r, g, b}) - Min({r, g, b}))
<1> DEFINE most == Max({r, g, b})
           least == Min({r, g, b})
<1>1. /\ most \in {r, g, b} /\ most >= r /\ most >= g /\ most >= b
      /\ least \in {r, g, b} /\ least <= r /\ least <= g /\ least <= b
  <2>1. r \in Int /\ g \in Int /\ b \in Int
    OBVIOUS
  <2> QED
    BY <2>1, Extremes
<1> HIDE DEF most, least
<1>2. most \in 0..255 /\ least \in 0..255 /\ least <= most
  BY <1>1
<1>3. most - least \in 0..255 /\ most - (most - least) = least
  BY <1>2
<1>4. Spread(r, g, b, most, most - least)
  BY <1>1, <1>2, <1>3 DEF Spread
<1> QED
  BY <1>4 DEF most, least

LEMMA ColourSpread ==
  ASSUME NEW c \in Colour
  PROVE  Spread(c.r, c.g, c.b, Largest(c), Delta(c))
<1>1. c.r \in 0..255 /\ c.g \in 0..255 /\ c.b \in 0..255
  BY DEF Colour
<1> QED
  BY <1>1, SpreadOf DEF Largest, Delta

LEMMA HueWithoutMod ==
  ASSUME NEW r \in 0..255, NEW g \in 0..255, NEW b \in 0..255,
         NEW most, NEW d, Spread(r, g, b, most, d), NEW h, IsRawHue(h, r, g, b, most, d)
  PROVE  IsHue(h, r, g, b, most, d)
<1>1. d \in Nat
  BY DEF Spread
<1>2. CASE d # 0 /\ g >= b
  <2>1. 60 * (g - b) \in Int /\ 360 * d \in Nat /\ 0 <= 60 * (g - b) /\ 60 * (g - b) < 360 * d
    BY <1>1, <1>2 DEF Spread
  <2>2. (60 * (g - b)) % (360 * d) = 60 * (g - b)
    BY <2>1, SmallMod
  <2> QED
    BY <1>2, <2>2 DEF IsHue, IsRawHue
<1>3. CASE d # 0 /\ ~(g >= b)
  <2>1. /\ 60 * (g - b) \in Int /\ 360 * d \in Nat
        /\ 0 - 360 * d <= 60 * (g - b) /\ 60 * (g - b) < 0
    BY <1>1, <1>3 DEF Spread
  <2>2. (60 * (g - b)) % (360 * d) = 60 * (g - b) + 360 * d
    BY <2>1, NegativeMod
  <2> QED
    BY <1>3, <2>2 DEF IsHue, IsRawHue
<1>4. CASE d = 0
  BY <1>4 DEF IsHue, IsRawHue
<1> QED
  BY <1>2, <1>3, <1>4

LEMMA ColourHue ==
  ASSUME NEW c \in Colour
  PROVE  IsHue(Hue(c), c.r, c.g, c.b, Largest(c), Delta(c))
<1>1. c.r \in 0..255 /\ c.g \in 0..255 /\ c.b \in 0..255
  BY DEF Colour
<1>2. Spread(c.r, c.g, c.b, Largest(c), Delta(c))
  BY ColourSpread
<1>3. IsRawHue(Hue(c), c.r, c.g, c.b, Largest(c), Delta(c))
  BY Zenon DEF Hue, IsRawHue
<1> QED
  BY <1>1, <1>2, <1>3, HueWithoutMod

----
(* Red to green, green to blue, blue to red turns the hue by 120 degrees.   *)

LEMMA HueRange ==
  ASSUME NEW r \in 0..255, NEW g \in 0..255, NEW b \in 0..255,
         NEW most, NEW d, Spread(r, g, b, most, d), d # 0,
         NEW h, IsHue(h, r, g, b, most, d)
  PROVE  h \in Int /\ 0 <= h /\ h < 360 * d
BY DEF Spread, IsHue

IsTurned(x, h, d) == x = IF h < 240 * d THEN h + 120 * d ELSE h - 240 * d

LEMMA HueTurns ==
  ASSUME NEW r \in 0..255, NEW g \in 0..255, NEW b \in 0..255,
         NEW most, NEW d, Spread(r, g, b, most, d), d # 0,
         NEW h, IsHue(h, r, g, b, most, d), NEW x, IsHue(x, b, r, g, most, d)
  PROVE  IsTurned(x, h, d)
BY DEF Spread, IsHue, IsTurned

LEMMA TurnedColour ==
  ASSUME NEW c \in Colour
  PROVE  /\ Turned(c) \in Colour /\ Largest(Turned(c)) = Largest(c) /\ Delta(Turned(c)) = Delta(c)
         /\ Neutrals(Turned(c)) = Neutrals(c)
<1>1. Turned(c) \in Colour /\ Turned(c).r = c.b /\ Turned(c).g = c.r /\ Turned(c).b = c.g
  BY DEF Turned, Colour
<1>2. {c.b, c.r, c.g} = {c.r, c.g, c.b}
  OBVIOUS
<1>3. Largest(Turned(c)) = Largest(c) /\ Delta(Turned(c)) = Delta(c)
  BY <1>1, <1>2, Zenon DEF Largest, Delta
<1> QED
  BY <1>1, <1>3 DEF Neutrals

----
(* The bands. *)

(* The bounds of the bands of a tone that is not neutral: x is twice its hue by
   delta, and e twice delta.                                                  *)
Region(band, x, e) ==
  IF band = "reds" THEN x <= 30 * e \/ x >= 330 * e
  ELSE 30 * e < x /\ x < 330 * e /\ Above[band] * e < x /\ x <= UpTo[band] * e

Coloured == Bands \ {"neutrals"}

(* No two bands overlap and none is missing between them.                   *)
LEMMA OneRegion ==
  ASSUME NEW e \in Nat, NEW x \in Int
  PROVE  \E band \in Coloured :
           Region(band, x, e) /\ \A other \in Coloured : Region(other, x, e) => other = band
BY DEF Region, Coloured, Bands, Above, UpTo

LEMMA InRegion ==
  ASSUME NEW tone, NEW x \in Int, NEW d \in Nat, tone.hue = x, tone.delta = d,
         ~tone.neutral, NEW band \in Coloured
  PROVE  InBand(tone, band) <=> Region(band, x, 2 * d)
<1>1. /\ AtMost(tone, 30) <=> x <= 60 * d
      /\ AtLeast(tone, 330) <=> x >= 660 * d
  BY DEF AtMost, AtLeast
<1>2. band # "neutrals"
  BY DEF Coloured
<1>3. CASE band = "reds"
  BY <1>1, <1>2, <1>3 DEF InBand, Region, Red
<1>4. CASE band # "reds"
  <2>1. /\ AtMost(tone, Above[band]) <=> x <= Above[band] * (2 * d)
        /\ AtMost(tone, UpTo[band]) <=> x <= UpTo[band] * (2 * d)
    <3>1. Above[band] \in Nat /\ UpTo[band] \in Nat
      BY <1>2, <1>4 DEF Coloured, Bands, Above, UpTo
    <3>2. PICK a \in Nat, b \in Nat : a = Above[band] /\ b = UpTo[band]
      BY <3>1
    <3>3. 2 * a * d = a * (2 * d) /\ 2 * b * d = b * (2 * d)
      OBVIOUS
    <3> QED
      BY <3>2, <3>3 DEF AtMost
  <2>2. Above[band] * (2 * d) \in Int
    BY <1>2, <1>4 DEF Coloured, Bands, Above
  <2> QED
    BY <1>1, <1>2, <1>4, <2>1, <2>2 DEF InBand, Region, Red
<1> QED
  BY <1>3, <1>4

LEMMA BandsOfTone ==
  ASSUME NEW tone, NEW x \in Int, NEW d \in Nat, tone.hue = x, tone.delta = d
  PROVE  /\ tone.neutral => BandsOf(tone) = {"neutrals"}
         /\ ~tone.neutral => \A band \in Coloured :
              Region(band, x, 2 * d) => BandsOf(tone) = {band}
<1>1. ASSUME tone.neutral PROVE BandsOf(tone) = {"neutrals"}
  BY <1>1 DEF BandsOf, InBand, Bands
<1>2. ASSUME ~tone.neutral, NEW band \in Coloured, Region(band, x, 2 * d)
      PROVE  BandsOf(tone) = {band}
  <2>1. \A other \in Coloured : Region(other, x, 2 * d) => other = band
    <3>1. 2 * d \in Nat
      OBVIOUS
    <3>2. PICK one \in Coloured : \A other \in Coloured : Region(other, x, 2 * d) => other = one
      BY <3>1, OneRegion
    <3> QED
      BY <1>2, <3>2
  <2>2. \A other \in Coloured : InBand(tone, other) <=> other = band
    BY <1>2, <2>1, InRegion
  <2>3. ~InBand(tone, "neutrals")
    BY <1>2 DEF InBand
  <2> QED
    BY <2>2, <2>3 DEF BandsOf, Coloured
<1> QED
  BY <1>1, <1>2

(* Neither the rounding of a hue nor that of the turned hue matters off the
   bounds: x and y are twice what they come out as.                          *)
LEMMA RegionTurns ==
  ASSUME NEW d \in Nat, d # 0, NEW h \in Int, 0 <= h, h < 360 * d,
         h # 30 * d, h # 90 * d, h # 150 * d, h # 210 * d, h # 270 * d, h # 330 * d,
         NEW t \in Int, IsTurned(t, h, d),
         NEW x \in Int, 2 * h - 1 <= x, x <= 2 * h + 1,
         NEW y \in Int, 2 * t - 1 <= y, y <= 2 * t + 1,
         NEW band \in Coloured, Region(band, x, 2 * d)
  PROVE  \E next \in TurnedBand(band) \cap Coloured : Region(next, y, 2 * d)
<1>1. CASE band = "reds"
  <2>1. Region("greens", y, 2 * d)
    BY <1>1 DEF Region, IsTurned, Above, UpTo
  <2> QED
    BY <1>1, <2>1 DEF TurnedBand, Coloured, Bands
<1>2. CASE band \in {"oranges", "yellows"}
  <2>1. 30 * d < h /\ h < 90 * d
    BY <1>2 DEF Region, Above, UpTo
  <2>2. Region("cyans", y, 2 * d)
    BY <2>1 DEF Region, IsTurned, Above, UpTo
  <2> QED
    BY <1>2, <2>2 DEF TurnedBand, Coloured, Bands
<1>3. CASE band = "greens"
  <2>1. Region("blues", y, 2 * d)
    BY <1>3 DEF Region, IsTurned, Above, UpTo
  <2> QED
    BY <1>3, <2>1 DEF TurnedBand, Coloured, Bands
<1>4. CASE band = "cyans"
  <2>1. Region("magentas", y, 2 * d)
    BY <1>4 DEF Region, IsTurned, Above, UpTo
  <2> QED
    BY <1>4, <2>1 DEF TurnedBand, Coloured, Bands
<1>5. CASE band = "blues"
  <2>1. Region("reds", y, 2 * d)
    BY <1>5 DEF Region, IsTurned, Above, UpTo
  <2> QED
    BY <1>5, <2>1 DEF TurnedBand, Coloured, Bands
<1>6. CASE band = "magentas"
  <2>1. 270 * d < h /\ h < 330 * d
    BY <1>6 DEF Region, Above, UpTo
  <2>2. Region("oranges", y, 2 * d) \/ Region("yellows", y, 2 * d)
    BY <2>1 DEF Region, IsTurned, Above, UpTo
  <2> QED
    BY <1>6, <2>2 DEF TurnedBand, Coloured, Bands
<1> QED
  BY <1>1, <1>2, <1>3, <1>4, <1>5, <1>6 DEF Coloured, Bands

LEMMA HueInt ==
  ASSUME NEW c \in Colour
  PROVE  Hue(c) \in Int /\ Delta(c) \in Nat
<1>1. Spread(c.r, c.g, c.b, Largest(c), Delta(c))
  BY ColourSpread
<1>2. Delta(c) \in Nat
  BY <1>1 DEF Spread
<1>3. CASE Delta(c) = 0
  BY <1>3 DEF Hue
<1>4. CASE Delta(c) # 0
  <2>1. c.r \in 0..255 /\ c.g \in 0..255 /\ c.b \in 0..255
    BY DEF Colour
  <2> QED
    BY <1>1, <1>2, <1>4, <2>1, ColourHue, HueRange
<1> QED
  BY <1>2, <1>3, <1>4

(* A tone is the colour's hue or next to it. *)
LEMMA ToneOf ==
  ASSUME NEW c \in Colour, NEW tone \in Tones(c)
  PROVE  /\ tone.hue \in Int /\ 2 * Hue(c) - 1 <= tone.hue /\ tone.hue <= 2 * Hue(c) + 1
         /\ tone.delta = Delta(c) /\ tone.neutral \in Neutrals(c)
<1>1. tone.hue \in Hues(c) /\ tone.delta = Delta(c) /\ tone.neutral \in Neutrals(c)
  BY DEF Tones
<1>2. Hue(c) \in Int
  BY HueInt
<1>3. tone.hue \in {2 * Hue(c) - 1, 2 * Hue(c), 2 * Hue(c) + 1}
  BY <1>1 DEF Hues
<1> QED
  BY <1>1, <1>2, <1>3

LEMMA NeutralOrNot ==
  ASSUME NEW c
  PROVE  Neutrals(c) \in {{TRUE}, {FALSE}, BOOLEAN}
<1>1. (100 * Delta(c) < 15 * Largest(c)) \in BOOLEAN
  OBVIOUS
<1> QED
  BY <1>1 DEF Neutrals

LEMMA ToneInBand ==
  ASSUME NEW c \in Colour, NEW tone \in Tones(c)
  PROVE  \E band \in Bands :
           /\ BandsOf(tone) = {band}
           /\ IF tone.neutral THEN band = "neutrals"
              ELSE band \in Coloured /\ Region(band, tone.hue, 2 * Delta(c))
<1>1. Delta(c) \in Nat /\ 2 * Delta(c) \in Nat
  BY HueInt
<1>2. tone.hue \in Int /\ tone.delta = Delta(c)
  BY ToneOf
<1>3. CASE tone.neutral
  BY <1>1, <1>2, <1>3, BandsOfTone DEF Bands
<1>4. CASE ~tone.neutral
  <2>1. PICK band \in Coloured : Region(band, tone.hue, 2 * Delta(c))
    BY <1>1, <1>2, OneRegion
  <2>2. BandsOf(tone) = {band} /\ band \in Bands
    BY <1>1, <1>2, <1>4, <2>1, BandsOfTone DEF Coloured
  <2> QED
    BY <1>4, <2>1, <2>2
<1> QED
  BY <1>3, <1>4

LEMMA ToneTurns ==
  ASSUME NEW c \in Colour, ~OnBound(c), NEW tone \in Tones(c), NEW turned \in Tones(Turned(c)),
         NEW band \in Bands, BandsOf(tone) = {band}
  PROVE  \E next \in TurnedBand(band) : BandsOf(turned) = {next}
<1>1. /\ Turned(c) \in Colour /\ Delta(Turned(c)) = Delta(c)
      /\ Largest(Turned(c)) = Largest(c) /\ Neutrals(Turned(c)) = Neutrals(c)
  BY TurnedColour
<1>2. PICK d, h, t, x, y :
        /\ d = Delta(c) /\ h = Hue(c) /\ t = Hue(Turned(c)) /\ x = tone.hue /\ y = turned.hue
  OBVIOUS
<1>3. /\ d \in Nat /\ h \in Int /\ t \in Int /\ x \in Int /\ y \in Int
      /\ 2 * h - 1 <= x /\ x <= 2 * h + 1 /\ 2 * t - 1 <= y /\ y <= 2 * t + 1
      /\ tone.delta = d /\ turned.delta = d
      /\ tone.neutral \in Neutrals(c) /\ turned.neutral \in Neutrals(c)
  BY <1>1, <1>2, HueInt, ToneOf
<1>4. Neutrals(c) = {TRUE} \/ Neutrals(c) = {FALSE}
  BY NeutralOrNot DEF OnBound
<1>5. PICK other \in Bands :
        /\ BandsOf(tone) = {other}
        /\ IF tone.neutral THEN other = "neutrals" ELSE other \in Coloured /\ Region(other, x, 2 * d)
  BY <1>2, ToneInBand
<1>6. other = band
  BY <1>5
<1>7. CASE Neutrals(c) = {TRUE}
  <2>1. tone.neutral /\ turned.neutral
    BY <1>3, <1>7
  <2>2. band = "neutrals" /\ BandsOf(turned) = {"neutrals"}
    BY <1>2, <1>3, <1>5, <1>6, <2>1, BandsOfTone
  <2>3. "neutrals" \in TurnedBand("neutrals")
    BY DEF TurnedBand
  <2> QED
    BY <2>2, <2>3
<1>8. CASE Neutrals(c) = {FALSE}
  <2>1. ~tone.neutral /\ ~turned.neutral
    BY <1>3, <1>8
  <2>2. band \in Coloured /\ Region(band, x, 2 * d)
    BY <1>5, <1>6, <2>1
  <2>3. /\ c.r \in 0..255 /\ c.g \in 0..255 /\ c.b \in 0..255
        /\ Spread(c.r, c.g, c.b, Largest(c), d)
    BY <1>2, ColourSpread DEF Colour
  <2>4. d # 0
    <3>1. Largest(c) \in Nat
      BY <2>3 DEF Spread
    <3>2. Neutrals(c) # {TRUE}
      BY <1>8
    <3>3. Largest(c) # 0 /\ ~(100 * d < 15 * Largest(c))
      BY <1>2, <3>2, <1>8 DEF Neutrals
    <3> QED
      BY <3>1, <3>3
  <2>5. /\ IsHue(h, c.r, c.g, c.b, Largest(c), d)
        /\ IsHue(t, c.b, c.r, c.g, Largest(c), d)
    <3>1. Turned(c).r = c.b /\ Turned(c).g = c.r /\ Turned(c).b = c.g
      BY DEF Turned
    <3> QED
      BY <1>1, <1>2, <3>1, ColourHue, Zenon
  <2>6. IsTurned(t, h, d)
    BY <2>3, <2>4, <2>5, HueTurns
  <2>7. h \in Int /\ 0 <= h /\ h < 360 * d
    <3>1. PICK r \in 0..255, g \in 0..255, b \in 0..255, most \in {Largest(c)} :
            r = c.r /\ g = c.g /\ b = c.b /\ most = Largest(c)
      BY <2>3
    <3>2. Spread(r, g, b, most, d) /\ IsHue(h, r, g, b, most, d)
      BY <2>3, <2>5, <3>1
    <3> QED
      BY <2>4, <3>2, HueRange
  <2>8. /\ h # 30 * d /\ h # 90 * d /\ h # 150 * d
        /\ h # 210 * d /\ h # 270 * d /\ h # 330 * d
    <3>1. \A degrees \in RoundedBounds : Hue(c) # degrees * Delta(c)
      BY <1>8, Zenon DEF OnBound
    <3> QED
      BY <1>2, <3>1 DEF RoundedBounds
  <2>9. PICK next \in TurnedBand(band) \cap Coloured : Region(next, y, 2 * d)
    BY ONLY <1>3, <2>2, <2>4, <2>6, <2>7, <2>8, RegionTurns
  <2>10. BandsOf(turned) = {next}
    BY <1>2, <1>3, <2>1, <2>9, BandsOfTone
  <2> QED
    BY <2>9, <2>10
<1> QED
  BY <1>4, <1>7, <1>8

----
(* What is known of a request: the picture is one of a size that the resize *)
(* of the upload may give, and the profile is the picture's.                *)

IsPicture(p, size) ==
  p \in Pictures(size[1], size[2]) /\ p.top <= p.bottom /\ p.left <= p.right

IsProfile(q, p) == \E tone \in Readings(p) : q = Profile(p, tone)

Seen == pc \in {"loaded", "analyzed"} \/ Analyzed

IInv ==
  /\ upload \in Uploads
  /\ pc \in {"received", "loaded", "analyzed", "answered"}
  /\ status \in (IF pc = "answered" THEN {200, 413, 415, 422, 500} ELSE {0})
  /\ pc \in {"received", "loaded"} => profile = None
  /\ Seen => \E size \in Resized(upload.height, upload.width) : IsPicture(picture, size)
  /\ pc = "analyzed" \/ Analyzed => IsProfile(profile, picture)
  /\ Analyzed /\ status = 500 => \E z \in 1..9 : profile.zones[z] = Undefined

LEMMA Invariance == Spec => []IInv
<1>1. Init => IInv
  BY DEF Init, IInv, Seen, Analyzed
<1>2. IInv /\ [Next]_vars => IInv'
  <2> SUFFICES ASSUME IInv, [Next]_vars PROVE IInv'
    OBVIOUS
  <2>1. CASE Load
    <3>1. \E size \in Resized(upload.height, upload.width) : IsPicture(picture', size)
      BY <2>1 DEF Load, IsPicture
    <3>2. /\ pc = "received" /\ pc' = "loaded" /\ status = 0 /\ profile = None
          /\ UNCHANGED <<upload, profile, status>>
      BY <2>1 DEF Load, IInv
    <3> QED
      BY <3>1, <3>2 DEF IInv, Analyzed
  <2>2. CASE Analyze
    <3>1. IsProfile(profile', picture)
      BY <2>2 DEF Analyze, IsProfile
    <3>2. /\ pc = "loaded" /\ pc' = "analyzed" /\ status = 0
          /\ UNCHANGED <<upload, picture, status>>
      BY <2>2 DEF Analyze, IInv
    <3> QED
      BY <3>1, <3>2 DEF IInv, Seen
  <2>3. CASE RefuseType \/ RefuseEmpty \/ RefuseLarge \/ RefuseBroken
    <3>1. /\ pc = "received" /\ pc' = "answered" /\ profile = None /\ status' \in {413, 415, 422}
          /\ UNCHANGED <<upload, picture, profile>>
      BY <2>3 DEF RefuseType, RefuseEmpty, RefuseLarge, RefuseBroken, Refuse, Answer, IInv
    <3> QED
      BY <3>1 DEF IInv, Seen, Analyzed
  <2>4. CASE Render
    <3>1. /\ pc = "analyzed" /\ pc' = "answered" /\ status' \in {200, 500}
          /\ status' = 500 => \E z \in 1..9 : profile.zones[z] = Undefined
          /\ UNCHANGED <<upload, picture, profile>>
      BY <2>4 DEF Render, Answer
    <3> QED
      BY <3>1 DEF IInv, Seen, Analyzed
  <2>5. CASE UNCHANGED vars
    BY <2>5 DEF vars, IInv, Seen, Analyzed
  <2> QED
    BY <2>1, <2>2, <2>3, <2>4, <2>5 DEF Next
<1> QED
  BY <1>1, <1>2, PTL DEF Spec

LEMMA PictureColours ==
  ASSUME NEW p, NEW size, IsPicture(p, size)
  PROVE  /\ p.ground \in Colours /\ p.figure \in Colours
         /\ p.ground \in Colour /\ p.figure \in Colour
BY ColoursAssumption DEF IsPicture, Pictures, Colour

(* _extract_per_hue_saturation: the bands share out all colours, whichever way
   their hues and saturations are rounded, and treat red, green and blue alike,
   for every 24-bit colour but those on a bound that rounding decides.        *)
THEOREM EveryHueTurns == Spec => []HuesTurn
<1>1. IInv => HuesTurn
  <2> SUFFICES ASSUME IInv, pc = "analyzed", NEW x \in Pixels(picture),
                      NEW tone \in Tones(ColourAt(picture, x))
               PROVE  \E band \in Bands :
                        /\ BandsOf(tone) = {band}
                        /\ ~OnBound(ColourAt(picture, x)) =>
                             \A turned \in Tones(Turned(ColourAt(picture, x))) :
                               \E next \in TurnedBand(band) : BandsOf(turned) = {next}
    BY DEF HuesTurn
  <2>1. PICK c \in Colour : c = ColourAt(picture, x)
    BY PictureColours DEF IInv, Seen, ColourAt
  <2>2. PICK band \in Bands : BandsOf(tone) = {band}
    BY <2>1, ToneInBand
  <2>3. ~OnBound(c) => \A turned \in Tones(Turned(c)) :
          \E next \in TurnedBand(band) : BandsOf(turned) = {next}
    BY <2>1, <2>2, ToneTurns
  <2> QED
    BY <2>1, <2>2, <2>3
<1> QED
  BY Invariance, <1>1, PTL

----
(* The size after the resize, and its zones. *)

LEMMA OfTwo ==
  ASSUME NEW x \in Int, NEW y \in Int
  PROVE  /\ Max({x, y}) = IF x <= y THEN y ELSE x
         /\ Min({x, y}) = IF x <= y THEN x ELSE y
<1>1. {x, y} = {x, y, y}
  OBVIOUS
<1>2. /\ Max({x, y}) \in {x, y} /\ Max({x, y}) >= x /\ Max({x, y}) >= y
      /\ Min({x, y}) \in {x, y} /\ Min({x, y}) <= x /\ Min({x, y}) <= y
  <2>1. /\ Max({x, y, y}) \in {x, y, y} /\ Max({x, y, y}) >= x /\ Max({x, y, y}) >= y
        /\ Min({x, y, y}) \in {x, y, y} /\ Min({x, y, y}) <= x /\ Min({x, y, y}) <= y
    BY Extremes
  <2> QED
    BY <1>1, <2>1, Zenon
<1> QED
  BY <1>2

LEMMA ScaledSide ==
  ASSUME NEW side \in Nat \ {0}, NEW other \in Nat \ {0}, NEW s \in Scaled(side, other)
  PROVE  /\ s \in Nat \ {0}
         /\ MaxPixels * side > 9 * other => s >= 3
<1>1. PICK n \in 0 .. side : /\ s = Max({1, n})
                             /\ MaxPixels * side <= (n + 1) * (n + 1) * other
  BY DEF Scaled
<1>2. s = (IF 1 <= n THEN n ELSE 1) /\ n \in Nat
  BY <1>1, OfTwo
<1>3. ASSUME MaxPixels * side > 9 * other PROVE n >= 3
  <2>1. MaxPixels * side \in Nat
    BY BoundsAssumption
  <2>2. (n + 1) * (n + 1) * other > 9 * other
    BY <1>1, <1>2, <1>3, <2>1
  <2>3. n # 0 /\ n # 1 /\ n # 2
    BY <2>2
  <2> QED
    BY <1>2, <2>3
<1> QED
  BY <1>2, <1>3

Thin(h, w) ==
  \/ Shorter(h, w) < 3
  \/ h * w > MaxPixels /\ MaxPixels * Shorter(h, w) <= 9 * Longer(h, w)

LEMMA ResizedSides ==
  ASSUME NEW h \in Nat \ {0}, NEW w \in Nat \ {0}, NEW size \in Resized(h, w)
  PROVE  /\ size[1] \in Nat \ {0} /\ size[2] \in Nat \ {0}
         /\ ~Thin(h, w) => size[1] >= 3 /\ size[2] >= 3
<1>1. Shorter(h, w) = (IF h <= w THEN h ELSE w) /\ Longer(h, w) = (IF h <= w THEN w ELSE h)
  BY OfTwo DEF Shorter, Longer
<1>2. CASE h * w <= MaxPixels
  BY <1>1, <1>2 DEF Resized, Thin
<1>3. CASE ~(h * w <= MaxPixels)
  <2>1. size[1] \in Scaled(h, w) /\ size[2] \in Scaled(w, h)
    BY <1>3 DEF Resized
  <2>2. ASSUME ~Thin(h, w) PROVE MaxPixels * h > 9 * w /\ MaxPixels * w > 9 * h
    <3>1. /\ MaxPixels \in Nat /\ MaxPixels * h \in Nat /\ MaxPixels * w \in Nat
          /\ h * w \in Nat
      BY BoundsAssumption
    <3>2. h * w > MaxPixels
      BY <1>3, <3>1
    <3>3. MaxPixels * Shorter(h, w) > 9 * Longer(h, w)
      BY <1>1, <2>2, <3>1, <3>2 DEF Thin
    <3>4. CASE h <= w
      <4>1. MaxPixels * h <= MaxPixels * w
        BY <3>1, <3>4
      <4> QED
        BY <1>1, <3>1, <3>3, <3>4, <4>1
    <3>5. CASE ~(h <= w)
      <4>1. MaxPixels * w <= MaxPixels * h
        BY <3>1, <3>5
      <4> QED
        BY <1>1, <3>1, <3>3, <3>5, <4>1
    <3> QED
      BY <3>4, <3>5
  <2> QED
    BY <2>1, <2>2, ScaledSide
<1> QED
  BY <1>2, <1>3

(* Three rows or more fall into three bands, none of which is empty. *)
LEMMA Thirds ==
  ASSUME NEW side \in Nat, side >= 3
  PROVE  /\ \A n \in 1..3 : Third(n, side) # {} /\ Third(n, side) \subseteq 1..side
         /\ \A x \in 1..side : \E n \in 1..3 :
              x \in Third(n, side) /\ \A m \in 1..3 : x \in Third(m, side) => m = n
<1>1. /\ Third(1, side) = 1 .. side \div 3
      /\ Third(2, side) = side \div 3 + 1 .. (2 * side) \div 3
      /\ Third(3, side) = (2 * side) \div 3 + 1 .. side
  BY DEF Third
<1>2. /\ side \div 3 \in Nat /\ (2 * side) \div 3 \in Nat
      /\ 1 <= side \div 3 /\ side \div 3 < (2 * side) \div 3 /\ (2 * side) \div 3 < side
  OBVIOUS
<1>3. ASSUME NEW n \in 1..3 PROVE n = 1 \/ n = 2 \/ n = 3
  OBVIOUS
<1>4. Third(1, side) # {} /\ Third(2, side) # {} /\ Third(3, side) # {}
  <2>1. /\ 1 \in Third(1, side) /\ (2 * side) \div 3 \in Third(2, side)
        /\ side \in Third(3, side)
    BY <1>1, <1>2
  <2> QED
    BY <2>1
<1>5. \A n \in 1..3 : Third(n, side) \subseteq 1..side
  BY <1>1, <1>2, <1>3
<1>6. ASSUME NEW x \in 1..side
      PROVE  \E n \in 1..3 : x \in Third(n, side) /\ \A m \in 1..3 : x \in Third(m, side) => m = n
  <2>1. CASE x <= side \div 3
    <3>1. x \in Third(1, side) /\ x \notin Third(2, side) /\ x \notin Third(3, side)
      BY <1>1, <1>2, <2>1
    <3> QED
      BY <1>3, <3>1
  <2>2. CASE side \div 3 < x /\ x <= (2 * side) \div 3
    <3>1. x \notin Third(1, side) /\ x \in Third(2, side) /\ x \notin Third(3, side)
      BY <1>1, <1>2, <2>2
    <3> QED
      BY <1>3, <3>1
  <2>3. CASE (2 * side) \div 3 < x
    <3>1. x \notin Third(1, side) /\ x \notin Third(2, side) /\ x \in Third(3, side)
      BY <1>1, <1>2, <2>3
    <3> QED
      BY <1>3, <3>1
  <2> QED
    BY <1>2, <2>1, <2>2, <2>3
<1> QED
  BY <1>3, <1>4, <1>5, <1>6

LEMMA ZoneOf ==
  ASSUME NEW z \in 1..9
  PROVE  /\ (z - 1) \div 3 + 1 \in 1..3 /\ ((z - 1) % 3) + 1 \in 1..3
         /\ z = 3 * ((z - 1) \div 3 + 1) + (((z - 1) % 3) + 1) - 3
OBVIOUS

LEMMA OneZone ==
  ASSUME NEW p, p.height \in Nat, p.width \in Nat, p.height >= 3, p.width >= 3
  PROVE  /\ \A z \in 1..9 : Zone(p, z) # {} /\ Zone(p, z) \subseteq Pixels(p)
         /\ \A x \in Pixels(p) : Cardinality({z \in 1..9 : x \in Zone(p, z)}) = 1
<1>1. ASSUME NEW z \in 1..9 PROVE Zone(p, z) # {} /\ Zone(p, z) \subseteq Pixels(p)
  <2> DEFINE rows == Third((z - 1) \div 3 + 1, p.height)
             columns == Third(((z - 1) % 3) + 1, p.width)
  <2>1. /\ rows # {} /\ rows \subseteq 1 .. p.height
        /\ columns # {} /\ columns \subseteq 1 .. p.width
    BY Thirds, ZoneOf
  <2>2. Zone(p, z) = rows \X columns /\ Pixels(p) = (1 .. p.height) \X (1 .. p.width)
    BY DEF Zone, Pixels
  <2> HIDE DEF rows, columns
  <2>3. PICK r \in rows, c \in columns : <<r, c>> \in Zone(p, z)
    BY <2>1, <2>2
  <2>4. Zone(p, z) \subseteq Pixels(p)
    BY <2>1, <2>2
  <2> QED
    BY <2>3, <2>4
<1>2. ASSUME NEW x \in Pixels(p) PROVE Cardinality({z \in 1..9 : x \in Zone(p, z)}) = 1
  <2>1. x = <<x[1], x[2]>> /\ x[1] \in 1 .. p.height /\ x[2] \in 1 .. p.width
    BY DEF Pixels
  <2>2. PICK n \in 1..3 : /\ x[1] \in Third(n, p.height)
                          /\ \A m \in 1..3 : x[1] \in Third(m, p.height) => m = n
    BY <2>1, Thirds
  <2>3. PICK k \in 1..3 : /\ x[2] \in Third(k, p.width)
                          /\ \A m \in 1..3 : x[2] \in Third(m, p.width) => m = k
    BY <2>1, Thirds
  <2> DEFINE one == 3 * n + k - 3
  <2>4. one \in 1..9 /\ (one - 1) \div 3 + 1 = n /\ ((one - 1) % 3) + 1 = k
    OBVIOUS
  <2>5. \A z \in 1..9 : x \in Zone(p, z) <=>
          /\ x[1] \in Third((z - 1) \div 3 + 1, p.height)
          /\ x[2] \in Third(((z - 1) % 3) + 1, p.width)
    BY <2>1 DEF Zone
  <2> HIDE DEF one
  <2>6. x \in Zone(p, one)
    BY <2>2, <2>3, <2>4, <2>5
  <2>7. ASSUME NEW z \in 1..9, x \in Zone(p, z) PROVE z = one
    <3>1. (z - 1) \div 3 + 1 = n /\ ((z - 1) % 3) + 1 = k
      BY <2>2, <2>3, <2>5, <2>7, ZoneOf
    <3> QED
      BY <3>1, ZoneOf DEF one
  <2>8. {z \in 1..9 : x \in Zone(p, z)} = {one}
    BY <2>4, <2>6, <2>7
  <2> QED
    BY <2>8, FS_Singleton
<1> QED
  BY <1>1, <1>2

----
(* Means. *)

LEMMA Mixture ==
  ASSUME NEW n \in Nat, NEW i \in 0..n, NEW a \in Int, NEW b \in Int, NEW lo \in Int, NEW hi \in Int,
         i # 0 => lo <= a /\ a <= hi, i # n => lo <= b /\ b <= hi
  PROVE  lo * n <= i * a + (n - i) * b /\ i * a + (n - i) * b <= hi * n
<1>1. /\ i * lo <= i * a /\ i * a <= i * hi
  BY SMT
<1>2. (n - i) * lo <= (n - i) * b /\ (n - i) * b <= (n - i) * hi
  <2>1. CASE i = n
    BY <2>1
  <2>2. CASE i # n
    <3>1. n - i \in Nat /\ lo <= b /\ b <= hi
      BY <2>2
    <3> QED
      BY <3>1
  <2> QED
    BY <2>1, <2>2
<1>3. lo * n = i * lo + (n - i) * lo /\ hi * n = i * hi + (n - i) * hi
  OBVIOUS
<1>4. i * a \in Int /\ (n - i) * b \in Int /\ i * lo \in Int /\ (n - i) * lo \in Int
      /\ i * hi \in Int /\ (n - i) * hi \in Int
  OBVIOUS
<1> QED
  BY <1>1, <1>2, <1>3, <1>4

(* Bounds that are large numbers are kept apart from the intervals. *)
Between(x, lo, hi) == x \in Int /\ lo <= x /\ x <= hi

LEMMA Interval ==
  ASSUME NEW lo \in Int, NEW hi \in Int, NEW x
  PROVE  x \in lo..hi <=> Between(x, lo, hi)
BY DEF Between

LEMMA Quotient ==
  ASSUME NEW n \in Nat \ {0}, NEW t \in Int, NEW lo \in Int, NEW hi \in Int,
         lo * n <= t, t <= hi * n
  PROVE  Between(t \div n, lo, hi)
<1>1. t \div n \in Int
  OBVIOUS
<1>2. lo <= t \div n
  OBVIOUS
<1>3. t \div n <= hi
  OBVIOUS
<1> QED
  BY <1>1, <1>2, <1>3 DEF Between

LEMMA PictureSize ==
  ASSUME NEW h \in Nat \ {0}, NEW w \in Nat \ {0}, NEW p, IsPicture(p, <<h, w>>)
  PROVE  /\ p.height = h /\ p.width = w
         /\ IsFiniteSet(Pixels(p)) /\ Cardinality(Pixels(p)) = h * w
<1>1. p.height = h /\ p.width = w
  BY DEF IsPicture, Pictures
<1>2. /\ IsFiniteSet(1..h) /\ Cardinality(1..h) = h
      /\ IsFiniteSet(1..w) /\ Cardinality(1..w) = w
  BY FS_Interval
<1> QED
  <2> DEFINE rows == 1..h
             columns == 1..w
  <2>1. IsFiniteSet(rows \X columns) /\ Cardinality(rows \X columns) = h * w
    <3>1. /\ IsFiniteSet(rows) /\ Cardinality(rows) = h
          /\ IsFiniteSet(columns) /\ Cardinality(columns) = w
      BY <1>2
    <3> HIDE DEF rows, columns
    <3> QED
      BY <3>1, FS_Product
  <2>2. Pixels(p) = rows \X columns
    BY <1>1 DEF Pixels
  <2> QED
    BY <1>1, <2>1, <2>2

(* How many of some pixels are in the figure, and what that tells of them. *)
Inside(p, S) == Cardinality({x \in S : InFigure(p, x)})

LEMMA InsideOf ==
  ASSUME NEW p, NEW S, IsFiniteSet(S)
  PROVE  /\ Cardinality(S) \in Nat /\ Inside(p, S) \in 0 .. Cardinality(S)
         /\ Inside(p, S) # 0 => \E x \in S : ColourAt(p, x) = p.figure
         /\ Inside(p, S) # Cardinality(S) => \E x \in S : ColourAt(p, x) = p.ground
<1> DEFINE T == {x \in S : InFigure(p, x)}
<1>1. /\ IsFiniteSet(T) /\ Cardinality(T) \in Nat /\ Cardinality(S) \in Nat
      /\ Cardinality(T) <= Cardinality(S)
  BY FS_Subset, FS_CardinalityType
<1>2. Cardinality(T) # 0 => T # {}
  BY FS_EmptySet
<1>3. Cardinality(T) # Cardinality(S) => T # S
  OBVIOUS
<1>4. T # {} => \E x \in S : InFigure(p, x)
  OBVIOUS
<1>5. T # S => \E x \in S : ~InFigure(p, x)
  OBVIOUS
<1> HIDE DEF T
<1> QED
  BY <1>1, <1>2, <1>3, <1>4, <1>5 DEF Inside, ColourAt, T

LEMMA SumBounds ==
  ASSUME NEW p, NEW S, IsFiniteSet(S), NEW value, NEW lo \in Int, NEW hi \in Int,
         value[p.figure] \in Int, value[p.ground] \in Int,
         \A x \in S : Between(value[ColourAt(p, x)], lo, hi)
  PROVE  LET t == Inside(p, S) * value[p.figure]
                  + (Cardinality(S) - Inside(p, S)) * value[p.ground]
         IN  t \in Int /\ lo * Cardinality(S) <= t /\ t <= hi * Cardinality(S)
<1> DEFINE i == Inside(p, S)
           n == Cardinality(S)
           a == value[p.figure]
           b == value[p.ground]
<1>1. n \in Nat /\ i \in 0..n /\ a \in Int /\ b \in Int
  BY InsideOf
<1>2. i # 0 => Between(a, lo, hi)
  BY InsideOf
<1>3. i # n => Between(b, lo, hi)
  BY InsideOf
<1> HIDE DEF i, n, a, b
<1>4. i # 0 => lo <= a /\ a <= hi
  BY <1>2 DEF Between
<1>5. i # n => lo <= b /\ b <= hi
  BY <1>3 DEF Between
<1>6. lo * n <= i * a + (n - i) * b /\ i * a + (n - i) * b <= hi * n
  BY <1>1, <1>4, <1>5, Mixture
<1>7. i * a + (n - i) * b \in Int
  BY <1>1
<1> QED
  BY <1>6, <1>7 DEF i, n, a, b

LEMMA MeanBounds ==
  ASSUME NEW p, NEW size, IsPicture(p, size), NEW S, IsFiniteSet(S), S # {},
         NEW lo \in Int, NEW hi \in Int, \A x \in S : LightAt(p, x) \in lo..hi
  PROVE  Mean10(p, S) \in 10 * lo .. 10 * hi
<1> DEFINE t == Inside(p, S) * Lightness[p.figure]
                + (Cardinality(S) - Inside(p, S)) * Lightness[p.ground]
           n == Cardinality(S)
<1>1. Lightness[p.figure] \in Int /\ Lightness[p.ground] \in Int
  BY PictureColours, ColoursAssumption
<1>2. \A x \in S : Between(Lightness[ColourAt(p, x)], lo, hi)
  BY Interval DEF LightAt
<1>3. t \in Int /\ lo * n <= t /\ t <= hi * n
  BY <1>1, <1>2, SumBounds
<1>4. n \in Nat \ {0}
  BY FS_CardinalityType, FS_EmptySet
<1>5. Mean10(p, S) = (10 * t) \div n
  BY DEF Mean10, Sum, Inside
<1> HIDE DEF t, n
<1>6. 10 * t \in Int /\ (10 * lo) * n <= 10 * t /\ 10 * t <= (10 * hi) * n
  <2>1. lo * n \in Int /\ hi * n \in Int /\ (10 * lo) * n = 10 * (lo * n)
        /\ (10 * hi) * n = 10 * (hi * n)
    BY <1>4
  <2> QED
    BY <1>3, <2>1
<1>7. Between((10 * t) \div n, 10 * lo, 10 * hi)
  BY <1>4, <1>6, Quotient
<1> QED
  BY <1>5, <1>7, Interval DEF Between

LEMMA LightRange ==
  ASSUME NEW p, NEW size, IsPicture(p, size), NEW x
  PROVE  LightAt(p, x) \in 0..100
BY PictureColours, ColoursAssumption DEF LightAt, ColourAt

----
(* The parts of a profile. *)

LEMMA FiniteThird ==
  ASSUME NEW n \in Int, NEW side \in Int
  PROVE  IsFiniteSet(Third(n, side))
<1> DEFINE a == ((n - 1) * side) \div 3 + 1
           b == (n * side) \div 3
<1>1. a \in Int /\ b \in Int
  <2>1. (n - 1) * side \in Int /\ n * side \in Int
    OBVIOUS
  <2> QED
    BY <2>1
<1>2. Third(n, side) = a..b
  BY DEF Third
<1> HIDE DEF a, b
<1> QED
  BY <1>1, <1>2, FS_Interval

LEMMA ZonesType ==
  ASSUME NEW h \in Nat \ {0}, NEW w \in Nat \ {0}, NEW p, IsPicture(p, <<h, w>>)
  PROVE  /\ Zones(p) \in [1..9 -> Levels \cup {Undefined}]
         /\ h >= 3 /\ w >= 3 => \A z \in 1..9 : Zones(p)[z] # Undefined
<1>1. p.height = h /\ p.width = w
  BY PictureSize
<1>2. ASSUME NEW z \in 1..9 PROVE IsFiniteSet(Zone(p, z))
  <2> DEFINE r == (z - 1) \div 3 + 1
             c == ((z - 1) % 3) + 1
             rows == Third(r, h)
             columns == Third(c, w)
  <2>0. r \in Int /\ c \in Int
    BY ZoneOf
  <2>1. IsFiniteSet(rows) /\ IsFiniteSet(columns)
    <3> HIDE DEF r, c
    <3> QED
      BY <2>0, FiniteThird
  <2>2. Zone(p, z) = rows \X columns
    BY <1>1 DEF Zone
  <2> HIDE DEF rows, columns
  <2> QED
    BY <2>1, <2>2, FS_Product
<1>3. ASSUME NEW z \in 1..9
      PROVE  /\ Mean10(p, Zone(p, z)) \in Levels \cup {Undefined}
             /\ Zone(p, z) # {} => Mean10(p, Zone(p, z)) \in Levels
  <2>1. CASE Zone(p, z) = {}
    BY <2>1 DEF Mean10
  <2>2. CASE Zone(p, z) # {}
    <3>1. \A x \in Zone(p, z) : LightAt(p, x) \in 0..100
      BY LightRange
    <3>2. 0 \in Int /\ 100 \in Int
      OBVIOUS
    <3>3. Mean10(p, Zone(p, z)) \in 10 * 0 .. 10 * 100
      BY <1>2, <2>2, <3>1, <3>2, MeanBounds, Zenon
    <3> QED
      BY <3>3 DEF Levels
  <2> QED
    BY <2>1, <2>2
<1>4. h >= 3 /\ w >= 3 => \A z \in 1..9 : Zone(p, z) # {}
  BY <1>1, OneZone
<1>5. /\ Zones(p) = [z \in 1..9 |-> Mean10(p, Zone(p, z))]
      /\ \A z \in 1..9 : Zones(p)[z] = Mean10(p, Zone(p, z))
  BY DEF Zones
<1> DEFINE means == Levels \cup {Undefined}
<1>6. \A z \in 1..9 : Mean10(p, Zone(p, z)) \in means
  BY <1>3
<1> HIDE DEF means
<1>7. Zones(p) \in [1..9 -> means]
  BY <1>5, <1>6
<1>8. Zones(p) \in [1..9 -> Levels \cup {Undefined}]
  BY <1>7 DEF means
<1>9. h >= 3 /\ w >= 3 => \A z \in 1..9 : Zones(p)[z] # Undefined
  <2>1. \A z \in 1..9 : Zone(p, z) # {} => Mean10(p, Zone(p, z)) \in Levels
    BY <1>3
  <2>2. Undefined \notin Levels
    BY DEF Undefined, Levels
  <2> HIDE DEF means
  <2> QED
    BY <1>4, <1>5, <2>1, <2>2
<1> QED
  BY <1>8, <1>9

LEMMA LevelsType ==
  ASSUME NEW h \in Nat \ {0}, NEW w \in Nat \ {0}, NEW p, IsPicture(p, <<h, w>>)
  PROVE  ShadowLevel(p) < 300 /\ HighlightLevel(p) >= 700
<1>1. \A S \in SUBSET Pixels(p) : IsFiniteSet(S)
  BY PictureSize, FS_Subset
<1>2. ShadowLevel(p) < 300
  <2> DEFINE dark == {x \in Pixels(p) : LightAt(p, x) < 30}
  <2>1. CASE dark = {}
    BY <2>1 DEF ShadowLevel
  <2>2. CASE dark # {}
    <3>1. \A x \in dark : LightAt(p, x) \in 0..29
      BY LightRange
    <3>2. IsFiniteSet(dark)
      BY <1>1
    <3>3. Mean10(p, dark) \in 0 .. 290
      <4> HIDE DEF dark
      <4>1. 0 \in Int /\ 29 \in Int
        OBVIOUS
      <4>2. Mean10(p, dark) \in 10 * 0 .. 10 * 29
        BY <2>2, <3>1, <3>2, <4>1, MeanBounds, Zenon
      <4> QED
        BY <4>2
    <3>4. ShadowLevel(p) = Mean10(p, dark)
      BY <2>2 DEF ShadowLevel
    <3> QED
      BY <3>3, <3>4
  <2> QED
    BY <2>1, <2>2
<1>3. HighlightLevel(p) >= 700
  <2> DEFINE bright == {x \in Pixels(p) : LightAt(p, x) > 70}
  <2>1. CASE bright = {}
    BY <2>1 DEF HighlightLevel
  <2>2. CASE bright # {}
    <3>1. \A x \in bright : LightAt(p, x) \in 71..100
      BY LightRange
    <3>2. IsFiniteSet(bright)
      BY <1>1
    <3>3. Mean10(p, bright) \in 710 .. 1000
      <4> HIDE DEF bright
      <4>1. 71 \in Int /\ 100 \in Int
        OBVIOUS
      <4>2. Mean10(p, bright) \in 10 * 71 .. 10 * 100
        BY <2>2, <3>1, <3>2, <4>1, MeanBounds, Zenon
      <4> QED
        BY <4>2
    <3>4. HighlightLevel(p) = Mean10(p, bright)
      BY <2>2 DEF HighlightLevel
    <3> QED
      BY <3>3, <3>4
  <2> QED
    BY <2>1, <2>2
<1> QED
  BY <1>2, <1>3

LEMMA Share ==
  ASSUME NEW d \in Nat, NEW m \in Nat, d <= m, NEW k, k = IF m = 0 THEN 0 ELSE (1000 * d) \div m
  PROVE  k \in 0..1000
<1>1. ASSUME NEW n \in Nat \ {0}, NEW s \in Int, 0 <= s, s <= 1000 * n
      PROVE  s \div n \in Int /\ 0 <= s \div n /\ s \div n <= 1000
  BY <1>1
<1>2. CASE m # 0
  <2>1. m \in Nat \ {0} /\ 1000 * d \in Int /\ 0 <= 1000 * d /\ 1000 * d <= 1000 * m
    BY <1>2
  <2>2. k = (1000 * d) \div m
    BY <1>2
  <2> QED
    BY ONLY <1>1, <2>1, <2>2
<1>3. CASE m = 0
  BY <1>3
<1> QED
  BY <1>2, <1>3

LEMMA MeanShare ==
  ASSUME NEW n, n # 0 => n \in Nat, NEW t \in Int, NEW k, 0 * n <= t, t <= 1000 * n,
         k = IF n = 0 THEN 0 ELSE t \div n
  PROVE  k \in 0..1000
<1>1. ASSUME NEW m \in Nat \ {0}, NEW s \in Int, 0 <= s, s <= 1000 * m
      PROVE  s \div m \in Int /\ 0 <= s \div m /\ s \div m <= 1000
  BY <1>1
<1>2. CASE n # 0
  <2>1. n \in Nat \ {0} /\ t \in Int /\ 0 <= t /\ t <= 1000 * n
    BY <1>2
  <2>2. k = t \div n
    BY <1>2
  <2> QED
    BY ONLY <1>1, <2>1, <2>2
<1>3. CASE n = 0
  BY <1>3
<1> QED
  BY <1>2, <1>3

LEMMA SaturationOf ==
  ASSUME NEW c \in Colour
  PROVE  Saturation(c) \in 0..1000
<1> DEFINE d == Delta(c)
           m == Largest(c)
<1>1. d \in Nat /\ m \in Nat /\ d <= m
  <2>1. c.r \in 0..255 /\ c.g \in 0..255 /\ c.b \in 0..255
    BY DEF Colour
  <2>2. Spread(c.r, c.g, c.b, m, d)
    BY ColourSpread
  <2> HIDE DEF d, m
  <2> QED
    BY <2>1, <2>2 DEF Spread
<1>0. PICK k : k = Saturation(c)
  OBVIOUS
<1>2. k = IF m = 0 THEN 0 ELSE (1000 * d) \div m
  BY <1>0 DEF Saturation
<1> HIDE DEF d, m
<1>3. k \in 0..1000
  BY ONLY <1>1, <1>2, Share
<1> QED
  BY <1>0, <1>3

LEMMA SaturationType ==
  ASSUME NEW h \in Nat \ {0}, NEW w \in Nat \ {0}, NEW p, IsPicture(p, <<h, w>>), NEW tone
  PROVE  PerHueSaturation(p, tone) \in [Bands -> Levels]
<1> SUFFICES ASSUME NEW band \in Bands
             PROVE  PerHueSaturation(p, tone)[band] \in 0..1000
  BY DEF PerHueSaturation, Levels
<1>1. PICK value : value = [c \in Colour |-> Saturation(c)]
  OBVIOUS
<1> DEFINE S == {x \in Pixels(p) : InBand(tone[ColourAt(p, x)], band)}
           n == Cardinality(S)
           t == Inside(p, S) * value[p.figure] + (n - Inside(p, S)) * value[p.ground]
<1>2. IsFiniteSet(S)
  BY PictureSize, FS_Subset
<1>3. \A c \in {p.ground, p.figure} : value[c] = Saturation(c) /\ Between(value[c], 0, 1000)
  <2>1. \A c \in Colour : Between(Saturation(c), 0, 1000)
    BY SaturationOf DEF Between
  <2> QED
    BY <1>1, <2>1, PictureColours
<1>4. \A x \in S : Between(value[ColourAt(p, x)], 0, 1000)
  BY <1>3 DEF ColourAt
<1>5. t \in Int /\ 0 * n <= t /\ t <= 1000 * n
  <2> HIDE DEF S
  <2>1. 0 \in Int /\ 1000 \in Int
    OBVIOUS
  <2>2. value[p.figure] \in Int /\ value[p.ground] \in Int
    BY <1>3 DEF Between
  <2> QED
    BY <1>2, <1>4, <2>1, <2>2, SumBounds
<1>6. PerHueSaturation(p, tone)[band] = IF S = {} THEN 0 ELSE t \div n
  BY <1>3 DEF PerHueSaturation, Sum, Inside
<1>7. n \in Nat /\ (S = {} <=> n = 0)
  <2> HIDE DEF S
  <2> QED
    BY <1>2, FS_CardinalityType, FS_EmptySet
<1> HIDE DEF S, n, t
<1>8. PerHueSaturation(p, tone)[band] = IF n = 0 THEN 0 ELSE t \div n
  BY <1>6, <1>7
<1> QED
  BY <1>5, <1>7, <1>8, MeanShare

LEMMA ProfileParts ==
  ASSUME NEW p, NEW q, IsProfile(q, p)
  PROVE  /\ q.zones = Zones(p) /\ q.shadow = ShadowLevel(p) /\ q.highlight = HighlightLevel(p)
         /\ \E tone : q.saturation = PerHueSaturation(p, tone)
         /\ q.direction = Direction(Zones(p))
BY DEF IsProfile, Profile

LEMMA ProfileType ==
  ASSUME NEW h \in Nat \ {0}, NEW w \in Nat \ {0}, NEW p, IsPicture(p, <<h, w>>),
         NEW q, IsProfile(q, p)
  PROVE  /\ q.zones \in [1..9 -> Levels \cup {Undefined}]
         /\ q.shadow < 300 /\ q.highlight >= 700
         /\ q.saturation \in [Bands -> Levels]
<1>1. q.zones \in [1..9 -> Levels \cup {Undefined}]
  <2>1. q.zones = Zones(p)
    BY ProfileParts
  <2>2. Zones(p) \in [1..9 -> Levels \cup {Undefined}]
    BY ZonesType
  <2> QED
    BY <2>1, <2>2, Zenon
<1>2. q.shadow < 300 /\ q.highlight >= 700
  BY ProfileParts, LevelsType
<1>3. q.saturation \in [Bands -> Levels]
  <2>1. PICK tone : q.saturation = PerHueSaturation(p, tone)
    BY ProfileParts
  <2>2. PerHueSaturation(p, tone) \in [Bands -> Levels]
    BY SaturationType
  <2> QED
    BY <2>1, <2>2
<1> QED
  BY <1>1, <1>2, <1>3

(* What the state says of the picture that was analyzed. *)
LEMMA AnalyzedPicture ==
  ASSUME IInv, pc = "analyzed" \/ Analyzed
  PROVE  \E h, w \in Nat \ {0} :
           /\ IsPicture(picture, <<h, w>>) /\ IsProfile(profile, picture)
           /\ ~Thin(upload.height, upload.width) => h >= 3 /\ w >= 3
<1>1. PICK size \in Resized(upload.height, upload.width) : IsPicture(picture, size)
  BY DEF IInv, Seen
<1>2. upload.height \in Nat \ {0} /\ upload.width \in Nat \ {0}
  BY BoundsAssumption DEF IInv, Uploads
<1>3. /\ size[1] \in Nat \ {0} /\ size[2] \in Nat \ {0}
      /\ ~Thin(upload.height, upload.width) => size[1] >= 3 /\ size[2] >= 3
  BY <1>2, ResizedSides
<1>4. IsPicture(picture, <<size[1], size[2]>>)
  BY <1>1 DEF IsPicture
<1>5. IsProfile(profile, picture)
  BY DEF IInv
<1> QED
  BY <1>3, <1>4, <1>5

----
(* Only an image whose resized sides are not both 3 has a zone without pixels, *)
(* and only then may the response fail, for every size and every max_pixels.   *)
THEOREM ThinImagesFail == Spec => []OnlyThinImagesFail
<1>1. IInv => OnlyThinImagesFail
  <2> SUFFICES ASSUME IInv, Analyzed PROVE OnlyThinImagesFail
    BY DEF OnlyThinImagesFail
  <2>1. PICK h \in Nat \ {0}, w \in Nat \ {0} :
          /\ IsPicture(picture, <<h, w>>) /\ IsProfile(profile, picture)
          /\ ~Thin(upload.height, upload.width) => h >= 3 /\ w >= 3
    BY AnalyzedPicture
  <2>2. /\ picture.height = h /\ picture.width = w /\ profile.zones = Zones(picture)
    BY <2>1, PictureSize, ProfileParts
  <2>3. h >= 3 /\ w >= 3 => \A z \in 1..9 : profile.zones[z] # Undefined
    BY <2>1, <2>2, ZonesType
  <2>4. status = 500 => \E z \in 1..9 : profile.zones[z] = Undefined
    BY DEF IInv
  <2>5. h >= 3 /\ w >= 3 =>
          \A x \in Pixels(picture) : Cardinality({z \in 1..9 : x \in Zone(picture, z)}) = 1
    BY <2>2, OneZone
  <2> QED
    BY <2>1, <2>3, <2>4, <2>5 DEF OnlyThinImagesFail, Thin
<1> QED
  BY Invariance, <1>1, PTL

(* Type correctness, and the ranges of every profile: what the means over     *)
(* zones, shades and bands of any picture come to.                            *)
THEOREM TypeCorrect == Spec => []TypeOK
<1>1. IInv => TypeOK
  <2> SUFFICES ASSUME IInv PROVE TypeOK
    OBVIOUS
  <2>1. ASSUME Analyzed
        PROVE  /\ profile.zones \in [1..9 -> Levels \cup {Undefined}]
               /\ profile.shadow < 300 /\ profile.highlight >= 700
               /\ profile.saturation \in [Bands -> Levels]
    <3>1. PICK h \in Nat \ {0}, w \in Nat \ {0} :
            IsPicture(picture, <<h, w>>) /\ IsProfile(profile, picture)
      BY <2>1, AnalyzedPicture
    <3> QED
      BY <3>1, ProfileType
  <2> QED
    BY <2>1 DEF TypeOK, IInv
<1> QED
  BY Invariance, <1>1, PTL

----
(* The picture in the mirror. *)

Flip(w, x) == <<x[1], w + 1 - x[2]>>
MirrorZone(z) == 3 * ((z - 1) \div 3) + 3 - ((z - 1) % 3)

LEMMA MirrorThirds ==
  ASSUME NEW k \in Nat, NEW n \in 1..3, NEW c \in Int
  PROVE  c \in Third(n, 3 * k) <=> (3 * k) + 1 - c \in Third(4 - n, 3 * k)
<1>1. CASE n = 1
  BY <1>1 DEF Third
<1>2. CASE n = 2
  BY <1>2 DEF Third
<1>3. CASE n = 3
  BY <1>3 DEF Third
<1> QED
  BY <1>1, <1>2, <1>3

LEMMA MirrorZoneOf ==
  ASSUME NEW z \in 1..9
  PROVE  /\ MirrorZone(z) \in 1..9 /\ MirrorZone(MirrorZone(z)) = z
         /\ (MirrorZone(z) - 1) \div 3 = (z - 1) \div 3
         /\ ((MirrorZone(z) - 1) % 3) = 2 - ((z - 1) % 3)
BY DEF MirrorZone

(* The flip is a bijection. *)
LEMMA FlippedSet ==
  ASSUME NEW w \in Int, NEW S, NEW T, IsFiniteSet(S),
         \A x \in S : x \in Int \X Int /\ Flip(w, x) \in T,
         \A x \in T : x \in Int \X Int /\ Flip(w, x) \in S
  PROVE  IsFiniteSet(T) /\ Cardinality(T) = Cardinality(S)
<1> DEFINE f == [x \in S |-> Flip(w, x)]
<1>1. \A x \in Int \X Int : Flip(w, x) \in Int \X Int /\ Flip(w, Flip(w, x)) = x
  BY DEF Flip
<1>2. f \in [S -> T]
  OBVIOUS
<1>3. \A x, y \in S : f[x] = f[y] => x = y
  BY <1>1
<1>4. \A y \in T : \E x \in S : f[x] = y
  BY <1>1
<1>5. f \in Bijection(S, T)
  BY <1>2, <1>3, <1>4 DEF Bijection, Injection, Surjection, IsInjective
<1> HIDE DEF f
<1> QED
  BY <1>5, FS_Bijection DEF ExistsBijection

LEMMA MirroredZones ==
  ASSUME NEW h \in Nat \ {0}, NEW k \in Nat \ {0}, NEW p, IsPicture(p, <<h, 3 * k>>),
         NEW z \in 1..9
  PROVE  Zones(Mirrored(p))[z] = Zones(p)[MirrorZone(z)]
<1> DEFINE m == Mirrored(p)
           w == 3 * k
           S == Zone(p, MirrorZone(z))
           T == Zone(m, z)
<1>1. /\ p.height = h /\ p.width = w
      /\ p.left \in Int /\ p.right \in Int /\ p.top \in Int /\ p.bottom \in Int
  BY DEF IsPicture, Pictures
<1>2. /\ m.height = h /\ m.width = w /\ m.top = p.top /\ m.bottom = p.bottom
      /\ m.left = w + 1 - p.right /\ m.right = w + 1 - p.left
      /\ m.ground = p.ground /\ m.figure = p.figure
  <2>1. p \in [height : {h}, width : {w}, ground : Colours, figure : Colours,
               top : 1..h, bottom : 1..h, left : 1..w, right : 1..w]
    BY DEF IsPicture, Pictures
  <2> QED
    BY <1>1, <2>1 DEF Mirrored
<1> HIDE DEF m, w
<1>3. w \in Int /\ h \in Int
  BY DEF w
<1>4. \A x \in Int \X Int : InFigure(m, Flip(w, x)) <=> InFigure(p, x)
  BY <1>1, <1>2, <1>3 DEF InFigure, Flip
<1> DEFINE r == (z - 1) \div 3 + 1
           c == ((z - 1) % 3) + 1
<1>5. /\ r \in 1..3 /\ c \in 1..3
      /\ S = Third(r, h) \X Third(4 - c, w) /\ T = Third(r, h) \X Third(c, w)
  <2>1. r \in 1..3 /\ c \in 1..3
    BY ZoneOf
  <2>2. (MirrorZone(z) - 1) \div 3 + 1 = r /\ ((MirrorZone(z) - 1) % 3) + 1 = 4 - c
    BY MirrorZoneOf
  <2> HIDE DEF r, c
  <2>3. S = Third(r, h) \X Third(4 - c, w)
    BY <1>1, <2>2 DEF Zone
  <2>4. T = Third(r, h) \X Third(c, w)
    BY <1>2 DEF Zone, r, c
  <2> QED
    BY <2>1, <2>3, <2>4
<1> HIDE DEF r, c, S, T
<1>6. /\ \A x \in S : x \in Int \X Int /\ Flip(w, x) \in T
      /\ \A x \in T : x \in Int \X Int /\ Flip(w, x) \in S
  <2>1. Third(r, h) \subseteq Int /\ Third(c, w) \subseteq Int /\ Third(4 - c, w) \subseteq Int
    BY DEF Third
  <2>2. \A y \in Int : y \in Third(4 - c, w) <=> w + 1 - y \in Third(c, w)
    <3>1. 4 - c \in 1..3 /\ 4 - (4 - c) = c
      BY <1>5
    <3> QED
      BY <3>1, MirrorThirds DEF w
  <2>3. \A y \in Int : y \in Third(c, w) <=> w + 1 - y \in Third(4 - c, w)
    BY <1>5, MirrorThirds DEF w
  <2> QED
    BY <1>5, <2>1, <2>2, <2>3 DEF Flip
<1>7. IsFiniteSet(S)
  <2>1. r \in Int /\ 4 - c \in Int
    BY <1>5
  <2> QED
    BY <1>3, <1>5, <2>1, FiniteThird, FS_Product
<1>8. Cardinality(T) = Cardinality(S) /\ (S = {} <=> T = {})
  <2>1. Cardinality(T) = Cardinality(S)
    BY <1>3, <1>6, <1>7, FlippedSet
  <2> QED
    BY <1>6, <2>1
<1>9. Inside(m, T) = Inside(p, S)
  <2> DEFINE U == {x \in S : InFigure(p, x)}
             V == {x \in T : InFigure(m, x)}
  <2>1. IsFiniteSet(U)
    BY <1>7, FS_Subset
  <2>2. /\ \A x \in U : x \in Int \X Int /\ Flip(w, x) \in V
        /\ \A x \in V : x \in Int \X Int /\ Flip(w, x) \in U
    <3>1. \A x \in Int \X Int : Flip(w, x) \in Int \X Int /\ Flip(w, Flip(w, x)) = x
      BY <1>3 DEF Flip
    <3>2. \A x \in Int \X Int : InFigure(m, x) <=> InFigure(p, Flip(w, x))
      BY <1>4, <3>1
    <3> QED
      BY <1>4, <1>6, <3>2
  <2> HIDE DEF U, V
  <2>3. Cardinality(U) = Cardinality(V)
    BY <1>3, <2>1, <2>2, FlippedSet
  <2> QED
    BY <2>3 DEF Inside, U, V
<1>10. Mean10(m, T) = Mean10(p, S)
  BY <1>2, <1>8, <1>9 DEF Mean10, Sum, Inside
<1>11. Zones(m)[z] = Mean10(m, T) /\ Zones(p)[MirrorZone(z)] = Mean10(p, S)
  BY MirrorZoneOf DEF Zones, S, T
<1> QED
  BY <1>10, <1>11 DEF m

LEMMA SumNine ==
  ASSUME NEW f, DOMAIN f = 1..9, \A z \in 1..9 : f[z] \in Int
  PROVE  SumFunction(f) = f[1] + f[2] + f[3] + f[4] + f[5] + f[6] + f[7] + f[8] + f[9]
<1> DEFINE T(n) == SumFunctionOnSet(f, 1..n)
<1>1. T(0) = 0
  BY SumEmpty
<1>2. ASSUME NEW n \in 1..9 PROVE T(n) = T(n - 1) + f[n] /\ T(n - 1) \in Int
  <2> DEFINE S == 1..n
  <2>1. IsFiniteSet(S) /\ IsFiniteSet(S \ {n}) /\ n \in S /\ S \ {n} = 1 .. n - 1
    <3>1. IsFiniteSet(S)
      BY FS_Interval
    <3>2. IsFiniteSet(S \ {n})
      BY <3>1, FS_Subset
    <3>3. n \in S /\ S \ {n} = 1 .. n - 1
      OBVIOUS
    <3> QED
      BY <3>1, <3>2, <3>3
  <2>2. \A z \in S : f[z] \in Int
    OBVIOUS
  <2> HIDE DEF S
  <2>3. SumFunctionOnSet(f, S) = f[n] + SumFunctionOnSet(f, S \ {n})
    BY <2>1, <2>2, SumMember
  <2>4. SumFunctionOnSet(f, S \ {n}) \in Int
    BY <2>1, <2>2, SumInt
  <2>5. f[n] \in Int
    BY <2>1, <2>2
  <2>6. T(n) = SumFunctionOnSet(f, S) /\ T(n - 1) = SumFunctionOnSet(f, S \ {n})
    BY <2>1 DEF S
  <2> HIDE DEF T
  <2> QED
    BY <2>3, <2>4, <2>5, <2>6
<1>3. SumFunction(f) = T(9)
  BY DEF SumFunction
<1> HIDE DEF T
<1>4. /\ T(1) = T(0) + f[1] /\ T(2) = T(1) + f[2] /\ T(3) = T(2) + f[3]
      /\ T(4) = T(3) + f[4] /\ T(5) = T(4) + f[5] /\ T(6) = T(5) + f[6]
      /\ T(7) = T(6) + f[7] /\ T(8) = T(7) + f[8] /\ T(9) = T(8) + f[9]
  <2>1. \A n \in 1..9 : T(n) = T(n - 1) + f[n]
    BY <1>2
  <2> QED
    BY <2>1
<1>5. /\ f[1] \in Int /\ f[2] \in Int /\ f[3] \in Int /\ f[4] \in Int /\ f[5] \in Int
      /\ f[6] \in Int /\ f[7] \in Int /\ f[8] \in Int /\ f[9] \in Int
  OBVIOUS
<1> QED
  BY ONLY <1>1, <1>3, <1>4, <1>5

(* The sum over the zones of a picture and of its mirror image. *)
LEMMA MirroredSum ==
  ASSUME NEW f, NEW g, DOMAIN f = 1..9, DOMAIN g = 1..9,
         \A z \in 1..9 : f[z] \in Int /\ g[z] = f[MirrorZone(z)]
  PROVE  SumFunction(g) = SumFunction(f)
<1>1. \A z \in 1..9 : g[z] \in Int
  BY MirrorZoneOf
<1>2. /\ MirrorZone(1) = 3 /\ MirrorZone(2) = 2 /\ MirrorZone(3) = 1
      /\ MirrorZone(4) = 6 /\ MirrorZone(5) = 5 /\ MirrorZone(6) = 4
      /\ MirrorZone(7) = 9 /\ MirrorZone(8) = 8 /\ MirrorZone(9) = 7
  BY DEF MirrorZone
<1>3. /\ g[1] = f[3] /\ g[2] = f[2] /\ g[3] = f[1] /\ g[4] = f[6] /\ g[5] = f[5]
      /\ g[6] = f[4] /\ g[7] = f[9] /\ g[8] = f[8] /\ g[9] = f[7]
  <2>1. /\ g[1] = f[MirrorZone(1)] /\ g[2] = f[MirrorZone(2)] /\ g[3] = f[MirrorZone(3)]
        /\ g[4] = f[MirrorZone(4)] /\ g[5] = f[MirrorZone(5)] /\ g[6] = f[MirrorZone(6)]
        /\ g[7] = f[MirrorZone(7)] /\ g[8] = f[MirrorZone(8)] /\ g[9] = f[MirrorZone(9)]
    OBVIOUS
  <2> QED
    BY <1>2, <2>1, Zenon
<1>4. SumFunction(g) = g[1] + g[2] + g[3] + g[4] + g[5] + g[6] + g[7] + g[8] + g[9]
  BY <1>1, SumNine
<1>5. SumFunction(f) = f[1] + f[2] + f[3] + f[4] + f[5] + f[6] + f[7] + f[8] + f[9]
  BY SumNine
<1>6. /\ f[1] \in Int /\ f[2] \in Int /\ f[3] \in Int /\ f[4] \in Int /\ f[5] \in Int
      /\ f[6] \in Int /\ f[7] \in Int /\ f[8] \in Int /\ f[9] \in Int
  OBVIOUS
<1> QED
  BY ONLY <1>3, <1>4, <1>5, <1>6

LEMMA MirroredUniform ==
  ASSUME NEW f, NEW g, DOMAIN f = 1..9, DOMAIN g = 1..9,
         \A z \in 1..9 : f[z] \in Int /\ g[z] = f[MirrorZone(z)]
  PROVE  Uniform(g) <=> Uniform(f)
<1> DEFINE ff == [z \in 1..9 |-> f[z] * f[z]]
           gg == [z \in 1..9 |-> g[z] * g[z]]
<1>1. SumFunction(g) = SumFunction(f)
  BY MirroredSum
<1>2. SumFunction(gg) = SumFunction(ff)
  <2>1. \A z \in 1..9 : ff[z] \in Int /\ gg[z] = ff[MirrorZone(z)]
    BY MirrorZoneOf
  <2>2. DOMAIN ff = 1..9 /\ DOMAIN gg = 1..9
    OBVIOUS
  <2> HIDE DEF ff, gg
  <2> QED
    BY <2>1, <2>2, MirroredSum
<1>3. (\A z \in 1..9 : g[z] # Undefined) <=> (\A z \in 1..9 : f[z] # Undefined)
  BY MirrorZoneOf
<1> QED
  BY <1>1, <1>2, <1>3 DEF Uniform

(* One zone is brighter than the others. *)
LEMMA Peak ==
  ASSUME NEW zones, \A z \in 1..9 : zones[z] \in Int /\ zones[z] # Undefined,
         NEW b \in 1..9, \A z \in 1..9 : z # b => zones[z] < zones[b]
  PROVE  Brightest(zones) = b
<1> DEFINE means == {zones[z] : z \in 1..9}
<1>1. Undefined \notin means
  OBVIOUS
<1>2. Max(means) = zones[b]
  <2>1. zones[b] \in means /\ \A m \in means : m \in Int /\ m <= zones[b]
    OBVIOUS
  <2> HIDE DEF means
  <2>2. \A m \in means : (\A n \in means : m >= n) <=> m = zones[b]
    BY <2>1
  <2>3. Max(means) = CHOOSE m \in means : \A n \in means : m >= n
    BY DEF Max
  <2> QED
    BY <2>1, <2>2, <2>3
<1>3. {z \in 1..9 : zones[z] = zones[b]} = {b}
  OBVIOUS
<1>4. Min({b}) = b
  BY DEF Min
<1> HIDE DEF means
<1>5. Brightest(zones) = Min({z \in 1..9 : zones[z] = zones[b]})
  BY <1>1, <1>2 DEF Brightest, means
<1> QED
  BY <1>3, <1>4, <1>5

(* For pictures of any size whose columns fall into equal thirds, the mirror *)
(* image has the light's direction on the other side.                        *)
THEOREM LightIsMirrored == Spec => []MirroredLight
<1>1. IInv => MirroredLight
  <2> DEFINE zones == Zones(picture)
             mirrored == Zones(Mirrored(picture))
             brightest == {z \in 1..9 : \A y \in 1..9 : zones[y] <= zones[z]}
  <2> SUFFICES ASSUME IInv, pc = "analyzed", picture.width % 3 = 0, picture.height > 2
               PROVE  MirroredLight
    BY DEF MirroredLight
  <2>1. PICK h \in Nat \ {0}, w \in Nat \ {0} :
          IsPicture(picture, <<h, w>>) /\ IsProfile(profile, picture)
    BY AnalyzedPicture
  <2>2. picture.height = h /\ picture.width = w
    BY <2>1, PictureSize
  <2>3. PICK k \in Nat \ {0} : w = 3 * k
    <3>1. \A n \in Nat \ {0} : n % 3 = 0 => n = 3 * (n \div 3) /\ n \div 3 \in Nat \ {0}
      OBVIOUS
    <3> QED
      BY <2>2, <3>1
  <2>4. /\ DOMAIN zones = 1..9 /\ \A z \in 1..9 : zones[z] \in Int /\ zones[z] # Undefined
        /\ DOMAIN mirrored = 1..9 /\ \A z \in 1..9 : mirrored[z] = zones[MirrorZone(z)]
    <3>1. zones \in [1..9 -> Levels \cup {Undefined}]
      BY <2>1, ZonesType
    <3>2. \A l \in Levels \cup {Undefined} : l \in Int
      BY DEF Levels, Undefined
    <3>3. \A z \in 1..9 : zones[z] \in Int
      <4> HIDE DEF zones
      <4> QED
        BY <3>1, <3>2
    <3>4. \A z \in 1..9 : zones[z] # Undefined
      BY <2>1, <2>2, <2>3, ZonesType
    <3>5. DOMAIN zones = 1..9 /\ DOMAIN mirrored = 1..9
      BY DEF Zones
    <3>6. \A z \in 1..9 : mirrored[z] = zones[MirrorZone(z)]
      BY <2>1, <2>3, MirroredZones
    <3> QED
      BY <3>3, <3>4, <3>5, <3>6
  <2>5. profile.direction = Direction(zones) /\ profile.zones = zones
    BY <2>1, ProfileParts
  <2> HIDE DEF zones, mirrored
  <2>6. Uniform(mirrored) <=> Uniform(zones)
    BY <2>4, MirroredUniform
  <2>7. CASE Uniform(zones)
    BY <2>5, <2>6, <2>7 DEF MirroredLight, Direction, mirrored
  <2>8. CASE ~Uniform(zones)
    <3>1. profile.direction # Flat
      BY <2>5, <2>8 DEF Direction, Flat
    <3> SUFFICES ASSUME Cardinality(brightest) = 1
                 PROVE  Direction(mirrored) = <<profile.direction[1], - profile.direction[2]>>
      BY <2>5, <3>1 DEF MirroredLight, mirrored
    <3>2. PICK b \in 1..9 : brightest = {b}
      <4>1. IsFiniteSet(1..9)
        <5>1. \A n \in Nat : IsFiniteSet(1..n)
          BY FS_Interval
        <5>2. 9 \in Nat
          OBVIOUS
        <5> QED
          BY <5>1, <5>2, Zenon
      <4>2. brightest \subseteq 1..9
        OBVIOUS
      <4>3. IsFiniteSet(brightest)
        <5> HIDE DEF brightest
        <5> QED
          BY <4>1, <4>2, FS_Subset
      <4> HIDE DEF brightest
      <4>4. PICK b : brightest = {b}
        BY <4>3, FS_Singleton
      <4> QED
        BY <4>2, <4>4
    <3>3. \A z \in 1..9 : z # b => zones[z] < zones[b]
      BY <2>4, <3>2
    <3>4. Brightest(zones) = b
      BY <2>4, <3>3, Peak
    <3>5. Brightest(mirrored) = MirrorZone(b)
      <4>1. MirrorZone(b) \in 1..9 /\ mirrored[MirrorZone(b)] = zones[b]
        BY <2>4, MirrorZoneOf
      <4>2. \A z \in 1..9 : /\ mirrored[z] \in Int /\ mirrored[z] # Undefined
                            /\ z # MirrorZone(b) => mirrored[z] < mirrored[MirrorZone(b)]
        BY <2>4, <3>3, <4>1, MirrorZoneOf
      <4> QED
        BY <4>1, <4>2, Peak
    <3>6. /\ (MirrorZone(b) - 1) \div 3 = (b - 1) \div 3
          /\ ((MirrorZone(b) - 1) % 3) = 2 - ((b - 1) % 3)
      BY MirrorZoneOf
    <3>7. profile.direction = <<(b - 1) \div 3 - 1, ((b - 1) % 3) - 1>>
      BY <2>5, <2>8, <3>4 DEF Direction
    <3>8. Direction(mirrored) = <<(b - 1) \div 3 - 1, (2 - ((b - 1) % 3)) - 1>>
      BY <2>6, <2>8, <3>5, <3>6 DEF Direction
    <3> QED
      BY <3>7, <3>8
  <2> QED
    BY <2>7, <2>8
<1> QED
  BY Invariance, <1>1, PTL
====
