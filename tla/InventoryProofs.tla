---- MODULE InventoryProofs ----
(***************************************************************************)
(* Types, the exclusion of row locks, the absence of overselling and the    *)
(* refinement of StockPromise, for any number of sessions, products and     *)
(* steps.                                                                   *)
(***************************************************************************)
EXTENDS Inventory, TLAPS, WellFoundedInduction

----
(* A session's steps as they would go alone, from the stock first: level[n] *)
(* is the stock after n of them.                                            *)

Verdicts == {"done", "short", "missing"}

Changed(before, w, verdict) ==
  IF verdict = "done" THEN [before EXCEPT ![w.product] = After(@, w)] ELSE before

Runs(level, first, w, v) ==
  /\ level \in [0 .. Len(v) -> [Products -> Int]]
  /\ level[0] = first
  /\ \A n \in 1 .. Len(v) : level[n] = Changed(level[n - 1], w[n], v[n])

(* The verdict on a step that finds the quantity have in one of the rows. *)
Fair(w, verdict, have, there) ==
  /\ verdict = "done" /\ w.op = "deduct" => w.product \in there /\ have >= w.quantity
  /\ verdict = "short" => w.op = "deduct" /\ w.product \in there /\ have < w.quantity
  /\ verdict = "missing" => w.op = "deduct"

(* What a session holds is as it left it, all else as it was first. *)
Splits(now, held, left, first) ==
  \A q \in Products : now[q] = IF q \in held THEN left[q] ELSE first[q]

(* No step is refused for want of a row that there was as the session began. *)
NoneKnown(saw, w, v) == \A n \in 1 .. Len(v) : v[n] = "missing" => w[n].product \notin saw

(* The steps not refused for want of a row were on rows that are held. *)
Holds(held, w, v) == \A n \in 1 .. Len(v) : v[n] # "missing" => w[n].product \in held

Serial(level, first, w, v, there, held, left) ==
  /\ Runs(level, first, w, v)
  /\ \A n \in 1 .. Len(v) : Fair(w[n], v[n], level[n - 1][w[n].product], there)
  /\ \A n \in 0 .. Len(v) : \A q \in Products \ held : level[n][q] = first[q]
  /\ Splits(level[Len(v)], held, left, first)

LEMMA LeastNatural ==
  ASSUME NEW T \in SUBSET Nat, T # {}
  PROVE  \E n \in T : \A m \in T : n <= m
<1> DEFINE R == OpToRel(<, Nat)
<1>1. IsWellFoundedOn(R, Nat)
  BY NatLessThanWellFounded
<1>2. \A m, n \in Nat : m < n => <<m, n>> \in R
  BY DEF OpToRel
<1> HIDE DEF R
<1>3. PICK n \in T : \A m \in T : <<m, n>> \notin R
  BY <1>1, WFMin
<1>4. ASSUME NEW m \in T PROVE n <= m
  <2>1. m \in Nat /\ n \in Nat
    OBVIOUS
  <2>2. ~(m < n)
    BY <1>2, <1>3, <2>1
  <2> QED
    BY <2>1, <2>2
<1> QED
  BY <1>4

LEMMA SerialStart ==
  ASSUME NEW first \in [Products -> Int], NEW w, NEW v, Len(v) = 0, NEW there, NEW left
  PROVE  \E level : Serial(level, first, w, v, there, {}, left)
<1> DEFINE level == [n \in 0..0 |-> first]
<1>1. Serial(level, first, w, v, there, {}, left)
  BY DEF Serial, Runs, Splits
<1> QED
  BY <1>1

LEMMA SerialNext ==
  ASSUME NEW level, NEW first \in [Products -> Int], NEW w \in Seq(Step), NEW v \in Seq(Verdicts),
         NEW there, NEW held, NEW left, Serial(level, first, w, v, there, held, left),
         NEW n \in 1 .. Len(w), n = Len(v) + 1, NEW verdict \in Verdicts,
         Fair(w[n], verdict, level[Len(v)][w[n].product], there),
         NEW held1, held \subseteq held1, NEW left1,
         NEW now \in [Products -> Int], now = Changed(level[Len(v)], w[n], verdict),
         Splits(now, held1, left1, first)
  PROVE  \E longer : Serial(longer, first, w, Append(v, verdict), there, held1, left1)
<1> DEFINE v1 == Append(v, verdict)
           longer == [k \in 0 .. n |-> IF k = n THEN now ELSE level[k]]
<1>1. /\ Len(v) \in Nat /\ Len(v) = n - 1 /\ Len(v1) = n /\ v1[n] = verdict
      /\ \A k \in 1 .. n - 1 : v1[k] = v[k]
  OBVIOUS
<1>2. /\ level \in [0 .. n - 1 -> [Products -> Int]]
      /\ level[0] = first
      /\ \A k \in 1 .. n - 1 :
           level[k] = Changed(level[k - 1], w[k], v[k])
      /\ \A k \in 1 .. n - 1 : Fair(w[k], v[k], level[k - 1][w[k].product], there)
      /\ \A k \in 0 .. n - 1 : \A q \in Products \ held : level[k][q] = first[q]
  BY <1>1 DEF Serial, Runs
<1>3. /\ longer[n] = now /\ \A k \in 0 .. n - 1 : longer[k] = level[k]
      /\ longer \in [0 .. n -> [Products -> Int]]
  BY <1>2
<1> HIDE DEF longer, v1
<1>4. ASSUME NEW k \in 1 .. n
      PROVE  /\ longer[k] = Changed(longer[k - 1], w[k], v1[k])
             /\ Fair(w[k], v1[k], longer[k - 1][w[k].product], there)
  <2>1. CASE k = n
    <3>1. longer[n - 1] = level[Len(v)]
      BY <1>1, <1>3
    <3> QED
      BY <1>1, <1>3, <2>1, <3>1
  <2>2. CASE k # n
    <3>0. k \in 1 .. n - 1 /\ k \in 0 .. n - 1 /\ k - 1 \in 0 .. n - 1
      BY <2>2
    <3>1. k \in 1 .. n - 1 /\ longer[k] = level[k] /\ longer[k - 1] = level[k - 1] /\ v1[k] = v[k]
      BY <1>1, <1>3, <3>0
    <3> QED
      BY <1>2, <3>1
  <2> QED
    BY <2>1, <2>2
<1>5. Runs(longer, first, w, v1)
  <2>1. longer[0] = first
    BY <1>2, <1>3
  <2>2. /\ longer \in [0 .. Len(v1) -> [Products -> Int]]
        /\ \A k \in 1 .. Len(v1) :
             longer[k] = Changed(longer[k - 1], w[k], v1[k])
    BY <1>1, <1>3, <1>4
  <2> QED
    BY <2>1, <2>2 DEF Runs
<1>6. \A k \in 0 .. n : \A q \in Products \ held1 : longer[k][q] = first[q]
  <2>1. \A k \in 0 .. n : k = n \/ k \in 0 .. n - 1
    BY <1>1
  <2> QED
    BY <1>2, <1>3, <2>1 DEF Splits
<1>7. Splits(longer[n], held1, left1, first)
  BY <1>3
<1>8. Serial(longer, first, w, v1, there, held1, left1)
  BY <1>1, <1>4, <1>5, <1>6, <1>7 DEF Serial
<1> QED
  BY <1>8 DEF v1

(* Other sessions commit: stock changes where this session holds nothing. *)
Elsewhere(level, first, w, v, there, held, left, first1, there1) ==
  /\ first \in [Products -> Int] /\ first1 \in [Products -> Int]
  /\ w \in Seq(Step) /\ v \in Seq(Verdicts) /\ Len(v) <= Len(w)
  /\ Serial(level, first, w, v, there, held, left)
  /\ Holds(held, w, v)
  /\ \A q \in Products \cap held : first1[q] = first[q]
  /\ there \subseteq there1

LEMMA SerialElsewhere ==
  ASSUME NEW level, NEW first, NEW w, NEW v, NEW there, NEW held, NEW left, NEW first1, NEW there1,
         Elsewhere(level, first, w, v, there, held, left, first1, there1)
  PROVE  \E other : Serial(other, first1, w, v, there1, held, left)
<1>0. /\ first \in [Products -> Int] /\ first1 \in [Products -> Int]
      /\ w \in Seq(Step) /\ v \in Seq(Verdicts) /\ Len(v) <= Len(w)
      /\ Serial(level, first, w, v, there, held, left)
      /\ Holds(held, w, v)
      /\ \A q \in Products \cap held : first1[q] = first[q]
      /\ there \subseteq there1
  BY DEF Elsewhere
<1> DEFINE other == [n \in 0 .. Len(v) |->
                       [q \in Products |-> IF q \in held THEN level[n][q] ELSE first1[q]]]
<1>1. /\ level \in [0 .. Len(v) -> [Products -> Int]]
      /\ level[0] = first
      /\ \A n \in 1 .. Len(v) :
           level[n] = Changed(level[n - 1], w[n], v[n])
      /\ \A n \in 1 .. Len(v) : Fair(w[n], v[n], level[n - 1][w[n].product], there)
      /\ Splits(level[Len(v)], held, left, first)
  BY <1>0 DEF Serial, Runs
<1>2. Len(v) \in Nat
  BY <1>0
<1>3. \A n \in 0 .. Len(v) : /\ other[n] \in [Products -> Int]
                             /\ \A q \in Products : other[n][q] = IF q \in held THEN level[n][q]
                                                                 ELSE first1[q]
  BY <1>0, <1>1
<1>4. other \in [0 .. Len(v) -> [Products -> Int]]
  BY <1>3
<1> HIDE DEF other
<1>5. other[0] = first1
  BY <1>0, <1>1, <1>2, <1>3
<1>6. ASSUME NEW n \in 1 .. Len(v)
      PROVE  /\ other[n] = Changed(other[n - 1], w[n], v[n])
             /\ Fair(w[n], v[n], other[n - 1][w[n].product], there1)
  <2>1. PICK p, step, before, now, before1, now1 :
          /\ p = w[n].product /\ step = w[n] /\ before = level[n - 1] /\ now = level[n]
          /\ before1 = other[n - 1] /\ now1 = other[n]
    OBVIOUS
  <2>0. n - 1 \in 0 .. Len(v) /\ n \in 0 .. Len(v) /\ n \in 1 .. Len(w)
    <3>1. Len(w) \in Nat
      BY <1>0
    <3> QED
      BY <1>0, <1>2, <3>1
  <2>2. p \in Products
    <3>1. w[n] \in Step
      BY <1>0, <2>0
    <3> QED
      BY <2>1, <3>1 DEF Step
  <2>3. /\ before \in [Products -> Int] /\ now \in [Products -> Int]
        /\ before1 \in [Products -> Int] /\ now1 \in [Products -> Int]
        /\ \A q \in Products : /\ before1[q] = IF q \in held THEN before[q] ELSE first1[q]
                               /\ now1[q] = IF q \in held THEN now[q] ELSE first1[q]
    BY <1>0, <1>1, <1>3, <2>0, <2>1
  <2>4. /\ now = IF v[n] = "done" THEN [before EXCEPT ![p] = After(@, step)] ELSE before
        /\ Fair(step, v[n], before[p], there)
    BY <1>1, <2>1 DEF Changed
  <2>5. v[n] # "missing" => p \in held
    BY <1>0, <2>1 DEF Holds
  <2>6. now1 = IF v[n] = "done" THEN [before1 EXCEPT ![p] = After(@, step)] ELSE before1
    <3>1. CASE v[n] = "done"
      <4>1. now1[p] = After(before1[p], step)
        BY <2>2, <2>3, <2>4, <2>5, <3>1
      <4>2. \A q \in Products \ {p} : now1[q] = before1[q]
        BY <2>2, <2>3, <2>4, <3>1
      <4>3. now1 = [before1 EXCEPT ![p] = After(before1[p], step)]
        BY <2>2, <2>3, <4>1, <4>2
      <4> QED
        BY <3>1, <4>3
    <3>2. CASE v[n] # "done"
      BY <2>3, <2>4, <3>2
    <3> QED
      BY <3>1, <3>2
  <2>7. Fair(step, v[n], before1[p], there1)
    BY <1>0, <2>1, <2>2, <2>3, <2>4, <2>5 DEF Fair
  <2> QED
    BY <2>1, <2>6, <2>7 DEF Changed
<1>7. Runs(other, first1, w, v)
  BY <1>4, <1>5, <1>6 DEF Runs
<1>8. \A n \in 0 .. Len(v) : \A q \in Products \ held : other[n][q] = first1[q]
  BY <1>3
<1>9. Splits(other[Len(v)], held, left, first1)
  <2>1. Len(v) \in 0 .. Len(v)
    BY <1>2
  <2>2. \A q \in Products : other[Len(v)][q] = IF q \in held THEN level[Len(v)][q] ELSE first1[q]
    BY <1>3, <2>1
  <2> QED
    BY <1>1, <2>2 DEF Splits
<1>10. Serial(other, first1, w, v, there1, held, left)
  BY <1>6, <1>7, <1>8, <1>9 DEF Serial
<1> QED
  BY <1>10

----
USE KindsAssumption, WorkAssumption, StockAssumption, NothingAssumption

(* A session that is not an upload never brings a row it holds below zero, or
   not further down than the row is committed. *)
Covered(s, p) == draft[s][p] >= stock[p] \/ draft[s][p] >= 0

SessionInv(s) ==
  /\ work[s] # <<>> => work[s] \in WorkOf[s]
  /\ Len(verdicts[s]) <= Len(work[s])
  /\ pc[s] = "idle" => Len(verdicts[s]) = 0
  /\ locked[s] # {} => pc[s] = "working"
  /\ known[s] \subseteq rows
  /\ s \notin Uploads =>
       /\ \A p \in locked[s] : Covered(s, p)
       /\ pending[s] # Nothing => draft[s][pending[s]] >= 0

IInv ==
  /\ TypeOK
  /\ RowLocksExclude
  /\ \A s \in Sessions : SessionInv(s)

LEMMA InitInv == Init => IInv
BY DEF Init, IInv, TypeOK, RowLocksExclude, SessionInv, Covered, Sessions

----
(* What a step takes: its type, and that only an upload sets a row below 0. *)
LEMMA CurrentStep ==
  ASSUME IInv, NEW s \in Sessions, pc[s] = "working", ~Finished(s)
  PROVE  /\ Current(s) \in Step
         /\ s \notin Uploads => Current(s).quantity >= 0
         /\ s \in Orders => Current(s).op = "deduct"
         /\ Len(verdicts[s]) + 1 \in 1 .. Len(work[s])
<1>1. /\ work[s] \in Seq(Step)
      /\ Len(verdicts[s]) \in Nat
      /\ Len(work[s]) \in Nat
      /\ Len(verdicts[s]) <= Len(work[s])
  BY DEF IInv, TypeOK, SessionInv
<1>2. Len(verdicts[s]) + 1 \in 1 .. Len(work[s])
  BY <1>1 DEF Finished
<1>3. work[s] \in WorkOf[s]
  BY <1>1, <1>2 DEF IInv, SessionInv
<1> QED
  BY <1>1, <1>2, <1>3 DEF Current, Sessions

LEMMA AfterType ==
  ASSUME NEW have \in Int, NEW w \in Step
  PROVE  /\ After(have, w) \in Int
         /\ w.quantity >= 0 /\ ~Short(have, w) => After(have, w) >= have \/ After(have, w) >= 0
BY DEF After, Short, Step

----
(* One lemma per action. *)

LEMMA BeginInv == ASSUME IInv, NEW s \in Sessions, Begin(s) PROVE IInv'
<1>1. PICK w \in WorkOf[s] : work' = [work EXCEPT ![s] = w]
  BY DEF Begin
<1>2. w \in Seq(Step) /\ w # <<>> /\ Len(w) \in Nat
  BY <1>1
<1>3. TypeOK' /\ RowLocksExclude'
  BY <1>1, <1>2 DEF Begin, IInv, TypeOK, RowLocksExclude, committed
<1>4. ASSUME NEW t \in Sessions PROVE SessionInv(t)'
  <2>1. SessionInv(t) /\ TypeOK
    BY DEF IInv
  <2>2. CASE t = s
    BY <1>1, <1>2, <2>1, <2>2 DEF Begin, TypeOK, SessionInv, Covered, committed
  <2>3. CASE t # s
    BY <1>1, <2>1, <2>3 DEF Begin, TypeOK, SessionInv, Covered, committed
  <2> QED
    BY <2>2, <2>3
<1> QED
  BY <1>3, <1>4 DEF IInv

(* A step that changes only session s and keeps the committed rows. *)
LEMMA OtherSessions ==
  ASSUME IInv, NEW s \in Sessions, NEW t \in Sessions \ {s},
         rows' = rows, stock' = stock, work' = work, known'[t] = known[t],
         pc'[t] = pc[t], verdicts'[t] = verdicts[t], locked'[t] = locked[t],
         draft'[t] = draft[t], pending'[t] = pending[t]
  PROVE  SessionInv(t)'
BY DEF IInv, SessionInv, Covered

LEMMA TakeStepInv == ASSUME IInv, NEW s \in Sessions, TakeStep(s) PROVE IInv'
<1>1. TypeOK /\ pc[s] = "working" /\ pending[s] = Nothing /\ ~Finished(s)
  BY DEF TakeStep, Taking, IInv
<1>2. PICK w, p, have, v, left :
        /\ w = Current(s)
        /\ p = w.product
        /\ have = IF p \in locked[s] THEN draft[s][p] ELSE stock[p]
        /\ v = IF Short(have, w) THEN "short" ELSE "done"
        /\ left = IF Short(have, w) THEN have ELSE After(have, w)
  OBVIOUS
<1>3. /\ ~LockedByOther(s, p)
      /\ locked' = [locked EXCEPT ![s] = @ \cup {p}]
      /\ draft' = [draft EXCEPT ![s][p] = left]
      /\ verdicts' = [verdicts EXCEPT ![s] = Append(@, v)]
      /\ UNCHANGED <<rows, stock, pc, work, pending, known>>
  BY <1>2 DEF TakeStep, committed
<1>4. /\ w \in Step /\ p \in Products
      /\ s \notin Uploads => w.quantity >= 0
      /\ Len(verdicts[s]) + 1 \in 1 .. Len(work[s])
  BY <1>1, <1>2, CurrentStep DEF Step
<1>5. have \in Int /\ stock[p] \in Int
  BY <1>1, <1>2, <1>4 DEF TypeOK
<1>6. left \in Int /\ (s \notin Uploads => left >= have \/ left >= 0)
  BY <1>2, <1>4, <1>5, AfterType
<1>7. s \notin Uploads => have >= stock[p] \/ have >= 0
  BY <1>2, <1>5 DEF IInv, SessionInv, Covered
<1>8. v \in {"done", "short", "missing"}
  BY <1>2
<1>9. TypeOK'
  BY <1>1, <1>3, <1>4, <1>6, <1>8 DEF TypeOK
<1>10. RowLocksExclude'
  BY <1>1, <1>3 DEF IInv, RowLocksExclude, LockedByOther, TypeOK
<1>11. SessionInv(s)'
  <2>1. SessionInv(s)
    BY DEF IInv
  <2>2. Len(verdicts'[s]) = Len(verdicts[s]) + 1 /\ Len(work[s]) \in Nat
    BY <1>1, <1>3, <1>8 DEF TypeOK
  <2>3. locked'[s] = locked[s] \cup {p}
    BY <1>1, <1>3 DEF TypeOK
  <2>4. ASSUME s \notin Uploads, NEW q \in locked'[s] PROVE Covered(s, q)'
    <3>1. CASE q = p
      <4>1. stock'[p] = stock[p] /\ draft'[s][p] = left
        BY <1>1, <1>3, <1>4 DEF TypeOK
      <4> QED
        BY <1>5, <1>6, <1>7, <2>4, <3>1, <4>1 DEF Covered
    <3>2. CASE q # p
      <4>1. stock'[q] = stock[q] /\ draft'[s][q] = draft[s][q]
        BY <1>1, <1>3, <3>2 DEF TypeOK
      <4> QED
        BY <2>1, <2>3, <2>4, <3>2, <4>1 DEF Covered, SessionInv
    <3> QED
      BY <3>1, <3>2
  <2>5. s \notin Uploads => \A q \in locked'[s] : Covered(s, q)'
    BY <2>4
  <2>6. SessionInv(s)' <=>
          /\ work'[s] # <<>> => work'[s] \in WorkOf[s]
          /\ Len(verdicts'[s]) <= Len(work'[s])
          /\ pc'[s] = "idle" => Len(verdicts'[s]) = 0
          /\ locked'[s] # {} => pc'[s] = "working"
          /\ known'[s] \subseteq rows'
          /\ s \notin Uploads =>
               /\ \A q \in locked'[s] : Covered(s, q)'
               /\ pending'[s] # Nothing => draft'[s][pending'[s]] >= 0
    BY DEF SessionInv
  <2> QED
    BY <1>1, <1>3, <1>4, <2>1, <2>2, <2>5, <2>6 DEF SessionInv
<1>12. \A t \in Sessions \ {s} : SessionInv(t)'
  BY <1>1, <1>3, OtherSessions DEF TypeOK
<1> QED
  BY <1>9, <1>10, <1>11, <1>12 DEF IInv

LEMMA MissRowInv == ASSUME IInv, NEW s \in Sessions, MissRow(s) PROVE IInv'
<1>1. PICK w, p : w = Current(s) /\ p = w.product
  OBVIOUS
<1>2. /\ TypeOK /\ pc[s] = "working" /\ ~Finished(s)
      /\ p \notin locked[s]
      /\ UNCHANGED <<rows, stock, pc, work, locked, known>>
  BY <1>1 DEF MissRow, Taking, committed, IInv, Visible
<1>3. /\ w \in Step /\ p \in Products /\ w.quantity \in Int
      /\ s \notin Uploads => w.quantity >= 0
      /\ Len(verdicts[s]) + 1 \in 1 .. Len(work[s])
  BY <1>1, <1>2, CurrentStep DEF Step
<1>4. \/ /\ verdicts' = [verdicts EXCEPT ![s] = Append(@, "missing")]
         /\ UNCHANGED <<draft, pending>>
      \/ /\ verdicts' = [verdicts EXCEPT ![s] = Append(@, "done")]
         /\ draft' = [draft EXCEPT ![s][p] = w.quantity]
         /\ pending' = [pending EXCEPT ![s] = p]
  BY <1>1 DEF MissRow
<1>5. TypeOK'
  <2>1. verdicts' \in [Sessions -> Seq({"done", "short", "missing"})]
    <3>1. \E v \in {"done", "short", "missing"} :
            verdicts' = [verdicts EXCEPT ![s] = Append(@, v)]
      BY <1>4
    <3> QED
      BY <1>2, <3>1 DEF TypeOK
  <2>2. CASE UNCHANGED <<draft, pending>>
    BY <1>2, <2>1, <2>2 DEF TypeOK
  <2>3. CASE /\ draft' = [draft EXCEPT ![s][p] = w.quantity]
             /\ pending' = [pending EXCEPT ![s] = p]
    <3>1. draft' \in [Sessions -> [Products -> Int]]
      BY <1>2, <1>3, <2>3 DEF TypeOK
    <3>2. pending' \in [Sessions -> Products \cup {Nothing}]
      BY <1>2, <1>3, <2>3 DEF TypeOK
    <3> QED
      BY <1>2, <2>1, <3>1, <3>2 DEF TypeOK
  <2> QED
    BY <1>4, <2>2, <2>3
<1>6. RowLocksExclude'
  BY <1>2 DEF IInv, RowLocksExclude
<1>7. SessionInv(s)'
  <2>1. SessionInv(s)
    BY DEF IInv
  <2>2. Len(verdicts'[s]) = Len(verdicts[s]) + 1 /\ Len(work[s]) \in Nat
    BY <1>2, <1>4 DEF TypeOK
  <2>3. \A q \in locked[s] : draft'[s][q] = draft[s][q]
    BY <1>2, <1>4 DEF TypeOK
  <2>4. s \notin Uploads /\ pending'[s] # Nothing => draft'[s][pending'[s]] >= 0
    BY <1>2, <1>3, <1>4, <2>1 DEF TypeOK, SessionInv
  <2> QED
    BY <1>2, <1>3, <2>1, <2>2, <2>3, <2>4 DEF SessionInv, Covered
<1>8. \A t \in Sessions \ {s} : SessionInv(t)'
  BY <1>2, <1>4, OtherSessions DEF TypeOK
<1> QED
  BY <1>5, <1>6, <1>7, <1>8 DEF IInv

LEMMA InsertRowInv == ASSUME IInv, NEW s \in Sessions, InsertRow(s) PROVE IInv'
<1>0. PICK p : p = pending[s]
  OBVIOUS
<1>1. /\ TypeOK /\ pc[s] = "working" /\ p # Nothing
      /\ ~LockedByOther(s, p)
      /\ p \notin rows
      /\ locked' = [locked EXCEPT ![s] = @ \cup {p}]
      /\ pending' = [pending EXCEPT ![s] = Nothing]
      /\ UNCHANGED <<rows, stock, pc, work, verdicts, draft, known>>
  BY <1>0 DEF InsertRow, InsertConflicts, committed, IInv
<1>2. p \in Products
  BY <1>0, <1>1 DEF TypeOK
<1>3. SessionInv(s)
  BY DEF IInv
<1>4. s \notin Uploads => Covered(s, p)
  BY <1>0, <1>1, <1>3 DEF SessionInv, Covered
<1>5. TypeOK'
  BY <1>1, <1>2 DEF TypeOK
<1>6. RowLocksExclude'
  BY <1>1 DEF IInv, RowLocksExclude, LockedByOther, TypeOK
<1>7. SessionInv(s)'
  BY <1>1, <1>3, <1>4 DEF SessionInv, Covered, TypeOK
<1>8. \A t \in Sessions \ {s} : SessionInv(t)'
  BY <1>1, OtherSessions DEF TypeOK
<1> QED
  BY <1>5, <1>6, <1>7, <1>8 DEF IInv

(* A session that ends gives up its locks; what it held, the others did not. *)
LEMMA EndInv ==
  ASSUME IInv, NEW s \in Sessions, NEW how \in {"done", "failed"}, EndAs(s, how),
         rows \subseteq rows', rows' \subseteq Products, stock' \in [Products -> Int],
         \A p \in Products \ locked[s] : stock'[p] = stock[p],
         \A p \in Products \ rows' : stock'[p] = 0,
         UNCHANGED <<work, verdicts, draft, known>>
  PROVE  IInv'
<1>1. /\ TypeOK
      /\ pc' = [pc EXCEPT ![s] = how]
      /\ locked' = [locked EXCEPT ![s] = {}]
      /\ pending' = [pending EXCEPT ![s] = Nothing]
  BY DEF EndAs, IInv
<1>2. TypeOK'
  BY <1>1 DEF TypeOK
<1>3. RowLocksExclude'
  BY <1>1 DEF IInv, RowLocksExclude, TypeOK
<1>4. SessionInv(s)'
  BY <1>1 DEF IInv, SessionInv, TypeOK
<1>5. ASSUME NEW t \in Sessions \ {s} PROVE SessionInv(t)'
  <2>1. locked[t] \subseteq Products \ locked[s]
    BY <1>1 DEF IInv, RowLocksExclude, TypeOK
  <2>2. SessionInv(t)
    BY DEF IInv
  <2> QED
    BY <1>1, <2>1, <2>2 DEF SessionInv, Covered, TypeOK
<1> QED
  BY <1>2, <1>3, <1>4, <1>5 DEF IInv

LEMMA RollBackInv == ASSUME IInv, NEW s \in Sessions, RollBack(s) PROVE IInv'
BY EndInv DEF RollBack, committed, IInv, TypeOK

LEMMA CommitWrites ==
  ASSUME IInv, NEW s \in Sessions, Commit(s)
  PROVE  /\ EndAs(s, "done") /\ UNCHANGED <<work, verdicts, draft, known>>
         /\ rows' = rows \cup locked[s]
         /\ stock' \in [Products -> Int]
         /\ \A p \in Products : stock'[p] = IF p \in locked[s] THEN draft[s][p] ELSE stock[p]
BY DEF Commit, Written, WithNewRows, IInv, TypeOK

LEMMA CommitInv == ASSUME IInv, NEW s \in Sessions, Commit(s) PROVE IInv'
<1>1. TypeOK /\ locked[s] \subseteq Products
  BY DEF IInv, TypeOK
<1>2. /\ EndAs(s, "done") /\ UNCHANGED <<work, verdicts, draft, known>>
      /\ rows' = rows \cup locked[s]
      /\ stock' \in [Products -> Int]
      /\ \A p \in Products : stock'[p] = IF p \in locked[s] THEN draft[s][p] ELSE stock[p]
  BY CommitWrites
<1>3. /\ rows \subseteq rows' /\ rows' \subseteq Products
      /\ \A p \in Products \ locked[s] : stock'[p] = stock[p]
      /\ \A p \in Products \ rows' : stock'[p] = 0
  BY <1>1, <1>2 DEF TypeOK
<1> QED
  BY <1>2, <1>3, EndInv

LEMMA NextInv == IInv /\ [Next]_vars => IInv'
<1> SUFFICES ASSUME IInv, [Next]_vars PROVE IInv'
  OBVIOUS
<1>1. CASE UNCHANGED vars
  BY <1>1 DEF vars, committed, locals, IInv, TypeOK, RowLocksExclude, SessionInv, Covered
<1>2. ASSUME NEW s \in Sessions, Begin(s) \/ SessionStep(s) \/ Fail(s) \/ DeadlockVictim(s)
      PROVE  IInv'
  BY <1>2, BeginInv, TakeStepInv, MissRowInv, InsertRowInv, CommitInv, RollBackInv
     DEF SessionStep, Refuse, LoseInsert, Fail, DeadlockVictim
<1> QED
  BY <1>1, <1>2 DEF Next, Quiescent

LEMMA Invariance == Spec => []IInv
BY InitInv, NextInv, PTL DEF Spec

----
(* The variables keep their types, and a product without a row has no stock. *)
THEOREM TypeCorrect == Spec => []TypeOK
BY Invariance, PTL DEF IInv

(* FOR UPDATE and the unique index give each row to one session at a time. *)
THEOREM LocksExclude == Spec => []RowLocksExclude
BY Invariance, PTL DEF IInv

(* Only the commit of a session changes stock. *)
LEMMA OnlyCommitsWrite ==
  ASSUME [Next]_vars
  PROVE  stock' = stock \/ \E s \in Sessions : Commit(s)
BY DEF Next, Begin, SessionStep, TakeStep, MissRow, InsertRow, Refuse, LoseInsert, Fail,
   DeadlockVictim, RollBack, Quiescent, committed, vars

(* No order and no adjustment sells what is not there. *)
THEOREM NoOverselling == Spec => OnlyUploadsOverdraw
<1>1. ASSUME IInv, [Next]_vars, NEW p \in Products, stock'[p] < stock[p], stock'[p] < 0
      PROVE  \E s \in Uploads : pc[s] = "working" /\ pc'[s] = "done"
  <2>1. TypeOK /\ stock[p] \in Int
    BY <1>1 DEF IInv, TypeOK
  <2>2. PICK s \in Sessions : Commit(s)
    BY <1>1, <2>1, OnlyCommitsWrite
  <2>3. /\ pc[s] = "working" /\ pc'[s] = "done"
        /\ stock'[p] = IF p \in locked[s] THEN draft[s][p] ELSE stock[p]
    BY <1>1, <2>1, <2>2, CommitWrites DEF Commit, EndAs, TypeOK
  <2>4. p \in locked[s] /\ stock'[p] = draft[s][p] /\ draft[s][p] \in Int
    BY <1>1, <2>1, <2>3 DEF TypeOK
  <2>5. ~Covered(s, p)
    BY <1>1, <2>1, <2>4 DEF Covered
  <2>6. s \in Uploads
    BY <1>1, <2>4, <2>5 DEF IInv, SessionInv
  <2> QED
    BY <2>3, <2>6
<1>2. IInv /\ [Next]_vars =>
        [\A p \in Products :
           stock'[p] < stock[p] /\ stock'[p] < 0 =>
             \E s \in Uploads : pc[s] = "working" /\ pc'[s] = "done"]_vars
  BY <1>1
<1> QED
  BY <1>2, Invariance, PTL DEF Spec, OnlyUploadsOverdraw

----
(* The rows of a session, the one it is about to insert included. *)
Held(s) == locked[s] \cup ({pending[s]} \ {Nothing})

(* What a working session has done so far is what it would have done alone,
   unless it is about to fail for a row that another session inserted. *)
Sound(s) ==
  /\ work[s] \in WorkOf[s]
  /\ Holds(Held(s), work[s], verdicts[s])
  /\ NoneKnown(known[s], work[s], verdicts[s])
  /\ \A q \in Held(s) : \/ q \in rows
                        \/ \E n \in 1 .. Len(verdicts[s]) :
                             verdicts[s][n] = "done" /\ work[s][n].product = q
  /\ s \in Orders => Held(s) \subseteq rows
  /\ s \in Uploads => AllDone(s)
  /\ Len(verdicts[s]) = 0 => Held(s) = {}
  /\ InsertConflicts(s) \/ \E level :
       Serial(level, stock, work[s], verdicts[s], rows, Held(s), draft[s])

Settled(s) == IF pc[s] = "working" THEN Sound(s) ELSE pending[s] = Nothing

RInv == IInv /\ \A s \in Sessions : Settled(s)

LEMMA StepKinds ==
  ASSUME IInv, NEW s \in Sessions, pc[s] = "working", ~Finished(s)
  PROVE  /\ s \in Adjustments => Len(verdicts[s]) = 0
         /\ s \in Uploads => Current(s).op = "set"
<1>1. /\ work[s] \in Seq(Step) /\ Len(work[s]) \in Nat /\ Len(verdicts[s]) \in Nat
      /\ Len(verdicts[s]) + 1 \in 1 .. Len(work[s])
  BY CurrentStep DEF IInv, TypeOK
<1>2. work[s] \in WorkOf[s]
  BY <1>1 DEF IInv, SessionInv
<1> QED
  BY <1>1, <1>2 DEF Current, Sessions

(* A step more of a session that waits for no row. *)
LEMMA LongerSerial ==
  ASSUME RInv, NEW s \in Sessions, pc[s] = "working", ~Finished(s), pending[s] = Nothing,
         NEW w, w = Current(s), NEW verdict \in Verdicts,
         NEW more, locked[s] \subseteq more, NEW left,
         \A before \in [Products -> Int] :
           Splits(before, locked[s], draft[s], stock) =>
             /\ Fair(w, verdict, before[w.product], rows)
             /\ Changed(before, w, verdict) \in [Products -> Int]
             /\ Splits(Changed(before, w, verdict), more, left, stock)
  PROVE  \E longer : Serial(longer, stock, work[s], Append(verdicts[s], verdict), rows, more, left)
<1>1. Sound(s) /\ Held(s) = locked[s]
  BY DEF RInv, Settled, Held
<1>2. PICK level : Serial(level, stock, work[s], verdicts[s], rows, locked[s], draft[s])
  BY <1>1 DEF Sound, InsertConflicts
<1>3. PICK first \in [Products -> Int], ws \in Seq(Step), vs \in Seq(Verdicts) :
        first = stock /\ ws = work[s] /\ vs = verdicts[s]
  BY DEF RInv, IInv, TypeOK, Verdicts
<1>4. PICK there, held, old, n :
        there = rows /\ held = locked[s] /\ old = draft[s] /\ n = Len(vs) + 1
  OBVIOUS
<1>5. Serial(level, first, ws, vs, there, held, old)
  BY <1>2, <1>3, <1>4
<1>6. n \in 1 .. Len(ws) /\ w = ws[n]
  BY <1>3, <1>4, CurrentStep DEF RInv, Current
<1>7. level[Len(vs)] \in [Products -> Int] /\ Splits(level[Len(vs)], held, old, first)
  <2>1. Len(vs) \in 0 .. Len(vs)
    OBVIOUS
  <2> QED
    BY <1>5, <2>1 DEF Serial, Runs
<1>8. PICK before, now : before = level[Len(vs)] /\ now = Changed(before, w, verdict)
  OBVIOUS
<1>9. /\ Fair(w, verdict, before[w.product], there)
      /\ now \in [Products -> Int] /\ Splits(now, more, left, first)
  <2>1. before \in [Products -> Int] /\ Splits(before, locked[s], draft[s], stock)
    BY <1>3, <1>4, <1>7, <1>8
  <2> QED
    BY <1>3, <1>4, <1>8, <2>1
<1>10. held \subseteq more /\ verdict \in Verdicts /\ n = Len(vs) + 1
  BY <1>4
<1>11. \E longer : Serial(longer, first, ws, Append(vs, verdict), there, more, left)
  BY ONLY <1>5, <1>6, <1>8, <1>9, <1>10, SerialNext
<1> QED
  BY <1>3, <1>4, <1>11

LEMMA TakeStepSound == ASSUME RInv, NEW s \in Sessions, TakeStep(s) PROVE Sound(s)'
<1>1. IInv /\ TypeOK /\ pc[s] = "working" /\ pending[s] = Nothing /\ ~Finished(s) /\ Sound(s)
  BY DEF TakeStep, Taking, IInv, RInv, Settled
<1>2. PICK w, p, have, verdict, left :
        /\ w = Current(s)
        /\ p = w.product
        /\ have = IF p \in locked[s] THEN draft[s][p] ELSE stock[p]
        /\ verdict = IF Short(have, w) THEN "short" ELSE "done"
        /\ left = IF Short(have, w) THEN have ELSE After(have, w)
  OBVIOUS
<1>3. /\ p \in rows \cup locked[s]
      /\ locked' = [locked EXCEPT ![s] = @ \cup {p}]
      /\ draft' = [draft EXCEPT ![s][p] = left]
      /\ verdicts' = [verdicts EXCEPT ![s] = Append(@, verdict)]
      /\ UNCHANGED <<rows, stock, pc, work, pending, known>>
  BY <1>2 DEF TakeStep, Visible, committed
<1>4. PICK n : n = Len(verdicts[s]) + 1
  OBVIOUS
<1>5. /\ w \in Step /\ p \in Products /\ n \in 1 .. Len(work[s]) /\ w = work[s][n]
      /\ s \in Orders => w.op = "deduct"
      /\ s \in Adjustments => n = 1
      /\ s \in Uploads => w.op = "set"
  BY <1>1, <1>2, <1>4, CurrentStep, StepKinds DEF Step, Current
<1>6. /\ work[s] \in Seq(Step) /\ verdicts[s] \in Seq(Verdicts) /\ verdict \in Verdicts
      /\ stock \in [Products -> Int] /\ draft[s] \in [Products -> Int]
      /\ locked[s] \subseteq Products /\ have \in Int
  BY <1>1, <1>2, <1>5 DEF TypeOK, Verdicts
<1>7. left \in Int
  BY <1>2, <1>5, <1>6, AfterType
<1>8. Held(s) = locked[s] /\ Held(s)' = locked[s] \cup {p}
  BY <1>1, <1>3, <1>6 DEF Held, TypeOK
<1>9. s \in Orders \cup Adjustments => p \in rows
  BY <1>1, <1>3, <1>4, <1>5, <1>6, <1>8 DEF Sound
<1>10. draft'[s] = [draft[s] EXCEPT ![p] = left] /\ verdicts'[s] = Append(verdicts[s], verdict)
  BY <1>1, <1>3 DEF TypeOK
<1>11. ASSUME NEW before \in [Products -> Int], Splits(before, locked[s], draft[s], stock)
       PROVE  /\ Fair(w, verdict, before[w.product], rows)
              /\ Changed(before, w, verdict) \in [Products -> Int]
              /\ Splits(Changed(before, w, verdict), locked[s] \cup {p}, draft'[s], stock)
  <2>1. before[p] = have
    BY <1>2, <1>5, <1>11 DEF Splits
  <2>2. w.op = "deduct" => p \in rows
    BY <1>5, <1>9 DEF Sessions
  <2>3. Fair(w, verdict, before[p], rows)
    BY <1>2, <1>5, <1>6, <2>1, <2>2 DEF Fair, Short, Step
  <2>4. Changed(before, w, verdict) \in [Products -> Int]
    BY <1>2, <1>5, <1>6, <1>7, <2>1 DEF Changed
  <2>5. Splits(Changed(before, w, verdict), locked[s] \cup {p}, draft'[s], stock)
    <3>1. PICK now : now = Changed(before, w, verdict)
      OBVIOUS
    <3>2. now[p] = left /\ \A q \in Products \ {p} : now[q] = before[q]
      BY <1>2, <1>5, <2>1, <3>1 DEF Changed
    <3>3. draft'[s][p] = left /\ \A q \in Products \ {p} : draft'[s][q] = draft[s][q]
      BY <1>5, <1>6, <1>10
    <3> QED
      BY <1>11, <3>1, <3>2, <3>3 DEF Splits
  <2> QED
    BY <1>2, <2>3, <2>4, <2>5
<1>12. \E longer :
         Serial(longer, stock, work[s], Append(verdicts[s], verdict), rows,
                locked[s] \cup {p}, draft'[s])
  <2>1. PICK now : now = draft'[s]
    OBVIOUS
  <2>2. \A before \in [Products -> Int] :
          Splits(before, locked[s], draft[s], stock) =>
            /\ Fair(w, verdict, before[w.product], rows)
            /\ Changed(before, w, verdict) \in [Products -> Int]
            /\ Splits(Changed(before, w, verdict), locked[s] \cup {p}, now, stock)
    BY <1>11, <2>1
  <2>3. locked[s] \subseteq locked[s] \cup {p}
    OBVIOUS
  <2>4. \E longer : Serial(longer, stock, work[s], Append(verdicts[s], verdict), rows,
                            locked[s] \cup {p}, now)
    BY <1>1, <1>2, <1>6, <2>2, <2>3, LongerSerial
  <2> QED
    BY <2>1, <2>4
<1>13. /\ Len(verdicts'[s]) = n /\ verdicts'[s][n] = verdict
       /\ \A k \in 1 .. n :
            k = n \/ (k \in 1 .. Len(verdicts[s]) /\ verdicts'[s][k] = verdicts[s][k])
       /\ \A k \in 1 .. Len(verdicts[s]) : k \in 1 .. n /\ verdicts'[s][k] = verdicts[s][k]
  BY <1>4, <1>6, <1>10
<1>14. ASSUME NEW k \in 1 .. n, verdicts'[s][k] # "missing"
       PROVE  work[s][k].product \in locked[s] \cup {p}
  <2>1. CASE k = n
    BY <1>2, <1>5, <2>1
  <2>2. CASE k # n
    BY <1>1, <1>8, <1>13, <1>14, <2>2 DEF Sound, Holds
  <2> QED
    BY <2>1, <2>2
<1>15. ASSUME NEW q \in locked[s] \cup {p}
       PROVE  q \in rows \/ \E k \in 1 .. n : verdicts'[s][k] = "done" /\ work[s][k].product = q
  <2>1. \/ q \in rows
        \/ \E k \in 1 .. Len(verdicts[s]) :
             verdicts[s][k] = "done" /\ work[s][k].product = q
    BY <1>1, <1>3, <1>8 DEF Sound
  <2> QED
    BY <1>13, <2>1
<1>16. s \in Orders => locked[s] \cup {p} \subseteq rows
  BY <1>1, <1>8, <1>9 DEF Sound
<1>17. s \in Uploads => \A k \in 1 .. n : verdicts'[s][k] = "done"
  <2>1. s \in Uploads => AllDone(s) /\ verdict = "done"
    BY <1>1, <1>2, <1>5 DEF Sound, Short
  <2> QED
    BY <1>13, <2>1 DEF AllDone
<1>18. n # 0 /\ work'[s] \in WorkOf[s]
  BY <1>1, <1>3, <1>5 DEF Sound
<1>19. /\ Holds(Held(s), work[s], verdicts[s])'
       /\ s \in Uploads => AllDone(s)'
  BY <1>3, <1>8, <1>13, <1>14, <1>17 DEF AllDone, Holds
<1>25. NoneKnown(known[s], work[s], verdicts[s])'
  BY <1>1, <1>2, <1>3, <1>13 DEF Sound, NoneKnown
<1>20. UNCHANGED <<rows, stock, work>>
  BY <1>3
<1>21. PICK more : more = locked[s] \cup {p} /\ Held(s)' = more
  BY <1>8
<1>22. \E longer : Serial(longer, stock, work[s], verdicts'[s], rows, more, draft'[s])
  BY <1>10, <1>12, <1>21
<1>23. /\ \A q \in more :
            q \in rows \/ \E k \in 1 .. n : verdicts'[s][k] = "done" /\ work[s][k].product = q
       /\ s \in Orders => more \subseteq rows
  BY <1>15, <1>16, <1>21
<1>24. Len(verdicts'[s]) = n
  BY <1>13
<1> QED
  BY <1>18, <1>19, <1>20, <1>21, <1>22, <1>23, <1>24, <1>25 DEF Sound

LEMMA MissRowSound == ASSUME RInv, NEW s \in Sessions, MissRow(s) PROVE Sound(s)'
<1>1. IInv /\ TypeOK /\ pc[s] = "working" /\ pending[s] = Nothing /\ ~Finished(s) /\ Sound(s)
  BY DEF MissRow, Taking, IInv, RInv, Settled
<1>2. PICK w, p, verdict, n :
        /\ w = Current(s) /\ p = w.product /\ n = Len(verdicts[s]) + 1
        /\ verdict = IF w.op = "deduct" THEN "missing" ELSE "done"
  OBVIOUS
<1>3. /\ p \notin rows /\ p \notin locked[s]
      /\ UNCHANGED <<rows, stock, pc, work, locked, known>>
      /\ verdicts' = [verdicts EXCEPT ![s] = Append(@, verdict)]
      /\ IF verdict = "missing" THEN UNCHANGED <<draft, pending>>
         ELSE /\ draft' = [draft EXCEPT ![s][p] = w.quantity]
              /\ pending' = [pending EXCEPT ![s] = p]
  BY <1>2 DEF MissRow, Visible, committed
<1>4. /\ w \in Step /\ p \in Products /\ n \in 1 .. Len(work[s]) /\ w = work[s][n]
      /\ w.quantity \in Int
      /\ s \in Orders => verdict = "missing"
      /\ s \in Uploads => w.op = "set"
  BY <1>1, <1>2, CurrentStep, StepKinds DEF Step, Current
<1>5. /\ verdicts[s] \in Seq(Verdicts) /\ verdict \in Verdicts
      /\ draft[s] \in [Products -> Int] /\ stock[p] = 0
  BY <1>1, <1>2, <1>3, <1>4 DEF TypeOK, Verdicts
<1>6. PICK more : more = IF verdict = "missing" THEN locked[s] ELSE locked[s] \cup {p}
  OBVIOUS
<1>7. /\ Held(s) = locked[s] /\ Held(s)' = more
      /\ draft'[s] = IF verdict = "missing" THEN draft[s] ELSE [draft[s] EXCEPT ![p] = w.quantity]
      /\ verdicts'[s] = Append(verdicts[s], verdict)
  <2>1. p # Nothing
    BY <1>4
  <2>2. locked'[s] = locked[s] /\ verdicts'[s] = Append(verdicts[s], verdict)
    BY <1>1, <1>3 DEF TypeOK
  <2>3. CASE verdict = "missing"
    BY <1>1, <1>3, <1>6, <2>2, <2>3 DEF Held
  <2>4. CASE verdict # "missing"
    <3>1. pending'[s] = p /\ draft'[s] = [draft[s] EXCEPT ![p] = w.quantity]
      BY <1>1, <1>3, <2>4 DEF TypeOK
    <3> QED
      BY <1>1, <1>6, <2>1, <2>2, <2>4, <3>1 DEF Held
  <2> QED
    BY <2>3, <2>4
<1>8. ASSUME NEW before \in [Products -> Int], Splits(before, locked[s], draft[s], stock)
      PROVE  /\ Fair(w, verdict, before[w.product], rows)
             /\ Changed(before, w, verdict) \in [Products -> Int]
             /\ Splits(Changed(before, w, verdict), more, draft'[s], stock)
  <2>1. before[p] = 0
    BY <1>3, <1>4, <1>5, <1>8 DEF Splits
  <2>2. CASE verdict = "missing"
    <3>1. w.op = "deduct"
      BY <1>2, <2>2
    <3> QED
      BY <1>6, <1>7, <1>8, <2>2, <3>1 DEF Fair, Changed
  <2>3. CASE verdict = "done"
    <3>1. w.op # "deduct" /\ w.op \in {"deduct", "add", "set"}
      BY <1>2, <1>4, <2>3 DEF Step
    <3>2. After(before[p], w) = w.quantity
      BY <1>4, <2>1, <3>1 DEF After
    <3>3. PICK now : now = Changed(before, w, verdict) /\ now = [before EXCEPT ![p] = w.quantity]
      BY <1>2, <1>4, <2>3, <3>2 DEF Changed
    <3>4. Fair(w, verdict, before[w.product], rows)
      BY <2>3, <3>1 DEF Fair
    <3>5. Splits(now, more, draft'[s], stock)
      BY <1>4, <1>5, <1>6, <1>7, <1>8, <2>3, <3>3 DEF Splits
    <3> QED
      BY <1>4, <3>3, <3>4, <3>5
  <2> QED
    BY <1>2, <2>2, <2>3
<1>9. \E longer :
        Serial(longer, stock, work[s], Append(verdicts[s], verdict), rows, more, draft'[s])
  <2>1. PICK now : now = draft'[s]
    OBVIOUS
  <2>2. \A before \in [Products -> Int] :
          Splits(before, locked[s], draft[s], stock) =>
            /\ Fair(w, verdict, before[w.product], rows)
            /\ Changed(before, w, verdict) \in [Products -> Int]
            /\ Splits(Changed(before, w, verdict), more, now, stock)
    BY <1>8, <2>1
  <2>3. locked[s] \subseteq more
    BY <1>6
  <2>4. \E longer : Serial(longer, stock, work[s], Append(verdicts[s], verdict), rows, more, now)
    BY <1>1, <1>2, <1>5, <2>2, <2>3, LongerSerial
  <2> QED
    BY <2>1, <2>4
<1>10. /\ Len(verdicts'[s]) = n /\ verdicts'[s][n] = verdict
       /\ \A k \in 1 .. n :
            k = n \/ (k \in 1 .. Len(verdicts[s]) /\ verdicts'[s][k] = verdicts[s][k])
       /\ \A k \in 1 .. Len(verdicts[s]) : k \in 1 .. n /\ verdicts'[s][k] = verdicts[s][k]
  BY <1>2, <1>5, <1>7
<1>11. ASSUME NEW k \in 1 .. n, verdicts'[s][k] # "missing"
       PROVE  work[s][k].product \in more
  <2>1. CASE k = n
    BY <1>2, <1>4, <1>6, <1>10, <1>11, <2>1
  <2>2. CASE k # n
    BY <1>1, <1>6, <1>7, <1>10, <1>11, <2>2 DEF Sound, Holds
  <2> QED
    BY <2>1, <2>2
<1>12. ASSUME NEW q \in more
       PROVE  q \in rows \/ \E k \in 1 .. n : verdicts'[s][k] = "done" /\ work[s][k].product = q
  <2>1. CASE q \in locked[s]
    <3>1. \/ q \in rows
          \/ \E k \in 1 .. Len(verdicts[s]) :
               verdicts[s][k] = "done" /\ work[s][k].product = q
      BY <1>1, <1>7, <2>1 DEF Sound
    <3> QED
      BY <1>10, <3>1
  <2>2. CASE q \notin locked[s]
    <3>1. verdict # "missing" /\ q = p
      BY <1>6, <1>12, <2>2
    <3>2. verdict = "done" /\ n \in 1 .. n
      BY <1>2, <1>4, <3>1
    <3> QED
      BY <1>2, <1>4, <1>10, <3>1, <3>2
  <2> QED
    BY <2>1, <2>2
<1>13. s \in Orders => more \subseteq rows
  BY <1>1, <1>4, <1>6, <1>7 DEF Sound
<1>14. s \in Uploads => \A k \in 1 .. n : verdicts'[s][k] = "done"
  BY <1>1, <1>2, <1>4, <1>10 DEF Sound, AllDone
<1>15. n # 0 /\ work'[s] \in WorkOf[s]
  BY <1>1, <1>3, <1>4 DEF Sound
<1>16. /\ Holds(Held(s), work[s], verdicts[s])'
       /\ s \in Uploads => AllDone(s)'
  BY <1>3, <1>7, <1>10, <1>11, <1>14 DEF AllDone, Holds
<1>17. NoneKnown(known[s], work[s], verdicts[s])'
  <2>1. p \notin known[s]
    BY <1>1, <1>3 DEF IInv, SessionInv
  <2> QED
    BY <1>1, <1>2, <1>3, <1>4, <1>10, <2>1 DEF Sound, NoneKnown
<1> QED
  BY <1>3, <1>7, <1>9, <1>10, <1>12, <1>13, <1>15, <1>16, <1>17 DEF Sound

LEMMA InsertRowSound == ASSUME RInv, NEW s \in Sessions, InsertRow(s) PROVE Sound(s)'
<1>1. /\ TypeOK /\ pc[s] = "working" /\ Sound(s) /\ ~InsertConflicts(s) /\ pending[s] # Nothing
      /\ locked' = [locked EXCEPT ![s] = @ \cup {pending[s]}]
      /\ pending' = [pending EXCEPT ![s] = Nothing]
      /\ UNCHANGED <<rows, stock, pc, work, verdicts, draft, known>>
  BY DEF InsertRow, committed, IInv, RInv, Settled
<1>2. Held(s)' = Held(s)
  BY <1>1 DEF Held, TypeOK
<1> QED
  BY <1>1, <1>2 DEF Sound, AllDone

LEMMA SoundSame ==
  ASSUME NEW s \in Sessions, Sound(s), UNCHANGED <<rows, stock>>, work'[s] = work[s],
         verdicts'[s] = verdicts[s], locked'[s] = locked[s], draft'[s] = draft[s],
         pending'[s] = pending[s], known'[s] = known[s]
  PROVE  Sound(s)'
<1>1. Held(s)' = Held(s) /\ InsertConflicts(s)' = InsertConflicts(s) /\ AllDone(s)' = AllDone(s)
  BY DEF Held, InsertConflicts, AllDone
<1> QED
  BY <1>1 DEF Sound

(* Another session commits. *)
LEMMA SoundElsewhere ==
  ASSUME RInv, NEW s \in Sessions, Commit(s), NEW t \in Sessions \ {s}, pc[t] = "working"
  PROVE  Sound(t)'
<1>1. TypeOK /\ RowLocksExclude /\ Sound(t) /\ SessionInv(t)
  BY DEF RInv, Settled, IInv
<1>2. /\ rows' = rows \cup locked[s] /\ stock' \in [Products -> Int]
      /\ \A p \in Products : stock'[p] = IF p \in locked[s] THEN draft[s][p] ELSE stock[p]
      /\ UNCHANGED <<work, verdicts, draft, known>>
      /\ locked'[t] = locked[t] /\ pending'[t] = pending[t]
  BY <1>1, CommitWrites DEF RInv, EndAs, TypeOK
<1>3. Held(t)' = Held(t) /\ AllDone(t)' = AllDone(t)
  BY <1>2 DEF Held, AllDone
<1>4. InsertConflicts(t)' \/ \E level :
        Serial(level, stock', work[t], verdicts[t], rows', Held(t), draft[t])
  <2>1. CASE InsertConflicts(t)'
    BY <2>1
  <2>2. CASE ~InsertConflicts(t)'
    <3>1. pending[t] # Nothing => pending[t] \notin rows \cup locked[s]
      BY <1>2, <2>2 DEF InsertConflicts
    <3>2. PICK level : Serial(level, stock, work[t], verdicts[t], rows, Held(t), draft[t])
      BY <1>1, <3>1 DEF Sound, InsertConflicts
    <3>3. \A q \in Products \cap Held(t) : stock'[q] = stock[q]
      BY <1>1, <1>2, <3>1 DEF Held, RowLocksExclude
    <3>4. PICK first \in [Products -> Int], first1 \in [Products -> Int],
               ws \in Seq(Step), vs \in Seq(Verdicts) :
            first = stock /\ first1 = stock' /\ ws = work[t] /\ vs = verdicts[t]
      BY <1>1, <1>2 DEF TypeOK, Verdicts
    <3>5. PICK there, there1, held, left :
            there = rows /\ there1 = rows' /\ held = Held(t) /\ left = draft[t]
      OBVIOUS
    <3>6. Elsewhere(level, first, ws, vs, there, held, left, first1, there1)
      BY <1>1, <1>2, <3>2, <3>3, <3>4, <3>5 DEF Sound, SessionInv, Elsewhere
    <3>7. \E other : Serial(other, first1, ws, vs, there1, held, left)
      BY ONLY <3>6, SerialElsewhere
    <3> QED
      BY <3>4, <3>5, <3>7
  <2> QED
    BY <2>1, <2>2
<1> QED
  BY <1>1, <1>2, <1>3, <1>4 DEF Sound

----
LEMMA SettledInit == Init => RInv
BY InitInv DEF Init, RInv, Settled

LEMMA SettledSame ==
  ASSUME RInv, NEW s \in Sessions, UNCHANGED <<rows, stock>>, pc'[s] = pc[s], work'[s] = work[s],
         verdicts'[s] = verdicts[s], locked'[s] = locked[s], draft'[s] = draft[s],
         pending'[s] = pending[s], known'[s] = known[s]
  PROVE  Settled(s)'
BY SoundSame DEF RInv, Settled

LEMMA BeginSettled == ASSUME RInv, NEW s \in Sessions, Begin(s) PROVE Settled(s)'
<1>1. /\ TypeOK /\ SessionInv(s) /\ pending[s] = Nothing /\ pc[s] = "idle"
      /\ UNCHANGED <<rows, stock, verdicts, locked, draft, pending>>
      /\ pc'[s] = "working"
  BY DEF Begin, RInv, Settled, IInv, TypeOK, committed
<1>2. work'[s] \in WorkOf[s]
  BY <1>1 DEF Begin, TypeOK
<1>3. Len(verdicts[s]) = 0 /\ locked[s] = {}
  BY <1>1 DEF SessionInv
<1>4. Held(s)' = {}
  BY <1>1, <1>3 DEF Held
<1>5. \E level : Serial(level, stock, work'[s], verdicts[s], rows, {}, draft[s])
  <2>1. PICK first, w, v, there, left :
          /\ first = stock /\ w = work'[s] /\ v = verdicts[s] /\ there = rows /\ left = draft[s]
    OBVIOUS
  <2>2. \E level : Serial(level, first, w, v, there, {}, left)
    BY <1>1, <1>3, <2>1, SerialStart DEF TypeOK
  <2> QED
    BY <2>1, <2>2
<1>6. Holds({}, work'[s], verdicts[s]) /\ NoneKnown(known'[s], work'[s], verdicts[s]) /\ AllDone(s)'
  BY <1>1, <1>3 DEF Holds, NoneKnown, AllDone
<1> QED
  BY <1>1, <1>2, <1>4, <1>5, <1>6 DEF Settled, Sound

LEMMA EndSettled ==
  ASSUME TypeOK, NEW s \in Sessions, NEW how \in {"done", "failed"}, EndAs(s, how)
  PROVE  Settled(s)'
BY DEF EndAs, Settled, TypeOK

(* A step of a session leaves its own affairs in order, *)
LEMMA MineSettled ==
  ASSUME RInv, NEW s \in Sessions, Begin(s) \/ SessionStep(s) \/ Fail(s) \/ DeadlockVictim(s)
  PROVE  Settled(s)'
<1>1. TypeOK
  BY DEF RInv, IInv
<1>2. CASE Begin(s)
  BY <1>2, BeginSettled
<1>3. CASE TakeStep(s)
  <2>1. pc'[s] = "working"
    BY <1>3 DEF TakeStep, Taking
  <2> QED
    BY <1>3, <2>1, TakeStepSound DEF Settled
<1>4. CASE MissRow(s)
  <2>1. pc'[s] = "working"
    BY <1>4 DEF MissRow, Taking
  <2> QED
    BY <1>4, <2>1, MissRowSound DEF Settled
<1>5. CASE InsertRow(s)
  <2>1. pc'[s] = "working"
    BY <1>5 DEF InsertRow
  <2> QED
    BY <1>5, <2>1, InsertRowSound DEF Settled
<1>6. CASE Commit(s)
  BY <1>1, <1>6, EndSettled DEF Commit
<1>7. CASE RollBack(s)
  BY <1>1, <1>7, EndSettled DEF RollBack
<1> QED
  BY <1>2, <1>3, <1>4, <1>5, <1>6, <1>7 DEF SessionStep, Refuse, LoseInsert, Fail, DeadlockVictim

(* and those of the others. *)
LEMMA OthersSettled ==
  ASSUME RInv, NEW s \in Sessions, NEW t \in Sessions \ {s},
         Begin(s) \/ SessionStep(s) \/ Fail(s) \/ DeadlockVictim(s)
  PROVE  Settled(t)'
<1>1. TypeOK
  BY DEF RInv, IInv
<1>2. CASE Begin(s)
  BY <1>1, <1>2, SettledSame DEF Begin, TypeOK, committed
<1>3. CASE TakeStep(s)
  BY <1>1, <1>3, SettledSame DEF TakeStep, TypeOK, committed
<1>4. CASE MissRow(s)
  BY <1>1, <1>4, SettledSame DEF MissRow, TypeOK, committed
<1>5. CASE InsertRow(s)
  BY <1>1, <1>5, SettledSame DEF InsertRow, TypeOK, committed
<1>6. CASE Commit(s)
  <2>1. pc'[t] = pc[t] /\ pending'[t] = pending[t]
    BY <1>1, <1>6 DEF Commit, EndAs, TypeOK
  <2> QED
    BY <1>6, <2>1, SoundElsewhere DEF RInv, Settled
<1>7. CASE RollBack(s)
  BY <1>1, <1>7, SettledSame DEF RollBack, EndAs, TypeOK, committed
<1> QED
  BY <1>2, <1>3, <1>4, <1>5, <1>6, <1>7 DEF SessionStep, Refuse, LoseInsert, Fail, DeadlockVictim

LEMMA SettledNext == RInv /\ [Next]_vars => RInv'
<1> SUFFICES ASSUME RInv, [Next]_vars PROVE RInv'
  OBVIOUS
<1>1. IInv'
  BY NextInv DEF RInv
<1>2. CASE UNCHANGED vars
  BY <1>1, <1>2, SettledSame DEF vars, committed, locals, RInv
<1>3. ASSUME NEW s \in Sessions, Begin(s) \/ SessionStep(s) \/ Fail(s) \/ DeadlockVictim(s)
      PROVE  RInv'
  <2>1. \A t \in Sessions : Settled(t)'
    BY <1>3, MineSettled, OthersSettled
  <2> QED
    BY <1>1, <2>1 DEF RInv
<1> QED
  BY <1>2, <1>3 DEF Next, Quiescent

LEMMA SettledInvariance == Spec => []RInv
BY SettledInit, SettledNext, PTL DEF Spec

----
(* Refinement. Replay, a recursive function, has one solution: the levels.  *)

Unfolds(f, first, w, v) ==
  f = [n \in 0 .. Len(w) |-> IF n = 0 THEN first ELSE Changed(f[n - 1], w[n], v[n])]

LEMMA RunsUnfolds ==
  ASSUME NEW level, NEW first, NEW w, NEW v, Len(v) = Len(w), Len(v) \in Nat,
         Runs(level, first, w, v)
  PROVE  Unfolds(level, first, w, v)
<1>1. /\ level \in [0 .. Len(w) -> [Products -> Int]]
      /\ level[0] = first
      /\ \A n \in 1 .. Len(w) : level[n] = Changed(level[n - 1], w[n], v[n])
  BY DEF Runs
<1>2. \A n \in 0 .. Len(w) :
        level[n] = IF n = 0 THEN first ELSE Changed(level[n - 1], w[n], v[n])
  <2>1. \A n \in 0 .. Len(w) : n = 0 \/ n \in 1 .. Len(w)
    OBVIOUS
  <2> QED
    BY <1>1, <2>1
<1>3. level = [n \in 0 .. Len(w) |-> level[n]]
  BY <1>1
<1> QED
  BY <1>2, <1>3 DEF Unfolds

LEMMA OneSolution ==
  ASSUME NEW f, NEW g, NEW first, NEW w, NEW v, Len(w) \in Nat,
         Unfolds(f, first, w, v), Unfolds(g, first, w, v)
  PROVE  f = g
<1> DEFINE Off == {n \in 0 .. Len(w) : f[n] # g[n]}
<1>1. /\ f = [n \in 0 .. Len(w) |-> f[n]] /\ g = [n \in 0 .. Len(w) |-> g[n]]
      /\ \A n \in 0 .. Len(w) :
           /\ f[n] = IF n = 0 THEN first ELSE Changed(f[n - 1], w[n], v[n])
           /\ g[n] = IF n = 0 THEN first ELSE Changed(g[n - 1], w[n], v[n])
  BY DEF Unfolds
<1>2. \A n \in 0 .. Len(w) :
        /\ n = 0 => f[n] = first /\ g[n] = first
        /\ n # 0 => f[n] = Changed(f[n - 1], w[n], v[n]) /\ g[n] = Changed(g[n - 1], w[n], v[n])
  BY <1>1
<1>3. ASSUME Off # {} PROVE FALSE
  <2>1. Off \in SUBSET Nat
    OBVIOUS
  <2>2. PICK n \in Off : \A m \in Off : n <= m
    BY <1>3, <2>1, LeastNatural
  <2>3. n \in 0 .. Len(w) /\ f[n] # g[n]
    BY <2>2
  <2>4. n # 0
    BY <1>2, <2>3
  <2>5. n - 1 \in 0 .. Len(w) /\ n - 1 \notin Off
    BY <2>2, <2>3, <2>4
  <2>6. f[n - 1] = g[n - 1]
    BY <2>5
  <2>7. PICK p : p = n - 1
    OBVIOUS
  <2>8. f[n] = Changed(f[p], w[n], v[n]) /\ g[n] = Changed(g[p], w[n], v[n])
    BY <1>2, <2>3, <2>4, <2>7
  <2>9. f[p] = g[p]
    BY <2>6, <2>7
  <2> QED
    BY ONLY <2>3, <2>8, <2>9
<1>4. \A n \in 0 .. Len(w) : f[n] = g[n]
  BY <1>3
<1> QED
  BY <1>1, <1>4

LEMMA ReplayIs ==
  ASSUME NEW w, NEW v, Len(w) \in Nat, Len(v) = Len(w), NEW level, Runs(level, stock, w, v)
  PROVE  Promise!Replay(w, v) = level
<1>1. PICK first : first = stock
  OBVIOUS
<1>2. Promise!Replay(w, v) = CHOOSE f : Unfolds(f, stock, w, v)
  BY DEF Promise!Replay, Promise!After, Unfolds, Changed, After
<1>3. Unfolds(level, first, w, v)
  BY <1>1, RunsUnfolds
<1>4. PICK g : g = CHOOSE f : Unfolds(f, first, w, v)
  OBVIOUS
<1>5. Unfolds(g, first, w, v)
  BY <1>3, <1>4
<1>6. g = level
  BY <1>3, <1>5, OneSolution
<1> QED
  BY <1>1, <1>2, <1>4, <1>6

LEMMA JustIs ==
  ASSUME NEW w, NEW verdict \in Verdicts, NEW have, NEW saw,
         Fair(w, verdict, have, rows), verdict = "missing" => w.product \notin saw
  PROVE  Promise!Just(w, verdict, have, saw)
BY DEF Promise!Just, Fair, Verdicts

Begun == {s \in Sessions : pc[s] # "idle"}
Served == [s \in Sessions |-> IF pc[s] = "done" THEN verdicts[s] ELSE <<>>]

LEMMA CommitServes == ASSUME RInv, NEW s \in Sessions, Commit(s) PROVE Promise!Serve(s)
<1>1. /\ TypeOK /\ RowLocksExclude /\ Sound(s) /\ Held(s) = locked[s] /\ ~InsertConflicts(s)
      /\ pc[s] = "working" /\ Finished(s) /\ ~Raises(s)
  BY DEF Commit, RInv, IInv, Settled, Held, InsertConflicts
<1>2. /\ EndAs(s, "done") /\ UNCHANGED <<work, verdicts, draft, known>>
      /\ rows' = rows \cup locked[s]
      /\ stock' \in [Products -> Int]
      /\ \A p \in Products : stock'[p] = IF p \in locked[s] THEN draft[s][p] ELSE stock[p]
  BY CommitWrites DEF RInv
<1>3. PICK w, v : w = work[s] /\ v = verdicts[s]
  OBVIOUS
<1>4. /\ w \in WorkOf[s] /\ w \in Seq(Step) /\ v \in Seq(Verdicts)
      /\ Len(v) = Len(w) /\ Len(w) \in Nat
      /\ \A n \in 1 .. Len(w) : v[n] \in Verdicts /\ w[n].product \in Products
  <2>1. /\ w \in WorkOf[s] /\ w \in Seq(Step) /\ v \in Seq(Verdicts) /\ Len(v) = Len(w)
    BY <1>1, <1>3 DEF Sound, TypeOK, Verdicts, Finished
  <2>2. \A n \in 1 .. Len(w) : v[n] \in Verdicts /\ w[n] \in Step
    BY <2>1
  <2> QED
    BY <2>1, <2>2 DEF Step
<1>5. PICK level : Serial(level, stock, w, v, rows, locked[s], draft[s])
  BY <1>1, <1>3 DEF Sound
<1>6. /\ Runs(level, stock, w, v)
      /\ \A n \in 1 .. Len(w) : Fair(w[n], v[n], level[n - 1][w[n].product], rows)
      /\ Splits(level[Len(w)], locked[s], draft[s], stock)
      /\ level[Len(w)] \in [Products -> Int]
  <2>1. Len(w) \in 0 .. Len(w)
    BY <1>4
  <2> QED
    BY <1>4, <1>5, <2>1 DEF Serial, Runs
<1>7. Promise!Replay(w, v) = level
  BY <1>4, <1>6, ReplayIs
<1>8. \A n \in 1 .. Len(w) : Promise!Just(w[n], v[n], level[n - 1][w[n].product], known[s])
  BY <1>1, <1>3, <1>4, <1>6, JustIs DEF Sound, NoneKnown
<1>9. stock' = level[Len(w)]
  <2>1. \A p \in Products : stock'[p] = level[Len(w)][p]
    BY <1>2, <1>6 DEF Splits
  <2> QED
    BY <1>2, <1>6, <2>1
<1>10. PICK done : done = {n \in 1 .. Len(w) : v[n] = "done"}
  OBVIOUS
<1>11. s \in Adjustments \cup Uploads => done = 1 .. Len(w)
  <2>1. s \in Adjustments \cup Uploads => AllDone(s)
    BY <1>1 DEF Sound, Raises
  <2> QED
    BY <1>3, <1>4, <1>10, <2>1 DEF AllDone
<1>12. rows' = rows \cup {w[n].product : n \in done}
  <2>1. \A n \in done : w[n].product \in locked[s]
    BY <1>1, <1>3, <1>4, <1>10 DEF Sound, Holds
  <2>2. \A q \in locked[s] : q \in rows \/ \E n \in done : w[n].product = q
    BY <1>1, <1>3, <1>4, <1>10 DEF Sound
  <2> QED
    BY <1>2, <2>1, <2>2
<1>13. Served[s] = <<>> /\ Served' = [Served EXCEPT ![s] = v]
  BY <1>1, <1>2, <1>3 DEF Served, EndAs, TypeOK
<1>14. v \in [1 .. Len(w) -> Promise!Verdict]
  BY <1>4 DEF Promise!Verdict, Verdicts
<1>15. s \in Begun /\ UNCHANGED <<Begun, known>>
  BY <1>1, <1>2 DEF Begun, EndAs, TypeOK
<1> QED
  BY <1>4, <1>7, <1>8, <1>9, <1>10, <1>11, <1>12, <1>13, <1>14, <1>15
     DEF Promise!Serve, Served, Begun

LEMMA BeginBegins == ASSUME RInv, NEW s \in Sessions, Begin(s) PROVE Promise!Begin(s)
<1>1. TypeOK /\ pc[s] = "idle" /\ pc' = [pc EXCEPT ![s] = "working"]
      /\ known' = [known EXCEPT ![s] = rows] /\ UNCHANGED <<rows, stock, verdicts>>
  BY DEF Begin, committed, RInv, IInv
<1>2. s \notin Begun /\ Begun' = Begun \cup {s}
  BY <1>1 DEF Begun, TypeOK
<1>3. Served' = Served
  BY <1>1 DEF Served, TypeOK
<1> QED
  BY <1>1, <1>2, <1>3 DEF Promise!Begin, Begun, Served

(* A step within a session, or one that ends it as failed, serves nobody. *)
LEMMA OthersServeNobody ==
  ASSUME RInv, NEW s \in Sessions, ~Commit(s),
         SessionStep(s) \/ Fail(s) \/ DeadlockVictim(s)
  PROVE  UNCHANGED <<rows, stock, Served, Begun, known>>
<1>1. TypeOK
  BY DEF RInv, IInv
<1>2. CASE TakeStep(s)
  BY <1>1, <1>2 DEF TakeStep, Taking, TypeOK, committed, Served, Begun
<1>3. CASE MissRow(s)
  BY <1>1, <1>3 DEF MissRow, Taking, TypeOK, committed, Served, Begun
<1>4. CASE InsertRow(s)
  BY <1>1, <1>4 DEF InsertRow, TypeOK, committed, Served, Begun
<1>5. CASE Refuse(s) \/ LoseInsert(s) \/ Fail(s) \/ DeadlockVictim(s)
  <2>1. pc[s] = "working" /\ RollBack(s)
    BY <1>5 DEF Refuse, LoseInsert, Fail, DeadlockVictim, InCircle, Waiting, WaitsFor
  <2> QED
    BY <1>1, <2>1 DEF RollBack, EndAs, TypeOK, committed, Served, Begun
<1> QED
  BY <1>2, <1>3, <1>4, <1>5 DEF SessionStep

LEMMA PromiseInit == Init => Promise!Init
BY DEF Init, Promise!Init, Served, Begun

LEMMA PromiseNext == RInv /\ [Next]_vars => [Promise!Next]_<<rows, stock, Served, Begun, known>>
<1> SUFFICES ASSUME RInv, [Next]_vars PROVE [Promise!Next]_<<rows, stock, Served, Begun, known>>
  OBVIOUS
<1>1. CASE UNCHANGED vars
  BY <1>1 DEF vars, committed, locals, Served, Begun
<1>2. ASSUME NEW s \in Sessions, Commit(s) PROVE Promise!Next
  BY <1>2, CommitServes DEF Promise!Next
<1>3. ASSUME NEW s \in Sessions, Begin(s) PROVE Promise!Next
  BY <1>3, BeginBegins DEF Promise!Next
<1>4. ASSUME NEW s \in Sessions, ~Commit(s),
             SessionStep(s) \/ Fail(s) \/ DeadlockVictim(s)
      PROVE  UNCHANGED <<rows, stock, Served, Begun, known>>
  BY <1>4, OthersServeNobody
<1> QED
  BY <1>1, <1>2, <1>3, <1>4 DEF Next, Quiescent

(* Whatever the interleaving, the committed stock moves as if each session had
   made its changes in one step when it committed: no deduction, adjustment or
   upload of another session is lost or seen half done. *)
THEOREM ServesInOneStep == Spec => KeepsPromise
<1>1. Spec => Promise!Init
  BY PromiseInit DEF Spec
<1>2. RInv /\ [Next]_vars =>
        [Promise!Next]_<<rows, stock,
                         [s \in Sessions |-> IF pc[s] = "done" THEN verdicts[s] ELSE <<>>],
                         {s \in Sessions : pc[s] # "idle"}, known>>
  BY PromiseNext DEF Served, Begun
<1> QED
  BY <1>1, <1>2, SettledInvariance, PTL DEF Spec, KeepsPromise, Promise!Spec
====
