---- MODULE MessageIntakeProofs ----
(***************************************************************************)
(* A message becomes one order, takes stock once for each mark, and is not  *)
(* acknowledged before it was taken care of, for any messages, deliveries   *)
(* and number of requests.                                                  *)
(***************************************************************************)
EXTENDS MessageIntake, FiniteSetTheorems, TLAPS

USE BatchesAssumption, BoundsAssumption

(* Where a request is at work on m, or has been without finding a duplicate. *)
Done(r, n, kinds) == n \in 1 .. Len(results[r]) /\ results[r][n] \in kinds
AtWork(r, n) == pc[r] = "processing" /\ n = Len(results[r]) + 1
Handles(r, n, kinds, m) ==
  n \in 1 .. Len(batch[r]) /\ batch[r][n] = m /\ (Done(r, n, kinds) \/ AtWork(r, n))

RequestInv(r) == pc[r] = "idle" => batch[r] = <<>> /\ results[r] = <<>>

(* Deductions that open requests may commit for m: together with the committed
   ones they are no more than the marks m has had. *)
Claims(m) ==
  {x \in Requests \X Nat : Open(x[1]) /\ Handles(x[1], x[2], {"short", "order"}, m)}
Marked(m) == IF m \in marks THEN 1 ELSE 0
ClaimsInv(m) ==
  /\ IsFiniteSet(Claims(m))
  /\ taken[m] + Cardinality(Claims(m)) <= lost[m] + Marked(m)

(* Orders inserted by open requests, of one message at most one. *)
Placed == {x \in Requests \X Nat : Open(x[1]) /\ Done(x[1], x[2], {"order"})}
MessageOf(x) == batch[x[1]][x[2]]
OrderInv(m) ==
  /\ orders[m] <= 1 /\ orders[m] <= taken[m]
  /\ \A x \in Placed : MessageOf(x) = m => orders[m] = 0
PlacedInv == \A x, y \in Placed : MessageOf(x) = MessageOf(y) => x = y

(* While nothing has failed, what is marked is in hand. *)
Fresh == failures = 0 /\ \A m \in Messages : lost[m] = 0
InHand(m) == m \in processed \/ \E r \in Requests : Open(r) /\ \E n \in Nat :
  Handles(r, n, Result \ {"duplicate"}, m)
FreshInv ==
  /\ acked \subseteq marks
  /\ \A m \in marks : InHand(m)
  /\ \A r \in Requests : \A n \in 1 .. Len(batch[r]) :
       n <= Len(results[r]) \/ AtWork(r, n) => batch[r][n] \in marks

IInv ==
  /\ TypeOK
  /\ \A r \in Requests : RequestInv(r)
  /\ \A m \in Messages : ClaimsInv(m) /\ OrderInv(m)
  /\ PlacedInv
  /\ Fresh => FreshInv
----
LEMMA InitInv == Init => IInv
<1> SUFFICES ASSUME Init PROVE IInv
  OBVIOUS
<1>1. TypeOK
  BY DEF Init, TypeOK, Finished
<1>2. \A r \in Requests : RequestInv(r)
  BY DEF Init, RequestInv
<1>3. \A r \in Requests : ~Open(r)
  BY DEF Init, Open
<1>4. ASSUME NEW m \in Messages PROVE ClaimsInv(m) /\ OrderInv(m)
  <2>1. Claims(m) = {} /\ Placed = {}
    BY <1>3 DEF Claims, Placed
  <2> QED
    BY <2>1, FS_EmptySet DEF Init, ClaimsInv, OrderInv, Marked
<1>5. PlacedInv
  BY <1>3 DEF PlacedInv, Placed
<1>6. FreshInv
  BY DEF Init, FreshInv
<1> QED
  BY <1>1, <1>2, <1>4, <1>5, <1>6 DEF IInv

----
(* What a step of one request leaves alone *)

Else(r) == \A t \in Requests \ {r} :
  pc'[t] = pc[t] /\ batch'[t] = batch[t] /\ results'[t] = results[t]

LEMMA ClaimsShrink ==
  ASSUME IInv, NEW r \in Requests, Else(r), NEW m \in Messages,
         \A n \in Nat : Open(r)' /\ Handles(r, n, {"short", "order"}, m)'
                         => Open(r) /\ Handles(r, n, {"short", "order"}, m),
         taken'[m] = taken[m], lost'[m] \in Nat,
         lost[m] + Marked(m) <= lost'[m] + Marked(m)'
  PROVE  ClaimsInv(m)'
<1>1. Claims(m)' \subseteq Claims(m)
  <2> SUFFICES ASSUME NEW x \in Claims(m)' PROVE x \in Claims(m)
    OBVIOUS
  <2>1. x \in Requests \X Nat /\ Open(x[1])' /\ Handles(x[1], x[2], {"short", "order"}, m)'
    BY DEF Claims
  <2>2. CASE x[1] = r
    BY <2>1, <2>2 DEF Claims
  <2>3. CASE x[1] # r
    BY <2>1, <2>3 DEF Claims, Else, Open, Handles, Done, AtWork
  <2> QED
    BY <2>2, <2>3
<1>2. IsFiniteSet(Claims(m)) /\ taken[m] + Cardinality(Claims(m)) <= lost[m] + Marked(m)
  BY DEF IInv, ClaimsInv
<1>3. /\ IsFiniteSet(Claims(m)')
      /\ Cardinality(Claims(m)') <= Cardinality(Claims(m))
  BY <1>1, <1>2, FS_Subset
<1>4. Cardinality(Claims(m)') \in Nat /\ Cardinality(Claims(m)) \in Nat
  BY <1>2, <1>3, FS_CardinalityType
<1>5. taken[m] \in Nat /\ lost[m] \in Nat /\ Marked(m) \in Nat /\ Marked(m)' \in Nat
  BY DEF IInv, TypeOK, Marked
<1> QED
  BY <1>2, <1>3, <1>4, <1>5 DEF ClaimsInv

LEMMA PlacedShrink ==
  ASSUME IInv, NEW r \in Requests, Else(r), UNCHANGED <<orders, taken>>,
         \A n \in Nat : Open(r)' /\ Done(r, n, {"order"})'
                         => Open(r) /\ Done(r, n, {"order"}) /\ batch'[r] = batch[r]
  PROVE  PlacedInv' /\ \A m \in Messages : OrderInv(m)'
<1>1. ASSUME NEW x \in Placed' PROVE x \in Placed /\ MessageOf(x)' = MessageOf(x)
  <2>1. x \in Requests \X Nat /\ Open(x[1])' /\ Done(x[1], x[2], {"order"})'
    BY DEF Placed
  <2>2. CASE x[1] = r
    BY <2>1, <2>2 DEF Placed, MessageOf
  <2>3. CASE x[1] # r
    BY <2>1, <2>3 DEF Placed, MessageOf, Else, Open, Done
  <2> QED
    BY <2>2, <2>3
<1>2. PlacedInv'
  BY <1>1 DEF IInv, PlacedInv
<1>3. ASSUME NEW m \in Messages PROVE OrderInv(m)'
  BY <1>1 DEF IInv, OrderInv
<1> QED
  BY <1>2, <1>3

LEMMA InHandKept ==
  ASSUME NEW r \in Requests, Else(r), NEW m, InHand(m), processed \subseteq processed',
         \A n \in Nat : Open(r) /\ Handles(r, n, Result \ {"duplicate"}, m)
                         => InHand(m)'
  PROVE  InHand(m)'
<1>1. CASE m \in processed
  BY <1>1 DEF InHand
<1>2. CASE m \notin processed
  <2>1. PICK t \in Requests, n \in Nat : Open(t) /\ Handles(t, n, Result \ {"duplicate"}, m)
    BY <1>2 DEF InHand
  <2>2. CASE t = r
    BY <2>1, <2>2
  <2>3. CASE t # r
    <3>1. Open(t)' /\ Handles(t, n, Result \ {"duplicate"}, m)'
      BY <2>1, <2>3 DEF Else, Open, Handles, Done, AtWork
    <3> QED
      BY <3>1 DEF InHand
  <2> QED
    BY <2>2, <2>3
<1> QED
  BY <1>1, <1>2

(* A message's result keeps the types. *)
LEMMA GiveType ==
  ASSUME TypeOK, NEW r \in Requests, ~Finished(r), NEW result \in Result, Give(r, result)
  PROVE  /\ Len(results[r]) \in Nat
         /\ Len(results[r]) + 1 \in 1 .. Len(batch[r])
         /\ Current(r) \in Messages
         /\ results' \in [Requests -> Seq(Result)]
         /\ Len(results'[r]) = Len(results[r]) + 1
         /\ results'[r][Len(results[r]) + 1] = result
         /\ \A n \in 1 .. Len(results[r]) : results'[r][n] = results[r][n]
         /\ \A t \in Requests \ {r} : results'[t] = results[t] /\ pc'[t] = pc[t]
         /\ pc' \in [Requests -> {"idle", "next", "processing", "committed"}]
         /\ pc'[r] = "next"
<1>1. /\ results \in [Requests -> Seq(Result)] /\ results[r] \in Seq(Result)
      /\ batch[r] \in Seq(Messages) /\ Len(results[r]) <= Len(batch[r])
  BY DEF TypeOK
<1>2. Len(results[r]) \in Nat /\ Len(results[r]) + 1 \in 1 .. Len(batch[r])
  BY <1>1 DEF Finished
<1>3. Current(r) \in Messages
  BY <1>1, <1>2 DEF Current
<1>4. results' = [results EXCEPT ![r] = Append(@, result)]
  BY DEF Give
<1>5. results'[r] = Append(results[r], result) /\ results' \in [Requests -> Seq(Result)]
  BY <1>1, <1>4
<1>6. /\ Len(results'[r]) = Len(results[r]) + 1
      /\ results'[r][Len(results[r]) + 1] = result
      /\ \A n \in 1 .. Len(results[r]) : results'[r][n] = results[r][n]
  BY <1>1, <1>5
<1>7. \A t \in Requests \ {r} : results'[t] = results[t]
  BY <1>1, <1>4
<1>8. pc' = [pc EXCEPT ![r] = "next"] /\ pc \in [Requests -> {"idle", "next", "processing", "committed"}]
  BY DEF Give, TypeOK
<1> QED
  BY <1>2, <1>3, <1>5, <1>6, <1>7, <1>8
----
(* WhatsApp, and the ends of requests *)

LEMMA DeliverInv == ASSUME IInv, NEW r \in Requests, NEW b \in Batches, Deliver(r, b) PROVE IInv'
<1>1. b \in Seq(Messages) /\ b # <<>> /\ Len(b) \in Nat \ {0}
  OBVIOUS
<1>2. results[r] = <<>> /\ results' = results /\ batch'[r] = b /\ pc[r] = "idle" /\ pc'[r] = "next"
  BY DEF Deliver, IInv, TypeOK, RequestInv
<1>3. Else(r)
  BY DEF Else, Deliver, IInv, TypeOK
<1>4. TypeOK'
  <2>1. /\ pc' \in [Requests -> {"idle", "next", "processing", "committed"}]
        /\ batch' \in [Requests -> Seq(Messages)]
    BY <1>1 DEF Deliver, IInv, TypeOK
  <2>2. ASSUME NEW t \in Requests
        PROVE  /\ Len(results'[t]) <= Len(batch'[t])
               /\ pc'[t] = "processing" => ~Finished(t)'
               /\ pc'[t] = "committed" => Len(results'[t]) = Len(batch'[t])
    <3>1. CASE t = r
      BY <1>1, <1>2, <3>1
    <3>2. CASE t # r
      <4>1. /\ Len(results[t]) <= Len(batch[t])
            /\ pc[t] = "processing" => ~Finished(t)
            /\ pc[t] = "committed" => Len(results[t]) = Len(batch[t])
        BY DEF IInv, TypeOK
      <4>2. pc'[t] = pc[t] /\ batch'[t] = batch[t] /\ results'[t] = results[t]
        BY <1>3, <3>2 DEF Else
      <4> QED
        BY <4>1, <4>2 DEF Finished
    <3> QED
      BY <3>1, <3>2
  <2> QED
    BY <2>1, <2>2 DEF Deliver, books, IInv, TypeOK
<1>5. ASSUME NEW t \in Requests PROVE RequestInv(t)'
  BY <1>2, <1>3 DEF IInv, RequestInv, Else
<1>6. \A n \in Nat, m \in Messages : \A kinds : ~Handles(r, n, kinds, m)' /\ ~Done(r, n, kinds)'
  BY <1>2 DEF Handles, Done, AtWork
<1>7. ASSUME NEW m \in Messages PROVE ClaimsInv(m)'
  <2>1. /\ taken'[m] = taken[m] /\ lost'[m] = lost[m] /\ Marked(m)' = Marked(m)
        /\ lost[m] \in Nat /\ Marked(m) \in Nat
    BY DEF Deliver, books, Marked, IInv, TypeOK
  <2> QED
    BY <2>1, <1>3, <1>6, ClaimsShrink
<1>8. PlacedInv' /\ \A m \in Messages : OrderInv(m)'
  BY <1>3, <1>6, PlacedShrink DEF Deliver, books
<1>9. ASSUME Fresh' PROVE FreshInv'
  <2>1. Fresh /\ FreshInv
    BY <1>9 DEF Deliver, Fresh, IInv
  <2>2. \A n \in Nat, m \in Messages : ~Open(r)
    BY <1>2 DEF Open
  <2>3. \A m \in marks' : InHand(m)'
    BY <1>3, <2>1, <2>2, InHandKept DEF Deliver, books, FreshInv, Open
  <2>4. ASSUME NEW t \in Requests, NEW n \in 1 .. Len(batch'[t]),
               n <= Len(results'[t]) \/ AtWork(t, n)'
        PROVE  batch'[t][n] \in marks'
    <3>1. CASE t = r
      BY <1>1, <1>2, <2>4, <3>1 DEF AtWork
    <3>2. CASE t # r
      BY <1>3, <2>1, <2>4, <3>2 DEF Deliver, FreshInv, Else, AtWork
    <3> QED
      BY <3>1, <3>2
  <2> QED
    BY <2>1, <2>3, <2>4 DEF FreshInv, Deliver
<1> QED
  BY <1>4, <1>5, <1>7, <1>8, <1>9 DEF IInv

LEMMA EndInv ==
  ASSUME IInv, NEW r \in Requests, End(r), UNCHANGED <<marks, books, lost>>,
         acked' \subseteq Messages, failures' \in 0 .. MaxFailures, Fresh' => FreshInv'
  PROVE  IInv'
<1>1. /\ pc'[r] = "idle" /\ batch'[r] = <<>> /\ results'[r] = <<>>
      /\ Else(r)
  BY DEF End, Else, IInv, TypeOK
<1>2. TypeOK'
  <2>1. /\ pc' \in [Requests -> {"idle", "next", "processing", "committed"}]
        /\ batch' \in [Requests -> Seq(Messages)]
        /\ results' \in [Requests -> Seq(Result)]
    BY DEF End, IInv, TypeOK
  <2>2. ASSUME NEW t \in Requests
        PROVE  /\ Len(results'[t]) <= Len(batch'[t])
               /\ pc'[t] = "processing" => ~Finished(t)'
               /\ pc'[t] = "committed" => Len(results'[t]) = Len(batch'[t])
    <3>1. CASE t = r
      BY <1>1, <3>1
    <3>2. CASE t # r
      BY <1>1, <3>2 DEF Else, IInv, TypeOK, Finished
    <3> QED
      BY <3>1, <3>2
  <2> QED
    BY <2>1, <2>2 DEF IInv, TypeOK, books
<1>3. \A t \in Requests : RequestInv(t)'
  BY <1>1 DEF IInv, RequestInv, Else
<1>4. ~Open(r)'
  BY <1>1 DEF Open
<1>5. ASSUME NEW m \in Messages PROVE ClaimsInv(m)'
  <2>1. /\ taken'[m] = taken[m] /\ lost'[m] = lost[m] /\ Marked(m)' = Marked(m)
        /\ lost[m] \in Nat /\ Marked(m) \in Nat
    BY DEF books, Marked, IInv, TypeOK
  <2> QED
    BY <1>1, <1>4, <2>1, ClaimsShrink
<1>6. PlacedInv' /\ \A m \in Messages : OrderInv(m)'
  BY <1>1, <1>4, PlacedShrink DEF books
<1> QED
  BY <1>2, <1>3, <1>5, <1>6 DEF IInv

LEMMA AnswerInv == ASSUME IInv, NEW r \in Requests, Answer(r) PROVE IInv'
<1>1. End(r) /\ UNCHANGED <<marks, books, lost, failures>> /\ pc[r] = "committed"
  BY DEF Answer
<1>2. batch[r] \in Seq(Messages) /\ acked' = acked \cup {batch[r][n] : n \in 1 .. Len(batch[r])}
  BY DEF Answer, ToSet, IInv, TypeOK
<1>3. acked' \subseteq Messages
  <2>1. \A n \in 1 .. Len(batch[r]) : batch[r][n] \in Messages
    BY <1>2
  <2> QED
    BY <1>2, <2>1 DEF IInv, TypeOK
<1>4. ASSUME Fresh' PROVE FreshInv'
  <2>1. Fresh /\ FreshInv
    BY <1>1, <1>4 DEF Fresh, IInv
  <2>2. acked' \subseteq marks'
    <3>1. \A n \in 1 .. Len(batch[r]) : batch[r][n] \in marks
      BY <1>1, <2>1 DEF IInv, TypeOK, FreshInv
    <3> QED
      BY <1>1, <1>2, <2>1, <3>1 DEF FreshInv
  <2>3. ~Open(r) /\ Else(r) /\ batch'[r] = <<>>
    BY <1>1 DEF Open, Else, End, IInv, TypeOK
  <2>4. \A m \in marks' : InHand(m)'
    BY <1>1, <2>1, <2>3, InHandKept DEF FreshInv, books
  <2>5. ASSUME NEW t \in Requests, NEW n \in 1 .. Len(batch'[t]),
               n <= Len(results'[t]) \/ AtWork(t, n)'
        PROVE  batch'[t][n] \in marks'
    <3>1. CASE t = r
      BY <2>3, <3>1
    <3>2. CASE t # r
      BY <1>1, <2>1, <2>3, <2>5, <3>2 DEF FreshInv, Else, AtWork
    <3> QED
      BY <3>1, <3>2
  <2> QED
    BY <2>2, <2>4, <2>5 DEF FreshInv
<1>5. failures' \in 0 .. MaxFailures
  BY <1>1 DEF IInv, TypeOK
<1> QED
  BY <1>1, <1>3, <1>4, <1>5, EndInv

LEMMA LoseAnswerInv == ASSUME IInv, NEW r \in Requests, LoseAnswer(r) PROVE IInv'
<1>1. failures \in Nat /\ failures' = failures + 1 /\ failures < MaxFailures
  BY DEF LoseAnswer, IInv, TypeOK
<1>2. ~Fresh' /\ failures' \in 0 .. MaxFailures
  BY <1>1 DEF Fresh
<1> QED
  BY <1>2, EndInv DEF LoseAnswer, IInv, TypeOK

LEMMA RollBackInv ==
  ASSUME IInv, NEW r \in Requests, RollBack(r), failures' \in 0 .. MaxFailures, ~Fresh'
  PROVE  IInv'
BY EndInv DEF RollBack, MarksAfterFailure, IInv, TypeOK

LEMMA FailInv == ASSUME IInv, NEW r \in Requests, Fail(r) PROVE IInv'
<1>1. failures \in Nat /\ failures' = failures + 1 /\ failures < MaxFailures
  BY DEF Fail, IInv, TypeOK
<1>2. ~Fresh' /\ failures' \in 0 .. MaxFailures
  BY <1>1 DEF Fresh
<1> QED
  BY <1>2, RollBackInv DEF Fail

(* While nothing has failed, a message is taken up once. *)
LEMMA OneClaim ==
  ASSUME IInv, Fresh, NEW m \in Messages, NEW x \in Claims(m)
  PROVE  taken[m] = 0 /\ \A y \in Claims(m) : y = x
<1>1. /\ IsFiniteSet(Claims(m)) /\ taken[m] + Cardinality(Claims(m)) <= lost[m] + Marked(m)
      /\ lost[m] = 0 /\ Marked(m) <= 1 /\ Marked(m) \in Nat /\ taken[m] \in Nat
  BY DEF IInv, ClaimsInv, Fresh, Marked, TypeOK
<1>2. ASSUME NEW y \in Claims(m) PROVE y = x
  <2>1. /\ IsFiniteSet(Claims(m) \ {x})
        /\ Cardinality(Claims(m) \ {x}) = Cardinality(Claims(m)) - 1
    BY <1>1, FS_RemoveElement
  <2>2. Cardinality(Claims(m)) \in Nat /\ Cardinality(Claims(m) \ {x}) \in Nat
    BY <1>1, <2>1, FS_CardinalityType
  <2>3. Cardinality(Claims(m) \ {x}) = 0
    BY <1>1, <2>1, <2>2
  <2>4. Claims(m) \ {x} = {}
    BY <2>1, <2>3, FS_EmptySet
  <2> QED
    BY <2>4
<1>3. Cardinality(Claims(m)) \in Nat /\ Cardinality(Claims(m)) # 0
  BY <1>1, FS_CardinalityType, FS_EmptySet
<1> QED
  BY <1>1, <1>2, <1>3

LEMMA WorkerClaims ==
  ASSUME TypeOK, NEW r \in Requests, pc[r] = "processing"
  PROVE  Current(r) \in Messages /\ <<r, Len(results[r]) + 1>> \in Claims(Current(r))
<1>1. /\ results[r] \in Seq(Result) /\ batch[r] \in Seq(Messages)
      /\ Len(results[r]) <= Len(batch[r]) /\ ~Finished(r)
  BY DEF TypeOK
<1>2. Len(results[r]) + 1 \in 1 .. Len(batch[r]) /\ Len(results[r]) + 1 \in Nat
  BY <1>1 DEF Finished
<1> QED
  BY <1>1, <1>2 DEF Claims, Open, Handles, AtWork, Current

LEMMA InsertedClaims ==
  ASSUME TypeOK, NEW q \in Requests, Open(q), NEW m \in Inserted(q)
  PROVE  m \in Messages /\ \E n \in 1 .. Len(results[q]) :
           results[q][n] = "order" /\ batch[q][n] = m /\ <<q, n>> \in Claims(m)
<1>1. /\ results[q] \in Seq(Result) /\ batch[q] \in Seq(Messages)
      /\ Len(results[q]) <= Len(batch[q])
  BY DEF TypeOK
<1>2. PICK n \in 1 .. Len(results[q]) : results[q][n] = "order" /\ batch[q][n] = m
  BY DEF Inserted
<1>3. n \in Nat /\ n \in 1 .. Len(batch[q])
  BY <1>1
<1> QED
  BY <1>2, <1>3 DEF Claims, Handles, Done, Inserted

LEMMA LoseInsertInv == ASSUME IInv, NEW r \in Requests, LoseInsert(r) PROVE IInv'
<1>1. TypeOK /\ pc[r] = "processing" /\ OrderExists(r) /\ RollBack(r) /\ failures' = failures
  BY DEF LoseInsert, IInv
<1>2. ASSUME Fresh' PROVE FALSE
  <2>1. Fresh
    BY <1>1, <1>2 DEF Fresh, RollBack
  <2>2. /\ Current(r) \in Messages /\ taken[Current(r)] = 0
        /\ \A y \in Claims(Current(r)) : y = <<r, Len(results[r]) + 1>>
    BY <1>1, <2>1, WorkerClaims, OneClaim
  <2>3. orders[Current(r)] = 0
    BY <2>2 DEF IInv, OrderInv, TypeOK
  <2>4. Current(r) \in Inserted(r)
    BY <1>1, <2>3 DEF OrderExists
  <2>5. PICK n \in 1 .. Len(results[r]) : <<r, n>> \in Claims(Current(r))
    BY <1>1, <2>4, InsertedClaims DEF Open
  <2>6. Len(results[r]) \in Nat /\ n = Len(results[r]) + 1
    BY <1>1, <2>2, <2>5 DEF TypeOK
  <2> QED
    BY <2>5, <2>6
<1> QED
  BY <1>1, <1>2, RollBackInv DEF TypeOK

LEMMA DeadlockVictimInv == ASSUME IInv, NEW r \in Requests, DeadlockVictim(r) PROVE IInv'
<1>1. TypeOK /\ RollBack(r) /\ failures' = failures
  BY DEF DeadlockVictim, IInv
<1>2. PICK q \in Requests : WaitsFor(r, q)
  BY DEF DeadlockVictim
<1>3. pc[r] = "processing" /\ q # r /\ Open(q) /\ Current(r) \in Inserted(q)
  BY <1>2 DEF WaitsFor, Open
<1>4. ASSUME Fresh' PROVE FALSE
  <2>1. Fresh
    BY <1>1, <1>4 DEF Fresh, RollBack
  <2>2. \A y \in Claims(Current(r)) : y = <<r, Len(results[r]) + 1>>
    BY <1>1, <1>3, <2>1, WorkerClaims, OneClaim
  <2>3. PICK n \in 1 .. Len(results[q]) : <<q, n>> \in Claims(Current(r))
    BY <1>1, <1>3, InsertedClaims
  <2> QED
    BY <1>3, <2>2, <2>3
<1> QED
  BY <1>1, <1>4, RollBackInv DEF TypeOK

----
(* The loop over the messages *)

LEMMA GiveTypeOK ==
  ASSUME IInv, NEW r \in Requests, ~Finished(r), NEW result \in Result, Give(r, result),
         marks' \subseteq Messages, UNCHANGED <<books, acked, batch, lost, failures>>
  PROVE  TypeOK' /\ Else(r) /\ \A t \in Requests : RequestInv(t)'
<1>1. TypeOK
  BY DEF IInv
<1>2. Else(r)
  BY <1>1, GiveType DEF Else
<1>3. ASSUME NEW t \in Requests
      PROVE  /\ Len(results'[t]) <= Len(batch'[t])
             /\ pc'[t] = "processing" => ~Finished(t)'
             /\ pc'[t] = "committed" => Len(results'[t]) = Len(batch'[t])
             /\ RequestInv(t)'
  <2>1. CASE t = r
    <3>1. Len(results'[r]) = Len(results[r]) + 1 /\ Len(results[r]) + 1 \in 1 .. Len(batch[r])
          /\ pc'[r] = "next"
      BY <1>1, GiveType
    <3>2. Len(results'[r]) <= Len(batch'[r])
      BY <3>1
    <3> QED
      BY <2>1, <3>1, <3>2 DEF RequestInv
  <2>2. CASE t # r
    BY <1>1, <1>2, <2>2 DEF Else, TypeOK, Finished, RequestInv, IInv
  <2> QED
    BY <2>1, <2>2
<1>4. results' \in [Requests -> Seq(Result)]
      /\ pc' \in [Requests -> {"idle", "next", "processing", "committed"}]
  BY <1>1, GiveType
<1> QED
  BY <1>1, <1>2, <1>3, <1>4 DEF TypeOK, books

LEMMA GiveInv ==
  ASSUME IInv, NEW r \in Requests, pc[r] = "processing",
         NEW result \in {"nothing", "short", "order"}, Give(r, result),
         UNCHANGED <<marks, books, acked, batch, lost, failures>>,
         result = "order" => ~OrderExists(r) /\ \A q \in Requests : ~WaitsFor(r, q)
  PROVE  IInv'
<1>1. TypeOK /\ ~Finished(r) /\ result \in Result
  BY DEF IInv, TypeOK, Result
<1>2. TypeOK' /\ Else(r) /\ \A t \in Requests : RequestInv(t)'
  BY <1>1, GiveTypeOK DEF TypeOK
<1> DEFINE last == Len(results[r]) + 1
<1>3. /\ Len(results[r]) \in Nat /\ last \in 1 .. Len(batch[r]) /\ Current(r) \in Messages
      /\ Len(results'[r]) = last /\ results'[r][last] = result
      /\ \A n \in 1 .. Len(results[r]) : results'[r][n] = results[r][n]
      /\ pc'[r] = "next" /\ batch' = batch
  BY <1>1, GiveType
<1> HIDE DEF last
<1>4. Open(r) /\ AtWork(r, last) /\ batch[r][last] = Current(r)
  BY DEF Open, AtWork, Current, last
<1>5. ASSUME NEW n \in Nat, NEW kinds, Done(r, n, kinds)'
      PROVE  Done(r, n, kinds) \/ (n = last /\ result \in kinds)
  BY <1>3, <1>5 DEF Done, last
<1>6. ~AtWork(r, 0)' /\ \A n : ~AtWork(r, n)'
  BY <1>3 DEF AtWork
<1>7. ASSUME NEW m \in Messages PROVE ClaimsInv(m)'
  <2>1. /\ taken'[m] = taken[m] /\ lost'[m] = lost[m] /\ Marked(m)' = Marked(m)
        /\ lost[m] \in Nat /\ Marked(m) \in Nat
    BY <1>1 DEF books, Marked, TypeOK
  <2>2. ASSUME NEW n \in Nat, Handles(r, n, {"short", "order"}, m)'
        PROVE  Handles(r, n, {"short", "order"}, m)
    BY <1>3, <1>4, <1>5, <1>6, <2>2 DEF Handles
  <2> QED
    BY <1>2, <1>4, <2>1, <2>2, ClaimsShrink
<1>8. PlacedInv' /\ \A m \in Messages : OrderInv(m)'
  <2>1. CASE result # "order"
    <3>1. \A n \in Nat : Done(r, n, {"order"})' => Done(r, n, {"order"})
      BY <1>5, <2>1
    <3> QED
      BY <1>2, <1>3, <1>4, <3>1, PlacedShrink DEF books
  <2>2. CASE result = "order"
    <3>1. ASSUME NEW x \in Placed'
          PROVE  (x \in Placed /\ MessageOf(x)' = MessageOf(x))
                 \/ (x = <<r, last>> /\ MessageOf(x)' = Current(r))
      <4>1. x \in Requests \X Nat /\ Open(x[1])' /\ Done(x[1], x[2], {"order"})'
        BY DEF Placed
      <4>2. CASE x[1] = r
        BY <1>3, <1>4, <1>5, <4>1, <4>2 DEF Placed, MessageOf
      <4>3. CASE x[1] # r
        BY <1>2, <4>1, <4>3 DEF Placed, MessageOf, Else, Open, Done
      <4> QED
        BY <4>2, <4>3
    <3>2. ASSUME NEW x \in Placed PROVE MessageOf(x) # Current(r)
      <4>1. x \in Requests \X Nat /\ Open(x[1]) /\ Done(x[1], x[2], {"order"})
        BY DEF Placed
      <4>2. MessageOf(x) = Current(r) => Current(r) \in Inserted(x[1])
        BY <1>3, <4>1 DEF MessageOf, Inserted, Done
      <4>3. CASE x[1] = r
        BY <2>2, <4>2, <4>3 DEF OrderExists
      <4>4. CASE x[1] # r
        BY <2>2, <4>1, <4>2, <4>4 DEF WaitsFor, Open
      <4> QED
        BY <4>3, <4>4
    <3>3. PlacedInv'
      BY <3>1, <3>2 DEF IInv, PlacedInv
    <3>4. orders[Current(r)] = 0
      BY <1>1, <1>3, <2>2 DEF OrderExists, TypeOK
    <3>5. ASSUME NEW m \in Messages PROVE OrderInv(m)'
      BY <3>1, <3>4 DEF IInv, OrderInv, books
    <3> QED
      BY <3>3, <3>5
  <2> QED
    BY <2>1, <2>2
<1>9. ASSUME Fresh' PROVE FreshInv'
  <2>1. Fresh /\ FreshInv
    BY <1>9 DEF Fresh, IInv
  <2>2. ASSUME NEW m \in marks' PROVE InHand(m)'
    <3>1. ASSUME NEW n \in Nat, Handles(r, n, Result \ {"duplicate"}, m)
          PROVE  InHand(m)'
      <4>1. Done(r, n, Result \ {"duplicate"})'
        BY <1>3, <3>1 DEF Handles, Done, AtWork, last, Result
      <4>2. Open(r)' /\ Handles(r, n, Result \ {"duplicate"}, m)'
        BY <1>3, <3>1, <4>1 DEF Handles, Open
      <4> QED
        BY <4>2 DEF InHand
    <3> QED
      BY <1>2, <2>1, <3>1, InHandKept DEF FreshInv, books
  <2>3. ASSUME NEW t \in Requests, NEW n \in 1 .. Len(batch'[t]),
               n <= Len(results'[t]) \/ AtWork(t, n)'
        PROVE  batch'[t][n] \in marks'
    <3>1. CASE t = r
      <4>1. n <= Len(results[r]) \/ n = last
        BY <1>3, <1>6, <2>3, <3>1 DEF last
      <4> QED
        BY <1>3, <1>4, <2>1, <3>1, <4>1 DEF FreshInv
    <3>2. CASE t # r
      BY <1>2, <1>3, <2>1, <2>3, <3>2 DEF FreshInv, Else, AtWork
    <3> QED
      BY <3>1, <3>2
  <2> QED
    BY <2>1, <2>2, <2>3 DEF FreshInv
<1> QED
  BY <1>2, <1>7, <1>8, <1>9 DEF IInv

LEMMA EndWithoutOrderInv == ASSUME IInv, NEW r \in Requests, EndWithoutOrder(r) PROVE IInv'
<1>1. PICK result \in {"nothing", "short"} : Give(r, result)
  BY DEF EndWithoutOrder
<1> QED
  BY <1>1, GiveInv DEF EndWithoutOrder

LEMMA PlaceOrderInv == ASSUME IInv, NEW r \in Requests, PlaceOrder(r) PROVE IInv'
BY GiveInv DEF PlaceOrder

LEMMA CheckSeenInv == ASSUME IInv, NEW r \in Requests, Check(r), Seen(r) PROVE IInv'
<1>1. /\ TypeOK /\ ~Finished(r) /\ pc[r] = "next" /\ "duplicate" \in Result
      /\ Current(r) \in marks /\ marks' = marks
      /\ Give(r, "duplicate") /\ UNCHANGED <<marks, books, acked, batch, lost, failures>>
  BY DEF Check, Seen, IInv, Result
<1>2. TypeOK' /\ Else(r) /\ \A t \in Requests : RequestInv(t)'
  BY <1>1, GiveTypeOK DEF TypeOK
<1> DEFINE last == Len(results[r]) + 1
<1>3. /\ Len(results[r]) \in Nat
      /\ Len(results'[r]) = last /\ results'[r][last] = "duplicate"
      /\ \A n \in 1 .. Len(results[r]) : results'[r][n] = results[r][n]
      /\ pc'[r] = "next" /\ batch[r][last] = Current(r)
  BY <1>1, GiveType DEF Current
<1> HIDE DEF last
<1>4. Open(r) /\ Open(r)' /\ \A n : ~AtWork(r, n) /\ ~AtWork(r, n)'
  BY <1>1, <1>3 DEF Open, AtWork
<1>5. ASSUME NEW n \in Nat, NEW kinds, "duplicate" \notin kinds
      PROVE  Done(r, n, kinds)' <=> Done(r, n, kinds)
  BY <1>3, <1>5 DEF Done, last
<1>6. ASSUME NEW m \in Messages PROVE ClaimsInv(m)'
  <2>1. /\ taken'[m] = taken[m] /\ lost'[m] = lost[m] /\ Marked(m)' = Marked(m)
        /\ lost[m] \in Nat /\ Marked(m) \in Nat
    BY <1>1 DEF books, Marked, TypeOK
  <2>2. \A n \in Nat : Handles(r, n, {"short", "order"}, m)' => Handles(r, n, {"short", "order"}, m)
    BY <1>1, <1>4, <1>5 DEF Handles
  <2> QED
    BY <1>2, <1>4, <2>1, <2>2, ClaimsShrink
<1>7. PlacedInv' /\ \A m \in Messages : OrderInv(m)'
  <2>1. \A n \in Nat : Done(r, n, {"order"})' => Done(r, n, {"order"})
    BY <1>5
  <2> QED
    BY <1>1, <1>2, <1>4, <2>1, PlacedShrink DEF books
<1>8. ASSUME Fresh' PROVE FreshInv'
  <2>1. Fresh /\ FreshInv
    BY <1>1, <1>8 DEF Fresh, IInv
  <2>2. ASSUME NEW m \in marks' PROVE InHand(m)'
    <3>1. ASSUME NEW n \in Nat, Handles(r, n, Result \ {"duplicate"}, m)
          PROVE  InHand(m)'
      <4>1. Handles(r, n, Result \ {"duplicate"}, m)'
        BY <1>1, <1>4, <1>5, <3>1 DEF Handles
      <4> QED
        BY <1>4, <4>1 DEF InHand
    <3> QED
      BY <1>1, <1>2, <2>1, <3>1, InHandKept DEF FreshInv, books
  <2>3. ASSUME NEW t \in Requests, NEW n \in 1 .. Len(batch'[t]),
               n <= Len(results'[t]) \/ AtWork(t, n)'
        PROVE  batch'[t][n] \in marks'
    <3>1. CASE t = r
      <4>1. n <= Len(results[r]) \/ n = last
        BY <1>3, <1>4, <2>3, <3>1 DEF last
      <4> QED
        BY <1>1, <1>3, <2>1, <3>1, <4>1 DEF FreshInv
    <3>2. CASE t # r
      BY <1>1, <1>2, <2>1, <2>3, <3>2 DEF FreshInv, Else, AtWork
    <3> QED
      BY <3>1, <3>2
  <2> QED
    BY <1>1, <2>1, <2>2, <2>3 DEF FreshInv
<1> QED
  BY <1>2, <1>6, <1>7, <1>8 DEF IInv

LEMMA CheckNewInv == ASSUME IInv, NEW r \in Requests, Check(r), ~Seen(r) PROVE IInv'
<1>1. /\ TypeOK /\ ~Finished(r) /\ pc[r] = "next" /\ pc' = [pc EXCEPT ![r] = "processing"]
      /\ Current(r) \notin marks /\ marks' = marks \cup {Current(r)}
      /\ results' = results /\ UNCHANGED <<books, acked, batch, lost, failures>>
  BY DEF Check, Seen, IInv
<1> DEFINE last == Len(results[r]) + 1
<1>2. /\ Len(results[r]) \in Nat /\ last \in 1 .. Len(batch[r]) /\ last \in Nat
      /\ batch[r][last] = Current(r) /\ Current(r) \in Messages
  <2>1. /\ results[r] \in Seq(Result) /\ batch[r] \in Seq(Messages)
        /\ Len(results[r]) <= Len(batch[r])
    BY <1>1 DEF TypeOK
  <2> QED
    BY <1>1, <2>1 DEF Finished, Current
<1>3. pc'[r] = "processing" /\ Else(r)
  BY <1>1 DEF TypeOK, Else
<1>4. TypeOK' /\ \A t \in Requests : RequestInv(t)'
  <2>1. \A t \in Requests : (pc'[t] = "processing" => ~Finished(t)') /\ RequestInv(t)'
    BY <1>1, <1>3 DEF TypeOK, Else, Finished, IInv, RequestInv
  <2>2. \A t \in Requests : pc'[t] = "committed" => Len(results'[t]) = Len(batch'[t])
    BY <1>1, <1>3 DEF TypeOK, Else
  <2> QED
    BY <1>1, <1>2, <2>1, <2>2 DEF TypeOK, books
<1> HIDE DEF last
<1>5. /\ Open(r) /\ Open(r)'
      /\ \A n : ~AtWork(r, n) /\ (AtWork(r, n)' <=> n = last)
      /\ \A n, kinds : Done(r, n, kinds)' <=> Done(r, n, kinds)
  BY <1>1, <1>3 DEF Open, AtWork, Done, last
<1>6. ASSUME NEW m \in Messages PROVE ClaimsInv(m)'
  <2>1. /\ taken'[m] = taken[m] /\ lost'[m] = lost[m]
        /\ taken[m] \in Nat /\ lost[m] \in Nat /\ Marked(m) \in Nat /\ Marked(m)' \in Nat
    BY <1>1 DEF books, Marked, TypeOK
  <2>2. CASE m # Current(r)
    <3>1. Marked(m)' = Marked(m)
      BY <1>1, <2>2 DEF Marked
    <3>2. \A n \in Nat : Handles(r, n, {"short", "order"}, m)' => Handles(r, n, {"short", "order"}, m)
      BY <1>1, <1>2, <1>5, <2>2 DEF Handles
    <3> QED
      BY <1>3, <1>5, <2>1, <3>1, <3>2, ClaimsShrink
  <2>3. CASE m = Current(r)
    <3>1. Marked(m) = 0 /\ Marked(m)' = 1
      BY <1>1, <2>3 DEF Marked
    <3>2. Claims(m)' \subseteq Claims(m) \cup {<<r, last>>}
      <4> SUFFICES ASSUME NEW x \in Claims(m)', x # <<r, last>> PROVE x \in Claims(m)
        OBVIOUS
      <4>1. x \in Requests \X Nat /\ Open(x[1])' /\ Handles(x[1], x[2], {"short", "order"}, m)'
        BY DEF Claims
      <4>2. CASE x[1] = r
        BY <1>1, <1>5, <4>1, <4>2 DEF Claims, Handles
      <4>3. CASE x[1] # r
        BY <1>3, <4>1, <4>3 DEF Claims, Else, Open, Handles, Done, AtWork
      <4> QED
        BY <4>2, <4>3
    <3>3. IsFiniteSet(Claims(m)) /\ taken[m] + Cardinality(Claims(m)) <= lost[m] + Marked(m)
      BY DEF IInv, ClaimsInv
    <3>4. /\ IsFiniteSet(Claims(m) \cup {<<r, last>>})
          /\ Cardinality(Claims(m) \cup {<<r, last>>}) <= Cardinality(Claims(m)) + 1
      <4>1. /\ IsFiniteSet(Claims(m) \cup {<<r, last>>})
            /\ Cardinality(Claims(m) \cup {<<r, last>>})
                 = IF <<r, last>> \in Claims(m) THEN Cardinality(Claims(m))
                   ELSE Cardinality(Claims(m)) + 1
        BY <3>3, FS_AddElement
      <4>2. Cardinality(Claims(m)) \in Nat
        BY <3>3, FS_CardinalityType
      <4> QED
        BY <4>1, <4>2
    <3>5. /\ IsFiniteSet(Claims(m)')
          /\ Cardinality(Claims(m)') <= Cardinality(Claims(m) \cup {<<r, last>>})
      BY <3>2, <3>4, FS_Subset
    <3>6. /\ Cardinality(Claims(m)) \in Nat /\ Cardinality(Claims(m)') \in Nat
          /\ Cardinality(Claims(m) \cup {<<r, last>>}) \in Nat
      BY <3>3, <3>4, <3>5, FS_CardinalityType
    <3> QED
      BY <2>1, <3>1, <3>3, <3>4, <3>5, <3>6 DEF ClaimsInv
  <2> QED
    BY <2>2, <2>3
<1>7. PlacedInv' /\ \A m \in Messages : OrderInv(m)'
  BY <1>1, <1>3, <1>5, PlacedShrink DEF books
<1>8. ASSUME Fresh' PROVE FreshInv'
  <2>1. Fresh /\ FreshInv
    BY <1>1, <1>8 DEF Fresh, IInv
  <2>2. ASSUME NEW m \in marks' PROVE InHand(m)'
    <3>1. CASE m = Current(r)
      <4>1. PICK n \in Nat : n = last
        BY <1>2
      <4>2. AtWork(r, n)' /\ n \in 1 .. Len(batch'[r]) /\ batch'[r][n] = m
        BY <1>1, <1>2, <1>5, <3>1, <4>1
      <4>3. Handles(r, n, Result \ {"duplicate"}, m)'
        BY <4>2 DEF Handles
      <4> QED
        BY <1>5, <4>3 DEF InHand
    <3>2. CASE m # Current(r)
      <4>1. ASSUME NEW n \in Nat, Handles(r, n, Result \ {"duplicate"}, m)
            PROVE  InHand(m)'
        <5>1. Handles(r, n, Result \ {"duplicate"}, m)'
          BY <1>1, <1>5, <4>1 DEF Handles
        <5> QED
          BY <1>5, <5>1 DEF InHand
      <4> QED
        BY <1>1, <1>3, <2>1, <3>2, <4>1, InHandKept DEF FreshInv, books
    <3> QED
      BY <3>1, <3>2
  <2>3. ASSUME NEW t \in Requests, NEW n \in 1 .. Len(batch'[t]),
               n <= Len(results'[t]) \/ AtWork(t, n)'
        PROVE  batch'[t][n] \in marks'
    <3>1. CASE t = r
      BY <1>1, <1>2, <1>5, <2>1, <2>3, <3>1 DEF FreshInv
    <3>2. CASE t # r
      BY <1>1, <1>3, <2>1, <2>3, <3>2 DEF FreshInv, Else, AtWork
    <3> QED
      BY <3>1, <3>2
  <2> QED
    BY <1>1, <2>1, <2>2, <2>3 DEF FreshInv
<1> QED
  BY <1>4, <1>6, <1>7, <1>8 DEF IInv

LEMMA CheckInv == ASSUME IInv, NEW r \in Requests, Check(r) PROVE IInv'
BY CheckSeenInv, CheckNewInv

----
(* Redis, and the commit *)

LEMMA LoseMarkInv == ASSUME IInv, NEW m \in Messages, LoseMark(m) PROVE IInv'
<1>1. /\ TypeOK /\ m \in marks /\ lost[m] < MaxLosses
      /\ marks' = marks \ {m} /\ lost' = [lost EXCEPT ![m] = @ + 1]
      /\ UNCHANGED <<books, acked, pc, batch, results, failures>>
  BY DEF LoseMark, IInv
<1>2. TypeOK'
  <2>1. lost' \in [Messages -> 0 .. MaxLosses]
    BY <1>1 DEF TypeOK
  <2> QED
    BY <1>1, <2>1 DEF TypeOK, Finished, books
<1>3. \A r \in Requests : RequestInv(r)'
  BY <1>1 DEF IInv, RequestInv
<1>4. ASSUME NEW k \in Messages PROVE ClaimsInv(k)'
  <2>1. Claims(k)' = Claims(k) /\ taken' = taken
    BY <1>1 DEF Claims, Open, Handles, Done, AtWork, books
  <2>2. lost'[k] + Marked(k)' = lost[k] + Marked(k)
    <3>1. CASE k = m
      BY <1>1, <3>1 DEF Marked, TypeOK
    <3>2. CASE k # m
      BY <1>1, <3>2 DEF Marked, TypeOK
    <3> QED
      BY <3>1, <3>2
  <2>3. ClaimsInv(k)
    BY DEF IInv
  <2> QED
    BY <2>1, <2>2, <2>3 DEF ClaimsInv
<1>5. PlacedInv' /\ \A k \in Messages : OrderInv(k)'
  BY <1>1 DEF IInv, PlacedInv, OrderInv, Placed, MessageOf, Open, Done, books
<1>6. ~Fresh'
  BY <1>1 DEF Fresh, TypeOK
<1> QED
  BY <1>2, <1>3, <1>4, <1>5, <1>6 DEF IInv

(* The results that Times counts. *)
Counted(r, kinds, m) == {n \in 1 .. Len(results[r]) : results[r][n] \in kinds /\ batch[r][n] = m}

LEMMA CountedType ==
  ASSUME TypeOK, NEW r \in Requests, NEW kinds, NEW m
  PROVE  /\ IsFiniteSet(Counted(r, kinds, m))
         /\ Times(r, kinds, m) = Cardinality(Counted(r, kinds, m))
         /\ Times(r, kinds, m) \in Nat
         /\ Times(r, kinds, m) = 0 <=> Counted(r, kinds, m) = {}
<1>1. Len(results[r]) \in Nat /\ Counted(r, kinds, m) \in SUBSET (1 .. Len(results[r]))
  BY DEF TypeOK, Counted
<1>2. IsFiniteSet(Counted(r, kinds, m))
  <2>1. IsFiniteSet(1 .. Len(results[r]))
    BY <1>1, FS_Interval
  <2> QED
    BY <1>1, <2>1, FS_Subset
<1>3. Times(r, kinds, m) = Cardinality(Counted(r, kinds, m))
  BY DEF Times, Counted
<1> QED
  BY <1>2, <1>3, FS_CardinalityType, FS_EmptySet

(* What a request commits of a message are its claims on it. *)
LEMMA ClaimsCommitted ==
  ASSUME TypeOK, NEW r \in Requests, pc[r] = "next", NEW m, IsFiniteSet(Claims(m))
  PROVE  LET own == {x \in Claims(m) : x[1] = r}
         IN  /\ IsFiniteSet(Claims(m) \ own)
             /\ Cardinality(Claims(m) \ own) + Times(r, {"short", "order"}, m)
                  <= Cardinality(Claims(m))
<1> DEFINE own == {x \in Claims(m) : x[1] = r}
           counted == Counted(r, {"short", "order"}, m)
           f == [n \in counted |-> <<r, n>>]
<1>1. IsFiniteSet(own)
  <2>1. own \in SUBSET Claims(m)
    OBVIOUS
  <2> QED
    BY <2>1, FS_Subset
<1>2. ASSUME NEW n \in counted PROVE <<r, n>> \in own
  <2>1. /\ n \in 1 .. Len(results[r]) /\ Len(results[r]) <= Len(batch[r])
        /\ Len(results[r]) \in Nat /\ Len(batch[r]) \in Nat
    BY DEF Counted, TypeOK
  <2>2. n \in 1 .. Len(batch[r]) /\ n \in Nat
    BY <2>1
  <2> QED
    BY <2>1, <2>2 DEF Counted, Claims, Open, Handles, Done
<1>3. f \in Injection(counted, own)
  <2>1. f \in [counted -> own]
    BY <1>2
  <2>2. \A n, k \in counted : f[n] = f[k] => n = k
    OBVIOUS
  <2> QED
    BY <2>1, <2>2 DEF Injection, IsInjective
<1> HIDE DEF own, counted, f
<1>4. Cardinality(counted) <= Cardinality(own)
  BY <1>1, <1>3, FS_Injection
<1>5. /\ Times(r, {"short", "order"}, m) = Cardinality(counted)
      /\ Times(r, {"short", "order"}, m) \in Nat
  BY CountedType DEF counted
<1>6. /\ IsFiniteSet(Claims(m) \ own)
      /\ Cardinality(Claims(m) \ own) = Cardinality(Claims(m)) - Cardinality(Claims(m) \cap own)
  BY FS_Difference
<1>7. Claims(m) \cap own = own
  BY DEF own
<1>8. Cardinality(own) \in Nat /\ Cardinality(Claims(m)) \in Nat
  BY <1>1, FS_CardinalityType
<1>9. Cardinality(Claims(m) \ own) + Times(r, {"short", "order"}, m) <= Cardinality(Claims(m))
  <2>1. Cardinality(Claims(m) \ own) = Cardinality(Claims(m)) - Cardinality(own)
    BY <1>6, <1>7
  <2>2. Cardinality(counted) \in Nat /\ Cardinality(Claims(m) \ own) \in Nat
    BY <1>5, <1>6, FS_CardinalityType
  <2> QED
    BY <1>4, <1>5, <1>8, <2>1, <2>2
<1> QED
  BY <1>6, <1>9 DEF own

LEMMA CommitInv == ASSUME IInv, NEW r \in Requests, Commit(r) PROVE IInv'
<1>1. /\ TypeOK /\ pc[r] = "next" /\ Finished(r) /\ pc' = [pc EXCEPT ![r] = "committed"]
      /\ orders' = [m \in Messages |-> orders[m] + Times(r, {"order"}, m)]
      /\ taken' = [m \in Messages |-> taken[m] + Times(r, {"short", "order"}, m)]
      /\ processed' = processed \cup {m \in Messages : Times(r, Result \ {"duplicate"}, m) > 0}
      /\ UNCHANGED <<marks, acked, batch, results, lost, failures>>
  BY DEF Commit, IInv
<1>2. Else(r) /\ pc'[r] = "committed" /\ Open(r) /\ ~Open(r)'
  BY <1>1 DEF TypeOK, Else, Open
<1>3. TypeOK' /\ \A t \in Requests : RequestInv(t)'
  <2>1. orders' \in [Messages -> Nat] /\ taken' \in [Messages -> Nat]
    <3>1. \A m \in Messages : /\ orders[m] + Times(r, {"order"}, m) \in Nat
                             /\ taken[m] + Times(r, {"short", "order"}, m) \in Nat
      BY <1>1, CountedType DEF TypeOK
    <3> QED
      BY <1>1, <3>1
  <2>2. processed' \subseteq Messages
    BY <1>1 DEF TypeOK
  <2>3. pc' \in [Requests -> {"idle", "next", "processing", "committed"}]
    BY <1>1 DEF TypeOK
  <2>4. ASSUME NEW t \in Requests
        PROVE  /\ Len(results'[t]) <= Len(batch'[t])
               /\ pc'[t] = "processing" => ~Finished(t)'
               /\ pc'[t] = "committed" => Len(results'[t]) = Len(batch'[t])
               /\ RequestInv(t)'
    BY <1>1, <1>2 DEF TypeOK, Else, Finished, RequestInv, IInv
  <2> QED
    BY <1>1, <2>1, <2>2, <2>3, <2>4 DEF TypeOK
<1>4. ASSUME NEW m \in Messages PROVE ClaimsInv(m)'
  <2> DEFINE own == {x \in Claims(m) : x[1] = r}
  <2>1. /\ IsFiniteSet(Claims(m)) /\ taken[m] + Cardinality(Claims(m)) <= lost[m] + Marked(m)
    BY DEF IInv, ClaimsInv
  <2>2. /\ IsFiniteSet(Claims(m) \ own)
        /\ Cardinality(Claims(m) \ own) + Times(r, {"short", "order"}, m) <= Cardinality(Claims(m))
    BY <1>1, <2>1, ClaimsCommitted
  <2>3. Claims(m)' \subseteq Claims(m) \ own
    <3> SUFFICES ASSUME NEW x \in Claims(m)' PROVE x \in Claims(m) /\ x[1] # r
      OBVIOUS
    <3>1. x \in Requests \X Nat /\ Open(x[1])' /\ Handles(x[1], x[2], {"short", "order"}, m)'
      BY DEF Claims
    <3>2. x[1] # r
      BY <1>2, <3>1
    <3> QED
      BY <1>2, <3>1, <3>2 DEF Claims, Else, Open, Handles, Done, AtWork
  <2> HIDE DEF own
  <2>4. IsFiniteSet(Claims(m)') /\ Cardinality(Claims(m)') <= Cardinality(Claims(m) \ own)
    BY <2>2, <2>3, FS_Subset
  <2>5. /\ Cardinality(Claims(m)') \in Nat /\ Cardinality(Claims(m) \ own) \in Nat
        /\ Cardinality(Claims(m)) \in Nat /\ Times(r, {"short", "order"}, m) \in Nat
        /\ taken[m] \in Nat /\ lost[m] \in Nat /\ Marked(m) \in Nat
    BY <1>1, <2>1, <2>2, <2>4, FS_CardinalityType, CountedType DEF TypeOK, Marked
  <2>6. /\ taken'[m] = taken[m] + Times(r, {"short", "order"}, m)
        /\ lost'[m] = lost[m] /\ Marked(m)' = Marked(m)
    BY <1>1 DEF Marked
  <2> QED
    BY <2>1, <2>2, <2>4, <2>5, <2>6 DEF ClaimsInv
<1>5. ASSUME NEW x \in Placed'
      PROVE  x \in Placed /\ MessageOf(x)' = MessageOf(x) /\ x[1] # r
  <2>1. x \in Requests \X Nat /\ Open(x[1])' /\ Done(x[1], x[2], {"order"})'
    BY DEF Placed
  <2>2. x[1] # r
    BY <1>2, <2>1
  <2> QED
    BY <1>2, <2>1, <2>2 DEF Placed, MessageOf, Else, Open, Done
<1>6. PlacedInv'
  BY <1>5 DEF IInv, PlacedInv
<1>7. ASSUME NEW m \in Messages PROVE OrderInv(m)'
  <2> DEFINE counted == Counted(r, {"order"}, m)
  <2>1. /\ orders'[m] = orders[m] + Times(r, {"order"}, m)
        /\ taken'[m] = taken[m] + Times(r, {"short", "order"}, m)
        /\ orders[m] \in Nat /\ taken[m] \in Nat
        /\ orders[m] <= 1 /\ orders[m] <= taken[m]
        /\ \A x \in Placed : MessageOf(x) = m => orders[m] = 0
    BY <1>1 DEF TypeOK, IInv, OrderInv
  <2>2. /\ IsFiniteSet(counted) /\ Times(r, {"order"}, m) = Cardinality(counted)
        /\ Cardinality(counted) \in Nat
        /\ IsFiniteSet(Counted(r, {"short", "order"}, m))
        /\ Times(r, {"short", "order"}, m) = Cardinality(Counted(r, {"short", "order"}, m))
        /\ Times(r, {"short", "order"}, m) \in Nat
    BY <1>1, CountedType
  <2>3. counted \subseteq Counted(r, {"short", "order"}, m)
    BY DEF Counted
  <2>4. ASSUME NEW n \in counted PROVE <<r, n>> \in Placed /\ MessageOf(<<r, n>>) = m
    <3>1. n \in 1 .. Len(results[r]) /\ n \in Nat /\ results[r][n] = "order" /\ batch[r][n] = m
      BY <1>1 DEF Counted, TypeOK
    <3> QED
      BY <1>2, <3>1 DEF Placed, Done, MessageOf
  <2> HIDE DEF counted
  <2>5. Times(r, {"order"}, m) <= Times(r, {"short", "order"}, m)
    BY <2>2, <2>3, FS_Subset
  <2>6. CASE counted = {}
    <3>1. Times(r, {"order"}, m) = 0
      BY <2>2, <2>6, FS_EmptySet
    <3> QED
      BY <1>5, <2>1, <2>2, <3>1 DEF OrderInv
  <2>7. CASE counted # {}
    <3>1. PICK n \in counted : TRUE
      BY <2>7
    <3>2. counted = {n} /\ orders[m] = 0
      <4>1. \A k \in counted : <<r, k>> = <<r, n>>
        BY <2>4, <3>1 DEF IInv, PlacedInv
      <4> QED
        BY <2>1, <2>4, <3>1, <4>1
    <3>3. Times(r, {"order"}, m) = 1
      BY <2>2, <3>2, FS_Singleton
    <3>4. ASSUME NEW x \in Placed', MessageOf(x)' = m PROVE FALSE
      <4>1. x \in Placed /\ MessageOf(x) = m /\ x[1] # r
        BY <1>5, <3>4
      <4>2. x = <<r, n>>
        BY <2>4, <3>1, <4>1 DEF IInv, PlacedInv
      <4> QED
        BY <4>1, <4>2
    <3> QED
      BY <2>1, <2>2, <2>5, <3>2, <3>3, <3>4 DEF OrderInv
  <2> QED
    BY <2>6, <2>7
<1>8. ASSUME Fresh' PROVE FreshInv'
  <2>1. Fresh /\ FreshInv
    BY <1>1, <1>8 DEF Fresh, IInv
  <2>2. ASSUME NEW m \in marks' PROVE InHand(m)'
    <3>1. m \in Messages
      BY <1>1 DEF TypeOK
    <3>2. ASSUME NEW n \in Nat, Handles(r, n, Result \ {"duplicate"}, m)
          PROVE  InHand(m)'
      <4>1. n \in Counted(r, Result \ {"duplicate"}, m)
        BY <1>1, <3>2 DEF Handles, Done, AtWork, Counted
      <4>2. Times(r, Result \ {"duplicate"}, m) \in Nat /\ Times(r, Result \ {"duplicate"}, m) # 0
        BY <1>1, <4>1, CountedType
      <4>3. m \in processed'
        BY <1>1, <3>1, <4>2
      <4> QED
        BY <4>3 DEF InHand
    <3> QED
      BY <1>1, <1>2, <2>1, <3>2, InHandKept DEF FreshInv
  <2>3. \A t \in Requests : \A n : AtWork(t, n)' => AtWork(t, n)
    BY <1>1, <1>2 DEF Else, AtWork
  <2>4. \A t \in Requests : \A n \in 1 .. Len(batch'[t]) :
          n <= Len(results'[t]) \/ AtWork(t, n)' => batch'[t][n] \in marks'
    BY <1>1, <2>1, <2>3 DEF FreshInv
  <2> QED
    BY <1>1, <2>1, <2>2, <2>4 DEF FreshInv
<1> QED
  BY <1>3, <1>4, <1>6, <1>7, <1>8 DEF IInv

----
LEMMA NextInv == IInv /\ [Next]_vars => IInv'
<1> SUFFICES ASSUME IInv, [Next]_vars PROVE IInv'
  OBVIOUS
<1>1. CASE UNCHANGED vars
  <2>1. TypeOK' /\ \A r \in Requests : RequestInv(r)'
    BY <1>1 DEF vars, books, IInv, TypeOK, Finished, RequestInv
  <2>2. ASSUME NEW m \in Messages PROVE ClaimsInv(m)'
    <3>1. Claims(m)' = Claims(m) /\ Marked(m)' = Marked(m) /\ taken' = taken /\ lost' = lost
      BY <1>1 DEF vars, books, Claims, Marked, Open, Handles, Done, AtWork
    <3>2. ClaimsInv(m)
      BY DEF IInv
    <3> QED
      BY <3>1, <3>2 DEF ClaimsInv
  <2>3. PlacedInv' /\ \A m \in Messages : OrderInv(m)'
    BY <1>1 DEF vars, books, IInv, PlacedInv, OrderInv, Placed, MessageOf, Open, Done
  <2>4. Fresh' => FreshInv'
    BY <1>1 DEF vars, books, IInv, Fresh, FreshInv, InHand, Open, Handles, Done, AtWork
  <2> QED
    BY <2>1, <2>2, <2>3, <2>4 DEF IInv
<1>2. CASE \E m \in Messages : LoseMark(m)
  BY <1>2, LoseMarkInv
<1>3. ASSUME NEW r \in Requests,
             \/ \E b \in Batches : Deliver(r, b)
             \/ Check(r) \/ Process(r) \/ Commit(r) \/ Answer(r)
             \/ LoseAnswer(r) \/ DeadlockVictim(r) \/ Fail(r)
      PROVE  IInv'
  BY <1>3, DeliverInv, CheckInv, EndWithoutOrderInv, PlaceOrderInv, LoseInsertInv, CommitInv,
    AnswerInv, LoseAnswerInv, DeadlockVictimInv, FailInv DEF Process
<1> QED
  BY <1>1, <1>2, <1>3 DEF Next

(* The inductive invariant: claims, orders placed and, while nothing has failed,
   marks that are in hand. *)
THEOREM Invariant == Spec => []IInv
<1> QED
  BY InitInv, NextInv, PTL DEF Spec

(* Every variable keeps its type: a request that has committed has a result for
   each message of its delivery. *)
THEOREM TypeCorrect == Spec => []TypeOK
<1>1. IInv => TypeOK
  BY DEF IInv
<1> QED
  BY <1>1, Invariant, PTL

(* A message never becomes two orders: deliveries may overlap, and Redis may
   forget what it has marked. *)
THEOREM OneOrder == Spec => []OneOrderPerMessage
<1>1. IInv => OneOrderPerMessage
  BY DEF IInv, OrderInv, OneOrderPerMessage
<1> QED
  BY <1>1, Invariant, PTL

(* Stock is deducted for a message once for each mark it has had. *)
THEOREM OneDeductionPerMark == Spec => []DeductedOncePerMark
<1>1. ASSUME IInv, NEW m \in Messages PROVE taken[m] <= 1 + lost[m]
  <2>1. IsFiniteSet(Claims(m)) /\ taken[m] + Cardinality(Claims(m)) <= lost[m] + Marked(m)
    BY <1>1 DEF IInv, ClaimsInv
  <2>2. /\ Cardinality(Claims(m)) \in Nat /\ taken[m] \in Nat /\ lost[m] \in Nat
        /\ Marked(m) \in {0, 1}
    BY <1>1, <2>1, FS_CardinalityType DEF IInv, TypeOK, Marked
  <2> QED
    BY <2>1, <2>2
<1>2. IInv => DeductedOncePerMark
  BY <1>1 DEF DeductedOncePerMark
<1> QED
  BY <1>2, Invariant, PTL

(* While no request has failed and no mark has gone, a message that WhatsApp has
   an answer for is processed, or an open request has got to it. *)
THEOREM AckedIsHandled == Spec => []AckedIsTakenCareOf
<1>1. ASSUME IInv PROVE AckedIsTakenCareOf
  <2> SUFFICES ASSUME Fresh, NEW m \in acked, m \notin processed
               PROVE  \E r \in Requests : Open(r) /\ \E n \in 1 .. Len(results[r]) + 1 :
                        n <= Len(batch[r]) /\ batch[r][n] = m
    BY DEF AckedIsTakenCareOf, Fresh
  <2>1. PICK r \in Requests, n \in Nat : Open(r) /\ Handles(r, n, Result \ {"duplicate"}, m)
    BY <1>1 DEF IInv, FreshInv, InHand
  <2>2. Len(results[r]) \in Nat /\ Len(batch[r]) \in Nat
    BY <1>1 DEF IInv, TypeOK
  <2>3. n \in 1 .. Len(results[r]) + 1 /\ n <= Len(batch[r]) /\ batch[r][n] = m
    BY <2>1, <2>2 DEF Handles, Done, AtWork
  <2> QED
    BY <2>1, <2>3
<1>2. IInv => AckedIsTakenCareOf
  BY <1>1
<1> QED
  BY <1>2, Invariant, PTL
====
