---- MODULE MessageIntake ----
(***************************************************************************)
(* From WhatsApp's deliveries to committed orders: the Redis marks of       *)
(* idempotency.py, the loop of handle_event over the messages of one        *)
(* delivery, and the one transaction that commits what all of them did.     *)
(*                                                                         *)
(* WhatsApp delivers a message at least once and goes on until a delivery   *)
(* that has it is answered with 200.                                        *)
(***************************************************************************)
EXTENDS Integers, Sequences, SequencesExt

CONSTANTS
  Messages,    \* messages customers send
  Requests,    \* webhook requests that can be open at one time
  Batches,     \* message sequences a delivery may carry
  MaxLosses,   \* bound: how often a message's mark goes
  MaxFailures  \* bound: requests that fail

ASSUME BatchesAssumption == Batches \subseteq Seq(Messages) \ {<<>>}
ASSUME BoundsAssumption == MaxLosses \in Nat /\ MaxFailures \in Nat

(* What a message comes to: a duplicate, nothing (no text, not understood, no
   known product), an inventory error, whose deductions stay, or an order. *)
Result == {"duplicate", "nothing", "short", "order"}

VARIABLES
  marks,     \* messages with a key in Redis
  orders,    \* how many committed orders each message has
  taken,     \* how often its stock is deducted, committed
  processed, \* messages some committed request has processed
  acked,     \* messages WhatsApp has had a 200 for
  pc,        \* idle, next, processing or committed
  batch,     \* the messages of the request
  results,   \* what became of those done so far
  lost,      \* how often each message's mark has gone
  failures   \* how many requests have failed

books == <<orders, taken, processed>>
vars == <<marks, books, acked, pc, batch, results, lost, failures>>

Init ==
  /\ marks = {}
  /\ orders = [m \in Messages |-> 0]
  /\ taken = [m \in Messages |-> 0]
  /\ processed = {}
  /\ acked = {}
  /\ pc = [r \in Requests |-> "idle"]
  /\ batch = [r \in Requests |-> <<>>]
  /\ results = [r \in Requests |-> <<>>]
  /\ lost = [m \in Messages |-> 0]
  /\ failures = 0

----
(* WhatsApp *)

Deliver(r, b) ==
  /\ pc[r] = "idle"
  /\ pc' = [pc EXCEPT ![r] = "next"]
  /\ batch' = [batch EXCEPT ![r] = b]
  /\ UNCHANGED <<marks, books, acked, results, lost, failures>>

End(r) ==
  /\ pc' = [pc EXCEPT ![r] = "idle"]
  /\ batch' = [batch EXCEPT ![r] = <<>>]
  /\ results' = [results EXCEPT ![r] = <<>>]

(* The answer arrives, or the connection is gone before it does. *)
Answer(r) ==
  /\ pc[r] = "committed"
  /\ End(r)
  /\ acked' = acked \cup ToSet(batch[r])
  /\ UNCHANGED <<marks, books, lost, failures>>

LoseAnswer(r) ==
  /\ pc[r] = "committed"
  /\ failures < MaxFailures
  /\ failures' = failures + 1
  /\ End(r)
  /\ UNCHANGED <<marks, books, acked, lost>>

(* Redis: the key's 24 hours are over, or a restart has lost it. *)
LoseMark(m) ==
  /\ m \in marks
  /\ lost[m] < MaxLosses
  /\ marks' = marks \ {m}
  /\ lost' = [lost EXCEPT ![m] = @ + 1]
  /\ UNCHANGED <<books, acked, pc, batch, results, failures>>

----
(* handle_event and _process_message *)

Current(r) == batch[r][Len(results[r]) + 1]
(* Mutant: handle_event returns the result of its first message. *)
FirstDone(r) == results[r] # <<>>
Finished(r) == Len(results[r]) = Len(batch[r])

Give(r, result) ==
  /\ results' = [results EXCEPT ![r] = Append(@, result)]
  /\ pc' = [pc EXCEPT ![r] = "next"]

(* SET NX finds the key. *)
Seen(r) == Current(r) \in marks

(* Mutant: a duplicate is refused with an HTTP error. *)
RefuseDuplicate(r) ==
  /\ pc[r] = "next"
  /\ ~Finished(r)
  /\ marks' = marks \cup {Current(r)}
  /\ IF Seen(r) THEN End(r)
     ELSE pc' = [pc EXCEPT ![r] = "processing"] /\ UNCHANGED <<batch, results>>
  /\ UNCHANGED <<books, acked, lost, failures>>

(* is_duplicate *)
Check(r) ==
  /\ pc[r] = "next"
  /\ ~Finished(r)
  /\ marks' = marks \cup {Current(r)}
  /\ IF Seen(r) THEN Give(r, "duplicate")
     ELSE pc' = [pc EXCEPT ![r] = "processing"] /\ UNCHANGED results
  /\ UNCHANGED <<books, acked, batch, lost, failures>>

(* Steps 2 to 6 end without an order. *)
EndWithoutOrder(r) ==
  /\ pc[r] = "processing"
  /\ Give(r, "nothing") \/ Give(r, "short")
  /\ UNCHANGED <<marks, books, acked, batch, lost, failures>>

Inserted(r) ==
  {m \in Messages : \E n \in 1 .. Len(results[r]) :
     results[r][n] = "order" /\ batch[r][n] = m}

(* Mutant: orders.whatsapp_message_id is not unique. *)
NotUnique(r) == FALSE
(* The message has an order, committed or of this request. *)
OrderExists(r) == orders[Current(r)] > 0 \/ Current(r) \in Inserted(r)

(* Another request has inserted an order for the message and is still open. *)
WaitsFor(r, q) ==
  /\ pc[r] = "processing"
  /\ q # r
  /\ pc[q] \in {"next", "processing"}
  /\ Current(r) \in Inserted(q)

(* Steps 6 to 11, the order confirmed or on hold. *)
PlaceOrder(r) ==
  /\ pc[r] = "processing"
  /\ ~OrderExists(r)
  /\ \A q \in Requests : ~WaitsFor(r, q)
  /\ Give(r, "order")
  /\ UNCHANGED <<marks, books, acked, batch, lost, failures>>

----
(* get_db *)

Times(r, kinds, m) ==
  Cardinality({n \in 1 .. Len(results[r]) : results[r][n] \in kinds /\ batch[r][n] = m})

Commit(r) ==
  /\ pc[r] = "next"
  /\ Finished(r)
  /\ pc' = [pc EXCEPT ![r] = "committed"]
  /\ orders' = [m \in Messages |-> orders[m] + Times(r, {"order"}, m)]
  /\ taken' = [m \in Messages |-> taken[m] + Times(r, {"short", "order"}, m)]
  /\ processed' = processed \cup {m \in Messages : Times(r, Result \ {"duplicate"}, m) > 0}
  /\ UNCHANGED <<marks, acked, batch, results, lost, failures>>

(* Mutant: the handler takes its marks back when it fails, those of messages
   another request has taken care of too. *)
MarksTakenBack(r) == marks \ ToSet(batch[r])
(* No one calls IdempotencyService.remove. *)
MarksAfterFailure(r) == marks

(* The transaction is rolled back, the marks stay, WhatsApp gets no 200. *)
RollBack(r) ==
  /\ End(r)
  /\ marks' = MarksAfterFailure(r)
  /\ UNCHANGED <<books, acked, lost>>

(* IntegrityError *)
LoseInsert(r) ==
  /\ pc[r] = "processing"
  /\ OrderExists(r)
  /\ RollBack(r)
  /\ UNCHANGED failures

(* PostgreSQL ends a circle of requests that wait for each other's orders. *)
DeadlockVictim(r) ==
  /\ \E C \in SUBSET Requests :
       /\ r \in C
       /\ \A q \in C : (\E s \in C : WaitsFor(q, s)) /\ (\E s \in C : WaitsFor(s, q))
  /\ RollBack(r)
  /\ UNCHANGED failures

(* Any other exception (an LLM answer other than 200, a second customer row for
   the phone, ...), the lost half of any other deadlock, or a crash. *)
Fail(r) ==
  /\ pc[r] \in {"next", "processing"}
  /\ failures < MaxFailures
  /\ failures' = failures + 1
  /\ RollBack(r)

Process(r) == EndWithoutOrder(r) \/ PlaceOrder(r) \/ LoseInsert(r)

Next ==
  \/ \E r \in Requests :
       \/ \E b \in Batches : Deliver(r, b)
       \/ Check(r) \/ Process(r) \/ Commit(r) \/ Answer(r)
       \/ LoseAnswer(r) \/ DeadlockVictim(r) \/ Fail(r)
  \/ \E m \in Messages : LoseMark(m)

Spec == Init /\ [][Next]_vars

(* Requests that can go on do, and WhatsApp delivers each message again while
   it has no answer. *)
FairSpec ==
  /\ Spec
  /\ \A r \in Requests :
       WF_vars(Check(r)) /\ WF_vars(Process(r)) /\ WF_vars(Commit(r)) /\ WF_vars(Answer(r))
  /\ WF_vars(\E r \in Requests : DeadlockVictim(r))
  /\ \A m \in Messages :
       SF_vars(m \notin acked /\ \E r \in Requests : \E b \in Batches :
                 m \in ToSet(b) /\ Deliver(r, b))

----
(* Properties *)

TypeOK ==
  /\ marks \subseteq Messages
  /\ orders \in [Messages -> Nat]
  /\ taken \in [Messages -> Nat]
  /\ processed \subseteq Messages
  /\ acked \subseteq Messages
  /\ pc \in [Requests -> {"idle", "next", "processing", "committed"}]
  /\ batch \in [Requests -> Seq(Messages)]
  /\ results \in [Requests -> Seq(Result)]
  /\ \A r \in Requests :
       /\ Len(results[r]) <= Len(batch[r])
       /\ pc[r] = "processing" => ~Finished(r)
       /\ pc[r] = "committed" => Len(results[r]) = Len(batch[r])
  /\ lost \in [Messages -> 0 .. MaxLosses]
  /\ failures \in 0 .. MaxFailures

(* A message never becomes two orders, however often it is delivered and even
   when Redis has forgotten it. *)
OneOrderPerMessage == \A m \in Messages : orders[m] <= 1

(* Stock is deducted for a message once for each mark it gets: while Redis
   remembers it, neither overlapping nor later deliveries deduct again. *)
DeductedOncePerMark == \A m \in Messages : taken[m] <= 1 + lost[m]

Open(r) == pc[r] \in {"next", "processing"}

(* A message that is acknowledged has been processed, or another request that
   has got to it is still open, unless a request has failed or a mark has
   gone. *)
AckedIsTakenCareOf ==
  failures = 0 /\ (\A m \in Messages : lost[m] = 0) =>
    \A m \in acked :
      \/ m \in processed
      \/ \E r \in Requests : Open(r) /\ \E n \in 1 .. Len(results[r]) + 1 :
           n <= Len(batch[r]) /\ batch[r][n] = m

(* WhatsApp does not have to deliver for ever: every message is answered. *)
EveryMessageIsAcked == \A m \in Messages : <>(m \in acked)

----
(* A statement of the repository that the code does not keep *)

(* idempotency.py:31, "Check if a message_id has already been processed": a
   message that is turned away as a duplicate, and so acknowledged, has been
   processed by a request, or is being processed. *)
DuplicatesWereProcessed ==
  \A r \in Requests : pc[r] = "committed" =>
    \A n \in 1 .. Len(results[r]) : results[r][n] = "duplicate" =>
      \/ batch[r][n] \in processed
      \/ \E q \in Requests : Open(q) /\ batch[r][n] \in ToSet(batch[q])
====
