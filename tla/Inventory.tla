---- MODULE Inventory ----
(***************************************************************************)
(* Stock rows under SELECT ... FOR UPDATE: order sessions deduct one row    *)
(* per line of the order, POST /inventory/adjust changes one row, POST      *)
(* /inventory/upload sets one row per line of a CSV file.  Every session is *)
(* one READ COMMITTED transaction that keeps its row locks until it ends.   *)
(***************************************************************************)
EXTENDS Integers, Sequences, SequencesExt

CONSTANTS
  Products,     \* products of the tenant
  Orders,       \* webhook requests that got as far as step 6
  Adjustments,  \* POST /inventory/adjust requests
  Uploads,      \* POST /inventory/upload requests
  WorkOf,       \* WorkOf[s]: the step sequences session s may carry
  StockRows,    \* products that have an inventory row at first
  FirstStock,   \* FirstStock[p]: its quantity
  Nothing       \* no row is waiting to be inserted

Sessions == Orders \cup Adjustments \cup Uploads
Step == [op : {"deduct", "add", "set"}, product : Products, quantity : Int]

ASSUME KindsAssumption ==
  Orders \cap Uploads = {} /\ Adjustments \cap (Orders \cup Uploads) = {}
(* Orders only deduct, a positive number made an integer (webhook_service.py,
   line 321); an adjustment is one step, its quantity ge=0; an upload only
   sets, to any integer. *)
ASSUME WorkAssumption ==
  /\ WorkOf \in [Sessions -> SUBSET Seq(Step)]
  /\ \A s \in Sessions : \A work \in WorkOf[s] :
       /\ work # <<>>
       /\ \A n \in 1 .. Len(work) :
            /\ s \in Orders => work[n].op = "deduct" /\ work[n].quantity >= 0
            /\ s \in Adjustments => Len(work) = 1 /\ work[n].quantity >= 0
            /\ s \in Uploads => work[n].op = "set"
ASSUME StockAssumption ==
  /\ StockRows \subseteq Products
  /\ FirstStock \in [Products -> Int]
  /\ \A p \in Products \ StockRows : FirstStock[p] = 0
ASSUME NothingAssumption == Nothing \notin Products

VARIABLES
  rows,     \* products that have a committed row
  stock,    \* its committed quantity, 0 without a row
  \* the sessions
  pc,       \* idle, working, done or failed
  work,     \* the steps to take
  verdicts, \* what became of those taken so far
  locked,   \* rows locked: read FOR UPDATE, or inserted
  draft,    \* their quantities as the session has changed them
  pending,  \* the row added to the session and not flushed yet
  \* history
  known     \* the rows there were when the session began

committed == <<rows, stock>>
locals == <<work, verdicts, locked, draft, pending, known>>
vars == <<committed, pc, locals>>

Init ==
  /\ rows = StockRows
  /\ stock = FirstStock
  /\ pc = [s \in Sessions |-> "idle"]
  /\ work = [s \in Sessions |-> <<>>]
  /\ verdicts = [s \in Sessions |-> <<>>]
  /\ locked = [s \in Sessions |-> {}]
  /\ draft = [s \in Sessions |-> FirstStock]
  /\ pending = [s \in Sessions |-> Nothing]
  /\ known = [s \in Sessions |-> {}]

----
Begin(s) ==
  /\ pc[s] = "idle"
  /\ \E w \in WorkOf[s] : work' = [work EXCEPT ![s] = w]
  /\ pc' = [pc EXCEPT ![s] = "working"]
  /\ known' = [known EXCEPT ![s] = rows]
  /\ UNCHANGED <<committed, verdicts, locked, draft, pending>>

Finished(s) == Len(verdicts[s]) = Len(work[s])
Current(s) == work[s][Len(verdicts[s]) + 1]
Taking(s) == pc[s] = "working" /\ pending[s] = Nothing /\ ~Finished(s)

(* Mutant: SELECT without FOR UPDATE. *)
Unlocked(s, p) == FALSE
LockedByOther(s, p) == \E t \in Sessions \ {s} : p \in locked[t]

(* A session sees the committed rows and the row it inserted itself. *)
Visible(s, p) == p \in rows \cup locked[s]

Short(have, w) == w.op = "deduct" /\ have < w.quantity

After(have, w) ==
  CASE w.op = "deduct" -> have - w.quantity
    [] w.op = "add"    -> have + w.quantity
    [] w.op = "set"    -> w.quantity

(* deduct_stock, add_stock or set_stock on a row that is there: lock it, read
   it, change it in the session. *)
TakeStep(s) ==
  LET w == Current(s)
      p == w.product
      have == IF p \in locked[s] THEN draft[s][p] ELSE stock[p]
  IN /\ Taking(s)
     /\ Visible(s, p)
     /\ ~LockedByOther(s, p)
     /\ locked' = [locked EXCEPT ![s] = @ \cup {p}]
     /\ draft' = [draft EXCEPT ![s][p] = IF Short(have, w) THEN have ELSE After(have, w)]
     /\ verdicts' = [verdicts EXCEPT ![s] =
          Append(@, IF Short(have, w) THEN "short" ELSE "done")]
     /\ UNCHANGED <<committed, pc, work, pending, known>>

(* The same without a row: SELECT ... FOR UPDATE finds and locks nothing.
   deduct_stock refuses, the others add a new row to the session. *)
MissRow(s) ==
  LET w == Current(s)
      p == w.product
  IN /\ Taking(s)
     /\ ~Visible(s, p)
     /\ IF w.op = "deduct"
          THEN /\ verdicts' = [verdicts EXCEPT ![s] = Append(@, "missing")]
               /\ UNCHANGED <<draft, pending>>
          ELSE /\ verdicts' = [verdicts EXCEPT ![s] = Append(@, "done")]
               /\ draft' = [draft EXCEPT ![s][p] = w.quantity]
               /\ pending' = [pending EXCEPT ![s] = p]
     /\ UNCHANGED <<committed, pc, work, locked, known>>

(* Mutant: no unique constraint on (tenant_id, product_id). *)
NoConflict(s) == FALSE
(* Another session has committed the row since this one missed it. *)
InsertConflicts(s) == pending[s] # Nothing /\ pending[s] \in rows

(* The next query or the commit flushes the new row.  Its entry in the unique
   index uq_tenant_product_inventory keeps others from inserting it. *)
InsertRow(s) ==
  LET p == pending[s] IN
  /\ pc[s] = "working"
  /\ p # Nothing
  /\ ~InsertConflicts(s)
  /\ ~LockedByOther(s, p)
  /\ locked' = [locked EXCEPT ![s] = @ \cup {p}]
  /\ pending' = [pending EXCEPT ![s] = Nothing]
  /\ UNCHANGED <<committed, pc, work, verdicts, draft, known>>

----
(* The end of a session *)

EndAs(s, how) ==
  /\ pc' = [pc EXCEPT ![s] = how]
  /\ locked' = [locked EXCEPT ![s] = {}]
  /\ pending' = [pending EXCEPT ![s] = Nothing]

(* Mutant: a session that fails is neither rolled back nor closed. *)
NeverClosed(s) == UNCHANGED vars
RollBack(s) == EndAs(s, "failed") /\ UNCHANGED <<committed, work, verdicts, draft, known>>

AllDone(s) == \A n \in 1 .. Len(verdicts[s]) : verdicts[s][n] = "done"

(* Mutant: adjust_stock returns the message of a refusal without raising. *)
NeverRaises(s) == FALSE
(* adjust_stock raises when its step was refused; the webhook returns, and the
   deductions it did make are committed. *)
Raises(s) == s \in Adjustments /\ ~AllDone(s)

(* Mutant: the row is written as it was, not as the session changed it. *)
Unwritten(s) == stock
Written(s) == [p \in Products |-> IF p \in locked[s] THEN draft[s][p] ELSE stock[p]]

(* Mutant: the session forgets to add the row it made. *)
NoNewRow(s) == rows
WithNewRows(s) == rows \cup locked[s]

Commit(s) ==
  /\ pc[s] = "working"
  /\ Finished(s)
  /\ pending[s] = Nothing
  /\ ~Raises(s)
  /\ EndAs(s, "done")
  /\ rows' = WithNewRows(s)
  /\ stock' = Written(s)
  /\ UNCHANGED <<work, verdicts, draft, known>>

Refuse(s) ==
  /\ pc[s] = "working"
  /\ Finished(s)
  /\ Raises(s)
  /\ RollBack(s)

(* IntegrityError *)
LoseInsert(s) ==
  /\ pc[s] = "working"
  /\ InsertConflicts(s)
  /\ RollBack(s)

(* Any other exception, in the rest of an order's pipeline too, or a crash. *)
Fail(s) == pc[s] = "working" /\ RollBack(s)

(* The row a session waits for, to lock it or to insert it. *)
WaitsFor(s, t) ==
  /\ pc[s] = "working"
  /\ \/ pending[s] # Nothing /\ ~InsertConflicts(s) /\ pending[s] \in locked[t]
     \/ Taking(s) /\ Visible(s, Current(s).product) /\ Current(s).product \in locked[t]
  /\ s # t

Waiting == {s \in Sessions : \E t \in Sessions : WaitsFor(s, t)}

(* PostgreSQL aborts a session that waits in a circle. *)
InCircle(s) ==
  \E C \in SUBSET Waiting :
    /\ s \in C
    /\ \A t \in C : (\E u \in C : WaitsFor(t, u)) /\ (\E u \in C : WaitsFor(u, t))
DeadlockVictim(s) == InCircle(s) /\ RollBack(s)

SessionStep(s) ==
  TakeStep(s) \/ MissRow(s) \/ InsertRow(s) \/ Commit(s) \/ Refuse(s) \/ LoseInsert(s)

Quiescent ==
  /\ \A s \in Sessions : pc[s] \in {"done", "failed"}
  /\ UNCHANGED vars

Next ==
  \/ \E s \in Sessions : Begin(s) \/ SessionStep(s) \/ Fail(s) \/ DeadlockVictim(s)
  \/ Quiescent

Spec == Init /\ [][Next]_vars

(* The event loop resumes sessions that can go on, and PostgreSQL's deadlock
   detector runs.  As every session has finitely many steps, it is enough that
   some session moves. *)
FairSpec ==
  /\ Spec
  /\ WF_vars(\E s \in Sessions : SessionStep(s))
  /\ WF_vars(\E s \in Sessions : DeadlockVictim(s))

----
(* Properties *)

TypeOK ==
  /\ rows \subseteq Products
  /\ stock \in [Products -> Int]
  /\ \A p \in Products \ rows : stock[p] = 0
  /\ pc \in [Sessions -> {"idle", "working", "done", "failed"}]
  /\ work \in [Sessions -> Seq(Step)]
  /\ verdicts \in [Sessions -> Seq({"done", "short", "missing"})]
  /\ locked \in [Sessions -> SUBSET Products]
  /\ draft \in [Sessions -> [Products -> Int]]
  /\ pending \in [Sessions -> Products \cup {Nothing}]
  /\ known \in [Sessions -> SUBSET Products]

(* No row, present or being inserted, is in the hands of two sessions, and an
   ended session keeps none. *)
RowLocksExclude ==
  \A s \in Sessions :
    /\ locked[s] # {} => pc[s] = "working"
    /\ \A t \in Sessions \ {s} : locked[s] \cap locked[t] = {}

(* The steps of committed sessions that did something to the row of p, as
   pairs of a session and a place in its work. *)
StepsOn(p) ==
  {k \in UNION {{s} \X DOMAIN verdicts[s] : s \in {s \in Sessions : pc[s] = "done"}} :
     verdicts[k[1]][k[2]] = "done" /\ work[k[1]][k[2]].product = p}

(* Two customers never buy the same piece, and no piece gets lost: however
   deductions and adjustments overlap, a row that no committed step has set is
   what it was at first, less all they have deducted and more all they have
   added. *)
PiecesAddUp ==
  \A p \in Products :
    LET change == [k \in StepsOn(p) |-> work[k[1]][k[2]]]
    IN (\A k \in StepsOn(p) : change[k].op # "set") =>
         stock[p] = FirstStock[p] + SumFunction([k \in StepsOn(p) |-> After(0, change[k])])

(* Only an upload, which takes any number from the file, can bring a row below
   zero. *)
OnlyUploadsOverdraw ==
  [][\A p \in Products :
       stock'[p] < stock[p] /\ stock'[p] < 0 =>
         \E s \in Uploads : pc[s] = "working" /\ pc'[s] = "done"]_vars

Promise == INSTANCE StockPromise WITH
  Requests <- Sessions,
  AllOrNone <- Adjustments \cup Uploads,
  begun <- {s \in Sessions : pc[s] # "idle"},
  served <- [s \in Sessions |-> IF pc[s] = "done" THEN verdicts[s] ELSE <<>>]

(* Each session's changes take effect as if they were made in one step, on the
   stock as it is when the session commits: no update of another session is
   lost, a refused adjustment and a failed session change nothing, a step is
   refused as short only when the stock really is, and as missing only when
   there was no row as the session began, and an upload is applied as a
   whole. *)
KeepsPromise == Promise!Spec

(* No session waits for ever for a row: orders that lock the same rows in
   another order deadlock, and one of them is rolled back. *)
SessionsEnd == \A s \in Sessions : pc[s] = "working" ~> pc[s] \in {"done", "failed"}

====
