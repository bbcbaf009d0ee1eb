---- MODULE StockPromise ----
(***************************************************************************)
(* What the inventory promises (inventory_service.py: "Atomic inventory     *)
(* management"): every request takes effect in one step, on the stock as it *)
(* is in that step, or not at all.                                          *)
(***************************************************************************)
EXTENDS Integers, Sequences

CONSTANTS
  Products,   \* products of the tenant
  Requests,   \* requests that change stock
  AllOrNone,  \* the requests a single refused step undoes
  WorkOf      \* WorkOf[r]: the step sequences request r may carry

Step == [op : {"deduct", "add", "set"}, product : Products, quantity : Int]
Verdict == {"done", "short", "missing"}

VARIABLES
  rows,   \* the products that have an inventory row
  stock,  \* the quantity of each, 0 without a row
  served, \* what each request was told: a verdict for each step, or <<>>
  begun,  \* the requests that have come in
  known   \* known[r]: the products that had a row when r came in

Init ==
  /\ rows \in SUBSET Products
  /\ stock \in [Products -> Int]
  /\ served = [r \in Requests |-> <<>>]
  /\ begun = {}
  /\ known = [r \in Requests |-> {}]

Begin(r) ==
  /\ r \notin begun
  /\ begun' = begun \cup {r}
  /\ known' = [known EXCEPT ![r] = rows]
  /\ UNCHANGED <<rows, stock, served>>

(* The quantity after step w of what was have. *)
After(have, w) ==
  CASE w.op = "deduct" -> have - w.quantity
    [] w.op = "add"    -> have + w.quantity
    [] w.op = "set"    -> w.quantity

(* The stock after each step of the work, refused steps changing nothing. *)
Replay(work, verdicts) ==
  LET level[n \in 0 .. Len(work)] ==
        IF n = 0 THEN stock
        ELSE IF verdicts[n] = "done"
          THEN [level[n - 1] EXCEPT ![work[n].product] = After(@, work[n])]
          ELSE level[n - 1]
  IN level

(* A deduction is done when the stock suffices and short when it does not.  A
   deduction from a product without a row is refused; that verdict is not taken
   back when the row appears before the request is through, but a product whose
   row was there when the request came in is never reported missing. *)
Just(w, verdict, have, sawRows) ==
  CASE verdict = "done"    -> w.op = "deduct" => w.product \in rows /\ have >= w.quantity
    [] verdict = "short"   -> w.op = "deduct" /\ w.product \in rows /\ have < w.quantity
    [] verdict = "missing" -> w.op = "deduct" /\ w.product \notin sawRows

Serve(r) ==
  /\ r \in begun
  /\ served[r] = <<>>
  /\ \E work \in WorkOf[r] : \E verdicts \in [1 .. Len(work) -> Verdict] :
       LET level == Replay(work, verdicts)
           done == {n \in 1 .. Len(work) : verdicts[n] = "done"}
       IN /\ \A n \in 1 .. Len(work) :
               Just(work[n], verdicts[n], level[n - 1][work[n].product], known[r])
          /\ r \in AllOrNone => done = 1 .. Len(work)
          /\ stock' = level[Len(work)]
          /\ rows' = rows \cup {work[n].product : n \in done}
          /\ served' = [served EXCEPT ![r] = verdicts]
  /\ UNCHANGED <<begun, known>>

Next == \E r \in Requests : Begin(r) \/ Serve(r)

Spec == Init /\ [][Next]_<<rows, stock, served, begun, known>>
====
