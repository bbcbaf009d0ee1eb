---- MODULE CreditLedger ----
(***************************************************************************)
(* Customer balances, invoices and the credit ledger, as concurrent        *)
(* database sessions read and write them.                                  *)
(*                                                                         *)
(* An order session is one webhook request from the moment it has loaded   *)
(* its customer (webhook_service.py, steps 4 to 11), a payment session one *)
(* POST /payments/.  Each is one READ COMMITTED transaction: what it        *)
(* computes stays in its own variables (seen, draft, ...) until its commit  *)
(* publishes it, and any exception or crash discards it.                   *)
(*                                                                         *)
(* Amounts are whole paise.  The columns are floats, so the two float       *)
(* comparisons that rounding can decide are nondeterministic: whether one   *)
(* paisa left is <= 0.01 (NearZero), and whether subtracting an amount due  *)
(* from an equal remainder leaves a sliver above 0 (dust).                 *)
(***************************************************************************)
EXTENDS Integers, Sequences, FiniteSetsExt

CONSTANTS
  Customers,   \* rows of the customers table
  Orders,      \* order sessions; the invoice one creates goes by its name
  Payments,    \* payment sessions
  CustomerOf,  \* CustomerOf[s]: the customer session s works for
  Limit,       \* Limit[c]: credit_limit of customer c
  Bills,       \* [subtotal, total] an order may come to, before and after tax
  Receipts     \* amounts a payment may carry

Sessions == Orders \cup Payments

ASSUME SessionsAssumption == Orders \cap Payments = {}
ASSUME CustomerOfAssumption == CustomerOf \in [Sessions -> Customers]
ASSUME LimitAssumption == Limit \in [Customers -> Nat]
ASSUME BillsAssumption == Bills \subseteq [subtotal : Nat, total : Nat]
ASSUME ReceiptsAssumption == Receipts \subseteq Nat \ {0}

VARIABLES
  \* the committed tables
  balance,      \* customers.current_balance
  invoices,     \* invoices, by the order session that creates each
  orderStatus,  \* orders.status, "none" while there is no row
  ledger,       \* credit_ledger, per customer in commit order
  \* the sessions
  pc,           \* how far each session has come
  seen,         \* current_balance as the session's Customer object has it
  bill,         \* an order's amounts
  known,        \* history: the invoices there were when an order began
  began,        \* an order's transaction start: created_at of its invoice
  clock,        \* the next transaction start
  receipt,      \* a payment's amount
  remaining,    \* record_payment: what is not applied yet
  dust,         \* record_payment: a float sliver is left when remaining is 0
  todo,         \* record_payment: open invoices the loop has not reached
  draft         \* record_payment: the invoices as the session has changed them

tables == <<balance, invoices, orderStatus, ledger>>
orderLocals == <<bill, known, began, clock>>
paymentLocals == <<receipt, remaining, dust, todo, draft>>
vars == <<tables, pc, seen, orderLocals, paymentLocals>>

NoInvoice == [status |-> "none", total |-> 0, paid |-> 0, due |-> 0]
Invoice == [status : {"none", "ISSUED", "PARTIALLY_PAID", "PAID"},
            total : Nat, paid : Nat, due : Nat]
Entry == [kind : {"INVOICE_CREATED", "PAYMENT_RECEIVED"},
          ref : Sessions, amount : Int, after : Int]

Init ==
  /\ balance = [c \in Customers |-> 0]
  /\ invoices = [o \in Orders |-> NoInvoice]
  /\ orderStatus = [o \in Orders |-> "none"]
  /\ ledger = [c \in Customers |-> <<>>]
  /\ pc = [s \in Sessions |-> "idle"]
  /\ seen = [s \in Sessions |-> 0]
  /\ bill = [o \in Orders |-> [subtotal |-> 0, total |-> 0]]
  /\ known = [o \in Orders |-> {}]
  /\ began = [o \in Orders |-> 0]
  /\ clock = 1
  /\ receipt = [p \in Payments |-> 0]
  /\ remaining = [p \in Payments |-> 0]
  /\ dust = [p \in Payments |-> FALSE]
  /\ todo = [p \in Payments |-> {}]
  /\ draft = [p \in Payments |-> invoices]

----
(* Row locks on the customer.  INSERT of an order or a payment checks its
   foreign key, which takes FOR KEY SHARE on the customer row until commit;
   .with_for_update() takes FOR UPDATE.  The two conflict. *)

HoldsKeyShare(s) == pc[s] \in {"placed", "held", "billed", "paying", "settling"}
HoldsForUpdate(s) == pc[s] \in {"billed", "settling"}
Rivals(s) == {t \in Sessions \ {s} : CustomerOf[t] = CustomerOf[s]}

KeyShareGranted(s) == \A t \in Rivals(s) : ~HoldsForUpdate(t)

(* Mutant: with_for_update() is dropped. *)
GrantedAlways(s) == TRUE
ForUpdateGranted(s) == \A t \in Rivals(s) : ~HoldsKeyShare(t)

WaitsForUpdate(s) == pc[s] \in {"placed", "paying"} /\ ~ForUpdateGranted(s)

----
(* Order sessions *)

Billed == {o \in Orders : invoices[o].status # "none"}
BilledTo(c) == {o \in Billed : CustomerOf[o] = c}

(* Step 4, first statement of the transaction: the customer is loaded without
   a lock, and the session keeps this Customer object to the end. *)
LoadCustomer(o) ==
  /\ pc[o] = "idle"
  /\ \E b \in Bills : bill' = [bill EXCEPT ![o] = b]
  /\ pc' = [pc EXCEPT ![o] = "loaded"]
  /\ seen' = [seen EXCEPT ![o] = balance[CustomerOf[o]]]
  /\ known' = [known EXCEPT ![o] = Billed]
  /\ began' = [began EXCEPT ![o] = clock]
  /\ clock' = clock + 1
  /\ UNCHANGED <<tables, paymentLocals>>

(* Mutant: the balance is left out of the comparison. *)
AloneExceeds(o) == bill[o].subtotal > Limit[CustomerOf[o]]
(* check_credit: the amount before tax against the balance the object holds. *)
WouldExceed(o) == seen[o] + bill[o].subtotal > Limit[CustomerOf[o]]

(* Steps 7 to 9: insert the order and its items, check credit, and either put
   the order on hold or insert its invoice. *)
PlaceOrder(o) ==
  /\ pc[o] = "loaded"
  /\ KeyShareGranted(o)
  /\ pc' = [pc EXCEPT ![o] = IF WouldExceed(o) THEN "held" ELSE "placed"]
  /\ UNCHANGED <<tables, seen, orderLocals, paymentLocals>>

(* A session on hold returns without raising: its order row is committed. *)
CommitHold(o) ==
  /\ pc[o] = "held"
  /\ pc' = [pc EXCEPT ![o] = "done"]
  /\ orderStatus' = [orderStatus EXCEPT ![o] = "CREDIT_HOLD"]
  /\ UNCHANGED <<balance, invoices, ledger, seen, orderLocals, paymentLocals>>

(* Step 10, record_invoice_created: SELECT ... FOR UPDATE returns the Customer
   object the session already has, with the balance it loaded in step 4. *)
RecordInvoiceCreated(o) ==
  /\ pc[o] = "placed"
  /\ ForUpdateGranted(o)
  /\ pc' = [pc EXCEPT ![o] = "billed"]
  /\ seen' = [seen EXCEPT ![o] = @ + bill[o].total]
  /\ UNCHANGED <<tables, orderLocals, paymentLocals>>

(* Mutant: the invoice is committed and the balance is not. *)
UnwrittenBalance(o) == balance[CustomerOf[o]]
(* The UPDATE writes the object's value, and only if the value has changed. *)
WrittenBalance(o) ==
  IF bill[o].total = 0 THEN balance[CustomerOf[o]] ELSE seen[o]

CommitOrder(o) ==
  LET c == CustomerOf[o] IN
  /\ pc[o] = "billed"
  /\ pc' = [pc EXCEPT ![o] = "done"]
  /\ balance' = [balance EXCEPT ![c] = WrittenBalance(o)]
  /\ invoices' = [invoices EXCEPT ![o] =
       [status |-> "ISSUED", total |-> bill[o].total, paid |-> 0,
        due |-> bill[o].total]]
  /\ orderStatus' = [orderStatus EXCEPT ![o] = "CONFIRMED"]
  /\ ledger' = [ledger EXCEPT ![c] = Append(@,
       [kind |-> "INVOICE_CREATED", ref |-> o,
        amount |-> bill[o].total, after |-> seen[o]])]
  /\ UNCHANGED <<seen, orderLocals, paymentLocals>>

----
(* Payment sessions *)

(* The router inserts the payment row. *)
InsertPayment(p) ==
  /\ pc[p] = "idle"
  /\ KeyShareGranted(p)
  /\ \E a \in Receipts : receipt' = [receipt EXCEPT ![p] = a]
  /\ pc' = [pc EXCEPT ![p] = "paying"]
  /\ UNCHANGED <<tables, seen, orderLocals, remaining, dust, todo, draft>>

OpenInvoices(c) ==
  {o \in Orders : /\ CustomerOf[o] = c
                  /\ invoices[o].status \in {"ISSUED", "PARTIALLY_PAID"}}

(* record_payment up to its loop: lock the customer, then read its open
   invoices.  This is the session's first read of the customer, so the balance
   is the committed one. *)
LockForPayment(p) ==
  /\ pc[p] = "paying"
  /\ ForUpdateGranted(p)
  /\ pc' = [pc EXCEPT ![p] = "settling"]
  /\ seen' = [seen EXCEPT ![p] = balance[CustomerOf[p]]]
  /\ remaining' = [remaining EXCEPT ![p] = receipt[p]]
  /\ dust' = [dust EXCEPT ![p] = FALSE]
  /\ todo' = [todo EXCEPT ![p] = OpenInvoices(CustomerOf[p])]
  /\ draft' = [draft EXCEPT ![p] = invoices]
  /\ UNCHANGED <<tables, receipt, orderLocals>>

(* Mutant: order_by(desc(created_at)). *)
Newest(o, S) == o \in S /\ \A i \in S : began[i] <= began[o]
(* order_by(asc(created_at)) *)
Oldest(o, S) == o \in S /\ \A i \in S : began[o] <= began[i]

(* Mutant: up to two paise are written off. *)
NearEnough(d, cleared) == cleared = (d <= 2)
(* Whether an amount_due of d paise is <= 0.01 as a float. *)
NearZero(d, cleared) == (d = 0 => cleared) /\ (d > 1 => ~cleared)

(* What is left of invoice i after paying a on it, cleared or not. *)
Applied(i, a, cleared) ==
  [i EXCEPT !.paid = @ + a,
            !.due = IF cleared THEN 0 ELSE @ - a,
            !.status = IF cleared THEN "PAID" ELSE "PARTIALLY_PAID"]

ApplyAmount(p, o) ==
  IF remaining[p] <= draft[p][o].due THEN remaining[p] ELSE draft[p][o].due

(* Whether a sliver is left of the remainder after applying a to an amount due
   of d: subtracting equal amounts may leave one, subtracting 0 keeps it. *)
SliverLeft(p, a, d, sliver) ==
  /\ sliver => a = d /\ a = remaining[p]
  /\ a = 0 /\ d = 0 /\ remaining[p] = 0 => (sliver <=> dust[p])

(* One turn of the loop over the open invoices. *)
SettleNext(p) ==
  /\ pc[p] = "settling"
  /\ remaining[p] > 0 \/ dust[p]
  /\ \E o \in todo[p] :
       LET a == ApplyAmount(p, o)
           d == draft[p][o].due
       IN /\ Oldest(o, todo[p])
          /\ \E cleared \in BOOLEAN :
               /\ NearZero(d - a, cleared)
               /\ draft' = [draft EXCEPT ![p][o] = Applied(@, a, cleared)]
          /\ \E sliver \in BOOLEAN :
               /\ SliverLeft(p, a, d, sliver)
               /\ dust' = [dust EXCEPT ![p] = sliver]
          /\ remaining' = [remaining EXCEPT ![p] = @ - a]
          /\ todo' = [todo EXCEPT ![p] = @ \ {o}]
  /\ UNCHANGED <<tables, pc, seen, receipt, orderLocals>>

(* Mutant: the entry shows what was received, not what was applied. *)
Received(p) == receipt[p]
(* settled_amount *)
Settled(p) == receipt[p] - remaining[p]

(* Mutant: no max(0, ...). *)
Unclamped(p) == seen[p] - Settled(p)
(* max(0, current_balance - settled_amount) *)
ReducedBalance(p) ==
  IF seen[p] >= Settled(p) THEN seen[p] - Settled(p) ELSE 0

(* The loop ends, the entry is added and the session commits. *)
CommitPayment(p) ==
  LET c == CustomerOf[p] IN
  /\ pc[p] = "settling"
  /\ todo[p] = {} \/ (remaining[p] = 0 /\ ~dust[p])
  /\ pc' = [pc EXCEPT ![p] = "done"]
  /\ balance' = [balance EXCEPT ![c] = ReducedBalance(p)]
  /\ invoices' = [o \in Orders |->
       IF CustomerOf[o] = c THEN draft[p][o] ELSE invoices[o]]
  /\ ledger' = [ledger EXCEPT ![c] = Append(@,
       [kind |-> "PAYMENT_RECEIVED", ref |-> p,
        amount |-> -Settled(p), after |-> ReducedBalance(p)])]
  /\ UNCHANGED <<orderStatus, seen, orderLocals, paymentLocals>>

----
(* Sessions that do not commit *)

Running(s) == pc[s] \notin {"idle", "done", "failed"}

(* Mutant: what was flushed stays when the session fails. *)
KeepOrderRow(s) ==
  /\ pc' = [pc EXCEPT ![s] = "failed"]
  /\ orderStatus' = [o \in Orders |->
       IF o = s /\ pc[o] \in {"placed", "billed"} THEN "CONFIRMED" ELSE orderStatus[o]]
  /\ UNCHANGED <<balance, invoices, ledger, seen, orderLocals, paymentLocals>>
(* Mutant: a session that fails is neither rolled back nor closed. *)
NeverClosed(s) == UNCHANGED vars
RollBack(s) ==
  /\ pc' = [pc EXCEPT ![s] = "failed"]
  /\ UNCHANGED <<tables, seen, orderLocals, paymentLocals>>

(* get_db rolls back on any exception; a crash of the process does the same. *)
Fail(s) == Running(s) /\ RollBack(s)

(* Two sessions that both inserted for a customer and both want FOR UPDATE wait
   for each other; PostgreSQL aborts one of them, whichever it finds first. *)
DeadlockVictim(s) ==
  /\ WaitsForUpdate(s)
  /\ \E t \in Rivals(s) : WaitsForUpdate(t)
  /\ RollBack(s)

----
OrderStep(o) ==
  PlaceOrder(o) \/ CommitHold(o) \/ RecordInvoiceCreated(o) \/ CommitOrder(o)

PaymentStep(p) == LockForPayment(p) \/ SettleNext(p) \/ CommitPayment(p)

(* Every session has ended. *)
Quiescent ==
  /\ \A s \in Sessions : pc[s] \in {"done", "failed"}
  /\ UNCHANGED vars

Next ==
  \/ \E o \in Orders : LoadCustomer(o) \/ OrderStep(o)
  \/ \E p \in Payments : InsertPayment(p) \/ PaymentStep(p)
  \/ \E s \in Sessions : Fail(s) \/ DeadlockVictim(s)
  \/ Quiescent

Spec == Init /\ [][Next]_vars

(* The event loop resumes sessions that can go on, and PostgreSQL's deadlock
   detector runs.  As every session has finitely many steps, it is enough that
   some session moves.  None has to start, and none has to fail. *)
FairSpec ==
  /\ Spec
  /\ WF_vars((\E o \in Orders : OrderStep(o)) \/ \E p \in Payments : PaymentStep(p))
  /\ WF_vars(\E s \in Sessions : DeadlockVictim(s))

----
(* Properties *)

TypeOK ==
  /\ balance \in [Customers -> Nat]
  /\ invoices \in [Orders -> Invoice]
  /\ orderStatus \in [Orders -> {"none", "CONFIRMED", "CREDIT_HOLD"}]
  /\ ledger \in [Customers -> Seq(Entry)]
  /\ pc \in [Sessions -> {"idle", "loaded", "placed", "held", "billed",
                          "paying", "settling", "done", "failed"}]
  /\ seen \in [Sessions -> Nat]
  /\ bill \in [Orders -> [subtotal : Nat, total : Nat]]
  /\ known \in [Orders -> SUBSET Orders]
  /\ began \in [Orders -> Nat]
  /\ clock \in Nat \ {0}
  /\ receipt \in [Payments -> Nat]
  /\ remaining \in [Payments -> Nat]
  /\ dust \in [Payments -> BOOLEAN]
  /\ todo \in [Payments -> SUBSET Orders]
  /\ draft \in [Payments -> [Orders -> Invoice]]

(* An invoice's status tells what is owed on it: nothing is paid on an issued
   one, a partly paid one still owes money, a paid one owes nothing, and what
   was paid and what is due add up to its total but for the paisa that
   record_payment may write off. *)
Accounts(i) ==
  /\ i.status = "ISSUED" => i.paid = 0 /\ i.due = i.total
  /\ i.status = "PARTIALLY_PAID" => i.due > 0 /\ i.paid + i.due = i.total
  /\ i.status = "PAID" => i.due = 0 /\ i.total - i.paid \in {0, 1}
InvoiceAccounts == \A o \in Orders : Accounts(invoices[o])

Entries(c, kind) == {k \in 1 .. Len(ledger[c]) : ledger[c][k].kind = kind}
Amounts(c, kind) == [k \in Entries(c, kind) |-> ledger[c][k].amount]

(* Every rupee a customer's ledger shows as received is on one of the
   customer's invoices and every invoice is in the ledger, whatever sessions
   overlapped and whichever of them failed. *)
LedgerMatchesInvoices ==
  \A c \in Customers :
    LET paid == [o \in BilledTo(c) |-> invoices[o].paid]
        total == [o \in BilledTo(c) |-> invoices[o].total]
    IN /\ SumFunction(Amounts(c, "PAYMENT_RECEIVED")) = -SumFunction(paid)
       /\ SumFunction(Amounts(c, "INVOICE_CREATED")) = SumFunction(total)

Before(c, k) == IF k = 1 THEN 0 ELSE ledger[c][k - 1].after

(* The running balances of the ledger follow from its amounts. *)
Chained(c) ==
  \A k \in 1 .. Len(ledger[c]) :
    ledger[c][k].after = Before(c, k) + ledger[c][k].amount

(* If a customer's audit trail reads consistently then it can be trusted: the
   customer's balance is the last running balance and is what its invoices
   still owe, written-off paise included.  So every lost update between
   sessions shows as a break in the chain. *)
ChainedLedgerIsRight ==
  \A c \in Customers :
    LET owed == [o \in BilledTo(c) |-> invoices[o].total - invoices[o].paid] IN
    Chained(c) =>
      /\ balance[c] = SumFunction(owed)
      /\ ledger[c] # <<>> => balance[c] = ledger[c][Len(ledger[c])].after

(* A payment that has the customer's lock computes from current data: no other
   session changes the balance, or adds, pays or closes one of the customer's
   invoices, before it commits.  So payments do not lose each other's updates. *)
PaymentReadsCurrent ==
  \A p \in Payments : pc[p] = "settling" =>
    /\ seen[p] = balance[CustomerOf[p]]
    /\ todo[p] \subseteq OpenInvoices(CustomerOf[p])
    /\ \A o \in Orders : CustomerOf[o] = CustomerOf[p] =>
         /\ draft[p][o].total = invoices[o].total
         /\ draft[p][o].paid >= invoices[o].paid
         /\ o \notin OpenInvoices(CustomerOf[p]) \/ o \in todo[p] =>
              draft[p][o] = invoices[o]

(* FIFO settlement: when an invoice is paid on, every older invoice of the
   customer that was still open is paid off by the same commit. *)
OldestFirst ==
  [][\A o, i \in Orders :
       /\ CustomerOf[o] = CustomerOf[i]
       /\ began[i] < began[o]
       /\ i \in OpenInvoices(CustomerOf[i])
       /\ invoices[o].status # "none"
       /\ invoices'[o] # invoices[o]
       => invoices'[i].status = "PAID"]_vars

(* Two orders overlapped: neither saw the other's invoice when it began. *)
Overlapped(o, i) == o # i /\ o \notin known[i] /\ i \notin known[o]

(* Nothing but overlapping orders takes a customer over the credit limit by more
   than the tax of one order: as long as each order began after the one before
   it was billed, what all invoices still owe was checked, whatever payments
   were under way and whichever sessions failed.  Orders that overlap are
   checked on one balance and may all be billed. *)
OnlyOverlapPassesLimit ==
  \A c \in Customers :
    LET owed == SumFunction([o \in BilledTo(c) |-> invoices[o].total - invoices[o].paid])
    IN  \/ owed <= Limit[c]
        \/ \E o \in BilledTo(c) : owed <= Limit[c] + bill[o].total - bill[o].subtotal
        \/ \E o, i \in BilledTo(c) : Overlapped(o, i)

(* Committed books are never rewritten: ledger entries stay as they are, an
   invoice keeps its total, its payments never shrink, and a paid invoice never
   reopens, whichever session commits last. *)
BooksOnlyGrow ==
  [][/\ \A c \in Customers : \A k \in 1 .. Len(ledger[c]) :
          k <= Len(ledger'[c]) /\ ledger'[c][k] = ledger[c][k]
     /\ \A o \in Billed :
          /\ invoices'[o].total = invoices[o].total
          /\ invoices'[o].paid >= invoices[o].paid
          /\ invoices[o].status = "PAID" => invoices'[o] = invoices[o]]_vars

(* An order on credit hold is never billed and a confirmed order is billed
   exactly once: order row, invoice and ledger entry commit together. *)
OrderBilledOnce ==
  \A o \in Orders :
    LET c == CustomerOf[o]
        mine == {k \in Entries(c, "INVOICE_CREATED") : ledger[c][k].ref = o}
    IN IF orderStatus[o] = "CONFIRMED"
         THEN o \in Billed /\ Cardinality(mine) = 1
         ELSE o \notin Billed /\ mine = {}

(* No session waits for ever for a row lock: each one commits or is rolled
   back, also when inserts and FOR UPDATE deadlock on the customer row. *)
SessionsEnd == \A s \in Sessions : Running(s) ~> ~Running(s)

----
(* A statement of the repository that the code does not keep *)

(* credit_ledger_service.py:8, "Record double-entry ledger entries for audit
   trail": each entry's balance_after is the balance before it plus its
   amount. *)
LedgerChained == \A c \in Customers : Chained(c)
====
