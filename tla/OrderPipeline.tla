---- MODULE OrderPipeline ----
(***************************************************************************)
(* Deliveries side by side: what _process_message does in steps 2 to 11 for *)
(* every message of a delivery, over customers, stock rows, orders and      *)
(* invoices at once, in one READ COMMITTED transaction on one connection of *)
(* the pool, with the confirmation sent before the commit.                  *)
(*                                                                         *)
(* One tenant and one date.  CreditLedger has the balances: here the credit *)
(* check may go either way.  MessageIntake has redelivery: here every       *)
(* message comes once.                                                      *)
(***************************************************************************)
EXTENDS Integers, FiniteSets, Sequences

CONSTANTS
  Requests,      \* webhook requests, one delivery each
  Messages,      \* messages customers send
  DeliveryOf,    \* DeliveryOf[r]: the messages of r's delivery
  Phones,        \* the customers' phones
  Sender,        \* Sender[m]: the phone m comes from
  Names,         \* product names the parser may give
  Products,      \* the names the engine resolves, one for each product
  Readings,      \* Readings[m]: the lines m may be read as, <<>> if as no order
  StockRows,     \* products that have an inventory row
  FirstStock,    \* FirstStock[p]: its quantity at first
  Clerk,         \* who makes customers by POST /customers/
  FirstPhones,   \* phones the clerk has made a customer of at first
  Registered,    \* bound: phones the clerk may make a customer of, once each
  PoolSize       \* connections: pool_size + max_overflow

(* A quantity is a float above 0, in halves here; the engine finds the product. *)
Line == [name : Names, halves : Nat \ {0}]
Customer == [phone : Phones, by : Messages \cup {Clerk}]

ASSUME DeliveryAssumption ==
  /\ DeliveryOf \in [Requests -> Seq(Messages) \ {<<>>}]
  /\ Sender \in [Messages -> Phones]
  /\ \A r, s \in Requests : \A m \in 1 .. Len(DeliveryOf[r]) : \A n \in 1 .. Len(DeliveryOf[s]) :
       DeliveryOf[r][m] = DeliveryOf[s][n] => r = s /\ m = n
ASSUME ReadingsAssumption == Readings \in [Messages -> SUBSET Seq(Line)]
ASSUME StockAssumption ==
  Products \subseteq Names /\ StockRows \subseteq Products /\ FirstStock \in [Products -> Nat]
ASSUME ClerkAssumption ==
  Clerk \notin Messages /\ FirstPhones \subseteq Phones /\ Registered \subseteq Phones
ASSUME PoolAssumption == PoolSize \in Nat \ {0}

VARIABLES
  \* committed rows
  customers,
  stock,
  orders,
  invoices,
  \* the world outside: confirmations that may have gone out
  told,
  \* the requests
  connected, \* those that have a connection
  pc,
  results,   \* what _process_message returned for each message so far
  lines,     \* of the current message: parsed lines not canonicalized yet
  items,     \* the order items
  verdicts,  \* what became of the items deducted so far
  account,   \* the customer row found or made
  number,    \* the invoice number made, 0 before
  locked,    \* stock rows locked
  draft,     \* stock as the session has changed it
  mine,      \* rows inserted and not committed
  billed     \* customer rows locked FOR UPDATE

committed == <<customers, stock, orders, invoices>>
message == <<lines, items, verdicts, account, number>>
writes == <<locked, draft, mine, billed>>
vars == <<committed, told, connected, pc, results, message, writes>>

Item == [op : {"deduct"}, product : Products, quantity : Nat]
Order == [message : Messages, customer : Customer, status : {"confirmed", "credit_hold"}]
Invoice == [message : Messages, number : Nat]
Result == [message : Messages,
           status : {"no_order", "unresolved_products", "inventory_error", "credit_hold", "success"},
           items : Seq(Item), verdicts : Seq({"done", "short", "missing"}), number : Nat]
NoRows == [customers |-> {}, orders |-> {}, invoices |-> {}]
ByClerk(ph) == [phone |-> ph, by |-> Clerk]

Init ==
  /\ customers = {ByClerk(ph) : ph \in FirstPhones}
  /\ stock = FirstStock
  /\ orders = {}
  /\ invoices = {}
  /\ told = {}
  /\ connected = {}
  /\ pc = [r \in Requests |-> "reading"]
  /\ results = [r \in Requests |-> <<>>]
  /\ lines = [r \in Requests |-> <<>>]
  /\ items = [r \in Requests |-> <<>>]
  /\ verdicts = [r \in Requests |-> <<>>]
  /\ account = [r \in Requests |-> {}]
  /\ number = [r \in Requests |-> 0]
  /\ locked = [r \in Requests |-> {}]
  /\ draft = [r \in Requests |-> FirstStock]
  /\ mine = [r \in Requests |-> NoRows]
  /\ billed = [r \in Requests |-> {}]

----
(* One message: steps 2 and 3 *)

Current(r) == DeliveryOf[r][Len(results[r]) + 1]
Finished(r) == Len(results[r]) = Len(DeliveryOf[r])

(* _process_message returns; handle_event goes on to the next message. *)
Return(r, status) ==
  /\ results' = [results EXCEPT ![r] = Append(@,
       [message |-> Current(r), status |-> status, items |-> items[r],
        verdicts |-> verdicts[r], number |-> number[r]])]
  /\ pc' = [pc EXCEPT ![r] = "reading"]
  /\ lines' = [lines EXCEPT ![r] = <<>>]
  /\ items' = [items EXCEPT ![r] = <<>>]
  /\ verdicts' = [verdicts EXCEPT ![r] = <<>>]
  /\ account' = [account EXCEPT ![r] = {}]
  /\ number' = [number EXCEPT ![r] = 0]

(* There is no text, or the language model's answer is no order and the
   customer is asked to try again. *)
ReadNothing(r) ==
  /\ pc[r] = "reading" /\ ~Finished(r)
  /\ <<>> \in Readings[Current(r)]
  /\ Return(r, "no_order")
  /\ UNCHANGED <<committed, told, connected, writes>>

ReadOrder(r) ==
  /\ pc[r] = "reading" /\ ~Finished(r)
  /\ \E reading \in Readings[Current(r)] \ {<<>>} : lines' = [lines EXCEPT ![r] = reading]
  /\ pc' = [pc EXCEPT ![r] = "identifying"]
  /\ UNCHANGED <<committed, told, connected, results, items, verdicts, account, number, writes>>

----
(* Step 4: the session's first query takes a connection and keeps it *)

Connectable(r) == r \in connected \/ Cardinality(connected) < PoolSize
Found(r) == {c \in customers \cup mine[r].customers : c.phone = Sender[Current(r)]}

Identify(r, c) ==
  /\ pc' = [pc EXCEPT ![r] = "canonicalizing"]
  /\ account' = [account EXCEPT ![r] = {c}]
  /\ connected' = connected \cup {r}
  /\ UNCHANGED <<committed, told, results, lines, items, verdicts, number, locked, draft, billed>>

FindCustomer(r) ==
  /\ pc[r] = "identifying" /\ Connectable(r)
  /\ \E c \in Found(r) : Found(r) = {c} /\ Identify(r, c)
  /\ UNCHANGED mine

CreateCustomer(r) ==
  LET new == [phone |-> Sender[Current(r)], by |-> Current(r)] IN
  /\ pc[r] = "identifying" /\ Connectable(r)
  /\ Found(r) = {}
  /\ Identify(r, new)
  /\ mine' = [mine EXCEPT ![r].customers = @ \cup {new}]

(* POST /customers/ looks for no other row of the phone. *)
Register(ph) ==
  /\ ByClerk(ph) \notin customers
  /\ Cardinality(connected) < PoolSize
  /\ customers' = customers \cup {ByClerk(ph)}
  /\ UNCHANGED <<stock, orders, invoices, told, connected, pc, results, message, writes>>

----
(* Step 5 *)

(* int() *)
Pieces(halves) == halves \div 2

Canonicalize(r) ==
  LET line == Head(lines[r]) IN
  /\ pc[r] = "canonicalizing" /\ lines[r] # <<>>
  /\ lines' = [lines EXCEPT ![r] = Tail(@)]
  /\ items' = [items EXCEPT ![r] =
       IF line.name \in Products
         THEN Append(@, [op |-> "deduct", product |-> line.name, quantity |-> Pieces(line.halves)])
         ELSE @]
  /\ UNCHANGED <<committed, told, connected, pc, results, verdicts, account, number, writes>>

Canonicalized(r) == pc[r] = "canonicalizing" /\ lines[r] = <<>>

NothingResolved(r) ==
  /\ Canonicalized(r) /\ items[r] = <<>>
  /\ Return(r, "unresolved_products")
  /\ UNCHANGED <<committed, told, connected, writes>>

----
(* Step 6: deduct_stock, one row lock after the other *)

Deducting(r) == Canonicalized(r) /\ Len(verdicts[r]) < Len(items[r])
NextItem(r) == items[r][Len(verdicts[r]) + 1]

(* Mutant: the last piece is sold twice. *)
ShortByMore(have, i) == have < i.quantity - 1
Short(have, i) == have < i.quantity

Deduct(r) ==
  LET i == NextItem(r)
      have == IF i.product \in locked[r] THEN draft[r][i.product] ELSE stock[i.product]
  IN /\ Deducting(r)
     /\ i.product \in StockRows
     /\ \A t \in Requests \ {r} : i.product \notin locked[t]
     /\ locked' = [locked EXCEPT ![r] = @ \cup {i.product}]
     /\ draft' = [draft EXCEPT ![r][i.product] = IF Short(have, i) THEN have ELSE have - i.quantity]
     /\ verdicts' = [verdicts EXCEPT ![r] = Append(@, IF Short(have, i) THEN "short" ELSE "done")]
     /\ UNCHANGED <<committed, told, connected, pc, results, lines, items, account, number, mine, billed>>

MissRow(r) ==
  /\ Deducting(r)
  /\ NextItem(r).product \notin StockRows
  /\ verdicts' = [verdicts EXCEPT ![r] = Append(@, "missing")]
  /\ UNCHANGED <<committed, told, connected, pc, results, lines, items, account, number, writes>>

Deducted(r) == Canonicalized(r) /\ items[r] # <<>> /\ Len(verdicts[r]) = Len(items[r])
AllDone(r) == \A n \in 1 .. Len(verdicts[r]) : verdicts[r][n] = "done"

(* The deductions that were made stay. *)
InventoryError(r) ==
  /\ Deducted(r) /\ ~AllDone(r)
  /\ Return(r, "inventory_error")
  /\ UNCHANGED <<committed, told, connected, writes>>

----
(* Steps 7 and 8 *)

KeyShared(r) == {o.customer : o \in mine[r].orders}

(* Inserting the order takes FOR KEY SHARE on the customer row. *)
InsertOrder(r) ==
  /\ Deducted(r) /\ AllDone(r)
  /\ \A t \in Requests \ {r} : account[r] \cap billed[t] = {}
  /\ \E c \in account[r] : mine' = [mine EXCEPT ![r].orders =
       @ \cup {[message |-> Current(r), customer |-> c, status |-> "confirmed"]}]
  /\ pc' = [pc EXCEPT ![r] = "checking"]
  /\ UNCHANGED <<committed, told, connected, results, message, locked, draft, billed>>

(* The check goes either way. *)
OnHold(o, r) == IF o.message = Current(r) THEN [o EXCEPT !.status = "credit_hold"] ELSE o
HoldOrder(r) ==
  /\ pc[r] = "checking"
  /\ mine' = [mine EXCEPT ![r].orders = {OnHold(o, r) : o \in @}]
  /\ Return(r, "credit_hold")
  /\ UNCHANGED <<committed, told, connected, locked, draft, billed>>

----
(* Step 9 *)

CountInvoices(r) ==
  /\ pc[r] = "checking"
  /\ number' = [number EXCEPT ![r] = Cardinality(invoices) + Cardinality(mine[r].invoices) + 1]
  /\ pc' = [pc EXCEPT ![r] = "invoicing"]
  /\ UNCHANGED <<committed, told, connected, results, lines, items, verdicts, account, writes>>

Numbers(rows) == {i.number : i \in rows}
(* Mutant: an item of no piece is given a unit price all the same. *)
AlwaysDividable(r) == TRUE
(* The unit price on the invoice is the line's amount by its quantity. *)
Dividable(r) == \A n \in 1 .. Len(items[r]) : items[r][n].quantity > 0
(* Mutant: invoice_number is not unique. *)
NoIndex(r) == FALSE
Clashes(r) == number[r] \in Numbers(invoices \cup mine[r].invoices)
Inserting(r) == pc[r] = "invoicing" /\ Dividable(r) /\ ~Clashes(r)

InsertInvoice(r) ==
  /\ Inserting(r)
  /\ \A t \in Requests \ {r} : number[r] \notin Numbers(mine[t].invoices)
  /\ mine' = [mine EXCEPT ![r].invoices = @ \cup {[message |-> Current(r), number |-> number[r]]}]
  /\ pc' = [pc EXCEPT ![r] = "billing"]
  /\ UNCHANGED <<committed, told, connected, results, message, locked, draft, billed>>

----
(* Steps 10 and 11 *)

(* Mutant: record_invoice_created locks the tenant's customers, not the one. *)
EveryCustomer(r) == customers \cup account[r]
(* The rows that SELECT ... FOR UPDATE locks. *)
BilledRows(r) == account[r]

RecordInvoice(r) ==
  /\ pc[r] = "billing"
  /\ \A t \in Requests \ {r} : BilledRows(r) \cap (KeyShared(t) \cup billed[t]) = {}
  /\ billed' = [billed EXCEPT ![r] = @ \cup BilledRows(r)]
  /\ pc' = [pc EXCEPT ![r] = "confirming"]
  /\ UNCHANGED <<committed, told, connected, results, message, locked, draft, mine>>

(* send_text swallows its errors: from here on the customer may have read it. *)
Confirm(r) ==
  /\ pc[r] = "confirming"
  /\ told' = told \cup {[request |-> r, message |-> Current(r), number |-> number[r]]}
  /\ Return(r, "success")
  /\ UNCHANGED <<committed, connected, writes>>

----
(* get_db *)

Working(r) == pc[r] \notin {"done", "failed"}

(* The connection and the locks go back, what was not committed is gone. *)
EndAs(r, how) ==
  /\ pc' = [pc EXCEPT ![r] = how]
  /\ connected' = connected \ {r}
  /\ locked' = [locked EXCEPT ![r] = {}]
  /\ mine' = [mine EXCEPT ![r] = NoRows]
  /\ billed' = [billed EXCEPT ![r] = {}]
  /\ UNCHANGED <<told, results, message, draft>>

Commit(r) ==
  /\ pc[r] = "reading" /\ Finished(r)
  /\ customers' = customers \cup mine[r].customers
  /\ stock' = [p \in Products |-> IF p \in locked[r] THEN draft[r][p] ELSE stock[p]]
  /\ orders' = orders \cup mine[r].orders
  /\ invoices' = invoices \cup mine[r].invoices
  /\ EndAs(r, "done")

(* Mutant: a session that fails is neither rolled back nor closed. *)
NeverClosed(r) == UNCHANGED vars
RollBack(r) == EndAs(r, "failed") /\ UNCHANGED committed

(* scalar_one_or_none raises MultipleResultsFound. *)
FindTwo(r) ==
  /\ pc[r] = "identifying" /\ Connectable(r)
  /\ \E c, d \in Found(r) : c # d
  /\ RollBack(r)

(* pool_timeout *)
PoolTimeout(r) ==
  /\ pc[r] = "identifying" /\ ~Connectable(r)
  /\ RollBack(r)

(* A division by zero in create_invoice, before its flush. *)
Undividable(r) == pc[r] = "invoicing" /\ ~Dividable(r) /\ RollBack(r)

(* IntegrityError *)
LoseNumber(r) == pc[r] = "invoicing" /\ Dividable(r) /\ Clashes(r) /\ RollBack(r)

(* Any other exception, an answer of another service among them, or a crash. *)
Fail(r) == Working(r) /\ RollBack(r)

(* The sessions r waits for at a row lock or at an index entry. *)
WaitsFor(r, t) ==
  /\ r # t
  /\ \/ Deducting(r) /\ NextItem(r).product \in locked[t]
     \/ Deducted(r) /\ AllDone(r) /\ account[r] \cap billed[t] # {}
     \/ Inserting(r) /\ number[r] \in Numbers(mine[t].invoices)
     \/ pc[r] = "billing" /\ BilledRows(r) \cap (KeyShared(t) \cup billed[t]) # {}

Circle(C) ==
  /\ C # {}
  /\ \A t \in C : (\E u \in C : WaitsFor(t, u)) /\ (\E u \in C : WaitsFor(u, t))

(* The delivery has placed an order with an earlier message. *)
PlacedBefore(r) ==
  \E n \in 1 .. Len(results[r]) : results[r][n].status \in {"credit_hold", "success"}

(* PostgreSQL aborts a session that waits in a circle. *)
DeadlockVictim(r) ==
  /\ \E C \in SUBSET Requests : r \in C /\ Circle(C)
  /\ RollBack(r)

MessageStep(r) ==
  \/ ReadNothing(r) \/ ReadOrder(r)
  \/ FindCustomer(r) \/ CreateCustomer(r)
  \/ Canonicalize(r) \/ NothingResolved(r)
  \/ Deduct(r) \/ MissRow(r) \/ InventoryError(r)
  \/ InsertOrder(r) \/ HoldOrder(r)
  \/ CountInvoices(r) \/ InsertInvoice(r) \/ RecordInvoice(r) \/ Confirm(r)

SessionStep(r) ==
  \/ MessageStep(r) \/ Commit(r)
  \/ FindTwo(r) \/ PoolTimeout(r) \/ Undividable(r) \/ LoseNumber(r)

Quiescent == (\A r \in Requests : ~Working(r)) /\ UNCHANGED vars

Next ==
  \/ \E r \in Requests : SessionStep(r) \/ Fail(r) \/ DeadlockVictim(r)
  \/ \E ph \in Registered : Register(ph)
  \/ Quiescent

Spec == Init /\ [][Next]_vars

(* The event loop resumes sessions that can go on, and PostgreSQL's deadlock
   detector runs.  Every session has finitely many steps. *)
FairSpec ==
  /\ Spec
  /\ WF_vars(\E r \in Requests : SessionStep(r))
  /\ WF_vars(\E r \in Requests : DeadlockVictim(r))

----
(* Properties *)

(* Every variable keeps its type: stock is never below zero, and what a request
   holds is gone when it has ended. *)
TypeOK ==
  /\ customers \subseteq Customer
  /\ stock \in [Products -> Nat]
  /\ orders \subseteq Order
  /\ invoices \subseteq Invoice
  /\ told \subseteq [request : Requests, message : Messages, number : Nat]
  /\ connected \subseteq {r \in Requests : Working(r)}
  /\ pc \in [Requests -> {"reading", "identifying", "canonicalizing", "checking", "invoicing",
                          "billing", "confirming", "done", "failed"}]
  /\ results \in [Requests -> Seq(Result)]
  /\ lines \in [Requests -> Seq(Line)]
  /\ items \in [Requests -> Seq(Item)]
  /\ verdicts \in [Requests -> Seq({"done", "short", "missing"})]
  /\ account \in [Requests -> SUBSET Customer]
  /\ number \in [Requests -> Nat]
  /\ locked \in [Requests -> SUBSET StockRows]
  /\ draft \in [Requests -> [Products -> Nat]]
  /\ mine \in [Requests -> [customers : SUBSET Customer, orders : SUBSET Order,
                            invoices : SUBSET Invoice]]
  /\ billed \in [Requests -> SUBSET Customer]

(* A confirmation goes out before the commit, with a number another request may
   make too.  Still no two confirmations bear one number unless a request that
   sent one of them has failed since, and every other confirmed order is there
   with its invoice as soon as its request is through. *)
ToldIsBooked ==
  \A c \in told :
    /\ pc[c.request] = "done" =>
         /\ [message |-> c.message, number |-> c.number] \in invoices
         /\ \E o \in orders : o.message = c.message /\ o.status = "confirmed"
    /\ \A d \in told : c.number = d.number =>
         c.message = d.message \/ "failed" \in {pc[c.request], pc[d.request]}

(* One transaction locks stock rows, a customer row, an invoice number and the
   customer row again.  Single orders deadlock only over stock rows they take in
   opposite orders or when two of them are of one customer; anything else takes
   a delivery that has placed an order before. *)
DeadlocksHaveACause ==
  \A C \in SUBSET Requests : Circle(C) =>
    \/ \A r \in C : Deducting(r)
    \/ \E r, t \in C : r # t /\ KeyShared(r) \cap KeyShared(t) # {}
    \/ \E r \in C : PlacedBefore(r)

Promise == INSTANCE DeliveryPromise WITH
  answered <- [r \in Requests |-> IF pc[r] = "done" THEN results[r] ELSE <<>>]

(* A delivery takes effect on customers, stock, orders and invoices as if all
   its messages were processed in one step at its commit, or not at all. *)
KeepsPromise == Promise!Spec

(* Every request ends, with fewer connections than requests and whatever locks
   its messages wait for. *)
RequestsEnd == <>(\A r \in Requests : ~Working(r))
====
