---- MODULE OrderPipelineProofs ----
(***************************************************************************)
(* Types, confirmations that are booked, the causes of deadlocks, and that  *)
(* each delivery takes effect in one step (DeliveryPromise), for any number *)
(* of deliveries, messages, customers and products.                         *)
(***************************************************************************)
EXTENDS OrderPipeline, FiniteSetTheorems, SequenceTheorems, WellFoundedInduction, TLAPS

(* Where a message's order, and its invoice, are in the session. *)
Ordered == {"checking", "invoicing", "billing", "confirming"}
Invoiced == {"billing", "confirming"}
Busy == {"identifying", "canonicalizing"} \cup Ordered

Booked(o, m) == o.message = m /\ o.status = "confirmed"
InvoiceOf(c) == [message |-> c.message, number |-> c.number]

RequestInv(r) ==
  /\ Len(results[r]) <= Len(DeliveryOf[r])
  /\ pc[r] \in Busy => ~Finished(r)
  /\ IsFiniteSet(mine[r].invoices)
  /\ \A c, d \in account[r] : c = d
  /\ pc[r] \in Ordered =>
       \E o \in mine[r].orders : Booked(o, Current(r)) /\ account[r] = {o.customer}
  /\ pc[r] \in Invoiced => [message |-> Current(r), number |-> number[r]] \in mine[r].invoices
  /\ ~PlacedBefore(r) =>
       /\ mine[r].orders # {} => pc[r] \in Ordered
       /\ mine[r].invoices # {} => pc[r] \in Invoiced
       /\ billed[r] # {} => pc[r] = "confirming"

(* A confirmation is of a message the request is through with; its order and
   invoice are the session's until the commit, and the tables' after it. *)
ToldInv(c) ==
  /\ \E n \in 1 .. Len(results[c.request]) : c.message = DeliveryOf[c.request][n]
  /\ Working(c.request) =>
       /\ InvoiceOf(c) \in mine[c.request].invoices
       /\ \E o \in mine[c.request].orders : Booked(o, c.message)
  /\ pc[c.request] = "done" =>
       /\ InvoiceOf(c) \in invoices
       /\ \E o \in orders : Booked(o, c.message)

AllInvoices == invoices \cup UNION {mine[r].invoices : r \in Requests}
NumbersApart == \A i, j \in AllInvoices : i.number = j.number => i = j

IInv ==
  /\ TypeOK
  /\ IsFiniteSet(invoices)
  /\ \A r \in Requests : RequestInv(r)
  /\ \A c \in told : ToldInv(c)
  /\ NumbersApart

LEMMA InitInv == Init => IInv
<1> SUFFICES ASSUME Init PROVE IInv
  OBVIOUS
<1>1. TypeOK
  BY StockAssumption, ClerkAssumption DEF Init, TypeOK, NoRows, ByClerk, Customer, Working
<1>2. IsFiniteSet({})
  BY FS_EmptySet
<1>3. ASSUME NEW r \in Requests PROVE RequestInv(r)
  <2>1. DeliveryOf[r] \in Seq(Messages) /\ Len(DeliveryOf[r]) \in Nat
    BY DeliveryAssumption
  <2>2. /\ results[r] = <<>> /\ pc[r] = "reading" /\ billed[r] = {} /\ account[r] = {}
        /\ mine[r].orders = {} /\ mine[r].invoices = {}
    BY DEF Init, NoRows
  <2>3. Len(results[r]) = 0
    BY <2>2
  <2> QED
    BY <1>2, <2>1, <2>2, <2>3 DEF RequestInv, Busy, Ordered, Invoiced
<1>4. NumbersApart
  BY DEF Init, NumbersApart, AllInvoices, NoRows
<1> QED
  BY <1>1, <1>2, <1>3, <1>4 DEF IInv, Init

----
(* What a request that is not through works on. *)
LEMMA CurrentMessage ==
  ASSUME IInv, NEW r \in Requests, ~Finished(r)
  PROVE  /\ Len(results[r]) \in Nat
         /\ Len(results[r]) + 1 \in 1 .. Len(DeliveryOf[r])
         /\ Current(r) \in Messages
         /\ \A n \in 1 .. Len(results[r]) : DeliveryOf[r][n] # Current(r)
<1>1. /\ DeliveryOf[r] \in Seq(Messages)
      /\ results[r] \in Seq(Result)
      /\ Len(results[r]) <= Len(DeliveryOf[r])
  BY DeliveryAssumption DEF IInv, TypeOK, RequestInv
<1>2. /\ Len(results[r]) \in Nat
      /\ Len(results[r]) + 1 \in 1 .. Len(DeliveryOf[r])
  BY <1>1 DEF Finished
<1> QED
  BY <1>1, <1>2, DeliveryAssumption DEF Current

(* A message's result keeps every type. *)
LEMMA ReturnType ==
  ASSUME IInv, NEW r \in Requests, ~Finished(r), NEW status, Return(r, status),
         status \in {"no_order", "unresolved_products", "inventory_error", "credit_hold", "success"}
  PROVE  /\ results' \in [Requests -> Seq(Result)]
         /\ Len(results'[r]) = Len(results[r]) + 1
         /\ results'[r][Len(results'[r])].status = status
         /\ \A n \in 1 .. Len(results[r]) : results'[r][n] = results[r][n]
         /\ \A t \in Requests \ {r} : results'[t] = results[t]
         /\ pc' = [pc EXCEPT ![r] = "reading"]
         /\ lines' \in [Requests -> Seq(Line)]
         /\ items' \in [Requests -> Seq(Item)]
         /\ verdicts' \in [Requests -> Seq({"done", "short", "missing"})]
         /\ account' \in [Requests -> SUBSET Customer]
         /\ number' \in [Requests -> Nat]
<1>1. TypeOK /\ Current(r) \in Messages
  BY CurrentMessage DEF IInv
<1> DEFINE result == [message |-> Current(r), status |-> status, items |-> items[r],
                      verdicts |-> verdicts[r], number |-> number[r]]
<1>2. result \in Result
  BY <1>1 DEF TypeOK, Result
<1>3. results' = [results EXCEPT ![r] = Append(@, result)]
  BY DEF Return
<1>4. results \in [Requests -> Seq(Result)] /\ results[r] \in Seq(Result)
  BY <1>1 DEF TypeOK
<1>5. result.status = status
  OBVIOUS
<1> HIDE DEF result
<1>6. results'[r] = Append(results[r], result) /\ results' \in [Requests -> Seq(Result)]
  BY <1>2, <1>3, <1>4
<1>7. /\ Len(results'[r]) = Len(results[r]) + 1
      /\ results'[r][Len(results'[r])] = result
      /\ \A n \in 1 .. Len(results[r]) : results'[r][n] = results[r][n]
  BY <1>2, <1>4, <1>6
<1>8. \A t \in Requests \ {r} : results'[t] = results[t]
  BY <1>3, <1>4
<1> QED
  BY <1>1, <1>5, <1>6, <1>7, <1>8 DEF Return, TypeOK

(* A step of r leaves the other requests' state, and what they told, as it was. *)
LEMMA Others ==
  ASSUME IInv, NEW r \in Requests, NEW t \in Requests \ {r},
         results'[t] = results[t], pc'[t] = pc[t], mine'[t] = mine[t],
         account'[t] = account[t], number'[t] = number[t], billed'[t] = billed[t]
  PROVE  RequestInv(t)'
<1>1. RequestInv(t)
  BY DEF IInv
<1> QED
  BY <1>1 DEF RequestInv, PlacedBefore, Finished, Current, Booked

LEMMA ToldKept ==
  ASSUME IInv, NEW r \in Requests, NEW c \in told, Working(r), ~Finished(r),
         invoices' = invoices, orders' = orders, pc'[r] # "done",
         \A n \in 1 .. Len(results[r]) : n \in 1 .. Len(results'[r]),
         \A t \in Requests \ {r} :
           results'[t] = results[t] /\ pc'[t] = pc[t] /\ mine'[t] = mine[t],
         mine[r].invoices \subseteq mine'[r].invoices,
         \A o \in mine[r].orders : o.message # Current(r) => o \in mine'[r].orders
  PROVE  ToldInv(c)'
<1>1. ToldInv(c) /\ c.request \in Requests
  BY DEF IInv, TypeOK
<1>2. CASE c.request = r
  <2>1. c.message # Current(r)
    BY <1>1, <1>2, CurrentMessage DEF ToldInv
  <2>2. \E o \in mine'[r].orders : Booked(o, c.message)
    BY <1>1, <1>2, <2>1 DEF ToldInv, Booked
  <2> QED
    BY <1>1, <1>2, <2>2 DEF ToldInv, InvoiceOf
<1>3. CASE c.request # r
  BY <1>1, <1>3 DEF ToldInv, Working, InvoiceOf, Booked
<1> QED
  BY <1>2, <1>3

LEMMA StillApart ==
  ASSUME IInv, invoices' \subseteq AllInvoices,
         \A t \in Requests : mine'[t].invoices \subseteq AllInvoices
  PROVE  NumbersApart'
<1>1. AllInvoices' \subseteq AllInvoices
  BY DEF AllInvoices
<1> QED
  BY <1>1 DEF IInv, NumbersApart

(* What a step on a message has to keep, when it inserts no invoice. *)
LEMMA StepInv ==
  ASSUME IInv, NEW r \in Requests, Working(r), ~Finished(r), TypeOK', RequestInv(r)',
         invoices' = invoices, orders' = orders, pc'[r] # "done",
         \A c \in told' \ told : ToldInv(c)',
         \A n \in 1 .. Len(results[r]) : n \in 1 .. Len(results'[r]),
         \A t \in Requests \ {r} :
           /\ results'[t] = results[t] /\ pc'[t] = pc[t] /\ mine'[t] = mine[t]
           /\ account'[t] = account[t] /\ number'[t] = number[t] /\ billed'[t] = billed[t],
         mine'[r].invoices = mine[r].invoices,
         \A o \in mine[r].orders : o.message # Current(r) => o \in mine'[r].orders
  PROVE  IInv'
<1>1. \A t \in Requests : RequestInv(t)'
  BY Others
<1>2. \A c \in told' : ToldInv(c)'
  BY ToldKept
<1>3. NumbersApart'
  <2>1. \A t \in Requests : mine'[t].invoices = mine[t].invoices
    OBVIOUS
  <2> QED
    BY <2>1, StillApart DEF AllInvoices
<1> QED
  BY <1>1, <1>2, <1>3 DEF IInv

(* The same for a step that is through with the message. *)
LEMMA ReturnInv ==
  ASSUME IInv, NEW r \in Requests, ~Finished(r), NEW status, Return(r, status),
         status \in {"no_order", "unresolved_products", "inventory_error", "credit_hold", "success"},
         billed' = billed, mine'[r].invoices = mine[r].invoices,
         status \in {"credit_hold", "success"} \/ (mine' = mine /\ pc[r] \notin Ordered)
  PROVE  RequestInv(r)'
<1>1. /\ RequestInv(r)
      /\ Len(results[r]) \in Nat /\ Len(DeliveryOf[r]) \in Nat
      /\ Len(results[r]) + 1 <= Len(DeliveryOf[r])
  BY CurrentMessage DEF IInv
<1>2. /\ Len(results'[r]) = Len(results[r]) + 1
      /\ results'[r][Len(results'[r])].status = status
      /\ \A n \in 1 .. Len(results[r]) : results'[r][n] = results[r][n]
  BY ReturnType
<1>3. pc'[r] = "reading" /\ account'[r] = {}
  BY DEF Return, IInv, TypeOK
<1>4. /\ status \in {"credit_hold", "success"} => PlacedBefore(r)'
      /\ PlacedBefore(r) => PlacedBefore(r)'
  <2>1. ASSUME NEW n \in 1 .. Len(results'[r]),
               results'[r][n].status \in {"credit_hold", "success"}
        PROVE  PlacedBefore(r)'
    BY <2>1 DEF PlacedBefore
  <2>2. Len(results'[r]) \in 1 .. Len(results'[r])
    BY <1>1, <1>2
  <2>3. \A n \in 1 .. Len(results[r]) : n \in 1 .. Len(results'[r])
    BY <1>1, <1>2
  <2>4. status \in {"credit_hold", "success"} => PlacedBefore(r)'
    BY <1>2, <2>1, <2>2
  <2>5. PlacedBefore(r) => PlacedBefore(r)'
    <3>1. SUFFICES ASSUME PlacedBefore(r) PROVE PlacedBefore(r)'
      OBVIOUS
    <3>2. PICK n \in 1 .. Len(results[r]) : results[r][n].status \in {"credit_hold", "success"}
      BY <3>1 DEF PlacedBefore
    <3>3. n \in 1 .. Len(results'[r]) /\ results'[r][n].status \in {"credit_hold", "success"}
      BY <1>2, <2>3, <3>2
    <3> QED
      BY <2>1, <3>3
  <2> QED
    BY <2>4, <2>5
<1>5. ~PlacedBefore(r)' => mine'[r].orders = {} /\ mine'[r].invoices = {} /\ billed'[r] = {}
  BY <1>1, <1>4 DEF RequestInv, Invoiced, Ordered
<1> QED
  BY <1>1, <1>2, <1>3, <1>5 DEF RequestInv, Busy, Ordered, Invoiced

Statuses == {"no_order", "unresolved_products", "inventory_error", "credit_hold", "success"}
Mines == [customers : SUBSET Customer, orders : SUBSET Order, invoices : SUBSET Invoice]
Confirmation == [request : Requests, message : Messages, number : Nat]

LEMMA ReturnStepInv ==
  ASSUME IInv, NEW r \in Requests, Working(r), ~Finished(r),
         NEW status \in Statuses, Return(r, status),
         UNCHANGED <<committed, connected, locked, draft, billed>>,
         told' \subseteq Confirmation, \A c \in told' \ told : ToldInv(c)',
         mine' \in [Requests -> Mines], mine'[r].invoices = mine[r].invoices,
         \A t \in Requests \ {r} : mine'[t] = mine[t],
         \A o \in mine[r].orders : o.message # Current(r) => o \in mine'[r].orders,
         status \in {"credit_hold", "success"} \/ (mine' = mine /\ pc[r] \notin Ordered)
  PROVE  IInv'
<1>1. TypeOK
  BY DEF IInv
<1>2. /\ results' \in [Requests -> Seq(Result)]
      /\ Len(results'[r]) = Len(results[r]) + 1
      /\ \A t \in Requests \ {r} : results'[t] = results[t]
      /\ pc' = [pc EXCEPT ![r] = "reading"]
      /\ lines' \in [Requests -> Seq(Line)]
      /\ items' \in [Requests -> Seq(Item)]
      /\ verdicts' \in [Requests -> Seq({"done", "short", "missing"})]
      /\ account' \in [Requests -> SUBSET Customer]
      /\ number' \in [Requests -> Nat]
  BY ReturnType DEF Statuses
<1>3. connected' \subseteq {t \in Requests : Working(t)'}
  BY <1>1, <1>2 DEF TypeOK, Working
<1>4. TypeOK'
  BY <1>1, <1>2, <1>3 DEF TypeOK, committed, Mines, Confirmation
<1>5. RequestInv(r)'
  BY ReturnInv DEF Statuses
<1>6. \A n \in 1 .. Len(results[r]) : n \in 1 .. Len(results'[r])
  BY <1>2, CurrentMessage
<1>7. \A t \in Requests \ {r} :
        /\ pc'[t] = pc[t] /\ account'[t] = account[t]
        /\ number'[t] = number[t] /\ billed'[t] = billed[t]
  BY <1>1 DEF Return, TypeOK
<1>8. pc'[r] = "reading"
  BY <1>1, <1>2 DEF TypeOK
<1> QED
  BY <1>2, <1>4, <1>5, <1>6, <1>7, <1>8, StepInv DEF committed

----
(* One lemma per action. *)

LEMMA ReadNothingInv == ASSUME IInv, NEW r \in Requests, ReadNothing(r) PROVE IInv'
<1>1. TypeOK /\ pc[r] = "reading" /\ ~Finished(r) /\ Working(r)
  BY DEF IInv, ReadNothing, Working
<1> QED
  BY <1>1, ReturnStepInv DEF ReadNothing, TypeOK, writes, Statuses, Mines, Confirmation, Ordered

LEMMA ReadOrderInv == ASSUME IInv, NEW r \in Requests, ReadOrder(r) PROVE IInv'
<1>1. TypeOK /\ RequestInv(r) /\ pc[r] = "reading" /\ ~Finished(r) /\ Working(r)
  BY DEF IInv, ReadOrder, Working
<1>2. lines' \in [Requests -> Seq(Line)]
  BY <1>1, CurrentMessage, ReadingsAssumption DEF ReadOrder, TypeOK
<1>3. TypeOK'
  BY <1>1, <1>2 DEF ReadOrder, TypeOK, committed, writes, Working
<1>4. RequestInv(r)'
  BY <1>1 DEF ReadOrder, TypeOK, committed, writes, RequestInv, Busy, Ordered, Invoiced,
    Finished, Current, PlacedBefore
<1> QED
  BY <1>1, <1>3, <1>4, StepInv DEF ReadOrder, committed, writes, TypeOK

LEMMA IdentifyInv ==
  ASSUME IInv, NEW r \in Requests, NEW c \in Customer, Identify(r, c), pc[r] = "identifying",
         mine' = mine \/ mine' = [mine EXCEPT ![r].customers = @ \cup {c}]
  PROVE  IInv'
<1>1. TypeOK /\ RequestInv(r) /\ ~Finished(r) /\ Working(r)
  BY DEF IInv, RequestInv, Busy, Working
<1>2. mine \in [Requests -> Mines] /\ mine[r] \in Mines
  BY <1>1 DEF TypeOK, Mines
<1>3. /\ mine' \in [Requests -> Mines]
      /\ mine'[r].orders = mine[r].orders /\ mine'[r].invoices = mine[r].invoices
      /\ \A t \in Requests \ {r} : mine'[t] = mine[t]
  <2>1. CASE mine' = mine
    BY <1>2, <2>1
  <2>2. CASE mine' = [mine EXCEPT ![r].customers = @ \cup {c}]
    <3>1. [mine[r] EXCEPT !.customers = @ \cup {c}] \in Mines
      BY <1>2 DEF Mines
    <3>2. mine' = [mine EXCEPT ![r] = [mine[r] EXCEPT !.customers = @ \cup {c}]]
      BY <1>2, <2>2
    <3> QED
      BY <1>2, <3>1, <3>2 DEF Mines
  <2> QED
    BY <2>1, <2>2
<1>4. connected' \subseteq {t \in Requests : Working(t)'}
  BY <1>1 DEF Identify, TypeOK, Working
<1>5. TypeOK'
  BY <1>1, <1>3, <1>4, SMTT(30) DEF Identify, TypeOK, committed, Mines
<1>6. RequestInv(r)'
  BY <1>1, <1>3 DEF Identify, TypeOK, RequestInv, Busy, Ordered, Invoiced,
    Finished, Current, PlacedBefore
<1> QED
  BY <1>1, <1>3, <1>5, <1>6, StepInv DEF Identify, committed, TypeOK

LEMMA FindCustomerInv == ASSUME IInv, NEW r \in Requests, FindCustomer(r) PROVE IInv'
<1>1. PICK c \in Found(r) : Identify(r, c)
  BY DEF FindCustomer
<1>2. c \in Customer
  BY <1>1 DEF Found, IInv, TypeOK
<1> QED
  BY <1>1, <1>2, IdentifyInv DEF FindCustomer

LEMMA CreateCustomerInv == ASSUME IInv, NEW r \in Requests, CreateCustomer(r) PROVE IInv'
<1> DEFINE new == [phone |-> Sender[Current(r)], by |-> Current(r)]
<1>1. ~Finished(r)
  BY DEF CreateCustomer, IInv, RequestInv, Busy
<1>2. new \in Customer
  BY <1>1, CurrentMessage, DeliveryAssumption DEF Customer
<1>3. /\ pc[r] = "identifying" /\ Identify(r, new)
      /\ mine' = [mine EXCEPT ![r].customers = @ \cup {new}]
  BY DEF CreateCustomer
<1> HIDE DEF new
<1> QED
  BY <1>2, <1>3, IdentifyInv

LEMMA RegisterInv == ASSUME IInv, NEW ph \in Registered, Register(ph) PROVE IInv'
<1>1. TypeOK'
  BY ClerkAssumption DEF IInv, TypeOK, Register, ByClerk, Customer, message, writes, Working
<1>2. ASSUME NEW t \in Requests PROVE RequestInv(t)'
  <2>1. RequestInv(t)
    BY DEF IInv
  <2> QED
    BY <2>1 DEF Register, message, writes, RequestInv, PlacedBefore, Finished, Current
<1>3. ASSUME NEW c \in told PROVE ToldInv(c)'
  <2>1. ToldInv(c)
    BY DEF IInv
  <2> QED
    BY <2>1 DEF Register, writes, ToldInv, Working
<1> QED
  BY <1>1, <1>2, <1>3 DEF IInv, Register, message, writes, NumbersApart, AllInvoices

LEMMA CanonicalizeInv == ASSUME IInv, NEW r \in Requests, Canonicalize(r) PROVE IInv'
<1>1. TypeOK /\ RequestInv(r) /\ pc[r] = "canonicalizing" /\ ~Finished(r) /\ Working(r)
  BY DEF IInv, Canonicalize, RequestInv, Busy, Working
<1>2. lines[r] \in Seq(Line) /\ lines[r] # <<>>
  BY <1>1 DEF TypeOK, Canonicalize
<1>3. Head(lines[r]) \in Line /\ Tail(lines[r]) \in Seq(Line)
  BY <1>2
<1>4. Pieces(Head(lines[r]).halves) \in Nat
  BY <1>3 DEF Pieces, Line
<1>5. lines' \in [Requests -> Seq(Line)] /\ items' \in [Requests -> Seq(Item)]
  <2> DEFINE item == [op |-> "deduct", product |-> Head(lines[r]).name,
                      quantity |-> Pieces(Head(lines[r]).halves)]
  <2>1. Head(lines[r]).name \in Products => item \in Item
    BY <1>4 DEF Item
  <2>2. items[r] \in Seq(Item)
    BY <1>1 DEF TypeOK
  <2>3. Head(lines[r]).name \in Products => Append(items[r], item) \in Seq(Item)
    BY <2>1, <2>2
  <2>4. items' = [items EXCEPT ![r] =
           IF Head(lines[r]).name \in Products THEN Append(@, item) ELSE @]
    BY DEF Canonicalize
  <2> HIDE DEF item
  <2>5. items' \in [Requests -> Seq(Item)]
    BY <1>1, <2>2, <2>3, <2>4 DEF TypeOK
  <2> QED
    BY <1>1, <1>3, <2>5 DEF Canonicalize, TypeOK
<1>6. TypeOK'
  BY <1>1, <1>5 DEF Canonicalize, TypeOK, committed, writes, Working
<1>7. RequestInv(r)'
  BY <1>1 DEF Canonicalize, TypeOK, writes, RequestInv, Busy, Ordered, Invoiced,
    Finished, Current, PlacedBefore
<1> QED
  BY <1>1, <1>6, <1>7, StepInv DEF Canonicalize, committed, writes, TypeOK

LEMMA NothingResolvedInv == ASSUME IInv, NEW r \in Requests, NothingResolved(r) PROVE IInv'
<1>1. TypeOK /\ pc[r] = "canonicalizing" /\ ~Finished(r) /\ Working(r)
  BY DEF IInv, NothingResolved, Canonicalized, RequestInv, Busy, Working
<1> QED
  BY <1>1, ReturnStepInv
  DEF NothingResolved, TypeOK, writes, Statuses, Mines, Confirmation, Ordered

LEMMA NextItemType ==
  ASSUME IInv, NEW r \in Requests, Deducting(r)
  PROVE  NextItem(r) \in Item
BY DEF Deducting, NextItem, IInv, TypeOK

LEMMA DeductInv == ASSUME IInv, NEW r \in Requests, Deduct(r) PROVE IInv'
<1>1. TypeOK /\ RequestInv(r) /\ pc[r] = "canonicalizing" /\ ~Finished(r) /\ Working(r)
  BY DEF IInv, Deduct, Deducting, Canonicalized, RequestInv, Busy, Working
<1>2. PICK i, have, v, left :
        /\ i = NextItem(r)
        /\ have = IF i.product \in locked[r] THEN draft[r][i.product] ELSE stock[i.product]
        /\ v = IF Short(have, i) THEN "short" ELSE "done"
        /\ left = IF Short(have, i) THEN have ELSE have - i.quantity
  OBVIOUS
<1>3. i \in Item /\ i.product \in StockRows /\ i.product \in Products /\ i.quantity \in Nat
  BY <1>2, NextItemType DEF Deduct, Item
<1>4. have \in Nat /\ left \in Nat /\ v \in {"done", "short", "missing"}
  BY <1>1, <1>2, <1>3, SMTT(30) DEF TypeOK, Short
<1>5. /\ locked' = [locked EXCEPT ![r] = @ \cup {i.product}]
      /\ draft' = [draft EXCEPT ![r][i.product] = left]
      /\ verdicts' = [verdicts EXCEPT ![r] = Append(@, v)]
      /\ UNCHANGED <<committed, told, connected, pc, results, lines, items, account, number, mine, billed>>
  BY <1>2 DEF Deduct
<1>6. /\ locked' \in [Requests -> SUBSET StockRows]
      /\ draft' \in [Requests -> [Products -> Nat]]
      /\ verdicts' \in [Requests -> Seq({"done", "short", "missing"})]
  BY <1>1, <1>3, <1>4, <1>5 DEF TypeOK
<1>7. TypeOK'
  BY <1>1, <1>5, <1>6 DEF TypeOK, committed, Working
<1>8. RequestInv(r)'
  BY <1>1, <1>5 DEF RequestInv, Finished, Current, PlacedBefore
<1> QED
  BY <1>1, <1>5, <1>7, <1>8, StepInv DEF committed

LEMMA MissRowInv == ASSUME IInv, NEW r \in Requests, MissRow(r) PROVE IInv'
<1>1. TypeOK /\ RequestInv(r) /\ pc[r] = "canonicalizing" /\ ~Finished(r) /\ Working(r)
  BY DEF IInv, MissRow, Deducting, Canonicalized, RequestInv, Busy, Working
<1>2. verdicts' \in [Requests -> Seq({"done", "short", "missing"})]
  BY <1>1 DEF MissRow, TypeOK
<1>3. TypeOK'
  BY <1>1, <1>2 DEF MissRow, TypeOK, committed, writes, Working
<1>4. RequestInv(r)'
  BY <1>1 DEF MissRow, writes, RequestInv, Finished, Current, PlacedBefore
<1> QED
  BY <1>1, <1>3, <1>4, StepInv DEF MissRow, committed, writes

LEMMA InventoryErrorInv == ASSUME IInv, NEW r \in Requests, InventoryError(r) PROVE IInv'
<1>1. TypeOK /\ pc[r] = "canonicalizing" /\ ~Finished(r) /\ Working(r)
  BY DEF IInv, InventoryError, Deducted, Canonicalized, RequestInv, Busy, Working
<1> QED
  BY <1>1, ReturnStepInv
  DEF InventoryError, TypeOK, writes, Statuses, Mines, Confirmation, Ordered

LEMMA InsertOrderInv == ASSUME IInv, NEW r \in Requests, InsertOrder(r) PROVE IInv'
<1>1. TypeOK /\ RequestInv(r) /\ pc[r] = "canonicalizing" /\ ~Finished(r) /\ Working(r)
  BY DEF IInv, InsertOrder, Deducted, Canonicalized, RequestInv, Busy, Working
<1> DEFINE new(c) == [message |-> Current(r), customer |-> c, status |-> "confirmed"]
<1>2. PICK c \in account[r] : mine' = [mine EXCEPT ![r].orders = @ \cup {new(c)}]
  BY DEF InsertOrder
<1>3. new(c) \in Order
  BY <1>1, <1>2, CurrentMessage DEF TypeOK, Order
<1>4. mine \in [Requests -> Mines] /\ mine[r] \in Mines
  BY <1>1 DEF TypeOK, Mines
<1>5. mine'[r].orders = mine[r].orders \cup {new(c)} /\ mine'[r].invoices = mine[r].invoices
  BY <1>2, <1>4 DEF Mines
<1> HIDE DEF new
<1>6. mine' \in [Requests -> Mines] /\ \A t \in Requests \ {r} : mine'[t] = mine[t]
  BY <1>2, <1>3, <1>4 DEF Mines
<1> USE DEF new
<1>7. UNCHANGED <<committed, told, connected, results, message, locked, draft, billed>>
  BY DEF InsertOrder
<1>8. pc' = [pc EXCEPT ![r] = "checking"]
  BY DEF InsertOrder
<1>9. TypeOK'
  BY <1>1, <1>6, <1>7, <1>8 DEF TypeOK, committed, message, Mines, Working
<1>10. account'[r] = {c}
  BY <1>1, <1>2, <1>7 DEF RequestInv, message
<1>11. RequestInv(r)'
  <2>1. pc'[r] = "checking"
    BY <1>1, <1>8 DEF TypeOK
  <2>2. /\ Finished(r)' <=> Finished(r)
        /\ Current(r)' = Current(r)
        /\ PlacedBefore(r)' <=> PlacedBefore(r)
    BY <1>7 DEF Finished, Current, PlacedBefore
  <2>3. new(c) \in mine'[r].orders /\ Booked(new(c), Current(r)) /\ new(c).customer = c
    BY <1>5 DEF Booked
  <2>4. \E o \in mine'[r].orders : Booked(o, Current(r)) /\ account'[r] = {o.customer}
    BY <1>10, <2>3
  <2>5. /\ results' = results /\ billed'[r] = billed[r]
        /\ mine'[r].invoices = mine[r].invoices /\ account'[r] = {c}
    BY <1>5, <1>7, <1>10
  <2>6. ~PlacedBefore(r) => mine[r].invoices = {} /\ billed[r] = {}
    BY <1>1 DEF RequestInv, Invoiced
  <2> HIDE DEF new
  <2> QED
    BY <1>1, <2>1, <2>2, <2>4, <2>5, <2>6 DEF RequestInv, Booked, Busy, Ordered, Invoiced
<1> QED
  BY <1>1, <1>5, <1>6, <1>7, <1>8, <1>9, <1>11, StepInv DEF committed, message, TypeOK

LEMMA HoldOrderInv == ASSUME IInv, NEW r \in Requests, HoldOrder(r) PROVE IInv'
<1>1. TypeOK /\ pc[r] = "checking" /\ ~Finished(r) /\ Working(r)
  BY DEF IInv, HoldOrder, RequestInv, Busy, Ordered, Working
<1>2. mine \in [Requests -> Mines] /\ mine[r] \in Mines
  BY <1>1 DEF TypeOK, Mines
<1> DEFINE held == {OnHold(o, r) : o \in mine[r].orders}
<1>3. mine' = [mine EXCEPT ![r].orders = held]
  BY DEF HoldOrder
<1>4. held \subseteq Order
  <2>1. ASSUME NEW o \in mine[r].orders PROVE OnHold(o, r) \in Order
    <3>1. o \in Order
      BY <1>2 DEF Mines
    <3> QED
      BY <3>1 DEF OnHold, Order
  <2> QED
    BY <2>1
<1>5. \A o \in mine[r].orders : o.message # Current(r) => o \in held
  BY DEF OnHold
<1> HIDE DEF held
<1>6. /\ mine' \in [Requests -> Mines]
      /\ mine'[r].orders = held /\ mine'[r].invoices = mine[r].invoices
      /\ \A t \in Requests \ {r} : mine'[t] = mine[t]
  BY <1>2, <1>3, <1>4 DEF Mines
<1>7. told \subseteq Confirmation
  BY <1>1 DEF TypeOK, Confirmation
<1>8. /\ Return(r, "credit_hold") /\ "credit_hold" \in Statuses
      /\ UNCHANGED <<committed, told, connected, locked, draft, billed>>
  BY DEF HoldOrder, Statuses
<1> QED
  BY <1>1, <1>5, <1>6, <1>7, <1>8, ReturnStepInv

LEMMA CountInvoicesInv == ASSUME IInv, NEW r \in Requests, CountInvoices(r) PROVE IInv'
<1>1. TypeOK /\ RequestInv(r) /\ pc[r] = "checking" /\ ~Finished(r) /\ Working(r)
  BY DEF IInv, CountInvoices, RequestInv, Busy, Ordered, Working
<1>2. Cardinality(invoices) \in Nat /\ Cardinality(mine[r].invoices) \in Nat
  BY <1>1, FS_CardinalityType DEF IInv, RequestInv
<1>3. number' \in [Requests -> Nat]
  BY <1>1, <1>2 DEF CountInvoices, TypeOK
<1>4. TypeOK'
  BY <1>1, <1>3 DEF CountInvoices, TypeOK, committed, writes, Working
<1>5. RequestInv(r)'
  BY <1>1 DEF CountInvoices, TypeOK, writes, RequestInv, Busy, Ordered, Invoiced, Booked,
    Finished, Current, PlacedBefore
<1> QED
  BY <1>1, <1>4, <1>5, StepInv DEF CountInvoices, committed, writes, TypeOK

LEMMA RecordInvoiceInv == ASSUME IInv, NEW r \in Requests, RecordInvoice(r) PROVE IInv'
<1>1. TypeOK /\ RequestInv(r) /\ pc[r] = "billing" /\ ~Finished(r) /\ Working(r)
  BY DEF IInv, RecordInvoice, RequestInv, Busy, Ordered, Working
<1>2. TypeOK'
  BY <1>1 DEF RecordInvoice, BilledRows, TypeOK, committed, message, Working
<1>3. RequestInv(r)'
  BY <1>1 DEF RecordInvoice, TypeOK, message, RequestInv, Busy, Ordered, Invoiced, Booked,
    Finished, Current, PlacedBefore
<1> QED
  BY <1>1, <1>2, <1>3, StepInv DEF RecordInvoice, committed, message, TypeOK

LEMMA ConfirmInv == ASSUME IInv, NEW r \in Requests, Confirm(r) PROVE IInv'
<1>1. TypeOK /\ RequestInv(r) /\ pc[r] = "confirming" /\ ~Finished(r) /\ Working(r)
  BY DEF IInv, Confirm, RequestInv, Busy, Ordered, Working
<1>0. PICK new : new = [request |-> r, message |-> Current(r), number |-> number[r]]
  OBVIOUS
<1>2. /\ told' = told \cup {new} /\ Return(r, "success") /\ "success" \in Statuses
      /\ UNCHANGED <<committed, connected, writes>>
  BY <1>0 DEF Confirm, Statuses
<1>3. told' \subseteq Confirmation
  BY <1>0, <1>1, <1>2, CurrentMessage DEF TypeOK, Confirmation
<1>4. ToldInv(new)'
  <2>1. new.message = DeliveryOf[r][Len(results[r]) + 1] /\ Len(results'[r]) = Len(results[r]) + 1
    BY <1>0, <1>1, <1>2, ReturnType DEF Current, Statuses
  <2>2. \E n \in 1 .. Len(results'[r]) : new.message = DeliveryOf[r][n]
    BY <1>1, <2>1, CurrentMessage
  <2>3. pc'[r] = "reading"
    BY <1>1, <1>2 DEF Return, TypeOK
  <2>4. InvoiceOf(new) \in mine'[r].invoices
    BY <1>0, <1>1, <1>2 DEF RequestInv, Invoiced, InvoiceOf, writes
  <2>5. \E o \in mine'[r].orders : Booked(o, new.message)
    BY <1>0, <1>1, <1>2 DEF RequestInv, Ordered, writes
  <2>6. new.request = r
    BY <1>0
  <2> QED
    BY <2>2, <2>3, <2>4, <2>5, <2>6 DEF ToldInv, Working, Booked, InvoiceOf
<1>5. mine' \in [Requests -> Mines] /\ mine' = mine
  BY <1>1, <1>2 DEF TypeOK, Mines, writes
<1> QED
  BY <1>1, <1>2, <1>3, <1>4, <1>5, ReturnStepInv DEF writes

LEMMA InsertInvoiceInv == ASSUME IInv, NEW r \in Requests, InsertInvoice(r) PROVE IInv'
<1>1. TypeOK /\ RequestInv(r) /\ pc[r] = "invoicing" /\ ~Finished(r) /\ Working(r)
  BY DEF IInv, InsertInvoice, Inserting, RequestInv, Busy, Ordered, Working
<1>2. PICK new : new = [message |-> Current(r), number |-> number[r]]
  OBVIOUS
<1>3. new \in Invoice
  BY <1>1, <1>2, CurrentMessage DEF TypeOK, Invoice
<1>4. mine \in [Requests -> Mines] /\ mine[r] \in Mines
  BY <1>1 DEF TypeOK, Mines
<1>5. mine' = [mine EXCEPT ![r].invoices = @ \cup {new}]
  BY <1>2 DEF InsertInvoice
<1>6. /\ mine' \in [Requests -> Mines]
      /\ mine'[r].invoices = mine[r].invoices \cup {new} /\ mine'[r].orders = mine[r].orders
      /\ \A t \in Requests \ {r} : mine'[t] = mine[t]
  BY <1>3, <1>4, <1>5 DEF Mines
<1>7. /\ UNCHANGED <<committed, told, connected, results, message, locked, draft, billed>>
      /\ pc' = [pc EXCEPT ![r] = "billing"]
  BY DEF InsertInvoice
<1>8. TypeOK'
  BY <1>1, <1>6, <1>7 DEF TypeOK, committed, message, Mines, Working
<1>9. RequestInv(r)'
  <2>1. IsFiniteSet(mine'[r].invoices)
    <3>1. IsFiniteSet(mine[r].invoices)
      BY <1>1 DEF RequestInv
    <3>2. IsFiniteSet(mine[r].invoices \cup {new})
      BY <3>1, FS_AddElement
    <3> QED
      BY <1>6, <3>2
  <2>2. new \in mine'[r].invoices /\ pc'[r] = "billing"
    BY <1>1, <1>6, <1>7 DEF TypeOK
  <2>3. /\ Finished(r)' <=> Finished(r)
        /\ Current(r)' = Current(r) /\ number'[r] = number[r] /\ account'[r] = account[r]
        /\ PlacedBefore(r)' <=> PlacedBefore(r)
        /\ results' = results /\ billed' = billed
    BY <1>7 DEF Finished, Current, PlacedBefore, message
  <2> QED
    BY <1>1, <1>2, <1>6, <2>1, <2>2, <2>3
    DEF RequestInv, Busy, Ordered, Invoiced, Booked
<1>10. \A t \in Requests \ {r} : RequestInv(t)'
  BY <1>1, <1>6, <1>7, Others DEF TypeOK, message
<1>11. \A c \in told' : ToldInv(c)'
  <2>1. \A n \in 1 .. Len(results[r]) : n \in 1 .. Len(results'[r])
    BY <1>7
  <2>2. pc'[r] # "done" /\ \A t \in Requests \ {r} : pc'[t] = pc[t]
    BY <1>1, <1>7 DEF TypeOK
  <2> QED
    BY <1>1, <1>6, <1>7, <2>1, <2>2, ToldKept DEF committed
<1>12. NumbersApart'
  <2>1. \A i \in AllInvoices : i.number # new.number
    <3>1. new.number = number[r]
      BY <1>2
    <3>2. \A i \in invoices \cup mine[r].invoices : i.number # new.number
      BY <3>1 DEF InsertInvoice, Inserting, Clashes, Numbers
    <3>3. \A t \in Requests \ {r} : \A i \in mine[t].invoices : i.number # new.number
      BY <3>1 DEF InsertInvoice, Numbers
    <3>4. ASSUME NEW i \in AllInvoices PROVE i.number # new.number
      <4>1. i \in invoices \/ \E t \in Requests : i \in mine[t].invoices
        BY DEF AllInvoices
      <4> QED
        BY <3>2, <3>3, <4>1
    <3> QED
      BY <3>4
  <2>2. AllInvoices' \subseteq AllInvoices \cup {new}
    <3>1. invoices' = invoices
      BY <1>7 DEF committed
    <3>2. \A t \in Requests : mine'[t].invoices \subseteq mine[t].invoices \cup {new}
      BY <1>6
    <3>3. ASSUME NEW i \in AllInvoices' PROVE i \in AllInvoices \cup {new}
      <4>1. i \in invoices \/ \E t \in Requests : i \in mine'[t].invoices
        BY <3>1 DEF AllInvoices
      <4> QED
        BY <3>2, <4>1 DEF AllInvoices
    <3> QED
      BY <3>3
  <2> QED
    BY <2>1, <2>2 DEF IInv, NumbersApart
<1> QED
  BY <1>7, <1>8, <1>9, <1>10, <1>11, <1>12 DEF IInv, committed

(* The end of a session, whatever becomes of the committed rows. *)
LEMMA EndInv ==
  ASSUME IInv, NEW r \in Requests, NEW how \in {"done", "failed"}, EndAs(r, how)
  PROVE  /\ \A t \in Requests : RequestInv(t)'
         /\ pc' = [pc EXCEPT ![r] = how]
         /\ connected' \subseteq {t \in Requests : Working(t)'}
         /\ mine' = [mine EXCEPT ![r] = NoRows] /\ mine' \in [Requests -> Mines]
         /\ locked' \in [Requests -> SUBSET StockRows]
         /\ billed' \in [Requests -> SUBSET Customer]
<1>1. TypeOK
  BY DEF IInv
<1>2. NoRows \in Mines /\ NoRows.invoices = {} /\ NoRows.orders = {}
  BY DEF NoRows, Mines
<1>3. /\ pc' = [pc EXCEPT ![r] = how]
      /\ mine' = [mine EXCEPT ![r] = NoRows] /\ billed' = [billed EXCEPT ![r] = {}]
      /\ UNCHANGED <<told, results, message, draft>>
  BY DEF EndAs
<1>4. RequestInv(r)'
  <2>1. pc'[r] = how /\ billed'[r] = {} /\ mine'[r].invoices = {} /\ mine'[r].orders = {}
    BY <1>1, <1>2, <1>3 DEF TypeOK
  <2>2. RequestInv(r) /\ results' = results /\ account' = account
    BY <1>3 DEF IInv, message
  <2> QED
    BY <2>1, <2>2, FS_EmptySet DEF RequestInv, Busy, Ordered, Invoiced
<1>5. \A t \in Requests \ {r} : RequestInv(t)'
  BY <1>1, <1>3, Others DEF TypeOK, message
<1> QED
  BY <1>1, <1>2, <1>3, <1>4, <1>5 DEF EndAs, TypeOK, Mines, Working

LEMMA RollBackInv == ASSUME IInv, NEW r \in Requests, RollBack(r) PROVE IInv'
<1>1. EndAs(r, "failed") /\ UNCHANGED committed /\ TypeOK
  BY DEF RollBack, IInv
<1>2. TypeOK'
  BY <1>1, EndInv DEF EndAs, TypeOK, committed, message, Mines
<1>3. ASSUME NEW c \in told PROVE ToldInv(c)'
  <2>1. ToldInv(c) /\ c.request \in Requests
    BY <1>1 DEF IInv, TypeOK
  <2>2. \A t \in Requests \ {r} : pc'[t] = pc[t] /\ mine'[t] = mine[t]
    BY <1>1 DEF EndAs, TypeOK
  <2>3. pc'[r] = "failed" /\ results' = results
    BY <1>1 DEF EndAs, TypeOK
  <2> QED
    BY <1>1, <2>1, <2>2, <2>3 DEF ToldInv, Working, committed, Booked, InvoiceOf
<1>4. NumbersApart'
  <2>1. \A t \in Requests : mine'[t].invoices \subseteq AllInvoices
    BY <1>1 DEF EndAs, TypeOK, NoRows, AllInvoices
  <2> QED
    BY <1>1, <2>1, StillApart DEF committed, AllInvoices
<1> QED
  BY <1>1, <1>2, <1>3, <1>4, EndInv DEF IInv, EndAs, committed

LEMMA CommitInv == ASSUME IInv, NEW r \in Requests, Commit(r) PROVE IInv'
<1>1. EndAs(r, "done") /\ TypeOK /\ pc[r] = "reading" /\ mine[r] \in Mines
  BY DEF Commit, IInv, TypeOK, Mines
<1>2. /\ customers' = customers \cup mine[r].customers
      /\ orders' = orders \cup mine[r].orders
      /\ invoices' = invoices \cup mine[r].invoices
  BY DEF Commit
<1>3. stock' \in [Products -> Nat]
  BY <1>1 DEF Commit, TypeOK
<1>4. customers' \subseteq Customer /\ orders' \subseteq Order /\ invoices' \subseteq Invoice
  BY <1>1, <1>2 DEF TypeOK, Mines
<1>5. TypeOK'
  BY <1>1, <1>3, <1>4, EndInv DEF EndAs, TypeOK, message, Mines
<1>6. IsFiniteSet(invoices')
  BY <1>2, FS_Union DEF IInv, RequestInv
<1>7. ASSUME NEW c \in told PROVE ToldInv(c)'
  <2>1. ToldInv(c) /\ c.request \in Requests
    BY <1>1 DEF IInv, TypeOK
  <2>2. \A t \in Requests \ {r} : pc'[t] = pc[t] /\ mine'[t] = mine[t]
    BY <1>1 DEF EndAs, TypeOK
  <2>3. pc'[r] = "done" /\ results' = results
    BY <1>1 DEF EndAs, TypeOK
  <2>4. CASE c.request = r
    BY <1>1, <1>2, <2>1, <2>3, <2>4 DEF ToldInv, Working, InvoiceOf, Booked
  <2>5. CASE c.request # r
    BY <1>2, <2>1, <2>2, <2>3, <2>5 DEF ToldInv, Working, InvoiceOf, Booked
  <2> QED
    BY <2>4, <2>5
<1>8. NumbersApart'
  <2>1. \A t \in Requests : mine'[t].invoices \subseteq AllInvoices
    BY <1>1 DEF EndAs, TypeOK, NoRows, AllInvoices
  <2>2. invoices' \subseteq AllInvoices
    BY <1>2 DEF AllInvoices
  <2> QED
    BY <2>1, <2>2, StillApart
<1> QED
  BY <1>1, <1>5, <1>6, <1>7, <1>8, EndInv DEF IInv, EndAs

----
LEMMA NextInv == IInv /\ [Next]_vars => IInv'
<1> SUFFICES ASSUME IInv, [Next]_vars PROVE IInv'
  OBVIOUS
<1>1. ASSUME NEW r \in Requests, SessionStep(r) PROVE IInv'
  <2>1. CASE MessageStep(r)
    BY <2>1, ReadNothingInv, ReadOrderInv, FindCustomerInv, CreateCustomerInv, CanonicalizeInv,
       NothingResolvedInv, DeductInv, MissRowInv, InventoryErrorInv, InsertOrderInv, HoldOrderInv,
       CountInvoicesInv, InsertInvoiceInv, RecordInvoiceInv, ConfirmInv DEF MessageStep
  <2>2. CASE Commit(r)
    BY <2>2, CommitInv
  <2>3. CASE FindTwo(r) \/ PoolTimeout(r) \/ Undividable(r) \/ LoseNumber(r)
    BY <2>3, RollBackInv DEF FindTwo, PoolTimeout, Undividable, LoseNumber
  <2> QED
    BY <1>1, <2>1, <2>2, <2>3 DEF SessionStep
<1>2. ASSUME NEW r \in Requests, Fail(r) \/ DeadlockVictim(r) PROVE IInv'
  BY <1>2, RollBackInv DEF Fail, DeadlockVictim
<1>3. ASSUME NEW ph \in Registered, Register(ph) PROVE IInv'
  BY <1>3, RegisterInv
<1>4. CASE UNCHANGED vars
  <2>1. UNCHANGED <<committed, told, connected, pc, results, message, writes>>
    BY <1>4 DEF vars
  <2>2. TypeOK'
    BY <2>1 DEF IInv, TypeOK, committed, message, writes, Working
  <2>3. ASSUME NEW t \in Requests PROVE RequestInv(t)'
    <3>1. RequestInv(t)
      BY DEF IInv
    <3> QED
      BY <2>1, <3>1 DEF message, writes, RequestInv, PlacedBefore, Finished, Current
  <2>4. ASSUME NEW c \in told PROVE ToldInv(c)'
    <3>1. ToldInv(c)
      BY DEF IInv
    <3> QED
      BY <2>1, <3>1 DEF committed, writes, ToldInv, Working
  <2> QED
    BY <2>1, <2>2, <2>3, <2>4 DEF IInv, committed, writes, NumbersApart, AllInvoices
<1> QED
  BY <1>1, <1>2, <1>3, <1>4 DEF Next, Quiescent

THEOREM Invariant == Spec => []IInv
<1>1. Init => IInv
  BY InitInv
<1>2. IInv /\ [Next]_vars => IInv'
  BY NextInv
<1> QED
  BY <1>1, <1>2, PTL DEF Spec

(* Every variable keeps its type, for any deliveries, customers and products:
   stock is never below zero and a request that has ended holds nothing. *)
THEOREM TypeCorrect == Spec => []TypeOK
<1>1. IInv => TypeOK
  BY DEF IInv
<1> QED
  BY <1>1, Invariant, PTL

(* The confirmations send_order_confirmation has sent before the commit: no two
   of them bear one number unless one of their requests has failed, and each is
   of a booked order once its request has committed. *)
THEOREM ConfirmationsHold == Spec => []ToldIsBooked
<1>1. ASSUME IInv PROVE ToldIsBooked
  <2>1. ASSUME NEW c \in told
        PROVE  /\ c.request \in Requests
               /\ ToldInv(c)
               /\ pc[c.request] # "failed" => InvoiceOf(c) \in AllInvoices
    <3>1. ToldInv(c) /\ c.request \in Requests
      BY <1>1 DEF IInv, TypeOK
    <3> QED
      BY <3>1 DEF ToldInv, Working, AllInvoices
  <2>2. ASSUME NEW c \in told, NEW d \in told, c.number = d.number,
               pc[c.request] # "failed", pc[d.request] # "failed"
        PROVE  c.message = d.message
    <3>1. InvoiceOf(c) = InvoiceOf(d)
      BY <1>1, <2>1, <2>2 DEF IInv, NumbersApart, InvoiceOf
    <3> QED
      BY <3>1 DEF InvoiceOf
  <2>3. \A c \in told : pc[c.request] = "done" =>
          InvoiceOf(c) \in invoices /\ \E o \in orders : Booked(o, c.message)
    BY <2>1 DEF ToldInv
  <2> QED
    BY <2>2, <2>3 DEF ToldIsBooked, InvoiceOf, Booked
<1> QED
  BY <1>1, Invariant, PTL

(* What the locks of one transaction can deadlock over: stock rows taken in
   opposite orders, two orders of one customer, or a delivery that has placed an
   order before. *)
THEOREM DeadlockCauses == Spec => []DeadlocksHaveACause
<1>1. ASSUME IInv PROVE DeadlocksHaveACause
  <2> SUFFICES ASSUME NEW C \in SUBSET Requests, Circle(C),
                      NEW r \in C, ~Deducting(r), \A t \in C : ~PlacedBefore(t)
               PROVE  \E t, u \in C : t # u /\ KeyShared(t) \cap KeyShared(u) # {}
    BY DEF DeadlocksHaveACause
  <2>1. ASSUME NEW t \in C
        PROVE  /\ RequestInv(t) /\ ~PlacedBefore(t)
               /\ pc[t] \in {"canonicalizing", "invoicing", "billing"}
               /\ billed[t] = {}
    <3>1. RequestInv(t) /\ ~PlacedBefore(t)
      BY <1>1 DEF IInv
    <3>2. PICK u \in C : WaitsFor(t, u)
      BY DEF Circle
    <3>3. pc[t] \in {"canonicalizing", "invoicing", "billing"}
      BY <3>2 DEF WaitsFor, Deducting, Deducted, Canonicalized, Inserting
    <3> QED
      BY <3>1, <3>3 DEF RequestInv
  (* Whoever has counted as far as the customer's lock waits for an order of
     that customer. *)
  <2>2. ASSUME NEW t \in C, pc[t] = "billing"
        PROVE  \E u \in C : t # u /\ KeyShared(t) \cap KeyShared(u) # {}
    <3>1. PICK u \in C : WaitsFor(t, u)
      BY DEF Circle
    <3>2. t # u /\ account[t] \cap KeyShared(u) # {}
      BY <2>1, <2>2, <3>1 DEF WaitsFor, Deducting, Deducted, Canonicalized, Inserting, BilledRows
    <3>3. PICK o \in mine[t].orders : account[t] = {o.customer}
      BY <2>1, <2>2 DEF RequestInv, Ordered
    <3>4. o.customer \in KeyShared(t) /\ o.customer \in KeyShared(u)
      BY <3>2, <3>3 DEF KeyShared
    <3> QED
      BY <3>2, <3>4
  <2>3. PICK t \in C : WaitsFor(r, t)
    BY DEF Circle
  <2>4. CASE pc[r] = "billing"
    BY <2>2, <2>4
  <2>5. CASE pc[r] = "invoicing"
    <3>1. mine[t].invoices # {}
      BY <2>3, <2>5 DEF WaitsFor, Deducting, Deducted, Canonicalized, Numbers
    <3>2. pc[t] = "billing"
      BY <2>1, <3>1 DEF RequestInv, Invoiced
    <3> QED
      BY <2>2, <3>2
  <2>6. CASE pc[r] = "canonicalizing"
    BY <2>1, <2>3, <2>6 DEF WaitsFor, Inserting
  <2> QED
    BY <2>1, <2>4, <2>5, <2>6
<1> QED
  BY <1>1, Invariant, PTL

----
(* DeliveryPromise: what a delivery has done so far, were it alone. *)

(* Steps of r's session. *)
Moves(r) == SessionStep(r) \/ Fail(r) \/ DeadlockVictim(r)

(* One session's step leaves the others' variables alone. *)
LEMMA OthersKept ==
  ASSUME IInv, NEW r \in Requests, Moves(r), NEW t \in Requests \ {r}
  PROVE  /\ results'[t] = results[t] /\ pc'[t] = pc[t] /\ items'[t] = items[t]
         /\ verdicts'[t] = verdicts[t] /\ account'[t] = account[t] /\ number'[t] = number[t]
         /\ locked'[t] = locked[t] /\ draft'[t] = draft[t] /\ mine'[t] = mine[t]
<1>1. TypeOK
  BY DEF IInv
<1>2. ASSUME NEW status, Return(r, status)
      PROVE  /\ results'[t] = results[t] /\ pc'[t] = pc[t] /\ items'[t] = items[t]
             /\ verdicts'[t] = verdicts[t] /\ account'[t] = account[t] /\ number'[t] = number[t]
  BY <1>1, <1>2 DEF Return, TypeOK
<1>3. CASE ReadNothing(r) \/ NothingResolved(r) \/ InventoryError(r) \/ Confirm(r)
  BY <1>2, <1>3 DEF ReadNothing, NothingResolved, InventoryError, Confirm, writes
<1>4. CASE HoldOrder(r)
  BY <1>1, <1>2, <1>4 DEF HoldOrder, TypeOK
<1>5. CASE ReadOrder(r) \/ Canonicalize(r) \/ CountInvoices(r) \/ MissRow(r)
  BY <1>1, <1>5 DEF ReadOrder, Canonicalize, CountInvoices, MissRow, writes, TypeOK
<1>6. CASE FindCustomer(r) \/ CreateCustomer(r)
  BY <1>1, <1>6 DEF FindCustomer, CreateCustomer, Identify, TypeOK
<1>7. CASE Deduct(r)
  BY <1>1, <1>7 DEF Deduct, TypeOK
<1>8. CASE InsertOrder(r) \/ InsertInvoice(r) \/ RecordInvoice(r)
  BY <1>1, <1>8 DEF InsertOrder, InsertInvoice, RecordInvoice, message, TypeOK
<1>9. CASE Commit(r) \/ RollBack(r)
  BY <1>1, <1>9 DEF Commit, RollBack, EndAs, message, TypeOK
<1> QED
  BY <1>3, <1>4, <1>5, <1>6, <1>7, <1>8, <1>9 DEF Moves, SessionStep, MessageStep, FindTwo,
     PoolTimeout, Undividable, LoseNumber, Fail, DeadlockVictim

(* _process_message returns. *)
LEMMA ReturnEffect ==
  ASSUME IInv, NEW r \in Requests, ~Finished(r), NEW status \in Statuses, Return(r, status)
  PROVE  \E result \in Result :
           /\ result.message = Current(r) /\ result.status = status /\ result.items = items[r]
           /\ result.verdicts = verdicts[r] /\ result.number = number[r]
           /\ results'[r] = Append(results[r], result)
           /\ pc'[r] = "reading" /\ items'[r] = <<>> /\ verdicts'[r] = <<>>
           /\ account'[r] = {} /\ number'[r] = 0
<1>1. TypeOK /\ Current(r) \in Messages
  BY CurrentMessage DEF IInv
<1> DEFINE result == [message |-> Current(r), status |-> status, items |-> items[r],
                      verdicts |-> verdicts[r], number |-> number[r]]
<1>2. result \in Result
  BY <1>1 DEF TypeOK, Result, Statuses
<1>3. results'[r] = Append(results[r], result)
  BY <1>1 DEF Return, TypeOK
<1>4. /\ pc'[r] = "reading" /\ items'[r] = <<>> /\ verdicts'[r] = <<>>
      /\ account'[r] = {} /\ number'[r] = 0
  BY <1>1 DEF Return, TypeOK
<1>5. /\ result.message = Current(r) /\ result.status = status /\ result.items = items[r]
      /\ result.verdicts = verdicts[r] /\ result.number = number[r]
  OBVIOUS
<1> HIDE DEF result
<1> QED
  BY <1>2, <1>3, <1>4, <1>5

----
(* What a message comes to, and how far the current one has got. *)

ResultIs(result, m) ==
  /\ result.message = m
  /\ Promise!JustResult(result)
  /\ Len(result.items) = Len(result.verdicts)

ResultsInv(r) ==
  /\ \A n \in 1 .. Len(results[r]) : ResultIs(results[r][n], DeliveryOf[r][n])
  /\ Len(verdicts[r]) <= Len(items[r])
  /\ pc[r] \in {"reading", "identifying"} => Len(items[r]) = 0
  /\ pc[r] \in Ordered => Len(items[r]) # 0 /\ Len(verdicts[r]) = Len(items[r]) /\ AllDone(r)
  /\ pc[r] \in Invoiced => Dividable(r)

LEMMA JustIs ==
  ASSUME NEW result \in Result, Len(result.items) = Len(result.verdicts),
         result.status \in {"credit_hold", "success"} <=>
           /\ Len(result.items) # 0
           /\ \A n \in 1 .. Len(result.verdicts) : result.verdicts[n] = "done",
         result.status = "success" =>
           \A n \in 1 .. Len(result.items) : result.items[n].quantity > 0
  PROVE  Promise!JustResult(result)
<1>1. result.items \in Seq(Item) /\ result.verdicts \in Seq({"done", "short", "missing"})
  BY DEF Result
<1>2. /\ DOMAIN result.items = 1 .. Len(result.items)
      /\ DOMAIN result.verdicts = 1 .. Len(result.verdicts)
      /\ result.items = <<>> <=> Len(result.items) = 0
  BY <1>1
<1> QED
  BY <1>2 DEF Promise!JustResult, Promise!Placed

(* A message is through with a result that is just. *)
LEMMA ReturnResults ==
  ASSUME IInv, NEW r \in Requests, ResultsInv(r), ~Finished(r), NEW status \in Statuses,
         Return(r, status), Len(verdicts[r]) = Len(items[r]),
         status \in {"credit_hold", "success"} <=> Len(items[r]) # 0 /\ AllDone(r),
         status = "success" => Dividable(r)
  PROVE  ResultsInv(r)'
<1>1. PICK result \in Result :
        /\ result.message = Current(r) /\ result.status = status /\ result.items = items[r]
        /\ result.verdicts = verdicts[r]
        /\ results'[r] = Append(results[r], result)
        /\ pc'[r] = "reading" /\ items'[r] = <<>> /\ verdicts'[r] = <<>>
  BY ReturnEffect
<1>2. Promise!JustResult(result)
  BY <1>1, JustIs DEF AllDone, Dividable
<1>3. PICK res, n : res = results[r] /\ n = Len(results[r]) + 1
  OBVIOUS
<1>4. res \in Seq(Result) /\ Current(r) = DeliveryOf[r][n] /\ n = Len(res) + 1
  BY <1>3 DEF IInv, TypeOK, Current
<1>5. ASSUME NEW k \in 1 .. Len(results'[r]) PROVE ResultIs(results'[r][k], DeliveryOf[r][k])
  <2>1. \/ k = n /\ results'[r][k] = result
        \/ k \in 1 .. Len(res) /\ results'[r][k] = res[k]
    BY <1>1, <1>3, <1>4
  <2> QED
    BY <1>1, <1>2, <1>3, <1>4, <2>1 DEF ResultIs, ResultsInv
<1> QED
  BY <1>1, <1>5 DEF ResultsInv, Ordered, Invoiced

LEMMA ResultsMine ==
  ASSUME IInv, NEW r \in Requests, ResultsInv(r), Moves(r)
  PROVE  ResultsInv(r)'
<1>1. TypeOK /\ RequestInv(r)
  BY DEF IInv
<1>2. /\ items[r] \in Seq(Item) /\ verdicts[r] \in Seq({"done", "short", "missing"})
      /\ Len(items[r]) \in Nat /\ Len(verdicts[r]) \in Nat
  BY <1>1 DEF TypeOK
<1>3. CASE ReadNothing(r)
  <2>1. ~Finished(r) /\ Return(r, "no_order") /\ Len(items[r]) = 0 /\ Len(verdicts[r]) = 0
    BY <1>2, <1>3 DEF ReadNothing, ResultsInv
  <2> QED
    BY <2>1, ReturnResults DEF Statuses
<1>4. CASE NothingResolved(r)
  <2>1. ~Finished(r) /\ Return(r, "unresolved_products")
    BY <1>1, <1>4 DEF NothingResolved, Canonicalized, RequestInv, Busy
  <2>2. Len(items[r]) = 0 /\ Len(verdicts[r]) = 0
    BY <1>2, <1>4 DEF NothingResolved, ResultsInv
  <2> QED
    BY <2>1, <2>2, ReturnResults DEF Statuses
<1>5. CASE InventoryError(r)
  <2>1. ~Finished(r) /\ Return(r, "inventory_error")
    BY <1>1, <1>5 DEF InventoryError, Deducted, Canonicalized, RequestInv, Busy
  <2>2. Len(verdicts[r]) = Len(items[r]) /\ ~AllDone(r)
    BY <1>5 DEF InventoryError, Deducted
  <2> QED
    BY <2>1, <2>2, ReturnResults DEF Statuses
<1>6. CASE HoldOrder(r)
  <2>1. ~Finished(r) /\ Return(r, "credit_hold")
    BY <1>1, <1>6 DEF HoldOrder, RequestInv, Busy, Ordered
  <2>2. Len(items[r]) # 0 /\ Len(verdicts[r]) = Len(items[r]) /\ AllDone(r)
    BY <1>6 DEF HoldOrder, ResultsInv, Ordered
  <2> QED
    BY <2>1, <2>2, ReturnResults DEF Statuses
<1>7. CASE Confirm(r)
  <2>1. ~Finished(r) /\ Return(r, "success")
    BY <1>1, <1>7 DEF Confirm, RequestInv, Busy, Ordered
  <2>2. Len(items[r]) # 0 /\ Len(verdicts[r]) = Len(items[r]) /\ AllDone(r) /\ Dividable(r)
    BY <1>7 DEF Confirm, ResultsInv, Ordered, Invoiced
  <2> QED
    BY <2>1, <2>2, ReturnResults DEF Statuses
<1>8. CASE ReadOrder(r) \/ FindCustomer(r) \/ CreateCustomer(r) \/ Commit(r) \/ RollBack(r)
  <2>1. /\ UNCHANGED <<results, items, verdicts>>
        /\ pc'[r] \in {"identifying", "canonicalizing", "done", "failed"}
        /\ pc'[r] = "identifying" => pc[r] = "reading"
    BY <1>1, <1>8 DEF ReadOrder, FindCustomer, CreateCustomer, Identify, Commit, RollBack, EndAs,
       message, TypeOK
  <2> QED
    BY <2>1 DEF ResultsInv, AllDone, Dividable, Ordered, Invoiced
<1>9. CASE Canonicalize(r)
  <2>1. /\ UNCHANGED <<results, verdicts, pc>> /\ pc[r] = "canonicalizing"
        /\ items'[r] = items[r] \/ \E i \in Item : items'[r] = Append(items[r], i)
    <3>1. lines[r] \in Seq(Line) /\ lines[r] # <<>> /\ Head(lines[r]) \in Line
      BY <1>1, <1>9 DEF Canonicalize, TypeOK
    <3>2. \A line \in Line : line.name \in Products =>
            [op |-> "deduct", product |-> line.name, quantity |-> Pieces(line.halves)] \in Item
      BY DEF Item, Line, Pieces
    <3> QED
      BY <1>1, <1>9, <3>1, <3>2 DEF Canonicalize, TypeOK
  <2>2. Len(items'[r]) \in Nat /\ Len(items[r]) <= Len(items'[r])
    BY <1>2, <2>1
  <2> QED
    BY <1>2, <2>1, <2>2 DEF ResultsInv, Ordered, Invoiced
<1>10. CASE Deduct(r) \/ MissRow(r)
  <2>1. /\ UNCHANGED <<results, items, pc>> /\ pc[r] = "canonicalizing"
        /\ Len(verdicts[r]) < Len(items[r])
        /\ \E v \in {"done", "short", "missing"} : verdicts'[r] = Append(verdicts[r], v)
    BY <1>1, <1>10 DEF Deduct, MissRow, Deducting, Canonicalized, TypeOK
  <2>2. Len(verdicts'[r]) = Len(verdicts[r]) + 1
    BY <1>2, <2>1
  <2> QED
    BY <1>2, <2>1, <2>2 DEF ResultsInv, Ordered, Invoiced
<1>11. CASE InsertOrder(r) \/ CountInvoices(r) \/ InsertInvoice(r) \/ RecordInvoice(r)
  <2>1. UNCHANGED <<results, items, verdicts>>
    BY <1>11 DEF InsertOrder, CountInvoices, InsertInvoice, RecordInvoice, message
  <2>2. Len(items[r]) # 0 /\ Len(verdicts[r]) = Len(items[r]) /\ AllDone(r)
    BY <1>2, <1>11 DEF InsertOrder, CountInvoices, InsertInvoice, RecordInvoice, Deducted, Inserting,
       ResultsInv, Ordered
  <2>3. pc'[r] \in {"checking", "invoicing", "billing", "confirming"}
    BY <1>1, <1>11 DEF InsertOrder, CountInvoices, InsertInvoice, RecordInvoice, TypeOK
  <2>4. pc'[r] \in Invoiced => Dividable(r)
    BY <1>1, <1>11 DEF InsertOrder, CountInvoices, InsertInvoice, RecordInvoice, Inserting, TypeOK,
       ResultsInv, Invoiced
  <2> QED
    BY <2>1, <2>2, <2>3, <2>4 DEF ResultsInv, AllDone, Dividable, Ordered, Invoiced
<1> QED
  BY <1>3, <1>4, <1>5, <1>6, <1>7, <1>8, <1>9, <1>10, <1>11 DEF Moves, SessionStep, MessageStep,
     FindTwo, PoolTimeout, Undividable, LoseNumber, Fail, DeadlockVictim

----
(* The customers a delivery makes, and whom the current message is from. *)

MessagesOf(r) == {DeliveryOf[r][n] : n \in 1 .. Len(DeliveryOf[r])}
Customers(r) == customers \cup mine[r].customers
Identified == {"canonicalizing"} \cup Ordered

CustomersInv(r) ==
  /\ \A c \in mine[r].customers : \E m \in MessagesOf(r) : c = [phone |-> Sender[m], by |-> m]
  /\ \A c, d \in mine[r].customers : c.phone = d.phone => c = d
  /\ pc[r] \in Identified =>
       \A c \in account[r] : c \in Customers(r) /\ c.phone = Sender[Current(r)]

LEMMA CustomersGrow ==
  ASSUME NEW r \in Requests, CustomersInv(r), customers \subseteq customers',
         UNCHANGED mine[r], UNCHANGED account[r], UNCHANGED results[r],
         pc'[r] \in Identified => pc[r] \in Identified
  PROVE  CustomersInv(r)'
BY DEF CustomersInv, Customers, Current

LEMMA CustomersMine ==
  ASSUME IInv, NEW r \in Requests, Working(r) => CustomersInv(r), Moves(r)
  PROVE  Working(r)' => CustomersInv(r)'
<1>1. TypeOK /\ RequestInv(r)
  BY DEF IInv
<1>2. ASSUME NEW status, Return(r, status), Working(r),
             mine'[r].customers = mine[r].customers
      PROVE  CustomersInv(r)'
  <2>1. pc'[r] = "reading"
    BY <1>1, <1>2 DEF Return, TypeOK
  <2> QED
    BY <1>2, <2>1 DEF CustomersInv, Identified, Ordered
<1>3. CASE ReadNothing(r) \/ NothingResolved(r) \/ InventoryError(r) \/ Confirm(r)
  BY <1>2, <1>3 DEF ReadNothing, NothingResolved, InventoryError, Confirm, Canonicalized, Deducted,
     writes, Working
<1>4. CASE HoldOrder(r)
  <2>1. mine'[r].customers = mine[r].customers
    BY <1>1, <1>4 DEF HoldOrder, TypeOK
  <2> QED
    BY <1>2, <1>4, <2>1 DEF HoldOrder, Working
<1>5. CASE Commit(r) \/ RollBack(r)
  BY <1>1, <1>5 DEF Commit, RollBack, EndAs, TypeOK, Working
<1>6. CASE FindCustomer(r)
  <2>1. PICK c \in Found(r) : Identify(r, c) /\ UNCHANGED mine
    BY <1>6 DEF FindCustomer
  <2>2. account'[r] = {c} /\ UNCHANGED <<customers, results>> /\ Working(r)
    BY <1>1, <1>6, <2>1 DEF FindCustomer, Identify, committed, TypeOK, Working
  <2> QED
    BY <2>1, <2>2 DEF CustomersInv, Customers, Found, Current
<1>7. CASE CreateCustomer(r)
  <2>1. PICK new : new = [phone |-> Sender[Current(r)], by |-> Current(r)]
    OBVIOUS
  <2>2. /\ Found(r) = {} /\ account'[r] = {new} /\ mine'[r].customers = mine[r].customers \cup {new}
        /\ UNCHANGED <<customers, results>> /\ Working(r) /\ ~Finished(r)
    BY <1>1, <1>7, <2>1 DEF CreateCustomer, Identify, committed, TypeOK, Working, RequestInv, Busy
  <2>3. Current(r) \in MessagesOf(r) /\ new.phone = Sender[Current(r)]
    BY <2>1, <2>2, CurrentMessage DEF MessagesOf, Current
  <2>4. \A c \in mine[r].customers : c.phone # Sender[Current(r)]
    BY <2>2 DEF Found
  <2>5. Current(r)' = Current(r)
    BY <2>2 DEF Current
  <2>6. /\ \A c \in mine'[r].customers : \E m \in MessagesOf(r) : c = [phone |-> Sender[m], by |-> m]
        /\ \A c, d \in mine'[r].customers : c.phone = d.phone => c = d
    BY <2>1, <2>2, <2>3, <2>4 DEF CustomersInv
  <2> QED
    BY <2>2, <2>3, <2>5, <2>6 DEF CustomersInv, Customers
<1>8. CASE \/ ReadOrder(r) \/ Canonicalize(r) \/ Deduct(r) \/ MissRow(r) \/ CountInvoices(r)
           \/ InsertInvoice(r) \/ RecordInvoice(r) \/ InsertOrder(r)
  <2>1. /\ UNCHANGED <<customers, account, results>>
        /\ pc'[r] \in Identified => pc[r] \in Identified
        /\ Working(r)
    BY <1>1, <1>8 DEF ReadOrder, Canonicalize, Deduct, MissRow, CountInvoices, InsertInvoice, RecordInvoice,
       InsertOrder, Deducting, Deducted, Canonicalized, Inserting,
       committed, message, TypeOK, Identified, Ordered, Working
  <2>2. mine'[r].customers = mine[r].customers
    BY <1>1, <1>8 DEF ReadOrder, Canonicalize, Deduct, MissRow, CountInvoices, InsertInvoice, RecordInvoice,
       InsertOrder, writes, TypeOK
  <2> QED
    BY <2>1, <2>2 DEF CustomersInv, Customers, Current
<1> QED
  BY <1>3, <1>4, <1>5, <1>6, <1>7, <1>8 DEF Moves, SessionStep, MessageStep,
     FindTwo, PoolTimeout, Undividable, LoseNumber, Fail, DeadlockVictim

----
(* A delivery's orders: one for each message placed, and the current one's. *)

PlacedIn(res) == {n \in 1 .. Len(res) : Promise!Placed(res[n])}
OrdersOf(res, customer) == {Promise!Order(res[n], customer[n]) : n \in PlacedIn(res)}
Confirmed(m, c) == [message |-> m, customer |-> c, status |-> "confirmed"]
OpenOrders(r) == IF pc[r] \in Ordered THEN {Confirmed(Current(r), c) : c \in account[r]} ELSE {}

OrdersInv(r) ==
  \E customer \in [PlacedIn(results[r]) -> Customers(r)] :
    /\ \A n \in PlacedIn(results[r]) : customer[n].phone = Sender[DeliveryOf[r][n]]
    /\ mine[r].orders = OrdersOf(results[r], customer) \cup OpenOrders(r)

LEMMA OrdersSame ==
  ASSUME NEW r \in Requests, OrdersInv(r), Customers(r) \subseteq Customers(r)',
         UNCHANGED mine[r].orders, UNCHANGED results[r], UNCHANGED account[r],
         pc'[r] \in Ordered <=> pc[r] \in Ordered
  PROVE  OrdersInv(r)'
<1>1. PICK customer \in [PlacedIn(results[r]) -> Customers(r)] :
        /\ \A n \in PlacedIn(results[r]) : customer[n].phone = Sender[DeliveryOf[r][n]]
        /\ mine[r].orders = OrdersOf(results[r], customer) \cup OpenOrders(r)
  BY DEF OrdersInv
<1>2. OpenOrders(r)' = OpenOrders(r)
  BY DEF OpenOrders, Current
<1>3. customer \in [PlacedIn(results[r]) -> Customers(r)']
  BY <1>1
<1>4. PICK res : res = results[r]
  OBVIOUS
<1>5. /\ \A n \in PlacedIn(res) : customer[n].phone = Sender[DeliveryOf[r][n]]
      /\ mine'[r].orders = OrdersOf(res, customer) \cup OpenOrders(r)'
      /\ res = results'[r] /\ customer \in [PlacedIn(res) -> Customers(r)']
  BY <1>1, <1>2, <1>3, <1>4
<1> QED
  BY <1>5 DEF OrdersInv

LEMMA PlacedNext ==
  ASSUME NEW res \in Seq(Result), NEW result \in Result, NEW n, n = Len(res) + 1
  PROVE  /\ PlacedIn(Append(res, result)) =
              PlacedIn(res) \cup {k \in {n} : Promise!Placed(result)}
         /\ n \notin PlacedIn(res) /\ Append(res, result)[n] = result
         /\ \A k \in PlacedIn(res) : k \in 1 .. Len(res) /\ Append(res, result)[k] = res[k]
<1>1. /\ Len(Append(res, result)) = n /\ Append(res, result)[n] = result
      /\ Len(res) \in Nat
      /\ \A k \in 1 .. Len(res) : Append(res, result)[k] = res[k]
  OBVIOUS
<1>2. \A k : k \in 1 .. n <=> k = n \/ k \in 1 .. Len(res)
  BY <1>1
<1>3. n \notin 1 .. Len(res)
  BY <1>1
<1> QED
  BY <1>1, <1>2, <1>3 DEF PlacedIn

(* No order comes of the message. *)
LEMMA OrdersPassed ==
  ASSUME IInv, NEW r \in Requests, OrdersInv(r), ~Finished(r), pc[r] \notin Ordered,
         NEW status \in {"no_order", "unresolved_products", "inventory_error"}, Return(r, status),
         UNCHANGED <<customers, mine>>
  PROVE  OrdersInv(r)'
<1>1. status \in Statuses
  BY DEF Statuses
<1>2. PICK result \in Result :
        result.status = status /\ results'[r] = Append(results[r], result) /\ pc'[r] = "reading"
  BY <1>1, ReturnEffect
<1>3. PICK customer \in [PlacedIn(results[r]) -> Customers(r)] :
        /\ \A n \in PlacedIn(results[r]) : customer[n].phone = Sender[DeliveryOf[r][n]]
        /\ mine[r].orders = OrdersOf(results[r], customer) \cup OpenOrders(r)
  BY DEF OrdersInv
<1>4. PICK res \in Seq(Result) : res = results[r]
  BY DEF IInv, TypeOK
<1>5. /\ PlacedIn(Append(res, result)) = PlacedIn(res)
      /\ \A k \in PlacedIn(res) : Append(res, result)[k] = res[k]
  <2>1. ~Promise!Placed(result)
    BY <1>2 DEF Promise!Placed
  <2>2. PICK n : n = Len(res) + 1
    OBVIOUS
  <2>3. /\ PlacedIn(Append(res, result)) = PlacedIn(res) \cup {k \in {n} : Promise!Placed(result)}
        /\ \A k \in PlacedIn(res) : k \in 1 .. Len(res) /\ Append(res, result)[k] = res[k]
    BY <2>2, PlacedNext
  <2> QED
    BY <2>1, <2>3
<1>6. OrdersOf(Append(res, result), customer) = OrdersOf(res, customer)
  BY <1>5 DEF OrdersOf
<1>7. OpenOrders(r) = {} /\ OpenOrders(r)' = {} /\ Customers(r)' = Customers(r)
  BY <1>2 DEF OpenOrders, Ordered, Customers
<1>8. /\ customer \in [PlacedIn(results'[r]) -> Customers(r)']
      /\ \A n \in PlacedIn(results'[r]) : customer[n].phone = Sender[DeliveryOf[r][n]]
      /\ mine'[r].orders = OrdersOf(results'[r], customer) \cup OpenOrders(r)'
  BY <1>2, <1>3, <1>4, <1>5, <1>6, <1>7
<1> QED
  BY <1>8 DEF OrdersInv

(* The message's order is placed, on hold or confirmed. *)
LEMMA OrdersPlaced ==
  ASSUME IInv, NEW r \in Requests, OrdersInv(r), CustomersInv(r), ResultsInv(r), pc[r] \in Ordered,
         NEW status \in {"credit_hold", "success"}, Return(r, status),
         customers' = customers, mine'[r].customers = mine[r].customers,
         IF status = "success" THEN mine'[r].orders = mine[r].orders
         ELSE mine'[r].orders = {OnHold(o, r) : o \in mine[r].orders}
  PROVE  OrdersInv(r)'
<1>1. status \in Statuses /\ ~Finished(r) /\ Current(r) = DeliveryOf[r][Len(results[r]) + 1]
  BY DEF Statuses, IInv, RequestInv, Busy, Current
<1>2. PICK result \in Result : /\ result.status = status /\ result.message = Current(r)
                               /\ results'[r] = Append(results[r], result) /\ pc'[r] = "reading"
  BY <1>1, ReturnEffect
<1>3. PICK customer \in [PlacedIn(results[r]) -> Customers(r)] :
        /\ \A n \in PlacedIn(results[r]) : customer[n].phone = Sender[DeliveryOf[r][n]]
        /\ mine[r].orders = OrdersOf(results[r], customer) \cup OpenOrders(r)
  BY DEF OrdersInv
<1>4. PICK res, all, n, res1, m :
        /\ res \in Seq(Result) /\ res = results[r] /\ all = Customers(r) /\ n = Len(res) + 1
        /\ res1 = Append(res, result) /\ m = Current(r)
  BY DEF IInv, TypeOK
<1>5. PICK c : account[r] = {c} /\ c \in all /\ c.phone = Sender[m]
  <2>1. \E o : account[r] = {o.customer}
    BY DEF IInv, RequestInv
  <2>2. PICK c : account[r] = {c}
    BY <2>1
  <2> QED
    BY <1>4, <2>2 DEF CustomersInv, Identified
<1>6. /\ PlacedIn(res1) = PlacedIn(res) \cup {n}
      /\ n \notin PlacedIn(res) /\ res1[n] = result
      /\ \A k \in PlacedIn(res) : k \in 1 .. Len(res) /\ res1[k] = res[k]
  BY <1>2, <1>4, PlacedNext DEF Promise!Placed
<1> DEFINE customer1 == [k \in PlacedIn(res1) |-> IF k = n THEN c ELSE customer[k]]
<1>7. /\ customer1 \in [PlacedIn(res1) -> all]
      /\ customer1[n] = c /\ \A k \in PlacedIn(res) : customer1[k] = customer[k]
  BY <1>3, <1>4, <1>5, <1>6
<1> HIDE DEF customer1
<1>8. OrdersOf(res1, customer1) = OrdersOf(res, customer) \cup {Promise!Order(result, c)}
  BY <1>6, <1>7 DEF OrdersOf
<1>9. \A k \in PlacedIn(res1) : customer1[k].phone = Sender[DeliveryOf[r][k]]
  BY <1>1, <1>3, <1>4, <1>5, <1>6, <1>7
<1>10. OpenOrders(r) = {Confirmed(m, c)} /\ OpenOrders(r)' = {} /\ Customers(r)' = Customers(r)
  BY <1>2, <1>4, <1>5 DEF OpenOrders, Ordered, Customers
<1>11. mine[r].orders = OrdersOf(res, customer) \cup {Confirmed(m, c)}
  BY <1>3, <1>4, <1>10
<1>12. mine'[r].orders = OrdersOf(res, customer) \cup {Promise!Order(result, c)}
  <2>1. CASE status = "success"
    <3>1. Promise!Order(result, c) = Confirmed(m, c)
      BY <1>2, <1>4, <2>1 DEF Promise!Order, Confirmed
    <3> QED
      BY <1>11, <2>1, <3>1
  <2>2. CASE status = "credit_hold"
    <3>1. \A o \in OrdersOf(res, customer) : OnHold(o, r) = o
      <4>1. \A k \in PlacedIn(res) : res[k].message # m
        <5>1. \A k \in PlacedIn(res) : res[k].message = DeliveryOf[r][k]
          BY <1>4, <1>6 DEF ResultsInv, ResultIs
        <5> QED
          BY <1>1, <1>4, <1>6, <5>1, CurrentMessage
      <4>2. \A k \in PlacedIn(res) : Promise!Order(res[k], customer[k]).message # m
        BY <4>1 DEF Promise!Order
      <4>3. \A o \in OrdersOf(res, customer) : o.message # m
        BY <4>2 DEF OrdersOf
      <4> QED
        BY <1>4, <4>3 DEF OnHold
    <3>2. OnHold(Confirmed(m, c), r) = Promise!Order(result, c)
      BY <1>2, <1>4, <2>2 DEF OnHold, Confirmed, Promise!Order
    <3>3. mine'[r].orders = {OnHold(o, r) : o \in mine[r].orders}
      BY <2>2
    <3> HIDE DEF OnHold, Confirmed
    <3> QED
      BY <1>11, <3>1, <3>2, <3>3
  <2> QED
    BY <2>1, <2>2
<1>13. /\ customer1 \in [PlacedIn(results'[r]) -> Customers(r)']
       /\ \A k \in PlacedIn(results'[r]) : customer1[k].phone = Sender[DeliveryOf[r][k]]
       /\ mine'[r].orders = OrdersOf(results'[r], customer1) \cup OpenOrders(r)'
  BY <1>2, <1>4, <1>7, <1>8, <1>9, <1>10, <1>12
<1> QED
  BY <1>13 DEF OrdersInv

LEMMA OrdersMine ==
  ASSUME IInv, NEW r \in Requests, Working(r) => OrdersInv(r) /\ CustomersInv(r), ResultsInv(r),
         Moves(r)
  PROVE  Working(r)' => OrdersInv(r)'
<1>1. TypeOK /\ RequestInv(r)
  BY DEF IInv
<1>2. CASE ReadNothing(r) \/ NothingResolved(r) \/ InventoryError(r)
  <2>1. /\ Working(r) /\ ~Finished(r) /\ pc[r] \notin Ordered
        /\ UNCHANGED <<customers, mine>>
        /\ \E status \in {"no_order", "unresolved_products", "inventory_error"} : Return(r, status)
    BY <1>1, <1>2 DEF ReadNothing, NothingResolved, InventoryError, Canonicalized, Deducted, Ordered,
       Working, RequestInv, Busy, committed, writes
  <2> QED
    BY <2>1, OrdersPassed
<1>3. CASE HoldOrder(r)
  <2>1. /\ Working(r) /\ pc[r] \in Ordered /\ customers' = customers
        /\ mine'[r].customers = mine[r].customers
        /\ mine'[r].orders = {OnHold(o, r) : o \in mine[r].orders}
        /\ Return(r, "credit_hold")
    BY <1>1, <1>3 DEF HoldOrder, Working, Ordered, committed, TypeOK
  <2> QED
    BY <2>1, OrdersPlaced
<1>4. CASE Confirm(r)
  <2>1. /\ Working(r) /\ pc[r] \in Ordered /\ customers' = customers /\ mine' = mine
        /\ Return(r, "success")
    BY <1>4 DEF Confirm, Working, Ordered, committed, writes
  <2> QED
    BY <2>1, OrdersPlaced
<1>5. CASE Commit(r) \/ RollBack(r)
  BY <1>1, <1>5 DEF Commit, RollBack, EndAs, TypeOK, Working
<1>6. CASE FindCustomer(r) \/ CreateCustomer(r)
  <2>1. /\ Working(r) /\ pc[r] = "identifying" /\ pc'[r] = "canonicalizing"
        /\ UNCHANGED <<customers, results>>
        /\ mine'[r].orders = mine[r].orders /\ mine[r].customers \subseteq mine'[r].customers
    BY <1>1, <1>6 DEF FindCustomer, CreateCustomer, Identify, Working, committed, TypeOK
  <2>2. PICK customer \in [PlacedIn(results[r]) -> Customers(r)] :
          /\ \A n \in PlacedIn(results[r]) : customer[n].phone = Sender[DeliveryOf[r][n]]
          /\ mine[r].orders = OrdersOf(results[r], customer) \cup OpenOrders(r)
    BY <2>1 DEF OrdersInv
  <2>3. OpenOrders(r) = {} /\ OpenOrders(r)' = {}
    BY <2>1 DEF OpenOrders, Ordered
  <2>4. customer \in [PlacedIn(results[r]) -> Customers(r)']
    BY <2>1, <2>2 DEF Customers
  <2>5. PICK res : res = results[r]
    OBVIOUS
  <2>6. /\ \A n \in PlacedIn(res) : customer[n].phone = Sender[DeliveryOf[r][n]]
        /\ mine'[r].orders = OrdersOf(res, customer) \cup OpenOrders(r)'
        /\ res = results'[r] /\ customer \in [PlacedIn(res) -> Customers(r)']
    BY <2>1, <2>2, <2>3, <2>4, <2>5
  <2> QED
    BY <2>6 DEF OrdersInv
<1>7. CASE InsertOrder(r)
  <2>1. PICK c \in account[r] : mine' = [mine EXCEPT ![r].orders = @ \cup {Confirmed(Current(r), c)}]
    BY <1>7 DEF InsertOrder, Confirmed
  <2>2. /\ Working(r) /\ pc[r] = "canonicalizing" /\ pc'[r] = "checking"
        /\ UNCHANGED <<customers, results, account>> /\ account[r] = {c}
        /\ mine'[r].orders = mine[r].orders \cup {Confirmed(Current(r), c)}
        /\ mine'[r].customers = mine[r].customers
    BY <1>1, <1>7, <2>1 DEF InsertOrder, Deducted, Canonicalized, Working, committed, message, TypeOK,
       RequestInv
  <2>3. PICK customer \in [PlacedIn(results[r]) -> Customers(r)] :
          /\ \A n \in PlacedIn(results[r]) : customer[n].phone = Sender[DeliveryOf[r][n]]
          /\ mine[r].orders = OrdersOf(results[r], customer) \cup OpenOrders(r)
    BY <2>2 DEF OrdersInv
  <2>4. OpenOrders(r) = {} /\ OpenOrders(r)' = {Confirmed(Current(r), c)} /\ Customers(r)' = Customers(r)
    <3>1. Current(r)' = Current(r)
      BY <2>2 DEF Current
    <3> QED
      BY <2>2, <3>1 DEF OpenOrders, Ordered, Customers
  <2>5. PICK res : res = results[r]
    OBVIOUS
  <2>6. /\ \A n \in PlacedIn(res) : customer[n].phone = Sender[DeliveryOf[r][n]]
        /\ mine'[r].orders = OrdersOf(res, customer) \cup OpenOrders(r)'
        /\ res = results'[r] /\ customer \in [PlacedIn(res) -> Customers(r)']
    BY <2>2, <2>3, <2>4, <2>5
  <2> QED
    BY <2>6 DEF OrdersInv
<1>8. CASE \/ ReadOrder(r) \/ Canonicalize(r) \/ Deduct(r) \/ MissRow(r) \/ CountInvoices(r)
           \/ InsertInvoice(r) \/ RecordInvoice(r)
  <2>1. /\ UNCHANGED <<customers, account, results>>
        /\ pc'[r] \in Ordered <=> pc[r] \in Ordered
        /\ Working(r)
    BY <1>1, <1>8 DEF ReadOrder, Canonicalize, Deduct, MissRow, CountInvoices, InsertInvoice, RecordInvoice,
       Deducting, Canonicalized, Inserting, committed, message, TypeOK, Ordered, Working
  <2>2. mine'[r].customers = mine[r].customers /\ mine'[r].orders = mine[r].orders
    BY <1>1, <1>8 DEF ReadOrder, Canonicalize, Deduct, MissRow, CountInvoices, InsertInvoice, RecordInvoice,
       writes, TypeOK
  <2>3. Customers(r) \subseteq Customers(r)'
    BY <2>1, <2>2 DEF Customers
  <2> QED
    BY <2>1, <2>2, <2>3, OrdersSame
<1> QED
  BY <1>2, <1>3, <1>4, <1>5, <1>6, <1>7, <1>8 DEF Moves, SessionStep, MessageStep,
     FindTwo, PoolTimeout, Undividable, LoseNumber, Fail, DeadlockVictim

----
(* A delivery's invoices: one for each message invoiced, and the current one's,
   with the numbers that come after those of the invoices committed. *)

InvoicedIn(res) == {n \in 1 .. Len(res) : res[n].status = "success"}
UpTo(S, n) == {k \in S : k <= n}
InvoicesOf(res) == {[message |-> res[n].message, number |-> res[n].number] : n \in InvoicedIn(res)}

(* rows are the invoices of the results and the open one, numbered from base
   on in the order of their messages. *)
InOrder(base, rows, res, open) ==
  /\ \A n \in InvoicedIn(res) : res[n].number = base + Cardinality(UpTo(InvoicedIn(res), n))
  /\ rows = InvoicesOf(res) \cup open
  /\ Cardinality(rows) = Cardinality(InvoicedIn(res)) + Cardinality(open)
  /\ Numbers(rows) = base + 1 .. base + Cardinality(rows)

OpenInvoices(r) ==
  {i \in {[message |-> Current(r), number |-> number[r]]} : pc[r] \in Invoiced}
NextNumber(r) == Cardinality(invoices) + Cardinality(mine[r].invoices) + 1

(* A number counted before another request commits falls behind the next one;
   only a session without invoices can hold such a number. *)
NumbersInv(r) ==
  /\ InOrder(Cardinality(invoices), mine[r].invoices, results[r], OpenInvoices(r))
  /\ pc[r] = "invoicing" =>
       /\ 1 <= number[r] /\ number[r] <= NextNumber(r)
       /\ number[r] = NextNumber(r) \/ mine[r].invoices = {}
  /\ pc[r] \in Invoiced => number[r] + 1 = NextNumber(r)

(* The committed invoices bear the numbers from 1 on. *)
Gapless == Numbers(invoices) = 1 .. Cardinality(invoices)

LEMMA InvoicedFinite ==
  ASSUME NEW res \in Seq(Result)
  PROVE  /\ IsFiniteSet(InvoicedIn(res)) /\ Cardinality(InvoicedIn(res)) \in Nat
         /\ \A n : IsFiniteSet(UpTo(InvoicedIn(res), n))
<1>1. IsFiniteSet(1 .. Len(res))
  BY FS_Interval
<1>2. IsFiniteSet(InvoicedIn(res))
  BY <1>1, FS_Subset DEF InvoicedIn
<1>3. ASSUME NEW n PROVE IsFiniteSet(UpTo(InvoicedIn(res), n))
  BY <1>2, FS_Subset DEF UpTo
<1> QED
  BY <1>2, <1>3, FS_CardinalityType

(* res1 is res with one more result, the n-th. *)
Appends(res, result, n, res1) ==
  /\ res \in Seq(Result) /\ result \in Result
  /\ n = Len(res) + 1 /\ res1 = Append(res, result)

LEMMA InvoicedNext ==
  ASSUME NEW res, NEW result, NEW n, NEW res1, Appends(res, result, n, res1)
  PROVE  /\ result.status = "success" => InvoicedIn(res1) = InvoicedIn(res) \cup {n}
         /\ result.status # "success" => InvoicedIn(res1) = InvoicedIn(res)
         /\ n \notin InvoicedIn(res) /\ res1[n] = result
         /\ \A k \in InvoicedIn(res) : k \in 1 .. Len(res) /\ res1[k] = res[k]
         /\ \A k \in InvoicedIn(res) : UpTo(InvoicedIn(res1), k) = UpTo(InvoicedIn(res), k)
         /\ UpTo(InvoicedIn(res1), n) = InvoicedIn(res1)
<1>1. /\ Len(res1) = n /\ res1[n] = result /\ n = Len(res) + 1
      /\ Len(res) \in Nat /\ n \in Nat
      /\ \A k \in 1 .. Len(res) : res1[k] = res[k]
  BY DEF Appends
<1>2. \A k : k \in 1 .. n <=> k = n \/ k \in 1 .. Len(res)
  BY <1>1
<1>3. n \notin 1 .. Len(res)
  BY <1>1
<1>4. /\ result.status = "success" => InvoicedIn(res1) = InvoicedIn(res) \cup {n}
      /\ result.status # "success" => InvoicedIn(res1) = InvoicedIn(res)
  BY <1>1, <1>2, <1>3 DEF InvoicedIn
<1>5. \A k \in InvoicedIn(res) : k \in Nat /\ k < n
  BY <1>1 DEF InvoicedIn
<1>6. PICK inv, inv1 : inv = InvoicedIn(res) /\ inv1 = InvoicedIn(res1)
  OBVIOUS
<1>7. inv1 = inv \/ inv1 = inv \cup {n}
  BY <1>4, <1>6
<1>8. \A k \in inv : UpTo(inv1, k) = UpTo(inv, k)
  BY <1>1, <1>5, <1>6, <1>7 DEF UpTo
<1>9. UpTo(inv1, n) = inv1
  BY <1>1, <1>5, <1>6, <1>7 DEF UpTo
<1> QED
  BY <1>1, <1>3, <1>4, <1>6, <1>8, <1>9 DEF InvoicedIn

LEMMA InOrderPassed ==
  ASSUME NEW base, NEW rows, NEW res \in Seq(Result), NEW result \in Result,
         InOrder(base, rows, res, {}), result.status # "success"
  PROVE  InOrder(base, rows, Append(res, result), {})
<1>1. PICK n, res1 : n = Len(res) + 1 /\ res1 = Append(res, result)
  OBVIOUS
<1>2. /\ InvoicedIn(res1) = InvoicedIn(res)
      /\ \A k \in InvoicedIn(res) : res1[k] = res[k]
  <2>1. Appends(res, result, n, res1)
    BY <1>1 DEF Appends
  <2> QED
    BY <2>1, InvoicedNext
<1>3. InvoicesOf(res1) = InvoicesOf(res)
  BY <1>2 DEF InvoicesOf
<1>4. InOrder(base, rows, res1, {})
  BY <1>2, <1>3 DEF InOrder
<1> QED
  BY <1>1, <1>4

LEMMA InOrderDone ==
  ASSUME NEW base \in Nat, NEW rows, NEW res \in Seq(Result), NEW result \in Result,
         InOrder(base, rows, res, {[message |-> result.message, number |-> result.number]}),
         result.status = "success", result.number = base + Cardinality(rows)
  PROVE  InOrder(base, rows, Append(res, result), {})
<1>1. PICK n, res1, inv, inv1, open :
        /\ n = Len(res) + 1 /\ res1 = Append(res, result)
        /\ inv = InvoicedIn(res) /\ inv1 = InvoicedIn(res1)
        /\ open = [message |-> result.message, number |-> result.number]
  OBVIOUS
<1>2. /\ inv1 = inv \cup {n} /\ n \notin inv /\ res1[n] = result
      /\ \A k \in inv : res1[k] = res[k]
      /\ \A k \in inv : UpTo(inv1, k) = UpTo(inv, k)
      /\ UpTo(inv1, n) = inv1
  <2>1. Appends(res, result, n, res1)
    BY <1>1 DEF Appends
  <2> QED
    BY <1>1, <2>1, InvoicedNext
<1>3. IsFiniteSet(inv) /\ Cardinality(inv) \in Nat
  BY <1>1, InvoicedFinite
<1>4. Cardinality(inv1) = Cardinality(inv) + 1
  BY <1>2, <1>3, FS_AddElement
<1>5. Cardinality({open}) = 1 /\ Cardinality({}) = 0
  BY FS_Singleton, FS_EmptySet
<1>6. /\ \A k \in inv : res[k].number = base + Cardinality(UpTo(inv, k))
      /\ rows = InvoicesOf(res) \cup {open}
      /\ Cardinality(rows) = Cardinality(inv) + 1
      /\ Numbers(rows) = base + 1 .. base + Cardinality(rows)
  BY <1>1, <1>5 DEF InOrder
<1>7. InvoicesOf(res1) = InvoicesOf(res) \cup {open}
  <2>1. InvoicedIn(res1) = inv \cup {n} /\ inv = InvoicedIn(res)
    BY <1>1, <1>2
  <2>2. \A k \in inv : res1[k] = res[k]
    BY <1>2
  <2>3. [message |-> res1[n].message, number |-> res1[n].number] = open
    BY <1>1, <1>2
  <2>4. InvoicesOf(res1) = {[message |-> res1[k].message, number |-> res1[k].number] : k \in inv \cup {n}}
    BY <2>1 DEF InvoicesOf
  <2>5. InvoicesOf(res) = {[message |-> res1[k].message, number |-> res1[k].number] : k \in inv}
    BY <2>1, <2>2 DEF InvoicesOf
  <2> QED
    BY <2>3, <2>4, <2>5
<1>8. \A k \in inv1 : res1[k].number = base + Cardinality(UpTo(inv1, k))
  <2>1. res1[n].number = base + Cardinality(UpTo(inv1, n))
    BY <1>2, <1>4, <1>6
  <2>2. \A k \in inv : res1[k].number = base + Cardinality(UpTo(inv1, k))
    BY <1>2, <1>6
  <2> QED
    BY <1>2, <2>1, <2>2
<1>9. Cardinality(rows) = Cardinality(inv1) + Cardinality({})
  BY <1>3, <1>4, <1>5, <1>6
<1>10. rows = InvoicesOf(res1) \cup {}
  BY <1>6, <1>7
<1> QED
  BY <1>1, <1>6, <1>8, <1>9, <1>10 DEF InOrder

LEMMA InOrderInserted ==
  ASSUME NEW base \in Nat, NEW rows, NEW res, NEW new, IsFiniteSet(rows),
         InOrder(base, rows, res, {}), new.number = base + Cardinality(rows) + 1
  PROVE  /\ InOrder(base, rows \cup {new}, res, {new})
         /\ Cardinality(rows \cup {new}) = Cardinality(rows) + 1
<1>1. Cardinality(rows) \in Nat
  BY FS_CardinalityType
<1>2. new \notin rows
  <2>1. new.number \notin Numbers(rows)
    BY <1>1 DEF InOrder
  <2> QED
    BY <2>1 DEF Numbers
<1>3. Cardinality(rows \cup {new}) = Cardinality(rows) + 1
  BY <1>2, FS_AddElement
<1>4. Cardinality({new}) = 1 /\ Cardinality({}) = 0
  BY FS_Singleton, FS_EmptySet
<1>5. PICK rows1, count, count1 : /\ rows1 = rows \cup {new} /\ count = Cardinality(rows)
                                  /\ count1 = Cardinality(rows1)
  OBVIOUS
<1>6. Numbers(rows1) = Numbers(rows) \cup {new.number}
  BY <1>5 DEF Numbers
<1>7. Numbers(rows1) = base + 1 .. base + count1
  <2>1. Numbers(rows) = base + 1 .. base + count /\ count \in Nat /\ count1 = count + 1
    BY <1>1, <1>3, <1>5 DEF InOrder
  <2>2. \A k : k \in base + 1 .. base + count1 <=> k \in base + 1 .. base + count \/ k = base + count + 1
    BY <2>1
  <2> QED
    BY <1>5, <1>6, <2>1, <2>2
<1>8. PICK inv : inv = Cardinality(InvoicedIn(res))
  OBVIOUS
<1>9. count = inv + 0
  BY <1>4, <1>5, <1>8 DEF InOrder
<1>10. count1 = inv + Cardinality({new})
  BY <1>1, <1>3, <1>4, <1>5, <1>9, <1>8, FS_CardinalityType
<1>11. rows1 = InvoicesOf(res) \cup {new}
  BY <1>5 DEF InOrder
<1> QED
  BY <1>3, <1>5, <1>7, <1>8, <1>10, <1>11 DEF InOrder

(* A delivery without invoices does not mind what others commit. *)
LEMMA InOrderWithout ==
  ASSUME NEW base \in Nat, NEW base1 \in Nat, NEW res, NEW open, InOrder(base, {}, res, open)
  PROVE  InOrder(base1, {}, res, open)
<1>1. InvoicedIn(res) = {} /\ open = {}
  BY DEF InOrder, InvoicesOf
<1>2. Cardinality({}) = 0
  BY FS_EmptySet
<1>3. Numbers({}) = {} /\ base1 + 1 .. base1 + 0 = {}
  BY DEF Numbers
<1> QED
  BY <1>1, <1>2, <1>3 DEF InOrder

LEMMA NumbersPassed ==
  ASSUME IInv, NEW r \in Requests, NumbersInv(r), ~Finished(r), pc[r] \notin Invoiced,
         NEW status \in Statuses \ {"success"}, Return(r, status),
         UNCHANGED invoices, UNCHANGED mine[r].invoices
  PROVE  NumbersInv(r)'
<1>1. PICK result \in Result :
        result.status = status /\ results'[r] = Append(results[r], result) /\ pc'[r] = "reading"
  BY ReturnEffect
<1>2. results[r] \in Seq(Result)
  BY DEF IInv, TypeOK
<1>3. PICK base, rows, res : /\ base = Cardinality(invoices) /\ rows = mine[r].invoices
                             /\ res = results[r]
  OBVIOUS
<1>4. OpenInvoices(r) = {} /\ OpenInvoices(r)' = {}
  BY <1>1 DEF OpenInvoices, Invoiced
<1>5. InOrder(base, rows, res, {})
  BY <1>3, <1>4 DEF NumbersInv
<1>6. InOrder(base, rows, Append(res, result), {})
  BY <1>1, <1>2, <1>3, <1>5, InOrderPassed
<1>7. /\ base = Cardinality(invoices') /\ rows = mine'[r].invoices
      /\ Append(res, result) = results'[r]
  BY <1>1, <1>3
<1>8. InOrder(Cardinality(invoices'), mine'[r].invoices, results'[r], OpenInvoices(r)')
  BY <1>4, <1>6, <1>7
<1> QED
  BY <1>1, <1>8 DEF NumbersInv, Invoiced

LEMMA NumbersConfirmed ==
  ASSUME IInv, NEW r \in Requests, NumbersInv(r), Confirm(r)
  PROVE  NumbersInv(r)'
<1>1. ~Finished(r) /\ Return(r, "success") /\ pc[r] \in Invoiced /\ UNCHANGED <<invoices, mine>>
  BY DEF IInv, RequestInv, Confirm, Busy, Ordered, Invoiced, committed, writes
<1>2. PICK result \in Result :
        /\ result.message = Current(r) /\ result.status = "success" /\ result.number = number[r]
        /\ results'[r] = Append(results[r], result) /\ pc'[r] = "reading"
  BY <1>1, ReturnEffect DEF Statuses
<1>3. /\ results[r] \in Seq(Result) /\ IsFiniteSet(invoices) /\ IsFiniteSet(mine[r].invoices)
      /\ number[r] \in Nat
  BY DEF IInv, TypeOK, RequestInv
<1>4. PICK base, rows, res : /\ base = Cardinality(invoices) /\ rows = mine[r].invoices
                             /\ res = results[r]
  OBVIOUS
<1>5. base \in Nat /\ Cardinality(rows) \in Nat
  BY <1>3, <1>4, FS_CardinalityType
<1>6. OpenInvoices(r) = {[message |-> result.message, number |-> result.number]}
  BY <1>1, <1>2 DEF OpenInvoices
<1>7. OpenInvoices(r)' = {}
  BY <1>2 DEF OpenInvoices, Invoiced
<1>8. result.number = base + Cardinality(rows)
  BY <1>1, <1>2, <1>3, <1>4, <1>5 DEF NumbersInv, NextNumber
<1>9. InOrder(base, rows, res, {[message |-> result.message, number |-> result.number]})
  BY <1>4, <1>6 DEF NumbersInv
<1>10. InOrder(base, rows, Append(res, result), {})
  BY <1>2, <1>3, <1>4, <1>5, <1>8, <1>9, InOrderDone
<1>11. /\ base = Cardinality(invoices') /\ rows = mine'[r].invoices
       /\ Append(res, result) = results'[r]
  BY <1>1, <1>2, <1>4
<1>12. InOrder(Cardinality(invoices'), mine'[r].invoices, results'[r], OpenInvoices(r)')
  BY <1>7, <1>10, <1>11
<1> QED
  BY <1>2, <1>12 DEF NumbersInv, Invoiced

LEMMA NumbersInserted ==
  ASSUME IInv, NEW r \in Requests, NumbersInv(r), Gapless, InsertInvoice(r)
  PROVE  NumbersInv(r)'
<1>1. /\ TypeOK /\ results[r] \in Seq(Result) /\ IsFiniteSet(invoices)
      /\ IsFiniteSet(mine[r].invoices) /\ number[r] \in Nat
  BY DEF IInv, TypeOK, RequestInv
<1>2. PICK base, rows, res, new, m, k :
        /\ base = Cardinality(invoices) /\ rows = mine[r].invoices /\ res = results[r]
        /\ m = Current(r) /\ k = number[r] /\ new = [message |-> m, number |-> k]
  OBVIOUS
<1>3. /\ pc[r] = "invoicing" /\ pc'[r] = "billing" /\ UNCHANGED <<invoices, results, number>>
      /\ mine'[r].invoices = rows \cup {new} /\ ~Clashes(r)
  <2>1. /\ pc[r] = "invoicing" /\ pc' = [pc EXCEPT ![r] = "billing"]
        /\ UNCHANGED <<invoices, results, number>> /\ ~Clashes(r)
        /\ mine' = [mine EXCEPT ![r].invoices = @ \cup {new}]
    BY <1>2 DEF InsertInvoice, Inserting, committed, message
  <2> QED
    BY <1>1, <1>2, <2>1 DEF TypeOK
<1>4. base \in Nat /\ Cardinality(rows) \in Nat
  BY <1>1, <1>2, FS_CardinalityType
<1>5. k = base + Cardinality(rows) + 1
  <2>1. CASE rows = {}
    <3>1. Cardinality(rows) = 0
      BY <2>1, FS_EmptySet
    <3>2. 1 <= k /\ k <= base + 0 + 1
      BY <1>2, <1>3, <3>1 DEF NumbersInv, NextNumber
    <3>3. k \notin Numbers(invoices)
      BY <1>2, <1>3 DEF Clashes, Numbers
    <3>4. k \notin 1 .. base
      BY <1>2, <3>3 DEF Gapless
    <3> QED
      BY <1>1, <1>2, <1>4, <3>1, <3>2, <3>4
  <2>2. CASE rows # {}
    BY <1>2, <1>3, <2>2 DEF NumbersInv, NextNumber
  <2> QED
    BY <2>1, <2>2
<1>6. OpenInvoices(r) = {}
  BY <1>3 DEF OpenInvoices, Invoiced
<1>7. OpenInvoices(r)' = {new}
  <2>1. Current(r)' = m
    BY <1>2, <1>3 DEF Current
  <2> QED
    BY <1>2, <1>3, <2>1 DEF OpenInvoices, Invoiced
<1>8. InOrder(base, rows, res, {}) /\ new.number = base + Cardinality(rows) + 1
  BY <1>2, <1>5, <1>6 DEF NumbersInv
<1>9. /\ InOrder(base, rows \cup {new}, res, {new})
      /\ Cardinality(rows \cup {new}) = Cardinality(rows) + 1
  BY <1>1, <1>2, <1>4, <1>8, InOrderInserted, SMTT(30)
<1>10. /\ base = Cardinality(invoices') /\ rows \cup {new} = mine'[r].invoices
       /\ res = results'[r] /\ {new} = OpenInvoices(r)' /\ k = number'[r]
  BY <1>2, <1>3, <1>7
<1>11. InOrder(Cardinality(invoices'), mine'[r].invoices, results'[r], OpenInvoices(r)')
  BY <1>9, <1>10
<1>12. NextNumber(r)' = base + (Cardinality(rows) + 1) + 1
  BY <1>9, <1>10 DEF NextNumber
<1>13. number'[r] + 1 = NextNumber(r)'
  BY <1>4, <1>5, <1>10, <1>12
<1> QED
  BY <1>3, <1>11, <1>13 DEF NumbersInv

LEMMA NumbersMine ==
  ASSUME IInv, NEW r \in Requests, Working(r) => NumbersInv(r), Gapless, Moves(r)
  PROVE  Working(r)' => NumbersInv(r)'
<1>1. TypeOK /\ RequestInv(r)
  BY DEF IInv
<1>2. CASE ReadNothing(r) \/ NothingResolved(r) \/ InventoryError(r)
  <2>1. /\ Working(r) /\ ~Finished(r) /\ pc[r] \notin Invoiced
        /\ UNCHANGED <<invoices, mine>>
        /\ \E status \in {"no_order", "unresolved_products", "inventory_error"} : Return(r, status)
    BY <1>1, <1>2 DEF ReadNothing, NothingResolved, InventoryError, Canonicalized, Deducted, Invoiced,
       Working, RequestInv, Busy, committed, writes
  <2>2. \A status \in {"no_order", "unresolved_products", "inventory_error"} :
          status \in Statuses \ {"success"}
    BY DEF Statuses
  <2> QED
    BY <2>1, <2>2, NumbersPassed
<1>3. CASE HoldOrder(r)
  <2>1. /\ Working(r) /\ ~Finished(r) /\ pc[r] \notin Invoiced
        /\ invoices' = invoices /\ mine'[r].invoices = mine[r].invoices
        /\ Return(r, "credit_hold")
    BY <1>1, <1>3 DEF HoldOrder, Working, Ordered, Busy, Invoiced, RequestInv, committed, TypeOK
  <2>2. "credit_hold" \in Statuses \ {"success"}
    BY DEF Statuses
  <2> QED
    BY <2>1, <2>2, NumbersPassed
<1>4. CASE Confirm(r)
  BY <1>4, NumbersConfirmed DEF Confirm, Working
<1>5. CASE Commit(r) \/ RollBack(r)
  BY <1>1, <1>5 DEF Commit, RollBack, EndAs, TypeOK, Working
<1>6. CASE InsertInvoice(r)
  BY <1>6, NumbersInserted DEF InsertInvoice, Inserting, Working
<1>7. CASE CountInvoices(r)
  <2>1. /\ Working(r) /\ pc[r] = "checking" /\ pc'[r] = "invoicing"
        /\ UNCHANGED <<invoices, results, mine>> /\ number'[r] = NextNumber(r)
    BY <1>1, <1>7 DEF CountInvoices, NextNumber, Working, committed, writes, TypeOK
  <2>2. OpenInvoices(r) = {} /\ OpenInvoices(r)' = {} /\ NextNumber(r)' = NextNumber(r)
    BY <2>1 DEF OpenInvoices, Invoiced, NextNumber
  <2>3. NextNumber(r) \in Nat /\ 1 <= NextNumber(r)
    <3>1. Cardinality(invoices) \in Nat /\ Cardinality(mine[r].invoices) \in Nat
      BY <1>1, FS_CardinalityType DEF IInv, RequestInv
    <3> QED
      BY <3>1 DEF NextNumber
  <2>4. InOrder(Cardinality(invoices), mine[r].invoices, results[r], {})
    BY <2>1, <2>2 DEF NumbersInv
  <2>5. InOrder(Cardinality(invoices'), mine'[r].invoices, results'[r], OpenInvoices(r)')
    BY <2>1, <2>2, <2>4
  <2> QED
    BY <2>1, <2>2, <2>3, <2>5 DEF NumbersInv, Invoiced
<1>8. CASE \/ ReadOrder(r) \/ Canonicalize(r) \/ Deduct(r) \/ MissRow(r) \/ InsertOrder(r)
           \/ RecordInvoice(r) \/ FindCustomer(r) \/ CreateCustomer(r)
  <2>1. /\ UNCHANGED <<invoices, results, number>>
        /\ pc'[r] \in Invoiced <=> pc[r] \in Invoiced
        /\ pc'[r] # "invoicing" /\ Working(r)
    BY <1>1, <1>8 DEF ReadOrder, Canonicalize, Deduct, MissRow, InsertOrder, RecordInvoice,
       FindCustomer, CreateCustomer, Identify, Deducting, Deducted, Canonicalized,
       committed, message, TypeOK, Invoiced, Working
  <2>2. mine'[r].invoices = mine[r].invoices
    BY <1>1, <1>8 DEF ReadOrder, Canonicalize, Deduct, MissRow, InsertOrder, RecordInvoice,
       FindCustomer, CreateCustomer, Identify, writes, TypeOK
  <2>3. OpenInvoices(r)' = OpenInvoices(r) /\ NextNumber(r)' = NextNumber(r)
    BY <2>1, <2>2 DEF OpenInvoices, NextNumber, Current
  <2>4. InOrder(Cardinality(invoices), mine[r].invoices, results[r], OpenInvoices(r))
    BY <2>1 DEF NumbersInv
  <2>5. InOrder(Cardinality(invoices'), mine'[r].invoices, results'[r], OpenInvoices(r)')
    BY <2>1, <2>2, <2>3, <2>4
  <2> QED
    BY <2>1, <2>3, <2>5 DEF NumbersInv
<1> QED
  BY <1>2, <1>3, <1>4, <1>5, <1>6, <1>7, <1>8 DEF Moves, SessionStep, MessageStep,
     FindTwo, PoolTimeout, Undividable, LoseNumber, Fail, DeadlockVictim

----
(* Another request's step. *)

LEMMA NumbersUnchanged ==
  ASSUME NEW t \in Requests, NumbersInv(t), UNCHANGED invoices,
         UNCHANGED mine[t], UNCHANGED results[t], UNCHANGED pc[t], UNCHANGED number[t]
  PROVE  NumbersInv(t)'
<1>1. OpenInvoices(t)' = OpenInvoices(t) /\ NextNumber(t)' = NextNumber(t)
  BY DEF OpenInvoices, NextNumber, Current
<1>2. InOrder(Cardinality(invoices'), mine'[t].invoices, results'[t], OpenInvoices(t)')
  BY <1>1 DEF NumbersInv
<1> QED
  BY <1>1, <1>2 DEF NumbersInv

(* What it commits comes right after the invoices there were. *)
LEMMA CommitNumbers ==
  ASSUME IInv, NEW r \in Requests, NumbersInv(r), Gapless, Commit(r)
  PROVE  /\ Gapless' /\ IsFiniteSet(invoices')
         /\ Cardinality(invoices') = Cardinality(invoices) + Cardinality(mine[r].invoices)
<1>1. PICK base, rows, inv, all :
        /\ base = Cardinality(invoices) /\ rows = mine[r].invoices /\ inv = invoices
        /\ all = inv \cup rows
  OBVIOUS
<1>2. /\ IsFiniteSet(inv) /\ IsFiniteSet(rows) /\ invoices' = all
  BY <1>1 DEF IInv, RequestInv, Commit
<1>3. base \in Nat /\ Cardinality(rows) \in Nat /\ base = Cardinality(inv)
  BY <1>1, <1>2, FS_CardinalityType
<1>4. Numbers(inv) = 1 .. base /\ Numbers(rows) = base + 1 .. base + Cardinality(rows)
  BY <1>1 DEF Gapless, NumbersInv, InOrder
<1>5. inv \cap rows = {}
  <2>1. \A i \in inv : i.number \in 1 .. base
    BY <1>4 DEF Numbers
  <2>2. \A i \in rows : i.number \in base + 1 .. base + Cardinality(rows)
    BY <1>4 DEF Numbers
  <2>3. \A k \in 1 .. base : k \notin base + 1 .. base + Cardinality(rows)
    BY <1>3
  <2> QED
    BY <2>1, <2>2, <2>3
<1>6. IsFiniteSet(all) /\ Cardinality(all) = base + Cardinality(rows)
  <2>1. /\ IsFiniteSet(inv \cup rows)
        /\ Cardinality(inv \cup rows) = Cardinality(inv) + Cardinality(rows) - Cardinality({})
    BY ONLY <1>2, <1>5, FS_Union
  <2>2. Cardinality({}) = 0
    BY FS_EmptySet
  <2>3. all = inv \cup rows /\ base \in Nat /\ Cardinality(rows) \in Nat /\ base = Cardinality(inv)
    BY <1>1, <1>3
  <2> QED
    BY ONLY <2>1, <2>2, <2>3
<1>7. Numbers(all) = 1 .. base + Cardinality(rows)
  <2>1. Numbers(all) = Numbers(inv) \cup Numbers(rows)
    BY <1>1 DEF Numbers
  <2>2. \A k : k \in 1 .. base + Cardinality(rows) <=>
                 k \in 1 .. base \/ k \in base + 1 .. base + Cardinality(rows)
    BY <1>3
  <2> QED
    BY <1>4, <2>1, <2>2
<1> QED
  BY <1>1, <1>2, <1>6, <1>7 DEF Gapless

LEMMA InvoicesOwn ==
  ASSUME IInv, NEW r \in Requests, ResultsInv(r), NumbersInv(r), NEW i \in mine[r].invoices
  PROVE  \E n \in 1 .. Len(DeliveryOf[r]) : i.message = DeliveryOf[r][n]
<1>1. i \in InvoicesOf(results[r]) \/ i \in OpenInvoices(r)
  BY DEF NumbersInv, InOrder
<1>2. CASE i \in InvoicesOf(results[r])
  <2>1. PICK n \in 1 .. Len(results[r]) : i.message = results[r][n].message
    BY <1>2 DEF InvoicesOf, InvoicedIn
  <2>2. i.message = DeliveryOf[r][n]
    BY <2>1 DEF ResultsInv, ResultIs
  <2>3. n \in 1 .. Len(DeliveryOf[r])
    <3>1. /\ results[r] \in Seq(Result) /\ DeliveryOf[r] \in Seq(Messages)
          /\ Len(results[r]) <= Len(DeliveryOf[r])
      <4>1. TypeOK /\ RequestInv(r)
        BY DEF IInv
      <4>2. results[r] \in Seq(Result)
        BY <4>1 DEF TypeOK
      <4>3. Len(results[r]) <= Len(DeliveryOf[r])
        BY <4>1 DEF RequestInv
      <4>4. DeliveryOf[r] \in Seq(Messages)
        BY ONLY DeliveryAssumption, r \in Requests
      <4> QED
        BY <4>2, <4>3, <4>4
    <3> QED
      BY <3>1
  <2> QED
    BY <2>2, <2>3
<1>3. CASE i \in OpenInvoices(r)
  <2>1. ~Finished(r) /\ i.message = Current(r)
    BY <1>3 DEF OpenInvoices, Invoiced, IInv, RequestInv, Busy, Ordered
  <2> QED
    BY <2>1, CurrentMessage DEF Current
<1> QED
  BY <1>1, <1>2, <1>3

LEMMA NumbersCommitted ==
  ASSUME IInv, NEW r \in Requests, ResultsInv(r), NumbersInv(r), Gapless, Commit(r),
         NEW t \in Requests \ {r}, ResultsInv(t), NumbersInv(t)
  PROVE  NumbersInv(t)'
<1>1. /\ mine'[t] = mine[t] /\ results'[t] = results[t] /\ pc'[t] = pc[t] /\ number'[t] = number[t]
  BY OthersKept DEF Moves, SessionStep
<1>2. PICK base, base1, rows, mine1 :
        /\ base = Cardinality(invoices) /\ base1 = Cardinality(invoices')
        /\ rows = mine[r].invoices /\ mine1 = mine[t].invoices
  OBVIOUS
<1>3. /\ base \in Nat /\ Cardinality(rows) \in Nat /\ base1 = base + Cardinality(rows)
      /\ Cardinality(mine1) \in Nat /\ IsFiniteSet(rows) /\ IsFiniteSet(mine1)
      /\ base1 \in Nat /\ number[t] \in Nat
  BY <1>2, CommitNumbers, FS_CardinalityType DEF IInv, RequestInv, TypeOK
<1>4. OpenInvoices(t)' = OpenInvoices(t)
  BY <1>1 DEF OpenInvoices, Current
<1>5. /\ InOrder(base, mine1, results[t], OpenInvoices(t))
      /\ Numbers(rows) = base + 1 .. base + Cardinality(rows)
      /\ NextNumber(t) = base + Cardinality(mine1) + 1
      /\ NextNumber(t)' = base1 + Cardinality(mine1) + 1
  BY <1>1, <1>2 DEF NumbersInv, InOrder, NextNumber
<1>6. CASE rows = {}
  <2>1. base1 = base
    BY <1>3, <1>6, FS_EmptySet
  <2> QED
    BY <1>1, <1>2, <1>4, <1>5, <2>1 DEF NumbersInv
<1>7. CASE rows # {}
  <2>1. Cardinality(rows) >= 1
    BY <1>3, <1>7, FS_EmptySet
  <2>2. mine1 = {}
    <3>1. SUFFICES ASSUME mine1 # {} PROVE FALSE
      OBVIOUS
    <3>2. Cardinality(mine1) >= 1
      BY <1>3, <3>1, FS_EmptySet
    <3>3. base + 1 \in Numbers(rows) /\ base + 1 \in Numbers(mine1)
      <4>1. Numbers(mine1) = base + 1 .. base + Cardinality(mine1)
        BY <1>5 DEF InOrder
      <4>2. /\ base \in Nat /\ Cardinality(rows) \in Nat /\ Cardinality(mine1) \in Nat
            /\ Numbers(rows) = base + 1 .. base + Cardinality(rows)
        BY <1>3, <1>5
      <4>3. PICK r1, m1 : r1 = Cardinality(rows) /\ m1 = Cardinality(mine1)
        OBVIOUS
      <4>4. base + 1 \in base + 1 .. base + r1 /\ base + 1 \in base + 1 .. base + m1
        BY ONLY <2>1, <3>2, <4>2, <4>3
      <4> QED
        BY ONLY <4>1, <4>2, <4>3, <4>4
    <3>4. PICK i \in rows : i.number = base + 1
      BY <3>3 DEF Numbers
    <3>5. PICK j \in mine1 : j.number = base + 1
      BY <3>3 DEF Numbers
    <3>6. i = j
      <4>1. i \in AllInvoices /\ j \in AllInvoices
        BY <1>2, <3>4, <3>5 DEF AllInvoices
      <4> QED
        BY <3>4, <3>5, <4>1 DEF IInv, NumbersApart
    <3>7. FALSE
      <4>1. i \in mine[r].invoices /\ i \in mine[t].invoices
        BY <1>2, <3>4, <3>5, <3>6
      <4>2. PICK m \in 1 .. Len(DeliveryOf[r]) : i.message = DeliveryOf[r][m]
        BY <4>1, InvoicesOwn
      <4>3. PICK n \in 1 .. Len(DeliveryOf[t]) : i.message = DeliveryOf[t][n]
        BY <4>1, InvoicesOwn
      <4>4. DeliveryOf[r][m] = DeliveryOf[t][n] /\ r # t
        BY <4>2, <4>3
      <4> QED
        BY ONLY DeliveryAssumption, <4>2, <4>3, <4>4, r \in Requests, t \in Requests
    <3> QED
      BY <3>7
  <2>3. InOrder(base1, {}, results[t], OpenInvoices(t))
    BY <1>3, <1>5, <2>2, InOrderWithout
  <2>4. OpenInvoices(t) = {}
    BY <2>2, <1>5 DEF InOrder
  <2>5. pc[t] \notin Invoiced
    BY <2>4 DEF OpenInvoices
  <2>6. InOrder(Cardinality(invoices'), mine'[t].invoices, results'[t], OpenInvoices(t)')
    BY <1>1, <1>2, <1>4, <2>2, <2>3
  <2>7. pc[t] = "invoicing" =>
          1 <= number[t] /\ number[t] <= NextNumber(t)' /\ mine'[t].invoices = {}
    <3>1. pc[t] = "invoicing" => 1 <= number[t] /\ number[t] <= NextNumber(t)
      BY DEF NumbersInv
    <3>2. mine'[t].invoices = {}
      BY <1>1, <1>2, <2>2
    <3>3. PICK next, next1 : next = NextNumber(t) /\ next1 = NextNumber(t)'
      OBVIOUS
    <3>4. next \in Nat /\ next1 \in Nat /\ next <= next1
      <4>1. /\ next = base + Cardinality(mine1) + 1 /\ next1 = base1 + Cardinality(mine1) + 1
            /\ base1 = base + Cardinality(rows)
            /\ base \in Nat /\ Cardinality(rows) \in Nat /\ Cardinality(mine1) \in Nat
        BY <1>3, <1>5, <3>3
      <4> QED
        BY ONLY <4>1
    <3>5. number[t] \in Nat
      BY <1>3
    <3>6. number[t] <= next => number[t] <= next1
      BY ONLY <3>4, <3>5
    <3> QED
      BY ONLY <3>1, <3>2, <3>3, <3>6
  <2> QED
    BY <1>1, <2>5, <2>6, <2>7 DEF NumbersInv
<1> QED
  BY <1>6, <1>7

----
(* Replay and FlattenSeq are recursive functions: each has one solution. *)
LEMMA LeastNatural ==
  ASSUME NEW T \in SUBSET Nat, T # {}
  PROVE  \E n \in T : \A m \in T : n <= m
<1> DEFINE R == OpToRel(<, Nat)
<1>1. IsWellFoundedOn(R, Nat)
  BY NatLessThanWellFounded
<1>2. \A m, n \in Nat : m < n => <<m, n>> \in R
  BY DEF OpToRel
<1> HIDE DEF R
<1>3. PICK n \in T : \A m \in T : <<m, n>> \notin R
  BY <1>1, WFMin
<1>4. ASSUME NEW m \in T PROVE n <= m
  <2>1. m \in Nat /\ n \in Nat
    OBVIOUS
  <2>2. ~(m < n)
    BY <1>2, <1>3, <2>1
  <2> QED
    BY <2>1, <2>2
<1> QED
  BY <1>4

(* Two functions that start alike and go on alike are alike. *)
GoOn(f, g, low, high) == \A n \in low + 1 .. high : f[n - 1] = g[n - 1] => f[n] = g[n]

LEMMA GoOnAlike ==
  ASSUME NEW f, NEW g, NEW low \in Nat, NEW high \in Nat, f[low] = g[low], GoOn(f, g, low, high)
  PROVE  \A n \in low .. high : f[n] = g[n]
<1> DEFINE Off == {n \in low .. high : f[n] # g[n]}
<1>1. ASSUME Off # {} PROVE FALSE
  <2>1. Off \in SUBSET Nat
    OBVIOUS
  <2>2. PICK n \in Off : \A m \in Off : n <= m
    BY <1>1, <2>1, LeastNatural
  <2>3. n \in low .. high /\ f[n] # g[n] /\ n # low
    BY <2>2
  <2>4. n - 1 \in low .. high /\ n \in low + 1 .. high
    BY <2>3
  <2>5. n - 1 \notin Off
    BY <2>2, <2>4
  <2>6. f[n - 1] = g[n - 1]
    BY <2>4, <2>5
  <2> QED
    BY <2>3, <2>4, <2>6 DEF GoOn
<1> QED
  BY <1>1

(* The items of the messages one after the other, and the verdicts on them. *)
ItemsOf(res) == [n \in 1 .. Len(res) |-> res[n].items]
VerdictsOf(res) == [n \in 1 .. Len(res) |-> res[n].verdicts]

(* flat[n] is the first n parts in one sequence; whole is all of them. *)
Joins(flat, parts) ==
  flat = [n \in 1 .. Len(parts) |-> IF n = 1 THEN parts[n] ELSE flat[n - 1] \o parts[n]]
Joined(whole, parts) ==
  \/ Len(parts) = 0 /\ whole = <<>>
  \/ Len(parts) # 0 /\ \E flat : Joins(flat, parts) /\ whole = flat[Len(parts)]

LEMMA JoinsEach ==
  ASSUME NEW flat, NEW parts, Joins(flat, parts)
  PROVE  \A n \in 1 .. Len(parts) : /\ n = 1 => flat[n] = parts[n]
                                    /\ n # 1 => flat[n] = flat[n - 1] \o parts[n]
<1>1. ASSUME NEW n \in 1 .. Len(parts)
      PROVE  flat[n] = IF n = 1 THEN parts[n] ELSE flat[n - 1] \o parts[n]
  BY DEF Joins
<1> QED
  BY <1>1

(* parts1 is parts with one more part at its end. *)
Longer(parts, part, S, parts1) ==
  /\ Len(parts) \in Nat /\ part \in Seq(S)
  /\ Len(parts1) = Len(parts) + 1 /\ parts1[Len(parts) + 1] = part
  /\ \A k \in 1 .. Len(parts) : parts1[k] = parts[k]

LEMMA JoinedNext ==
  ASSUME NEW whole, NEW parts, Joined(whole, parts), NEW part, NEW S, NEW parts1,
         Longer(parts, part, S, parts1)
  PROVE  Joined(whole \o part, parts1)
<1>0. PICK n \in Nat : n = Len(parts)
  BY DEF Longer
<1>9. /\ n = Len(parts) /\ part \in Seq(S) /\ Len(parts1) = n + 1 /\ parts1[n + 1] = part
      /\ \A k \in 1 .. n : parts1[k] = parts[k]
  BY <1>0 DEF Longer
<1>1. CASE n = 0
  <2> DEFINE flat == [k \in 1 .. 1 |-> part]
  <2>1. Joins(flat, parts1) /\ flat[Len(parts1)] = part
    BY <1>9, <1>1 DEF Joins
  <2>2. whole \o part = part
    BY <1>9, <1>1 DEF Joined
  <2> QED
    BY <1>9, <1>1, <2>1, <2>2 DEF Joined
<1>2. CASE n # 0
  <2>1. PICK flat : Joins(flat, parts) /\ whole = flat[n]
    BY <1>9, <1>2 DEF Joined
  <2>2. ASSUME NEW k \in 1 .. n
        PROVE  /\ k = 1 => flat[k] = parts[k]
               /\ k # 1 => flat[k] = flat[k - 1] \o parts[k]
    <3>1. k \in 1 .. Len(parts)
      BY <1>9
    <3> QED
      BY ONLY <2>1, <3>1, JoinsEach, ZenonT(30)
  <2> DEFINE longer == [k \in 1 .. n + 1 |-> IF k = n + 1 THEN whole \o part ELSE flat[k]]
  <2>3. /\ longer[n + 1] = whole \o part /\ \A k \in 1 .. n : longer[k] = flat[k]
        /\ longer = [k \in 1 .. n + 1 |-> longer[k]]
    BY <1>9
  <2> HIDE DEF longer
  <2>4. ASSUME NEW k \in 1 .. n + 1
        PROVE  longer[k] = IF k = 1 THEN parts1[k] ELSE longer[k - 1] \o parts1[k]
    <3>1. CASE k = n + 1
      <4>1. k - 1 = n /\ n \in 1 .. n /\ k # 1
        BY <1>9, <1>2, <3>1
      <4>2. longer[k - 1] = whole /\ longer[k] = whole \o part /\ parts1[k] = part
        BY <1>9, <2>1, <2>3, <3>1, <4>1
      <4> QED
        BY <1>9, <4>1, <4>2
    <3>2. CASE k = 1
      <4>1. k \in 1 .. n
        BY <1>9, <1>2, <3>2
      <4>2. longer[k] = flat[k] /\ flat[k] = parts[k] /\ parts1[k] = parts[k]
        BY <1>9, <2>2, <2>3, <3>2, <4>1
      <4> QED
        BY <1>9, <3>2, <4>2
    <3>3. CASE k # n + 1 /\ k # 1
      <4>1. k \in 1 .. n /\ k - 1 \in 1 .. n
        BY <1>9, <3>3
      <4>2. longer[k] = flat[k] /\ longer[k - 1] = flat[k - 1] /\ parts1[k] = parts[k]
        BY <1>9, <2>3, <4>1
      <4>3. flat[k] = flat[k - 1] \o parts[k]
        BY <1>9, <2>2, <3>3, <4>1
      <4> QED
        BY <1>9, <3>3, <4>2, <4>3
    <3> QED
      BY <1>9, <3>1, <3>2, <3>3
  <2>5. Joins(longer, parts1)
    BY <1>9, <2>3, <2>4 DEF Joins
  <2>6. longer[Len(parts1)] = whole \o part /\ Len(parts1) # 0
    BY <1>9, <2>3
  <2> QED
    BY <1>9, <2>5, <2>6 DEF Joined
<1> QED
  BY <1>9, <1>1, <1>2

LEMMA JoinedIs ==
  ASSUME NEW whole, NEW parts, Joined(whole, parts), Len(parts) \in Nat, Len(parts) # 0
  PROVE  Promise!FlattenSeq(parts) = whole
<1>1. PICK flat : Joins(flat, parts) /\ whole = flat[Len(parts)]
  BY DEF Joined
<1>2. PICK g : g = CHOOSE f : Joins(f, parts)
  OBVIOUS
<1>3. Joins(g, parts)
  BY <1>1, <1>2
<1>4. \A n \in 1 .. Len(parts) : flat[n] = g[n]
  <2>1. flat[1] = g[1]
    <3>1. PICK k : k = 1 /\ k \in 1 .. Len(parts)
      OBVIOUS
    <3>2. flat[k] = parts[k]
      BY ONLY <1>1, <3>1, JoinsEach, ZenonT(30)
    <3>3. g[k] = parts[k]
      BY ONLY <1>3, <3>1, JoinsEach, ZenonT(30)
    <3> QED
      BY <3>1, <3>2, <3>3
  <2>2. ASSUME NEW n \in 1 + 1 .. Len(parts), flat[n - 1] = g[n - 1] PROVE flat[n] = g[n]
    <3>1. n \in 1 .. Len(parts) /\ n # 1
      OBVIOUS
    <3>2. flat[n] = flat[n - 1] \o parts[n] /\ g[n] = g[n - 1] \o parts[n]
      BY ONLY <1>1, <1>3, <3>1, JoinsEach, ZenonT(30)
    <3> QED
      BY <2>2, <3>2
  <2>3. GoOn(flat, g, 1, Len(parts))
    BY <2>2 DEF GoOn
  <2> QED
    BY <2>1, <2>3, GoOnAlike
<1>5. Promise!FlattenSeq(parts) = g[Len(parts)]
  BY <1>2 DEF Promise!FlattenSeq, Joins
<1> QED
  BY <1>1, <1>4, <1>5

----
(* A delivery's deductions as they would go alone, from the stock first:     *)
(* level[n] is the stock after n of them.                                    *)
Verdicts == {"done", "short", "missing"}

Changed(before, i, verdict) ==
  IF verdict = "done" THEN [before EXCEPT ![i.product] = Promise!Stock!After(@, i)] ELSE before

(* The levels that the verdicts v on the items w lead through. *)
Runs(level, first, w, v) ==
  /\ level \in [0 .. Len(v) -> [Products -> Int]]
  /\ level[0] = first
  /\ \A n \in 1 .. Len(v) : level[n] = Changed(level[n - 1], w[n], v[n])

(* A verdict on item i that a stock of have justifies. *)
Fair(i, verdict, have) ==
  /\ verdict = "done" => i.product \in StockRows /\ have >= i.quantity
  /\ verdict = "short" => i.product \in StockRows /\ have < i.quantity
  /\ verdict = "missing" => i.product \notin StockRows

LEMMA AfterIs ==
  ASSUME NEW i \in Item, NEW have
  PROVE  Promise!Stock!After(have, i) = have - i.quantity
BY DEF Promise!Stock!After, Item

(* What is locked is as the session left it, all else as it was first. *)
Splits(now, held, left, first) ==
  \A q \in Products : now[q] = IF q \in held THEN left[q] ELSE first[q]

(* The items not refused for want of a row have theirs locked. *)
Holds(held, w, v) == \A n \in 1 .. Len(v) : v[n] # "missing" => w[n].product \in held

(* The verdicts v came about as they would alone from first on, and what the
   session has locked is left as they leave it. *)
Serial(level, first, w, v, held, left) ==
  /\ Runs(level, first, w, v)
  /\ \A n \in 1 .. Len(v) : Fair(w[n], v[n], level[n - 1][w[n].product])
  /\ Splits(level[Len(v)], held, left, first)

LEMMA SerialStart ==
  ASSUME NEW first \in [Products -> Int], NEW w, NEW v, Len(v) = 0, NEW left
  PROVE  \E level : Serial(level, first, w, v, {}, left)
<1> DEFINE level == [n \in 0..0 |-> first]
<1>1. Serial(level, first, w, v, {}, left)
  BY DEF Serial, Runs, Splits
<1> QED
  BY <1>1

(* Items still to be deducted do not matter. *)
LEMMA SerialLonger ==
  ASSUME NEW level, NEW first, NEW w, NEW w1, NEW v, NEW held, NEW left,
         Serial(level, first, w, v, held, left), \A n \in 1 .. Len(v) : w1[n] = w[n]
  PROVE  Serial(level, first, w1, v, held, left)
BY DEF Serial, Runs

LEMMA SerialNext ==
  ASSUME NEW level, NEW first \in [Products -> Int], NEW w \in Seq(Item), NEW v \in Seq(Verdicts),
         NEW held, NEW left, Serial(level, first, w, v, held, left),
         NEW n \in 1 .. Len(w), n = Len(v) + 1, NEW verdict \in Verdicts,
         Fair(w[n], verdict, level[Len(v)][w[n].product]),
         NEW held1, NEW left1,
         NEW now \in [Products -> Int], now = Changed(level[Len(v)], w[n], verdict),
         Splits(now, held1, left1, first)
  PROVE  \E longer : Serial(longer, first, w, Append(v, verdict), held1, left1)
<1> DEFINE v1 == Append(v, verdict)
           longer == [k \in 0 .. n |-> IF k = n THEN now ELSE level[k]]
<1>1. /\ Len(v) \in Nat /\ Len(v) = n - 1 /\ Len(v1) = n /\ v1[n] = verdict
      /\ \A k \in 1 .. n - 1 : v1[k] = v[k]
  OBVIOUS
<1>2. /\ level \in [0 .. n - 1 -> [Products -> Int]]
      /\ level[0] = first
      /\ \A k \in 1 .. n - 1 : level[k] = Changed(level[k - 1], w[k], v[k])
      /\ \A k \in 1 .. n - 1 : Fair(w[k], v[k], level[k - 1][w[k].product])
  BY <1>1 DEF Serial, Runs
<1>3. /\ longer[n] = now /\ \A k \in 0 .. n - 1 : longer[k] = level[k]
      /\ longer \in [0 .. n -> [Products -> Int]]
  BY <1>2
<1> HIDE DEF longer, v1
<1>4. ASSUME NEW k \in 1 .. n
      PROVE  /\ longer[k] = Changed(longer[k - 1], w[k], v1[k])
             /\ Fair(w[k], v1[k], longer[k - 1][w[k].product])
  <2>1. CASE k = n
    <3>1. longer[n - 1] = level[Len(v)]
      BY <1>1, <1>3
    <3> QED
      BY <1>1, <1>3, <2>1, <3>1
  <2>2. CASE k # n
    <3>1. k \in 1 .. n - 1 /\ k \in 0 .. n - 1 /\ k - 1 \in 0 .. n - 1
      BY <2>2
    <3>2. k \in 1 .. n - 1 /\ longer[k] = level[k] /\ longer[k - 1] = level[k - 1] /\ v1[k] = v[k]
      BY <1>1, <1>3, <3>1
    <3> QED
      BY <1>2, <3>2
  <2> QED
    BY <2>1, <2>2
<1>5. Runs(longer, first, w, v1)
  <2>1. longer[0] = first
    BY <1>2, <1>3
  <2>2. /\ longer \in [0 .. Len(v1) -> [Products -> Int]]
        /\ \A k \in 1 .. Len(v1) : longer[k] = Changed(longer[k - 1], w[k], v1[k])
    BY <1>1, <1>3, <1>4
  <2> QED
    BY <2>1, <2>2 DEF Runs
<1>6. Splits(longer[n], held1, left1, first)
  BY <1>3
<1>7. Serial(longer, first, w, v1, held1, left1)
  BY <1>1, <1>4, <1>5, <1>6 DEF Serial
<1> QED
  BY <1>7 DEF v1

(* Other sessions commit: stock changes where this session locks nothing. *)
Elsewhere(level, first, w, v, held, left, first1) ==
  /\ first \in [Products -> Int] /\ first1 \in [Products -> Int]
  /\ w \in Seq(Item) /\ v \in Seq(Verdicts) /\ Len(v) <= Len(w)
  /\ Serial(level, first, w, v, held, left)
  /\ Holds(held, w, v)
  /\ \A q \in Products \cap held : first1[q] = first[q]

LEMMA SerialElsewhere ==
  ASSUME NEW level, NEW first, NEW w, NEW v, NEW held, NEW left, NEW first1,
         Elsewhere(level, first, w, v, held, left, first1)
  PROVE  \E other : Serial(other, first1, w, v, held, left)
<1>0. /\ first \in [Products -> Int] /\ first1 \in [Products -> Int]
      /\ w \in Seq(Item) /\ v \in Seq(Verdicts) /\ Len(v) <= Len(w)
      /\ Serial(level, first, w, v, held, left)
      /\ Holds(held, w, v)
      /\ \A q \in Products \cap held : first1[q] = first[q]
  BY DEF Elsewhere
<1> DEFINE other == [n \in 0 .. Len(v) |->
                       [q \in Products |-> IF q \in held THEN level[n][q] ELSE first1[q]]]
<1>1. /\ level \in [0 .. Len(v) -> [Products -> Int]]
      /\ level[0] = first
      /\ \A n \in 1 .. Len(v) : level[n] = Changed(level[n - 1], w[n], v[n])
      /\ \A n \in 1 .. Len(v) : Fair(w[n], v[n], level[n - 1][w[n].product])
      /\ Splits(level[Len(v)], held, left, first)
  BY <1>0 DEF Serial, Runs
<1>2. Len(v) \in Nat
  BY <1>0
<1>3. \A n \in 0 .. Len(v) : /\ other[n] \in [Products -> Int]
                             /\ \A q \in Products : other[n][q] = IF q \in held THEN level[n][q]
                                                                 ELSE first1[q]
  BY <1>0, <1>1
<1>4. other \in [0 .. Len(v) -> [Products -> Int]]
  BY <1>3
<1> HIDE DEF other
<1>5. other[0] = first1
  BY <1>0, <1>1, <1>2, <1>3
<1>6. ASSUME NEW n \in 1 .. Len(v)
      PROVE  /\ other[n] = Changed(other[n - 1], w[n], v[n])
             /\ Fair(w[n], v[n], other[n - 1][w[n].product])
  <2>1. PICK p, i, before, now, before1, now1 :
          /\ p = w[n].product /\ i = w[n] /\ before = level[n - 1] /\ now = level[n]
          /\ before1 = other[n - 1] /\ now1 = other[n]
    OBVIOUS
  <2>2. n - 1 \in 0 .. Len(v) /\ n \in 0 .. Len(v) /\ n \in 1 .. Len(w)
    <3>1. Len(w) \in Nat
      BY <1>0
    <3> QED
      BY <1>0, <1>2, <3>1
  <2>3. p \in Products /\ i.quantity \in Int
    <3>1. w[n] \in Item
      BY <1>0, <2>2
    <3> QED
      BY <2>1, <3>1 DEF Item
  <2>4. /\ before \in [Products -> Int] /\ now \in [Products -> Int]
        /\ before1 \in [Products -> Int] /\ now1 \in [Products -> Int]
        /\ \A q \in Products : /\ before1[q] = IF q \in held THEN before[q] ELSE first1[q]
                               /\ now1[q] = IF q \in held THEN now[q] ELSE first1[q]
    BY <1>0, <1>1, <1>3, <2>1, <2>2
  <2>5. /\ now = IF v[n] = "done" THEN [before EXCEPT ![p] = Promise!Stock!After(@, i)] ELSE before
        /\ Fair(i, v[n], before[p])
    BY <1>1, <2>1 DEF Changed
  <2>6. v[n] # "missing" => p \in held
    BY <1>0, <2>1 DEF Holds
  <2>7. now1 = IF v[n] = "done" THEN [before1 EXCEPT ![p] = Promise!Stock!After(@, i)] ELSE before1
    <3>1. CASE v[n] = "done"
      <4>1. now1[p] = Promise!Stock!After(before1[p], i)
        BY <2>3, <2>4, <2>5, <2>6, <3>1
      <4>2. \A q \in Products \ {p} : now1[q] = before1[q]
        BY <2>3, <2>4, <2>5, <3>1
      <4>3. now1 = [before1 EXCEPT ![p] = Promise!Stock!After(before1[p], i)]
        BY <2>3, <2>4, <4>1, <4>2
      <4> QED
        BY <3>1, <4>3
    <3>2. CASE v[n] # "done"
      BY <2>4, <2>5, <3>2
    <3> QED
      BY <3>1, <3>2
  <2>8. Fair(i, v[n], before1[p])
    BY <2>3, <2>4, <2>5, <2>6 DEF Fair
  <2> QED
    BY <2>1, <2>7, <2>8 DEF Changed
<1>7. Runs(other, first1, w, v)
  BY <1>4, <1>5, <1>6 DEF Runs
<1>8. Splits(other[Len(v)], held, left, first1)
  <2>1. Len(v) \in 0 .. Len(v)
    BY <1>2
  <2>2. \A q \in Products : other[Len(v)][q] = IF q \in held THEN level[Len(v)][q] ELSE first1[q]
    BY <1>3, <2>1
  <2> QED
    BY <1>1, <2>2 DEF Splits
<1>9. Serial(other, first1, w, v, held, left)
  BY <1>6, <1>7, <1>8 DEF Serial
<1> QED
  BY <1>9

(* Replay, a recursive function, has one solution: the levels. *)
Unfolds(f, first, w, v) ==
  f = [n \in 0 .. Len(w) |-> IF n = 0 THEN first ELSE Changed(f[n - 1], w[n], v[n])]

LEMMA ReplayIs ==
  ASSUME NEW w, NEW v, Len(w) \in Nat, Len(v) = Len(w), NEW level, Runs(level, stock, w, v)
  PROVE  Promise!Stock!Replay(w, v) = level
<1>1. PICK first, g : first = stock /\ g = CHOOSE f : Unfolds(f, first, w, v)
  OBVIOUS
<1>2. /\ level \in [0 .. Len(w) -> [Products -> Int]] /\ level[0] = first
      /\ \A n \in 1 .. Len(w) : level[n] = Changed(level[n - 1], w[n], v[n])
  BY <1>1 DEF Runs
<1>3. Unfolds(level, first, w, v)
  <2>1. \A n \in 0 .. Len(w) : n = 0 \/ n \in 1 .. Len(w)
    OBVIOUS
  <2>2. \A n \in 0 .. Len(w) :
          level[n] = IF n = 0 THEN first ELSE Changed(level[n - 1], w[n], v[n])
    BY <1>2, <2>1
  <2>3. level = [n \in 0 .. Len(w) |-> level[n]]
    BY <1>2
  <2> QED
    BY <2>2, <2>3 DEF Unfolds
<1>4. Unfolds(g, first, w, v)
  BY <1>1, <1>3
<1>5. /\ g = [n \in 0 .. Len(w) |-> g[n]] /\ g[0] = first
      /\ \A n \in 1 .. Len(w) : g[n] = Changed(g[n - 1], w[n], v[n])
  <2>1. \A n \in 0 .. Len(w) : g[n] = IF n = 0 THEN first ELSE Changed(g[n - 1], w[n], v[n])
    BY <1>4 DEF Unfolds
  <2>2. \A n \in 1 .. Len(w) : n \in 0 .. Len(w) /\ n # 0
    OBVIOUS
  <2>3. 0 \in 0 .. Len(w)
    OBVIOUS
  <2>4. g = [n \in 0 .. Len(w) |-> g[n]]
    BY <1>4 DEF Unfolds
  <2> QED
    BY <2>1, <2>2, <2>3, <2>4
<1>6. \A n \in 0 .. Len(w) : level[n] = g[n]
  <2>1. ASSUME NEW n \in 0 + 1 .. Len(w), level[n - 1] = g[n - 1] PROVE level[n] = g[n]
    <3>1. n \in 1 .. Len(w)
      OBVIOUS
    <3>2. PICK p : p = n - 1
      OBVIOUS
    <3>3. level[n] = Changed(level[p], w[n], v[n]) /\ g[n] = Changed(g[p], w[n], v[n])
      BY <1>2, <1>5, <3>1, <3>2
    <3>4. level[p] = g[p]
      BY <2>1, <3>2
    <3> QED
      BY ONLY <3>3, <3>4
  <2>2. GoOn(level, g, 0, Len(w))
    BY <2>1 DEF GoOn
  <2>3. level[0] = g[0] /\ 0 \in Nat
    BY <1>2, <1>5
  <2> QED
    BY <2>2, <2>3, GoOnAlike
<1>7. level = g
  BY <1>2, <1>5, <1>6
<1>8. Promise!Stock!Replay(w, v) = CHOOSE f : Unfolds(f, stock, w, v)
  BY DEF Promise!Stock!Replay, Unfolds, Changed
<1> QED
  BY <1>1, <1>7, <1>8

(* Some such levels exist. *)
Sound(first, w, v, held, left) ==
  /\ Holds(held, w, v)
  /\ \E level : Serial(level, first, w, v, held, left)

(* A verdict that what the session sees justifies, and what it has then. *)
Justified(first, held, left, i, verdict, held1, left1) ==
  /\ held \subseteq held1
  /\ verdict # "missing" => i.product \in held1
  /\ \A before \in [Products -> Int] : Splits(before, held, left, first) =>
       /\ Fair(i, verdict, before[i.product])
       /\ Changed(before, i, verdict) \in [Products -> Int]
       /\ Splits(Changed(before, i, verdict), held1, left1, first)

LEMMA SoundNext ==
  ASSUME NEW first \in [Products -> Int], NEW w \in Seq(Item), NEW v \in Seq(Verdicts),
         NEW held, NEW left, Sound(first, w, v, held, left),
         NEW n \in 1 .. Len(w), n = Len(v) + 1, NEW verdict \in Verdicts,
         NEW held1, NEW left1, Justified(first, held, left, w[n], verdict, held1, left1)
  PROVE  Sound(first, w, Append(v, verdict), held1, left1)
<1>1. PICK level : Serial(level, first, w, v, held, left)
  BY DEF Sound
<1>2. PICK before, now, i : before = level[Len(v)] /\ i = w[n] /\ now = Changed(before, i, verdict)
  OBVIOUS
<1>3. before \in [Products -> Int] /\ Splits(before, held, left, first)
  <2>1. Len(v) \in 0 .. Len(v)
    OBVIOUS
  <2> QED
    BY <1>1, <1>2, <2>1 DEF Serial, Runs
<1>4. Fair(i, verdict, before[i.product]) /\ now \in [Products -> Int] /\ Splits(now, held1, left1, first)
  BY <1>2, <1>3 DEF Justified
<1>5. /\ Fair(w[n], verdict, level[Len(v)][w[n].product])
      /\ now = Changed(level[Len(v)], w[n], verdict)
  BY <1>2, <1>4
<1>6. \E longer : Serial(longer, first, w, Append(v, verdict), held1, left1)
  BY <1>1, <1>4, <1>5, SerialNext
<1>7. Holds(held1, w, Append(v, verdict))
  <2>1. ASSUME NEW k \in 1 .. Len(Append(v, verdict)), Append(v, verdict)[k] # "missing"
        PROVE  w[k].product \in held1
    <3>1. \/ k = n /\ Append(v, verdict)[k] = verdict
          \/ k \in 1 .. Len(v) /\ Append(v, verdict)[k] = v[k]
      OBVIOUS
    <3>2. \A q \in held : q \in held1
      BY DEF Justified
    <3>3. verdict # "missing" => w[n].product \in held1
      BY DEF Justified
    <3>4. \A m \in 1 .. Len(v) : v[m] # "missing" => w[m].product \in held
      BY DEF Sound, Holds
    <3> QED
      BY <2>1, <3>1, <3>2, <3>3, <3>4
  <2> QED
    BY <2>1 DEF Holds
<1> QED
  BY <1>6, <1>7 DEF Sound

LEMMA DeductJustified ==
  ASSUME NEW first \in [Products -> Int], NEW held, NEW left \in [Products -> Int], NEW i \in Item,
         i.product \in StockRows, NEW have \in Int,
         i.product \in held => have = left[i.product],
         i.product \notin held => have = first[i.product],
         NEW verdict, NEW rest,
         have < i.quantity => verdict = "short" /\ rest = have,
         ~(have < i.quantity) => verdict = "done" /\ rest = have - i.quantity
  PROVE  Justified(first, held, left, i, verdict, held \cup {i.product},
                   [left EXCEPT ![i.product] = rest])
<1>1. PICK p, left1 : p = i.product /\ left1 = [left EXCEPT ![p] = rest]
  OBVIOUS
<1>2. p \in Products /\ i.quantity \in Int
  BY <1>1 DEF Item
<1>3. left1[p] = rest /\ \A q \in Products \ {p} : left1[q] = left[q]
  BY <1>1, <1>2
<1>4. ASSUME NEW before \in [Products -> Int], Splits(before, held, left, first)
      PROVE  /\ Fair(i, verdict, before[i.product])
             /\ Changed(before, i, verdict) \in [Products -> Int]
             /\ Splits(Changed(before, i, verdict), held \cup {p}, left1, first)
  <2>1. before[p] = have
    BY <1>1, <1>2, <1>4 DEF Splits
  <2>2. PICK now : now = Changed(before, i, verdict)
    OBVIOUS
  <2>3. now \in [Products -> Int] /\ now[p] = rest /\ \A q \in Products \ {p} : now[q] = before[q]
    <3>1. CASE have < i.quantity
      BY <1>2, <2>1, <2>2, <3>1 DEF Changed
    <3>2. CASE ~(have < i.quantity)
      <4>1. now = [before EXCEPT ![p] = have - i.quantity]
        BY <1>1, <1>2, <2>1, <2>2, <3>2, AfterIs DEF Changed
      <4> QED
        BY <1>2, <3>2, <4>1
    <3> QED
      BY <3>1, <3>2
  <2>4. Splits(now, held \cup {p}, left1, first)
    BY <1>2, <1>3, <1>4, <2>3 DEF Splits
  <2>5. Fair(i, verdict, before[i.product])
    BY <1>1, <1>2, <2>1 DEF Fair
  <2> QED
    BY <2>2, <2>3, <2>4, <2>5
<1>5. Justified(first, held, left, i, verdict, held \cup {p}, left1)
  BY <1>1, <1>4 DEF Justified
<1> QED
  BY <1>1, <1>5

LEMMA MissJustified ==
  ASSUME NEW first, NEW held, NEW left, NEW i, i.product \notin StockRows
  PROVE  Justified(first, held, left, i, "missing", held, left)
BY DEF Justified, Fair, Changed

LEMMA SoundLonger ==
  ASSUME NEW first, NEW w \in Seq(Item), NEW i \in Item, NEW v, Len(v) \in Nat, Len(v) <= Len(w),
         NEW held, NEW left, Sound(first, w, v, held, left)
  PROVE  Sound(first, Append(w, i), v, held, left)
<1>1. PICK w1 : w1 = Append(w, i)
  OBVIOUS
<1>2. \A n \in 1 .. Len(v) : w1[n] = w[n]
  BY <1>1
<1>3. PICK level : Serial(level, first, w, v, held, left)
  BY DEF Sound
<1>4. Serial(level, first, w1, v, held, left)
  BY <1>2, <1>3, SerialLonger
<1>5. Holds(held, w1, v)
  BY <1>2 DEF Sound, Holds
<1> QED
  BY <1>1, <1>4, <1>5 DEF Sound

----
(* What a working session has deducted so far is what it would have alone. *)
DeductedFrom(first, res, w1, v1, held, left) ==
  \E w \in Seq(Item), v \in Seq(Verdicts) :
    /\ Len(w) = Len(v)
    /\ Joined(w, ItemsOf(res)) /\ Joined(v, VerdictsOf(res))
    /\ Sound(first, w \o w1, v \o v1, held, left)

StockInv(r) == DeductedFrom(stock, results[r], items[r], verdicts[r], locked[r], draft[r])

(* No stock row is locked by two sessions. *)
LocksApart == \A r, t \in Requests : r # t => locked[r] \cap locked[t] = {}

LEMMA ConcatFacts ==
  ASSUME NEW S, NEW a \in Seq(S), NEW b \in Seq(S)
  PROVE  /\ a \o b \in Seq(S) /\ Len(a \o b) = Len(a) + Len(b)
         /\ a \o <<>> = a
         /\ \A k \in 1 .. Len(b) : (a \o b)[Len(a) + k] = b[k]
<1>1. a \o b \in Seq(S) /\ Len(a \o b) = Len(a) + Len(b)
  BY ConcatProperties
<1>2. a \o <<>> = a
  BY ConcatEmptySeq
<1>3. ASSUME NEW k \in 1 .. Len(b) PROVE (a \o b)[Len(a) + k] = b[k]
  <2>1. \A i \in 1 .. Len(a) + Len(b) : (a \o b)[i] = IF i <= Len(a) THEN a[i] ELSE b[i - Len(a)]
    BY ConcatProperties
  <2>2. /\ Len(a) \in Nat /\ Len(b) \in Nat
        /\ Len(a) + k \in 1 .. Len(a) + Len(b) /\ ~(Len(a) + k <= Len(a))
        /\ (Len(a) + k) - Len(a) = k
    OBVIOUS
  <2> QED
    BY <2>1, <2>2
<1> QED
  BY <1>1, <1>2, <1>3

(* An element put at the end of both is at the end of b. *)
Tacked(a, b, e) == Append(a \o b, e) = a \o Append(b, e)

LEMMA AppendConcat ==
  ASSUME NEW S, NEW a \in Seq(S), NEW b \in Seq(S), NEW e \in S
  PROVE  Tacked(a, b, e)
<1>1. <<e>> \in Seq(S) /\ a \o b \in Seq(S)
  BY ConcatProperties
<1>2. Append(a \o b, e) = (a \o b) \o <<e>> /\ Append(b, e) = b \o <<e>>
  BY <1>1, AppendIsConcat
<1>3. (a \o b) \o <<e>> = a \o (b \o <<e>>)
  BY <1>1, ConcatAssociative
<1> QED
  BY <1>2, <1>3 DEF Tacked

LEMMA StockTypes ==
  ASSUME TypeOK, NEW r \in Requests
  PROVE  /\ items[r] \in Seq(Item) /\ verdicts[r] \in Seq(Verdicts) /\ results[r] \in Seq(Result)
         /\ Len(items[r]) \in Nat /\ Len(verdicts[r]) \in Nat
         /\ stock \in [Products -> Int] /\ draft[r] \in [Products -> Int]
         /\ locked[r] \subseteq Products
<1>1. /\ items[r] \in Seq(Item) /\ verdicts[r] \in Seq(Verdicts) /\ results[r] \in Seq(Result)
      /\ locked[r] \subseteq StockRows
  BY DEF TypeOK, Verdicts
<1>2. stock \in [Products -> Nat] /\ draft[r] \in [Products -> Nat]
  BY DEF TypeOK
<1>3. stock \in [Products -> Int] /\ draft[r] \in [Products -> Int]
  BY <1>2
<1>4. Len(items[r]) \in Nat /\ Len(verdicts[r]) \in Nat
  BY <1>1, LenProperties
<1>5. locked[r] \subseteq Products
  BY ONLY <1>1, StockAssumption
<1> QED
  BY <1>1, <1>3, <1>4, <1>5

(* The items of a message through join those of the ones before. *)
LEMMA DeductedNext ==
  ASSUME NEW first, NEW res \in Seq(Result), NEW result \in Result,
         Len(result.items) = Len(result.verdicts), NEW held, NEW left,
         DeductedFrom(first, res, result.items, result.verdicts, held, left)
  PROVE  DeductedFrom(first, Append(res, result), <<>>, <<>>, held, left)
<1>1. PICK w1, v1 : w1 = result.items /\ v1 = result.verdicts
  OBVIOUS
<1>2. w1 \in Seq(Item) /\ v1 \in Seq(Verdicts) /\ Len(w1) = Len(v1)
  BY <1>1 DEF Result, Verdicts
<1>3. PICK w \in Seq(Item), v \in Seq(Verdicts) :
        /\ Len(w) = Len(v)
        /\ Joined(w, ItemsOf(res)) /\ Joined(v, VerdictsOf(res))
        /\ Sound(first, w \o w1, v \o v1, held, left)
  BY <1>1 DEF DeductedFrom
<1>4. PICK n, res1 : n = Len(res) /\ res1 = Append(res, result)
  OBVIOUS
<1>5. n \in Nat /\ Len(res1) = n + 1 /\ res1[n + 1] = result /\ \A k \in 1 .. n : res1[k] = res[k]
  BY <1>4
<1>6. /\ Len(ItemsOf(res)) = n /\ Len(VerdictsOf(res)) = n
      /\ Len(ItemsOf(res1)) = n + 1 /\ Len(VerdictsOf(res1)) = n + 1
  BY <1>4, <1>5 DEF ItemsOf, VerdictsOf
<1>7. /\ ItemsOf(res1)[n + 1] = w1 /\ VerdictsOf(res1)[n + 1] = v1
      /\ \A k \in 1 .. n : /\ ItemsOf(res1)[k] = ItemsOf(res)[k]
                           /\ VerdictsOf(res1)[k] = VerdictsOf(res)[k]
  BY <1>1, <1>4, <1>5 DEF ItemsOf, VerdictsOf
<1>8. Joined(w \o w1, ItemsOf(res1)) /\ Joined(v \o v1, VerdictsOf(res1))
  <2>1. PICK is, is1, vs, vs1 : /\ is = ItemsOf(res) /\ is1 = ItemsOf(res1)
                                /\ vs = VerdictsOf(res) /\ vs1 = VerdictsOf(res1)
    OBVIOUS
  <2>2. Joined(w \o w1, is1)
    <3>1. Longer(is, w1, Item, is1)
      BY <1>2, <1>5, <1>6, <1>7, <2>1 DEF Longer
    <3> QED
      BY <1>3, <2>1, <3>1, JoinedNext
  <2>3. Joined(v \o v1, vs1)
    <3>1. Longer(vs, v1, Verdicts, vs1)
      BY <1>2, <1>5, <1>6, <1>7, <2>1 DEF Longer
    <3> QED
      BY <1>3, <2>1, <3>1, JoinedNext
  <2> QED
    BY <2>1, <2>2, <2>3
<1>9. /\ w \o w1 \in Seq(Item) /\ v \o v1 \in Seq(Verdicts) /\ Len(w \o w1) = Len(v \o v1)
      /\ (w \o w1) \o <<>> = w \o w1 /\ (v \o v1) \o <<>> = v \o v1
  <2>1. w \o w1 \in Seq(Item) /\ Len(w \o w1) = Len(w) + Len(w1)
    <3>1. w \in Seq(Item) /\ w1 \in Seq(Item)
      BY <1>2
    <3> QED
      BY ONLY <3>1, ConcatProperties
  <2>2. v \o v1 \in Seq(Verdicts) /\ Len(v \o v1) = Len(v) + Len(v1)
    <3>1. v \in Seq(Verdicts) /\ v1 \in Seq(Verdicts)
      BY <1>2
    <3> QED
      BY ONLY <3>1, ConcatProperties
  <2>3. (w \o w1) \o <<>> = w \o w1 /\ (v \o v1) \o <<>> = v \o v1
    BY <2>1, <2>2, ConcatEmptySeq
  <2> QED
    BY <1>2, <1>3, <2>1, <2>2, <2>3
<1>10. DeductedFrom(first, res1, <<>>, <<>>, held, left)
  <2>1. PICK w2 \in Seq(Item), v2 \in Seq(Verdicts) : w2 = w \o w1 /\ v2 = v \o v1
    BY <1>9
  <2>2. /\ Len(w2) = Len(v2) /\ Joined(w2, ItemsOf(res1)) /\ Joined(v2, VerdictsOf(res1))
        /\ Sound(first, w2 \o <<>>, v2 \o <<>>, held, left)
    BY <1>3, <1>8, <1>9, <2>1
  <2> QED
    BY <2>2 DEF DeductedFrom
<1> QED
  BY <1>4, <1>10

LEMMA DeductedItem ==
  ASSUME NEW first \in [Products -> Int], NEW res, NEW w1 \in Seq(Item), NEW v1 \in Seq(Verdicts),
         NEW held, NEW left, DeductedFrom(first, res, w1, v1, held, left),
         NEW n, n = Len(v1) + 1, n <= Len(w1), NEW verdict \in Verdicts, NEW i, i = w1[n],
         NEW held1, NEW left1, Justified(first, held, left, i, verdict, held1, left1)
  PROVE  DeductedFrom(first, res, w1, Append(v1, verdict), held1, left1)
<1>1. PICK w \in Seq(Item), v \in Seq(Verdicts) :
        /\ Len(w) = Len(v)
        /\ Joined(w, ItemsOf(res)) /\ Joined(v, VerdictsOf(res))
        /\ Sound(first, w \o w1, v \o v1, held, left)
  BY DEF DeductedFrom
<1>2. PICK ws \in Seq(Item), vs \in Seq(Verdicts), k \in Nat :
        /\ ws = w \o w1 /\ vs = v \o v1 /\ k = Len(vs) + 1
  <2>1. w \o w1 \in Seq(Item) /\ v \o v1 \in Seq(Verdicts)
    BY ConcatFacts
  <2>2. Len(v \o v1) + 1 \in Nat
    BY <2>1
  <2> QED
    BY <2>1, <2>2
<1>3. k \in 1 .. Len(ws) /\ ws[k] = i
  <2>1. Len(ws) = Len(w) + Len(w1) /\ k = Len(w) + n /\ n \in 1 .. Len(w1)
    <3>1. Len(w \o w1) = Len(w) + Len(w1) /\ Len(v \o v1) = Len(v) + Len(v1)
      BY ConcatFacts
    <3> QED
      BY <1>1, <1>2, <3>1
  <2>2. ws[Len(w) + n] = w1[n]
    BY <1>2, <2>1, ConcatFacts
  <2> QED
    BY <1>2, <2>1, <2>2
<1>4. Sound(first, ws, Append(vs, verdict), held1, left1)
  BY <1>1, <1>2, <1>3, SoundNext
<1>5. Append(vs, verdict) = v \o Append(v1, verdict)
  <2>1. Tacked(v, v1, verdict)
    BY AppendConcat
  <2> QED
    BY <1>2, <2>1 DEF Tacked
<1>6. Sound(first, w \o w1, v \o Append(v1, verdict), held1, left1)
  BY <1>2, <1>4, <1>5
<1> QED
  BY <1>1, <1>6 DEF DeductedFrom

LEMMA DeductedLonger ==
  ASSUME NEW first, NEW res, NEW w1 \in Seq(Item), NEW v1 \in Seq(Verdicts), Len(v1) <= Len(w1),
         NEW i \in Item, NEW held, NEW left, DeductedFrom(first, res, w1, v1, held, left)
  PROVE  DeductedFrom(first, res, Append(w1, i), v1, held, left)
<1>1. PICK w \in Seq(Item), v \in Seq(Verdicts) :
        /\ Len(w) = Len(v)
        /\ Joined(w, ItemsOf(res)) /\ Joined(v, VerdictsOf(res))
        /\ Sound(first, w \o w1, v \o v1, held, left)
  BY DEF DeductedFrom
<1>2. PICK ws, vs : ws = w \o w1 /\ vs = v \o v1
  OBVIOUS
<1>3. ws \in Seq(Item) /\ Len(vs) \in Nat /\ Len(vs) <= Len(ws) /\ Sound(first, ws, vs, held, left)
  BY <1>1, <1>2, ConcatFacts
<1>4. Sound(first, Append(ws, i), vs, held, left)
  BY <1>3, SoundLonger
<1>5. Append(ws, i) = w \o Append(w1, i)
  <2>1. Tacked(w, w1, i)
    BY AppendConcat
  <2> QED
    BY <1>2, <2>1 DEF Tacked
<1>6. Sound(first, w \o Append(w1, i), v \o v1, held, left)
  BY <1>2, <1>4, <1>5
<1> QED
  BY <1>1, <1>6 DEF DeductedFrom

LEMMA DeductedElsewhere ==
  ASSUME NEW first \in [Products -> Int], NEW first1 \in [Products -> Int], NEW res,
         NEW w1 \in Seq(Item), NEW v1 \in Seq(Verdicts), Len(v1) <= Len(w1),
         NEW held, NEW left, DeductedFrom(first, res, w1, v1, held, left),
         \A q \in Products \cap held : first1[q] = first[q]
  PROVE  DeductedFrom(first1, res, w1, v1, held, left)
<1>1. PICK w \in Seq(Item), v \in Seq(Verdicts) :
        /\ Len(w) = Len(v)
        /\ Joined(w, ItemsOf(res)) /\ Joined(v, VerdictsOf(res))
        /\ Sound(first, w \o w1, v \o v1, held, left)
  BY DEF DeductedFrom
<1>2. PICK ws, vs : ws = w \o w1 /\ vs = v \o v1
  OBVIOUS
<1>3. ws \in Seq(Item) /\ vs \in Seq(Verdicts) /\ Len(vs) <= Len(ws)
  BY <1>1, <1>2, ConcatFacts
<1>4. Holds(held, ws, vs)
  BY <1>1, <1>2 DEF Sound
<1>5. PICK level : Serial(level, first, ws, vs, held, left)
  BY <1>1, <1>2 DEF Sound
<1>6. Elsewhere(level, first, ws, vs, held, left, first1)
  BY <1>3, <1>4, <1>5 DEF Elsewhere
<1>7. \E other : Serial(other, first1, ws, vs, held, left)
  BY ONLY <1>6, SerialElsewhere
<1>8. Sound(first1, w \o w1, v \o v1, held, left)
  BY <1>2, <1>4, <1>7 DEF Sound
<1> QED
  BY <1>1, <1>8 DEF DeductedFrom

LEMMA StockReturned ==
  ASSUME IInv, NEW r \in Requests, StockInv(r), ~Finished(r), NEW status \in Statuses,
         Return(r, status), Len(verdicts[r]) = Len(items[r]),
         UNCHANGED stock, UNCHANGED locked[r], UNCHANGED draft[r]
  PROVE  StockInv(r)'
<1>1. PICK result \in Result :
        /\ result.items = items[r] /\ result.verdicts = verdicts[r]
        /\ results'[r] = Append(results[r], result) /\ items'[r] = <<>> /\ verdicts'[r] = <<>>
  BY ReturnEffect
<1>2. PICK first, res, held, left :
        /\ first = stock /\ res = results[r] /\ held = locked[r] /\ left = draft[r]
  OBVIOUS
<1>3. DeductedFrom(first, res, result.items, result.verdicts, held, left)
  BY <1>1, <1>2 DEF StockInv
<1>4. res \in Seq(Result)
  BY <1>2 DEF IInv, TypeOK
<1>5. DeductedFrom(first, Append(res, result), <<>>, <<>>, held, left)
  BY <1>1, <1>3, <1>4, DeductedNext
<1>6. /\ first = stock' /\ Append(res, result) = results'[r] /\ held = locked'[r]
      /\ left = draft'[r] /\ items'[r] = <<>> /\ verdicts'[r] = <<>>
  BY <1>1, <1>2
<1> QED
  BY <1>5, <1>6 DEF StockInv

LEMMA StockDeducted ==
  ASSUME IInv, NEW r \in Requests, StockInv(r), Deduct(r) \/ MissRow(r)
  PROVE  StockInv(r)'
<1>1. TypeOK /\ Len(verdicts[r]) < Len(items[r])
  BY DEF IInv, Deduct, MissRow, Deducting
<1>2. PICK first, res, w, v, held, left, n, i :
        /\ first = stock /\ res = results[r] /\ w = items[r] /\ v = verdicts[r]
        /\ held = locked[r] /\ left = draft[r] /\ n = Len(v) + 1 /\ i = NextItem(r)
  OBVIOUS
<1>3. /\ w \in Seq(Item) /\ v \in Seq(Verdicts) /\ Len(w) \in Nat /\ Len(v) \in Nat
      /\ first \in [Products -> Int] /\ left \in [Products -> Int] /\ held \subseteq Products
      /\ n <= Len(w) /\ n \in 1 .. Len(w) /\ i = w[n]
  <2>1. /\ w \in Seq(Item) /\ v \in Seq(Verdicts) /\ Len(w) \in Nat /\ Len(v) \in Nat
        /\ first \in [Products -> Int] /\ left \in [Products -> Int] /\ held \subseteq Products
    BY <1>1, <1>2, StockTypes
  <2>2. n <= Len(w) /\ n \in 1 .. Len(w)
    BY <1>1, <1>2, <2>1
  <2> QED
    BY <1>2, <2>1, <2>2 DEF NextItem
<1>4. i \in Item /\ i.product \in Products /\ i.quantity \in Int
  <2>1. i \in Item
    BY <1>3
  <2> QED
    BY <2>1 DEF Item
<1>5. DeductedFrom(first, res, w, v, held, left)
  BY <1>2 DEF StockInv
<1>6. CASE Deduct(r)
  <2>1. PICK have, rest, verdict :
          /\ have = IF i.product \in held THEN left[i.product] ELSE first[i.product]
          /\ rest = IF Short(have, i) THEN have ELSE have - i.quantity
          /\ verdict = IF Short(have, i) THEN "short" ELSE "done"
    OBVIOUS
  <2>2. /\ i.product \in StockRows
        /\ locked' = [locked EXCEPT ![r] = @ \cup {i.product}]
        /\ draft' = [draft EXCEPT ![r][i.product] = rest]
        /\ verdicts' = [verdicts EXCEPT ![r] = Append(@, verdict)]
        /\ UNCHANGED <<stock, results, items>>
    BY <1>2, <1>6, <2>1 DEF Deduct, committed
  <2>3. have \in Int /\ verdict \in Verdicts
    BY <1>3, <1>4, <2>1 DEF Verdicts
  <2>4. /\ i.product \in held => have = left[i.product]
        /\ i.product \notin held => have = first[i.product]
        /\ have < i.quantity => verdict = "short" /\ rest = have
        /\ ~(have < i.quantity) => verdict = "done" /\ rest = have - i.quantity
    BY <2>1 DEF Short
  <2>5. PICK held1, left1 : held1 = held \cup {i.product} /\ left1 = [left EXCEPT ![i.product] = rest]
    OBVIOUS
  <2>6. Justified(first, held, left, i, verdict, held1, left1)
    <3>1. Justified(first, held, left, i, verdict, held \cup {i.product},
                    [left EXCEPT ![i.product] = rest])
      BY <1>3, <1>4, <2>2, <2>3, <2>4, DeductJustified
    <3> QED
      BY <2>5, <3>1
  <2>7. DeductedFrom(first, res, w, Append(v, verdict), held1, left1)
    BY <1>2, <1>3, <1>5, <2>3, <2>6, DeductedItem
  <2>8. /\ first = stock' /\ res = results'[r] /\ w = items'[r]
        /\ Append(v, verdict) = verdicts'[r] /\ held1 = locked'[r] /\ left1 = draft'[r]
    BY <1>1, <1>2, <2>2, <2>5 DEF TypeOK
  <2> QED
    BY <2>7, <2>8 DEF StockInv
<1>7. CASE MissRow(r)
  <2>1. /\ verdicts'[r] = Append(v, "missing")
        /\ UNCHANGED <<stock, results, items, locked, draft>>
        /\ i.product \notin StockRows
    BY <1>1, <1>2, <1>7 DEF MissRow, committed, writes, TypeOK, NextItem
  <2>2. PICK verdict \in Verdicts : verdict = "missing"
    BY DEF Verdicts
  <2>3. Justified(first, held, left, i, verdict, held, left)
    BY <2>1, <2>2, MissJustified
  <2>4. DeductedFrom(first, res, w, Append(v, verdict), held, left)
    BY <1>2, <1>3, <1>5, <2>2, <2>3, DeductedItem
  <2>5. /\ first = stock' /\ res = results'[r] /\ w = items'[r]
        /\ Append(v, verdict) = verdicts'[r] /\ held = locked'[r] /\ left = draft'[r]
    BY <1>2, <2>1, <2>2
  <2> QED
    BY <2>4, <2>5 DEF StockInv
<1> QED
  BY <1>6, <1>7

LEMMA StockMine ==
  ASSUME IInv, NEW r \in Requests, ResultsInv(r), Working(r) => StockInv(r), Moves(r)
  PROVE  Working(r)' => StockInv(r)'
<1>1. /\ TypeOK /\ RequestInv(r) /\ Len(verdicts[r]) \in Nat /\ Len(items[r]) \in Nat
      /\ Len(verdicts[r]) <= Len(items[r])
  BY StockTypes DEF IInv, ResultsInv
<1>2. ASSUME NEW status \in Statuses, Return(r, status), UNCHANGED <<stock, locked, draft>>,
             Working(r), ~Finished(r), Len(verdicts[r]) = Len(items[r])
      PROVE  StockInv(r)'
  BY <1>2, StockReturned
<1>3. CASE ReadNothing(r) \/ NothingResolved(r)
  <2>1. Len(items[r]) = 0
    BY <1>1, <1>3 DEF ReadNothing, NothingResolved, ResultsInv
  <2>2. /\ UNCHANGED <<stock, locked, draft>> /\ Working(r) /\ ~Finished(r)
        /\ Return(r, "no_order") \/ Return(r, "unresolved_products")
    BY <1>1, <1>3 DEF ReadNothing, NothingResolved, Canonicalized, RequestInv, Busy, Working,
       committed, writes
  <2> QED
    BY <1>1, <1>2, <2>1, <2>2 DEF Statuses
<1>4. CASE InventoryError(r)
  <2>1. /\ UNCHANGED <<stock, locked, draft>> /\ Working(r) /\ ~Finished(r)
        /\ Return(r, "inventory_error") /\ Len(verdicts[r]) = Len(items[r])
    BY <1>1, <1>4 DEF InventoryError, Deducted, Canonicalized, RequestInv, Busy, Working,
       committed, writes
  <2> QED
    BY <1>2, <2>1 DEF Statuses
<1>5. CASE HoldOrder(r) \/ Confirm(r)
  <2>1. /\ UNCHANGED <<stock, locked, draft>> /\ Working(r) /\ ~Finished(r) /\ pc[r] \in Ordered
        /\ Return(r, "credit_hold") \/ Return(r, "success")
    BY <1>1, <1>5 DEF HoldOrder, Confirm, RequestInv, Busy, Ordered, Working, committed, writes
  <2>2. Len(verdicts[r]) = Len(items[r])
    BY <2>1 DEF ResultsInv
  <2> QED
    BY <1>2, <2>1, <2>2 DEF Statuses
<1>6. CASE Deduct(r) \/ MissRow(r)
  BY <1>6, StockDeducted DEF Deduct, MissRow, Deducting, Canonicalized, Working
<1>7. CASE Canonicalize(r)
  <2>1. /\ UNCHANGED <<stock, results, verdicts, locked, draft>> /\ Working(r)
        /\ items'[r] = items[r] \/ \E i \in Item : items'[r] = Append(items[r], i)
    <3>1. lines[r] \in Seq(Line) /\ lines[r] # <<>> /\ Head(lines[r]) \in Line
      BY <1>1, <1>7 DEF Canonicalize, TypeOK
    <3>2. \A line \in Line : line.name \in Products =>
            [op |-> "deduct", product |-> line.name, quantity |-> Pieces(line.halves)] \in Item
      BY DEF Item, Line, Pieces
    <3>3. items'[r] = items[r] \/ \E i \in Item : items'[r] = Append(items[r], i)
      BY <1>1, <1>7, <3>1, <3>2 DEF Canonicalize, TypeOK
    <3> QED
      BY <1>7, <3>3 DEF Canonicalize, committed, writes, Working
  <2>2. CASE items'[r] = items[r]
    BY <2>1, <2>2 DEF StockInv
  <2>3. CASE \E i \in Item : items'[r] = Append(items[r], i)
    <3>1. PICK i \in Item : items'[r] = Append(items[r], i)
      BY <2>3
    <3>2. PICK first, res, w, v, held, left :
            /\ first = stock /\ res = results[r] /\ w = items[r] /\ v = verdicts[r]
            /\ held = locked[r] /\ left = draft[r]
      OBVIOUS
    <3>3. w \in Seq(Item) /\ v \in Seq(Verdicts) /\ Len(v) <= Len(w)
      BY <1>1, <3>2, StockTypes
    <3>4. DeductedFrom(first, res, w, v, held, left)
      BY <2>1, <3>2 DEF StockInv
    <3>5. DeductedFrom(first, res, Append(w, i), v, held, left)
      BY <3>3, <3>4, DeductedLonger
    <3>6. /\ first = stock' /\ res = results'[r] /\ Append(w, i) = items'[r]
          /\ v = verdicts'[r] /\ held = locked'[r] /\ left = draft'[r]
      BY <2>1, <3>1, <3>2
    <3> QED
      BY <3>5, <3>6 DEF StockInv
  <2> QED
    BY <2>1, <2>2, <2>3
<1>8. CASE \/ ReadOrder(r) \/ FindCustomer(r) \/ CreateCustomer(r) \/ InsertOrder(r)
           \/ CountInvoices(r) \/ InsertInvoice(r) \/ RecordInvoice(r)
  <2>1. UNCHANGED <<stock, results, items, verdicts, locked, draft>> /\ Working(r)
    BY <1>8 DEF ReadOrder, FindCustomer, CreateCustomer, Identify, InsertOrder, CountInvoices,
       InsertInvoice, RecordInvoice, Inserting, Deducted, Canonicalized, committed, message, writes,
       Working
  <2> QED
    BY <2>1 DEF StockInv
<1>9. CASE Commit(r) \/ RollBack(r)
  BY <1>1, <1>9 DEF Commit, RollBack, EndAs, TypeOK, Working
<1> QED
  BY <1>3, <1>4, <1>5, <1>6, <1>7, <1>8, <1>9 DEF Moves, SessionStep, MessageStep,
     FindTwo, PoolTimeout, Undividable, LoseNumber, Fail, DeadlockVictim

(* Another session's step. *)
LEMMA StockUnchanged ==
  ASSUME NEW t \in Requests, StockInv(t), UNCHANGED stock, UNCHANGED results[t],
         UNCHANGED items[t], UNCHANGED verdicts[t], UNCHANGED locked[t], UNCHANGED draft[t]
  PROVE  StockInv(t)'
BY DEF StockInv

LEMMA StockCommitted ==
  ASSUME IInv, LocksApart, NEW r \in Requests, Commit(r), NEW t \in Requests \ {r},
         ResultsInv(t), StockInv(t)
  PROVE  StockInv(t)'
<1>1. /\ results'[t] = results[t] /\ items'[t] = items[t] /\ verdicts'[t] = verdicts[t]
      /\ locked'[t] = locked[t] /\ draft'[t] = draft[t]
  BY OthersKept DEF Moves, SessionStep
<1>2. PICK first, first1, res, w, v, held, left :
        /\ first = stock /\ first1 = stock' /\ res = results[t] /\ w = items[t] /\ v = verdicts[t]
        /\ held = locked[t] /\ left = draft[t]
  OBVIOUS
<1>3. TypeOK
  BY DEF IInv
<1>4. /\ w \in Seq(Item) /\ v \in Seq(Verdicts) /\ Len(v) <= Len(w)
      /\ first \in [Products -> Int]
  BY <1>2, <1>3, StockTypes DEF ResultsInv
<1>5. first1 = [p \in Products |-> IF p \in locked[r] THEN draft[r][p] ELSE first[p]]
  BY <1>2 DEF Commit
<1>6. draft[r] \in [Products -> Int]
  BY <1>3, StockTypes
<1>7. first1 \in [Products -> Int]
  BY <1>4, <1>5, <1>6
<1>8. \A q \in Products \cap held : first1[q] = first[q]
  BY <1>2, <1>5 DEF LocksApart
<1>9. DeductedFrom(first, res, w, v, held, left)
  BY <1>2 DEF StockInv
<1>10. DeductedFrom(first1, res, w, v, held, left)
  BY <1>4, <1>7, <1>8, <1>9, DeductedElsewhere
<1>11. /\ first1 = stock' /\ res = results'[t] /\ w = items'[t] /\ v = verdicts'[t]
       /\ held = locked'[t] /\ left = draft'[t]
  BY <1>1, <1>2
<1> QED
  BY <1>10, <1>11 DEF StockInv

----
(* All of it together *)

(* Results that are just stay so; the rest is gone when the session has ended. *)
DeliveryInv(r) ==
  /\ ResultsInv(r)
  /\ Working(r) => CustomersInv(r) /\ OrdersInv(r) /\ NumbersInv(r) /\ StockInv(r)

DInv == IInv /\ Gapless /\ LocksApart /\ \A r \in Requests : DeliveryInv(r)

LEMMA InitDeliveries == Init => DInv
<1> SUFFICES ASSUME Init PROVE DInv
  OBVIOUS
<1>1. IInv
  BY InitInv
<1>2. Cardinality({}) = 0
  BY FS_EmptySet
<1>3. Gapless /\ LocksApart
  BY <1>2 DEF Init, Gapless, LocksApart, Numbers
<1>4. ASSUME NEW r \in Requests PROVE DeliveryInv(r)
  <2>1. /\ results[r] = <<>> /\ items[r] = <<>> /\ verdicts[r] = <<>> /\ pc[r] = "reading"
        /\ mine[r] = NoRows /\ locked[r] = {} /\ invoices = {} /\ stock = FirstStock
    BY DEF Init
  <2>2. PICK res : res = <<>> /\ Len(res) = 0 /\ 1 .. Len(res) = {}
    OBVIOUS
  <2>3. ResultsInv(r)
    BY <2>1 DEF ResultsInv, Ordered, Invoiced
  <2>4. CustomersInv(r)
    BY <2>1 DEF CustomersInv, NoRows, Identified, Ordered
  <2>5. OrdersInv(r)
    <3>1. PlacedIn(res) = {}
      BY <2>2 DEF PlacedIn
    <3>2. PICK customer : customer \in [PlacedIn(res) -> Customers(r)]
      <4>1. [k \in {} |-> k] \in [{} -> Customers(r)]
        OBVIOUS
      <4> QED
        BY <3>1, <4>1
    <3>3. OrdersOf(res, customer) = {} /\ OpenOrders(r) = {}
      BY <2>1, <3>1 DEF OrdersOf, OpenOrders, Ordered
    <3>4. results[r] = res /\ mine[r].orders = {}
      BY <2>1, <2>2 DEF NoRows
    <3> QED
      BY <3>1, <3>2, <3>3, <3>4 DEF OrdersInv
  <2>6. NumbersInv(r)
    <3>1. InvoicedIn(res) = {} /\ InvoicesOf(res) = {} /\ OpenInvoices(r) = {}
      BY <2>1, <2>2 DEF InvoicedIn, InvoicesOf, OpenInvoices, Invoiced
    <3>2. PICK none : none = {} /\ Cardinality(none) = 0
      BY <1>2
    <3>3. InOrder(0, none, res, none)
      <4>1. Numbers(none) = {} /\ 0 + 1 .. 0 + 0 = {}
        BY <3>2 DEF Numbers
      <4>2. InvoicedIn(res) = none /\ none = InvoicesOf(res) \cup none
        BY <3>1, <3>2
      <4>3. /\ Numbers(none) = 0 + 1 .. 0 + Cardinality(none)
            /\ Cardinality(none) = Cardinality(InvoicedIn(res)) + Cardinality(none)
        BY <3>2, <4>1, <4>2
      <4>4. \A n : n \notin InvoicedIn(res)
        BY <3>1
      <4> QED
        BY <4>2, <4>3, <4>4 DEF InOrder
    <3> QED
      BY <1>2, <2>1, <2>2, <3>1, <3>2, <3>3 DEF NumbersInv, Invoiced, NoRows
  <2>7. StockInv(r)
    <3>1. PICK first, left : first = stock /\ left = draft[r] /\ first \in [Products -> Int]
      <4>1. FirstStock \in [Products -> Int]
        BY ONLY StockAssumption
      <4> QED
        BY <2>1, <4>1
    <3>2. PICK empty : /\ empty = <<>> /\ Len(empty) = 0
                       /\ empty \in Seq(Item) /\ empty \in Seq(Verdicts) /\ empty \o empty = empty
      <4>1. <<>> \in Seq(Item) /\ <<>> \in Seq(Verdicts) /\ Len(<<>>) = 0
        OBVIOUS
      <4>2. <<>> \o <<>> = <<>>
        BY <4>1, ConcatEmptySeq
      <4> QED
        BY <4>1, <4>2
    <3>3. Joined(empty, ItemsOf(res)) /\ Joined(empty, VerdictsOf(res))
      BY <2>2, <3>2 DEF Joined, ItemsOf, VerdictsOf
    <3>4. \E level : Serial(level, first, empty, empty, {}, left)
      BY <3>1, <3>2, SerialStart
    <3>5. Sound(first, empty \o empty, empty \o empty, {}, left)
      BY <3>2, <3>4 DEF Sound, Holds
    <3>6. DeductedFrom(first, res, empty, empty, {}, left)
      BY <3>2, <3>3, <3>5 DEF DeductedFrom
    <3> QED
      BY <2>1, <2>2, <3>1, <3>2, <3>6 DEF StockInv
  <2> QED
    BY <2>3, <2>4, <2>5, <2>6, <2>7 DEF DeliveryInv
<1> QED
  BY <1>1, <1>3, <1>4 DEF DInv

(* Only a commit changes the tables. *)
LEMMA TablesKept ==
  ASSUME NEW r \in Requests, Moves(r), ~Commit(r)
  PROVE  UNCHANGED committed
BY DEF Moves, SessionStep, MessageStep, ReadNothing, ReadOrder, FindCustomer, CreateCustomer, Identify,
   Canonicalize, NothingResolved, Deduct, MissRow, InventoryError, InsertOrder, HoldOrder,
   CountInvoices, InsertInvoice, RecordInvoice, Confirm, FindTwo, PoolTimeout, Undividable,
   LoseNumber, Fail, DeadlockVictim, RollBack

LEMMA LocksStayApart ==
  ASSUME IInv, LocksApart, NEW r \in Requests, Moves(r)
  PROVE  LocksApart'
<1>1. \A t \in Requests \ {r} : locked'[t] = locked[t]
  BY OthersKept
<1>2. \/ locked'[r] \subseteq locked[r]
      \/ \E p : /\ locked'[r] = locked[r] \cup {p}
                /\ \A t \in Requests \ {r} : p \notin locked[t]
  <2>1. TypeOK
    BY DEF IInv
  <2>2. CASE Deduct(r)
    BY <2>1, <2>2 DEF Deduct, TypeOK
  <2>3. CASE Commit(r) \/ RollBack(r)
    BY <2>1, <2>3 DEF Commit, RollBack, EndAs, TypeOK
  <2>4. CASE ~Deduct(r) /\ ~Commit(r) /\ ~RollBack(r)
    BY <2>4 DEF Moves, SessionStep, MessageStep, ReadNothing, ReadOrder, FindCustomer, CreateCustomer,
       Identify, Canonicalize, NothingResolved, MissRow, InventoryError, InsertOrder, HoldOrder,
       CountInvoices, InsertInvoice, RecordInvoice, Confirm, FindTwo, PoolTimeout, Undividable,
       LoseNumber, Fail, DeadlockVictim, writes
  <2> QED
    BY <2>2, <2>3, <2>4
<1> QED
  BY <1>1, <1>2 DEF LocksApart

LEMMA DeliveryMine ==
  ASSUME DInv, NEW r \in Requests, Moves(r)
  PROVE  DeliveryInv(r)'
<1>1. IInv /\ Gapless /\ ResultsInv(r) /\ DeliveryInv(r)
  BY DEF DInv, DeliveryInv
<1>2. /\ Working(r) => CustomersInv(r)
      /\ Working(r) => OrdersInv(r) /\ CustomersInv(r)
      /\ Working(r) => NumbersInv(r)
      /\ Working(r) => StockInv(r)
  BY <1>1 DEF DeliveryInv
<1>3. ResultsInv(r)'
  BY <1>1, ResultsMine
<1>4. Working(r)' => CustomersInv(r)'
  BY <1>1, <1>2, CustomersMine
<1>5. Working(r)' => OrdersInv(r)'
  BY <1>1, <1>2, OrdersMine
<1>6. Working(r)' => NumbersInv(r)'
  BY <1>1, <1>2, NumbersMine
<1>7. Working(r)' => StockInv(r)'
  BY <1>1, <1>2, StockMine
<1> QED
  BY <1>3, <1>4, <1>5, <1>6, <1>7 DEF DeliveryInv

LEMMA DeliveryOthers ==
  ASSUME DInv, NEW r \in Requests, Moves(r), NEW t \in Requests \ {r}
  PROVE  DeliveryInv(t)'
<1>1. IInv /\ Gapless /\ LocksApart /\ DeliveryInv(r) /\ DeliveryInv(t)
  BY DEF DInv
<1>2. /\ results'[t] = results[t] /\ pc'[t] = pc[t] /\ items'[t] = items[t]
      /\ verdicts'[t] = verdicts[t] /\ account'[t] = account[t] /\ number'[t] = number[t]
      /\ locked'[t] = locked[t] /\ draft'[t] = draft[t] /\ mine'[t] = mine[t]
  BY <1>1, OthersKept
<1>3. ResultsInv(t)'
  BY <1>1, <1>2 DEF DeliveryInv, ResultsInv, AllDone, Dividable
<1>4. customers \subseteq customers'
  BY TablesKept DEF Commit, committed
<1>5. SUFFICES ASSUME Working(t)
               PROVE  CustomersInv(t)' /\ OrdersInv(t)' /\ NumbersInv(t)' /\ StockInv(t)'
  BY <1>2, <1>3 DEF DeliveryInv, Working
<1>6. CustomersInv(t)'
  BY <1>1, <1>2, <1>4, <1>5, CustomersGrow DEF DeliveryInv
<1>7. OrdersInv(t)'
  <2>1. Customers(t) \subseteq Customers(t)'
    BY <1>2, <1>4 DEF Customers
  <2> QED
    BY <1>1, <1>2, <1>5, <2>1, OrdersSame DEF DeliveryInv
<1>8. NumbersInv(t)' /\ StockInv(t)'
  <2>1. ResultsInv(t) /\ NumbersInv(t) /\ StockInv(t)
    BY <1>1, <1>5 DEF DeliveryInv
  <2>2. CASE Commit(r)
    <3>1. ResultsInv(r) /\ NumbersInv(r)
      BY <1>1, <2>2 DEF DeliveryInv, Commit, Working
    <3>2. NumbersInv(t)'
      BY <1>1, <2>1, <2>2, <3>1, NumbersCommitted
    <3>3. StockInv(t)'
      BY <1>1, <2>1, <2>2, StockCommitted
    <3> QED
      BY <3>2, <3>3
  <2>3. CASE ~Commit(r)
    <3>1. invoices' = invoices /\ stock' = stock
      BY <2>3, TablesKept DEF committed
    <3> QED
      BY <1>2, <2>1, <3>1, NumbersUnchanged, StockUnchanged
  <2> QED
    BY <2>2, <2>3
<1> QED
  BY <1>6, <1>7, <1>8

LEMMA DeliveryRegister ==
  ASSUME DInv, NEW ph \in Registered, Register(ph), NEW t \in Requests
  PROVE  DeliveryInv(t)'
<1>1. /\ DeliveryInv(t) /\ customers \subseteq customers'
      /\ UNCHANGED <<stock, invoices, pc, results, items, verdicts, account, number, locked, draft, mine>>
  BY DEF DInv, Register, message, writes
<1>2. ResultsInv(t)'
  BY <1>1 DEF DeliveryInv, ResultsInv, AllDone, Dividable
<1>3. SUFFICES ASSUME Working(t)
               PROVE  CustomersInv(t)' /\ OrdersInv(t)' /\ NumbersInv(t)' /\ StockInv(t)'
  BY <1>1, <1>2 DEF DeliveryInv, Working
<1>4. CustomersInv(t) /\ OrdersInv(t) /\ NumbersInv(t) /\ StockInv(t)
  BY <1>1, <1>3 DEF DeliveryInv
<1>5. Customers(t) \subseteq Customers(t)'
  BY <1>1 DEF Customers
<1>6. OrdersInv(t)'
  BY <1>1, <1>4, <1>5, OrdersSame
<1> QED
  BY <1>1, <1>4, <1>6, CustomersGrow, NumbersUnchanged, StockUnchanged

LEMMA DeliveriesNext == DInv /\ [Next]_vars => DInv'
<1> SUFFICES ASSUME DInv, [Next]_vars PROVE DInv'
  OBVIOUS
<1>1. IInv' /\ IInv
  BY NextInv DEF DInv
<1>2. ASSUME NEW r \in Requests, Moves(r) PROVE DInv'
  <2>1. \A t \in Requests : DeliveryInv(t)'
    BY <1>2, DeliveryMine, DeliveryOthers
  <2>2. LocksApart'
    BY <1>1, <1>2, LocksStayApart DEF DInv
  <2>3. Gapless'
    <3>1. CASE Commit(r)
      BY <1>1, <3>1, CommitNumbers DEF DInv, DeliveryInv, Commit, Working
    <3>2. CASE ~Commit(r)
      BY <1>2, <3>2, TablesKept DEF DInv, Gapless, committed
    <3> QED
      BY <3>1, <3>2
  <2> QED
    BY <1>1, <2>1, <2>2, <2>3 DEF DInv
<1>3. ASSUME NEW ph \in Registered, Register(ph) PROVE DInv'
  <2>1. \A t \in Requests : DeliveryInv(t)'
    BY <1>3, DeliveryRegister
  <2>2. invoices' = invoices /\ locked' = locked
    BY <1>3 DEF Register, writes
  <2> QED
    BY <1>1, <2>1, <2>2 DEF DInv, Gapless, LocksApart
<1>4. CASE UNCHANGED vars
  <2>1. UNCHANGED <<customers, stock, invoices, pc, results, items, verdicts, account, number, locked,
                    draft, mine>>
    BY <1>4 DEF vars, committed, message, writes
  <2>2. ASSUME NEW t \in Requests PROVE DeliveryInv(t)'
    <3>1. DeliveryInv(t) /\ customers \subseteq customers'
      BY <2>1 DEF DInv
    <3>2. ResultsInv(t)'
      BY <2>1, <3>1 DEF DeliveryInv, ResultsInv, AllDone, Dividable
    <3>3. SUFFICES ASSUME Working(t)
                   PROVE  CustomersInv(t)' /\ OrdersInv(t)' /\ NumbersInv(t)' /\ StockInv(t)'
      BY <2>1, <3>2 DEF DeliveryInv, Working
    <3>4. CustomersInv(t) /\ OrdersInv(t) /\ NumbersInv(t) /\ StockInv(t)
      BY <3>1, <3>3 DEF DeliveryInv
    <3>5. Customers(t) \subseteq Customers(t)'
      BY <2>1 DEF Customers
    <3>6. OrdersInv(t)'
      BY <2>1, <3>4, <3>5, OrdersSame
    <3> QED
      BY <2>1, <3>1, <3>4, <3>6, CustomersGrow, NumbersUnchanged, StockUnchanged
  <2> QED
    BY <1>1, <2>1, <2>2 DEF DInv, Gapless, LocksApart
<1> QED
  BY <1>2, <1>3, <1>4 DEF Next, Quiescent, Moves

LEMMA DeliveriesInvariance == Spec => []DInv
<1>1. Init => DInv
  BY InitDeliveries
<1>2. DInv /\ [Next]_vars => DInv'
  BY DeliveriesNext
<1> QED
  BY <1>1, <1>2, PTL DEF Spec

----
(* What DeliveryPromise sees of a request. *)
Answered == [r \in Requests |-> IF pc[r] = "done" THEN results[r] ELSE <<>>]

LEMMA CommitCustomers ==
  ASSUME DInv, NEW r \in Requests, Commit(r)
  PROVE  /\ mine[r].customers \in
              Promise!NewCustomers({results[r][n].message : n \in 1 .. Len(results[r])})
         /\ customers' = customers \cup mine[r].customers
<1>1. CustomersInv(r) /\ ResultsInv(r) /\ Finished(r)
  BY DEF DInv, DeliveryInv, Commit, Working
<1>2. {results[r][n].message : n \in 1 .. Len(results[r])} = MessagesOf(r)
  <2>1. \A n \in 1 .. Len(results[r]) : results[r][n].message = DeliveryOf[r][n]
    BY <1>1 DEF ResultsInv, ResultIs
  <2>2. Len(results[r]) = Len(DeliveryOf[r])
    BY <1>1 DEF Finished
  <2> QED
    BY <2>1, <2>2 DEF MessagesOf
<1>3. PICK new, messages : new = mine[r].customers /\ messages = MessagesOf(r)
  OBVIOUS
<1>4. /\ \A c \in new : \E m \in messages : c = [phone |-> Sender[m], by |-> m]
      /\ \A c, d \in new : c.phone = d.phone => c = d
  BY <1>1, <1>3 DEF CustomersInv
<1>5. new \in SUBSET {[phone |-> Sender[m], by |-> m] : m \in messages}
  BY <1>4
<1>6. new \in Promise!NewCustomers(messages)
  BY <1>4, <1>5 DEF Promise!NewCustomers
<1> QED
  BY <1>2, <1>3, <1>6 DEF Commit

LEMMA CommitOrders ==
  ASSUME DInv, NEW r \in Requests, Commit(r)
  PROVE  \E customer \in [PlacedIn(results[r]) -> customers'] :
           /\ \A n \in PlacedIn(results[r]) : customer[n].phone = Sender[results[r][n].message]
           /\ orders' = orders \cup OrdersOf(results[r], customer)
<1>1. OrdersInv(r) /\ ResultsInv(r) /\ pc[r] = "reading"
  BY DEF DInv, DeliveryInv, Commit, Working
<1>2. PICK customer \in [PlacedIn(results[r]) -> Customers(r)] :
        /\ \A n \in PlacedIn(results[r]) : customer[n].phone = Sender[DeliveryOf[r][n]]
        /\ mine[r].orders = OrdersOf(results[r], customer) \cup OpenOrders(r)
  BY <1>1 DEF OrdersInv
<1>3. Customers(r) = customers' /\ orders' = orders \cup mine[r].orders
  BY DEF Commit, Customers
<1>4. OpenOrders(r) = {}
  BY <1>1 DEF OpenOrders, Ordered
<1>5. \A n \in PlacedIn(results[r]) : results[r][n].message = DeliveryOf[r][n]
  BY <1>1 DEF ResultsInv, ResultIs, PlacedIn
<1>6. /\ customer \in [PlacedIn(results[r]) -> customers']
      /\ \A n \in PlacedIn(results[r]) : customer[n].phone = Sender[results[r][n].message]
      /\ orders' = orders \cup OrdersOf(results[r], customer)
  BY <1>2, <1>3, <1>4, <1>5
<1> QED
  BY <1>6

LEMMA CommitInvoices ==
  ASSUME DInv, NEW r \in Requests, Commit(r)
  PROVE  /\ \A n \in InvoicedIn(results[r]) : results[r][n].number =
              Cardinality(invoices) + Cardinality(UpTo(InvoicedIn(results[r]), n))
         /\ invoices' = invoices \cup InvoicesOf(results[r])
<1>1. NumbersInv(r) /\ pc[r] = "reading"
  BY DEF DInv, DeliveryInv, Commit, Working
<1>2. OpenInvoices(r) = {}
  BY <1>1 DEF OpenInvoices, Invoiced
<1>3. invoices' = invoices \cup mine[r].invoices
  BY DEF Commit
<1> QED
  BY <1>1, <1>2, <1>3 DEF NumbersInv, InOrder

LEMMA CommitStock ==
  ASSUME DInv, NEW r \in Requests, Commit(r)
  PROVE  \E w, v, level :
           /\ w = Promise!FlattenSeq(ItemsOf(results[r]))
           /\ v = Promise!FlattenSeq(VerdictsOf(results[r]))
           /\ level = Promise!Stock!Replay(w, v)
           /\ DOMAIN w = 1 .. Len(w)
           /\ \A n \in 1 .. Len(w) : Promise!Stock!Just(w[n], v[n], level[n - 1][w[n].product], StockRows)
           /\ stock' = level[Len(w)]
<1>1. /\ TypeOK /\ StockInv(r) /\ ResultsInv(r) /\ pc[r] = "reading" /\ Finished(r)
      /\ Len(items[r]) = 0 /\ Len(verdicts[r]) <= Len(items[r])
  BY DEF DInv, IInv, DeliveryInv, Commit, Working, ResultsInv
<1>2. /\ results[r] \in Seq(Result) /\ items[r] \in Seq(Item) /\ verdicts[r] \in Seq(Verdicts)
      /\ Len(verdicts[r]) \in Nat /\ stock \in [Products -> Int] /\ draft[r] \in [Products -> Int]
  BY <1>1, StockTypes
<1>3. items[r] = <<>> /\ verdicts[r] = <<>>
  BY <1>1, <1>2
<1>4. PICK w \in Seq(Item), v \in Seq(Verdicts) :
        /\ Len(w) = Len(v)
        /\ Joined(w, ItemsOf(results[r])) /\ Joined(v, VerdictsOf(results[r]))
        /\ Sound(stock, w \o <<>>, v \o <<>>, locked[r], draft[r])
  BY <1>1, <1>3 DEF StockInv, DeductedFrom
<1>5. Sound(stock, w, v, locked[r], draft[r])
  <2>1. w \o <<>> = w /\ v \o <<>> = v
    BY ConcatEmptySeq
  <2> QED
    BY <1>4, <2>1
<1>6. PICK level : Serial(level, stock, w, v, locked[r], draft[r])
  BY <1>5 DEF Sound
<1>7. /\ Runs(level, stock, w, v)
      /\ \A n \in 1 .. Len(w) : Fair(w[n], v[n], level[n - 1][w[n].product])
      /\ Splits(level[Len(w)], locked[r], draft[r], stock)
      /\ level[Len(w)] \in [Products -> Int]
  <2>1. Len(w) \in 0 .. Len(w)
    OBVIOUS
  <2> QED
    BY <1>4, <1>6, <2>1 DEF Serial, Runs
<1>8. w = Promise!FlattenSeq(ItemsOf(results[r])) /\ v = Promise!FlattenSeq(VerdictsOf(results[r]))
  <2>1. PICK is, vs : is = ItemsOf(results[r]) /\ vs = VerdictsOf(results[r])
    OBVIOUS
  <2>2. Len(results[r]) \in Nat /\ Len(results[r]) # 0
    <3>1. Len(results[r]) = Len(DeliveryOf[r])
      BY <1>1 DEF Finished
    <3>2. DeliveryOf[r] \in Seq(Messages) \ {<<>>}
      BY ONLY DeliveryAssumption, r \in Requests
    <3> QED
      BY <3>1, <3>2
  <2>3. /\ Len(is) \in Nat /\ Len(is) # 0 /\ Len(vs) \in Nat /\ Len(vs) # 0
    BY <2>1, <2>2 DEF ItemsOf, VerdictsOf
  <2>4. Joined(w, is) /\ Joined(v, vs)
    BY <1>4, <2>1
  <2>5. Promise!FlattenSeq(is) = w
    BY <2>3, <2>4, JoinedIs
  <2>6. Promise!FlattenSeq(vs) = v
    BY <2>3, <2>4, JoinedIs
  <2> QED
    BY <2>1, <2>5, <2>6
<1>9. Promise!Stock!Replay(w, v) = level
  <2>1. Len(w) \in Nat
    OBVIOUS
  <2> QED
    BY <1>4, <1>7, <2>1, ReplayIs
<1>10. \A n \in 1 .. Len(w) : Promise!Stock!Just(w[n], v[n], level[n - 1][w[n].product], StockRows)
  <2>1. ASSUME NEW n \in 1 .. Len(w)
        PROVE  Promise!Stock!Just(w[n], v[n], level[n - 1][w[n].product], StockRows)
    <3>1. PICK i, verdict, have : i = w[n] /\ verdict = v[n] /\ have = level[n - 1][w[n].product]
      OBVIOUS
    <3>2. i \in Item /\ verdict \in Verdicts /\ Fair(i, verdict, have)
      BY <1>4, <1>7, <3>1
    <3>3. Promise!Stock!Just(i, verdict, have, StockRows)
      BY <3>2 DEF Promise!Stock!Just, Fair, Verdicts, Item
    <3> QED
      BY <3>1, <3>3
  <2> QED
    BY <2>1
<1>11. stock' = level[Len(w)]
  <2>1. stock' = [p \in Products |-> IF p \in locked[r] THEN draft[r][p] ELSE stock[p]]
    BY DEF Commit
  <2> QED
    BY <1>7, <2>1 DEF Splits
<1>12. DOMAIN w = 1 .. Len(w)
  OBVIOUS
<1> QED
  BY <1>8, <1>9, <1>10, <1>11, <1>12

LEMMA CommitAnswers ==
  ASSUME DInv, NEW r \in Requests, Commit(r)
  PROVE  /\ Answered[r] = <<>> /\ Answered' = [Answered EXCEPT ![r] = results[r]]
         /\ Answered'[r] = results[r]
         /\ results[r] # <<>> /\ DOMAIN results[r] = 1 .. Len(results[r])
         /\ \A n \in 1 .. Len(results[r]) : Promise!JustResult(results[r][n])
<1>1. /\ TypeOK /\ ResultsInv(r) /\ Finished(r) /\ pc[r] = "reading"
      /\ pc' = [pc EXCEPT ![r] = "done"] /\ results' = results
  BY DEF DInv, IInv, DeliveryInv, Commit, EndAs
<1>2. results[r] \in Seq(Result) /\ pc'[r] = "done" /\ \A t \in Requests \ {r} : pc'[t] = pc[t]
  BY <1>1 DEF TypeOK
<1>3. results[r] # <<>>
  <2>1. Len(results[r]) = Len(DeliveryOf[r])
    BY <1>1 DEF Finished
  <2>2. DeliveryOf[r] \in Seq(Messages) \ {<<>>}
    BY ONLY DeliveryAssumption, r \in Requests
  <2> QED
    BY <2>1, <2>2
<1>4. \A n \in 1 .. Len(results[r]) : Promise!JustResult(results[r][n])
  BY <1>1 DEF ResultsInv, ResultIs
<1>5. Answered[r] = <<>> /\ Answered'[r] = results[r] /\ \A t \in Requests \ {r} : Answered'[t] = Answered[t]
  BY <1>1, <1>2 DEF Answered
<1>6. Answered' = [Answered EXCEPT ![r] = results[r]]
  BY <1>1, <1>2, <1>5 DEF Answered
<1> QED
  BY <1>2, <1>3, <1>4, <1>5, <1>6

(* DeliveryPromise's own instance of FiniteSets counts alike. *)
LEMMA CardinalityIs == \A S : Promise!Cardinality(S) = Cardinality(S)
BY DEF Promise!Cardinality, Cardinality

(* A commit is the promise's step: it delivers all of r's messages at once. *)
LEMMA CommitDelivers ==
  ASSUME DInv, NEW r \in Requests, Commit(r)
  PROVE  Promise!Deliver(r)
<1> DEFINE res == Answered'[r]
           w == Promise!FlattenSeq([n \in DOMAIN res |-> res[n].items])
           v == Promise!FlattenSeq([n \in DOMAIN res |-> res[n].verdicts])
           level == Promise!Stock!Replay(w, v)
           placed == {n \in DOMAIN res : Promise!Placed(res[n])}
           invoiced == {n \in DOMAIN res : res[n].status = "success"}
<1> HIDE DEF res, w, v, level, placed, invoiced
<1>1. /\ res = results[r]
      /\ Answered[r] = <<>> /\ res # <<>>
      /\ Answered' = [Answered EXCEPT ![r] = res]
      /\ DOMAIN res = 1 .. Len(res)
      /\ \A n \in DOMAIN res : Promise!JustResult(res[n])
  BY CommitAnswers DEF res
<1>2. \E new \in Promise!NewCustomers({res[n].message : n \in DOMAIN res}) : customers' = customers \cup new
  BY <1>1, CommitCustomers
<1>3. \E customer \in [placed -> customers'] :
        /\ \A n \in placed : customer[n].phone = Sender[res[n].message]
        /\ orders' = orders \cup {Promise!Order(res[n], customer[n]) : n \in placed}
  <2>1. PlacedIn(res) = placed
    BY <1>1 DEF PlacedIn, placed
  <2>2. PICK customer \in [PlacedIn(res) -> customers'] :
          /\ \A n \in PlacedIn(res) : customer[n].phone = Sender[res[n].message]
          /\ orders' = orders \cup OrdersOf(res, customer)
    BY <1>1, CommitOrders
  <2>3. OrdersOf(res, customer) = {Promise!Order(res[n], customer[n]) : n \in placed}
    BY <2>1 DEF OrdersOf
  <2> QED
    BY <2>1, <2>2, <2>3
<1>4. /\ \A n \in invoiced : res[n].number =
           Promise!Cardinality(invoices) + Promise!Cardinality({k \in invoiced : k <= n})
      /\ invoices' = invoices \cup {[message |-> res[n].message, number |-> res[n].number] : n \in invoiced}
  <2>1. InvoicedIn(res) = invoiced
    BY <1>1 DEF InvoicedIn, invoiced
  <2> QED
    BY <1>1, <2>1, CommitInvoices, CardinalityIs DEF UpTo, InvoicesOf
<1>5. /\ \A n \in DOMAIN w : Promise!Stock!Just(w[n], v[n], level[n - 1][w[n].product], StockRows)
      /\ stock' = level[Len(w)]
  <2>1. /\ w = Promise!FlattenSeq(ItemsOf(res))
        /\ v = Promise!FlattenSeq(VerdictsOf(res))
    BY <1>1 DEF ItemsOf, VerdictsOf, w, v
  <2> QED
    BY <1>1, <2>1, CommitStock DEF level
<1> QED
  BY ONLY <1>1, <1>2, <1>3, <1>4, <1>5, Zenon
     DEF Promise!Deliver, Answered, res, w, v, level, placed, invoiced

----
(* The rest is no step of the promise, or is the clerk's. *)

LEMMA StillUnanswered ==
  ASSUME IInv, NEW r \in Requests, pc[r] # "done", pc'[r] # "done",
         \A t \in Requests \ {r} : results'[t] = results[t] /\ pc'[t] = pc[t]
  PROVE  Answered' = Answered
<1>1. \A t \in Requests : Answered'[t] = Answered[t]
  BY DEF Answered
<1> QED
  BY <1>1 DEF Answered

LEMMA NobodyAnswered ==
  ASSUME IInv, NEW r \in Requests, Moves(r), ~Commit(r)
  PROVE  Answered' = Answered
<1>1. TypeOK
  BY DEF IInv
<1>2. \A t \in Requests \ {r} : results'[t] = results[t] /\ pc'[t] = pc[t]
  BY OthersKept
<1>3. pc[r] # "done" /\ pc'[r] # "done"
  <2>1. CASE MessageStep(r)
    <3>1. ASSUME NEW status, Return(r, status) PROVE pc'[r] = "reading"
      BY <1>1, <3>1 DEF Return, TypeOK
    <3> QED
      BY <1>1, <2>1, <3>1
         DEF MessageStep, ReadNothing, ReadOrder, FindCustomer, CreateCustomer, Identify, Canonicalize,
             NothingResolved, Canonicalized, Deduct, MissRow, Deducting, InventoryError, Deducted,
             InsertOrder, HoldOrder, CountInvoices, InsertInvoice, Inserting, RecordInvoice, Confirm,
             TypeOK
  <2>2. CASE FindTwo(r) \/ PoolTimeout(r) \/ Undividable(r) \/ LoseNumber(r) \/ Fail(r) \/ DeadlockVictim(r)
    <3>1. pc[r] # "done" /\ RollBack(r)
      BY <2>2 DEF FindTwo, PoolTimeout, Undividable, LoseNumber, Fail, Working, DeadlockVictim, Circle,
                  WaitsFor, Deducting, Deducted, Canonicalized, Inserting
    <3> QED
      BY <1>1, <3>1 DEF RollBack, EndAs, TypeOK
  <2> QED
    BY <2>1, <2>2 DEF Moves, SessionStep
<1> QED
  BY <1>2, <1>3, StillUnanswered

LEMMA ClerkRegisters ==
  ASSUME NEW ph \in Registered, Register(ph)
  PROVE  Promise!Register(ph)
<1>1. customers' = customers \cup {[phone |-> ph, by |-> Clerk]} /\ UNCHANGED <<stock, orders, invoices>>
  BY DEF Register, ByClerk
<1>2. Answered' = Answered
  BY DEF Register, message, Answered
<1> QED
  BY <1>1, <1>2 DEF Promise!Register, Answered

LEMMA PromiseInit == Init => Promise!Init
<1> SUFFICES ASSUME Init PROVE Promise!Init
  OBVIOUS
<1>1. customers \subseteq {[phone |-> ph, by |-> Clerk] : ph \in Phones}
  BY ClerkAssumption DEF Init, ByClerk
<1>2. Answered = [r \in Requests |-> <<>>]
  BY DEF Init, Answered
<1> QED
  BY <1>1, <1>2 DEF Init, Promise!Init, Answered

LEMMA PromiseNext == DInv /\ [Next]_vars => [Promise!Next]_<<customers, stock, orders, invoices, Answered>>
<1> SUFFICES ASSUME DInv, [Next]_vars
             PROVE  [Promise!Next]_<<customers, stock, orders, invoices, Answered>>
  OBVIOUS
<1>1. ASSUME NEW r \in Requests, Commit(r) PROVE Promise!Next
  BY <1>1, CommitDelivers DEF Promise!Next
<1>2. ASSUME NEW r \in Requests, Moves(r), ~Commit(r)
      PROVE  UNCHANGED <<customers, stock, orders, invoices, Answered>>
  BY <1>2, TablesKept, NobodyAnswered DEF DInv, committed
<1>3. ASSUME NEW ph \in Registered, Register(ph) PROVE Promise!Next
  BY <1>3, ClerkRegisters DEF Promise!Next
<1>4. CASE UNCHANGED vars
  BY <1>4 DEF vars, committed, message, Answered
<1> QED
  BY <1>1, <1>2, <1>3, <1>4 DEF Next, Quiescent, Moves

(* Whatever the interleaving, what is committed moves as if all messages of a
   delivery were processed in one step when its request commits, or not at all:
   its customers, its orders, its invoices with the next free numbers in their
   order, and the stock its lines took, as the results say. *)
THEOREM DeliversInOneStep == Spec => KeepsPromise
<1>1. Spec => Promise!Init
  BY PromiseInit DEF Spec
<1>2. DInv /\ [Next]_vars =>
        [Promise!Next]_<<customers, stock, orders, invoices,
                         [r \in Requests |-> IF pc[r] = "done" THEN results[r] ELSE <<>>]>>
  BY PromiseNext DEF Answered
<1> QED
  BY <1>1, <1>2, DeliveriesInvariance, PTL DEF Spec, KeepsPromise, Promise!Spec
====
