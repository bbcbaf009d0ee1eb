---- MODULE DeliveryPromise ----
(***************************************************************************)
(* What a delivery promises: all its messages take effect in one step, on   *)
(* the stock, the customers and the invoices as they are in that step, or   *)
(* none does.  The promise is no more than the code's: an order with a line *)
(* short keeps the lines it could take, and a phone may get a row from each *)
(* of two deliveries.                                                       *)
(***************************************************************************)
EXTENDS Integers, FiniteSets, Sequences, SequencesExt

CONSTANTS
  Requests,    \* webhook requests
  Messages,    \* the messages of their deliveries
  Phones,      \* the customers' phones
  Sender,      \* Sender[m]: the phone m comes from
  Products,    \* products of the tenant
  StockRows,   \* those that have an inventory row
  FirstStock,  \* FirstStock[p]: its quantity at first
  Clerk,       \* who makes customers by hand
  Registered   \* phones the clerk may make a customer of

VARIABLES
  customers, \* rows [phone, by]
  stock,     \* the quantity of each product
  orders,    \* rows [message, customer, status]
  invoices,  \* rows [message, number]
  answered   \* what each request was told of its messages, or <<>>

Stock == INSTANCE StockPromise WITH
  AllOrNone <- {}, WorkOf <- <<>>, rows <- StockRows, served <- answered,
  begun <- Requests, known <- [r \in Requests |-> StockRows]

Init ==
  /\ customers \subseteq {[phone |-> ph, by |-> Clerk] : ph \in Phones}
  /\ stock = FirstStock
  /\ orders = {}
  /\ invoices = {}
  /\ answered = [r \in Requests |-> <<>>]

(* Where the n-th result leaves its message, and what comes of it. *)
Placed(result) == result.status \in {"credit_hold", "success"}
Order(result, customer) ==
  [message |-> result.message, customer |-> customer,
   status |-> IF result.status = "success" THEN "confirmed" ELSE "credit_hold"]

(* An order is placed when all of its lines are in stock, and one that is
   invoiced takes a piece at least on each. *)
JustResult(result) ==
  /\ Placed(result) <=>
       result.items # <<>> /\ \A n \in DOMAIN result.verdicts : result.verdicts[n] = "done"
  /\ result.status = "success" => \A n \in DOMAIN result.items : result.items[n].quantity > 0

(* The customers some of the messages' phones get. *)
NewCustomers(messages) ==
  {new \in SUBSET {[phone |-> Sender[m], by |-> m] : m \in messages} :
     \A c, d \in new : c.phone = d.phone => c = d}

Deliver(r) ==
  LET results == answered'[r]
      items == FlattenSeq([n \in DOMAIN results |-> results[n].items])
      verdicts == FlattenSeq([n \in DOMAIN results |-> results[n].verdicts])
      level == Stock!Replay(items, verdicts)
      placed == {n \in DOMAIN results : Placed(results[n])}
      invoiced == {n \in DOMAIN results : results[n].status = "success"}
  IN /\ answered[r] = <<>> /\ results # <<>>
     /\ answered' = [answered EXCEPT ![r] = results]
     /\ \A n \in DOMAIN results : JustResult(results[n])
     /\ \A n \in DOMAIN items :
          Stock!Just(items[n], verdicts[n], level[n - 1][items[n].product], StockRows)
     /\ stock' = level[Len(items)]
     /\ \E new \in NewCustomers({results[n].message : n \in DOMAIN results}) :
          customers' = customers \cup new
     /\ \E customer \in [placed -> customers'] :
          /\ \A n \in placed : customer[n].phone = Sender[results[n].message]
          /\ orders' = orders \cup {Order(results[n], customer[n]) : n \in placed}
     /\ \A n \in invoiced : results[n].number =
          Cardinality(invoices) + Cardinality({k \in invoiced : k <= n})
     /\ invoices' = invoices \cup
          {[message |-> results[n].message, number |-> results[n].number] : n \in invoiced}

Register(ph) ==
  /\ customers' = customers \cup {[phone |-> ph, by |-> Clerk]}
  /\ UNCHANGED <<stock, orders, invoices, answered>>

Next == (\E r \in Requests : Deliver(r)) \/ (\E ph \in Registered : Register(ph))

Spec == Init /\ [][Next]_<<customers, stock, orders, invoices, answered>>
====
