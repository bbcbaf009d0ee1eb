---- MODULE MCCreditLedger ----
(* Instances of CreditLedger for TLC. *)
EXTENDS CreditLedger

CONSTANTS o1, o2, p1, p2, c1

OneCustomer == [s \in Sessions |-> c1]
LimitOf == [c \in Customers |-> 6]

(* A taxed order, a bigger one that tax takes over the limit, and one without
   prices. *)
TaxedBills ==
  {[subtotal |-> 3, total |-> 4], [subtotal |-> 6, total |-> 7],
   [subtotal |-> 0, total |-> 0]}
UntaxedBills == {[subtotal |-> 4, total |-> 4]}
====
