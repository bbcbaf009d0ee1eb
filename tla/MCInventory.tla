---- MODULE MCInventory ----
(* Instances of Inventory for TLC. *)
EXTENDS Inventory

CONSTANTS A, B, o1, o2, adj, up

D(p, q) == [op |-> "deduct", product |-> p, quantity |-> q]
S(p, q) == [op |-> "set", product |-> p, quantity |-> q]

(* Orders that take the rows in opposite orders, one that names a product
   twice, adjustments of all three kinds, and files that raise, lower, repeat
   and overdraw. *)
Mixed == [s \in Sessions |->
  CASE s = o1  -> {<<D(A, 1), D(B, 1)>>, <<D(A, 1), D(A, 2)>>}
    [] s = o2  -> {<<D(B, 2), D(A, 1)>>}
    [] s = adj -> {<<D(A, 2)>>, <<[op |-> "add", product |-> B, quantity |-> 2]>>, <<S(B, 1)>>}
    [] s = up  -> {<<S(B, 3), S(A, 0)>>, <<S(B, 1), S(B, -1)>>}]

(* A has two pieces, B has no row. *)
OnlyA == {A}
TwoOfA == [p \in Products |-> IF p = A THEN 2 ELSE 0]
====
