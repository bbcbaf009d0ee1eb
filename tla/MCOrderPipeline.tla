---- MODULE MCOrderPipeline ----
(* Instances of OrderPipeline for TLC. *)
EXTENDS OrderPipeline

CONSTANTS A, B, NoRow, X, r1, r2, r3, m1, m2, m3, m4, ph1, ph2

L(name, halves) == [name |-> name, halves |-> halves]

(* A delivery of two messages of two phones, one of either phone. *)
Deliveries == [r \in Requests |-> CASE r = r1 -> <<m1, m2>> [] r = r2 -> <<m3>> [] r = r3 -> <<m4>>]
Senders == [m \in Messages |-> IF m \in {m1, m3} THEN ph1 ELSE ph2]

(* Half a piece, a name nobody knows, a product without a row, rows in either
   order and no order at all. *)
Reads == [m \in Messages |->
  CASE m = m1 -> {<<L(A, 2)>>}
    [] m = m2 -> {<<L(B, 2)>>, <<L(NoRow, 2)>>}
    [] m = m3 -> {<<L(B, 2)>>, <<L(B, 2), L(A, 1)>>}
    [] m = m4 -> {<<L(X, 2), L(A, 2)>>, <<L(X, 2)>>, <<>>}]

OneOfA == [p \in Products |-> IF p = A THEN 1 ELSE 2]
====
