---- MODULE MCMessageIntake ----
(* Instances of MessageIntake for TLC. *)
EXTENDS MessageIntake

CONSTANTS m1, m2, r1, r2

(* Both messages in either order; one that ends without an order is as good as
   absent. *)
EitherOrder == {<<m1, m2>>, <<m2, m1>>}
====
