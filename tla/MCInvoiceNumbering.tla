---- MODULE MCInvoiceNumbering ----
(* Instances of InvoiceNumbering for TLC. *)
EXTENDS InvoiceNumbering

CONSTANTS r1, r2, r3, t1, t2

(* r1 and r2 work for one tenant, r3 for another. *)
SharedTenant == [r \in Requests |-> IF r = r3 THEN t2 ELSE t1]
====
