---- MODULE InvoiceNumbering ----
(***************************************************************************)
(* Invoice numbers (invoice_service.py).  A webhook request creates one     *)
(* invoice per order in one transaction.  It counts the tenant's invoices   *)
(* that it can see, makes the number of today's date and the count plus     *)
(* one, and inserts the invoice; one unique index holds the numbers of all  *)
(* tenants.                                                                 *)
(***************************************************************************)
EXTENDS Naturals, FiniteSets

CONSTANTS
  Requests,   \* webhook requests
  Tenants,
  TenantOf,   \* TenantOf[r]: the tenant r works for
  Batch,      \* bound: invoices one request creates
  LastDay     \* bound: days that pass

ASSUME TenantOfAssumption == TenantOf \in [Requests -> Tenants]
ASSUME BoundsAssumption == Batch \in Nat /\ LastDay \in Nat

Invoice == [tenant : Tenants, number : [day : Nat \ {0}, seq : Nat \ {0}]]
NoNumber == [day |-> 0, seq |-> 0]

VARIABLES
  invoices,  \* the committed invoices
  day,       \* date.today()
  pc,        \* idle, open, counted, numbered, done or failed
  mine,      \* invoices a request has inserted and not committed
  number     \* the number it has made for the next one

vars == <<invoices, day, pc, mine, number>>

Init ==
  /\ invoices = {}
  /\ day = 1
  /\ pc = [r \in Requests |-> "idle"]
  /\ mine = [r \in Requests |-> {}]
  /\ number = [r \in Requests |-> NoNumber]

(* Mutant: the count is not restricted to the tenant. *)
AllTenants(r) == invoices \cup mine[r]
(* where tenant_id: the tenant's committed invoices and the request's own. *)
Visible(r) == {i \in invoices \cup mine[r] : i.tenant = TenantOf[r]}

Begin(r) ==
  /\ pc[r] = "idle"
  /\ pc' = [pc EXCEPT ![r] = "open"]
  /\ UNCHANGED <<invoices, day, mine, number>>

(* Mutant: numbering starts at the count. *)
CountItself(r) == Cardinality(Visible(r))
NextSeq(r) == Cardinality(Visible(r)) + 1

(* _next_invoice_number: the count is awaited, the date is read after it. *)
Count(r) ==
  /\ pc[r] = "open"
  /\ Cardinality(mine[r]) < Batch
  /\ number' = [number EXCEPT ![r].seq = NextSeq(r)]
  /\ pc' = [pc EXCEPT ![r] = "counted"]
  /\ UNCHANGED <<invoices, day, mine>>

Stamp(r) ==
  /\ pc[r] = "counted"
  /\ number' = [number EXCEPT ![r].day = day]
  /\ pc' = [pc EXCEPT ![r] = "numbered"]
  /\ UNCHANGED <<invoices, day, mine>>

Numbers(S) == {i.number : i \in S}
Clashes(r, S) == number[r] \in Numbers(S)

(* create_invoice's flush.  The index makes it wait while another request has
   the number in an open transaction, and fail when the number is committed. *)
InsertInvoice(r) ==
  /\ pc[r] = "numbered"
  /\ ~Clashes(r, invoices \cup mine[r])
  /\ \A q \in Requests \ {r} : ~Clashes(r, mine[q])
  /\ mine' = [mine EXCEPT ![r] = @ \cup {[tenant |-> TenantOf[r], number |-> number[r]]}]
  /\ pc' = [pc EXCEPT ![r] = "open"]
  /\ UNCHANGED <<invoices, day, number>>

Commit(r) ==
  /\ pc[r] = "open"
  /\ pc' = [pc EXCEPT ![r] = "done"]
  /\ invoices' = invoices \cup mine[r]
  /\ mine' = [mine EXCEPT ![r] = {}]
  /\ UNCHANGED <<day, number>>

RollBack(r) ==
  /\ pc' = [pc EXCEPT ![r] = "failed"]
  /\ mine' = [mine EXCEPT ![r] = {}]
  /\ UNCHANGED <<invoices, day, number>>

(* IntegrityError *)
LoseNumber(r) ==
  /\ pc[r] = "numbered"
  /\ Clashes(r, invoices \cup mine[r])
  /\ RollBack(r)

(* Any other exception, a deadlock with another request, or a crash. *)
Fail(r) == pc[r] \in {"open", "counted", "numbered"} /\ RollBack(r)

Midnight ==
  /\ day < LastDay
  /\ day' = day + 1
  /\ UNCHANGED <<invoices, pc, mine, number>>

Quiescent ==
  /\ \A r \in Requests : pc[r] \in {"done", "failed"}
  /\ UNCHANGED vars

Next ==
  \/ \E r \in Requests :
       \/ Begin(r) \/ Count(r) \/ Stamp(r) \/ InsertInvoice(r) \/ Commit(r)
       \/ LoseNumber(r) \/ Fail(r)
  \/ Midnight
  \/ Quiescent

Spec == Init /\ [][Next]_vars

----
(* Properties *)

TypeOK ==
  /\ invoices \subseteq Invoice
  /\ day \in Nat \ {0}
  /\ pc \in [Requests -> {"idle", "open", "counted", "numbered", "done", "failed"}]
  /\ mine \in [Requests -> SUBSET Invoice]
  /\ number \in [Requests -> [day : Nat, seq : Nat]]

(* No number is on two invoices, of one tenant or of two, committed or about to
   be. *)
NumbersUnique ==
  LET all == invoices \cup UNION {mine[r] : r \in Requests}
  IN \A i, j \in all : i.number = j.number => i = j

OfTenant(t) == {i \in invoices : i.tenant = t}
Seqs(S) == {i.number.seq : i \in S}

(* As long as all of a tenant's invoices bear one date they are numbered
   without gaps, whichever requests overlapped, failed or waited for a number. *)
GaplessOnOneDay ==
  \A t \in Tenants :
    (\A i, j \in OfTenant(t) : i.number.day = j.number.day) =>
      Seqs(OfTenant(t)) = 1 .. Cardinality(OfTenant(t))

----
(* Statements of the repository that the code does not keep *)

(* invoice_service.py:35, "Generate a sequential invoice number per tenant":
   what other tenants do does not matter to a tenant's numbers,
   so a request never loses its number to another tenant's invoice. *)
TenantsDoNotClash ==
  \A r \in Requests : pc[r] = "numbered" =>
    ~Clashes(r, {i \in invoices : i.tenant # TenantOf[r]})
====
