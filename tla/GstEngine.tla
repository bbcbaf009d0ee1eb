---- MODULE GstEngine ----
(***************************************************************************)
(* The tax of an invoice (gst_engine.py, hsn_lookup.py) and its way into    *)
(* the invoice (create_invoice).  Decimal amounts are whole numbers here:   *)
(* unit prices count tenths of a paisa, amounts paise, rates hundredths of  *)
(* a percent.  An HSN code is a sequence of two-digit groups, so code[:4]   *)
(* is its first two.                                                        *)
(***************************************************************************)
EXTENDS Integers, Sequences, FiniteSetsExt

CONSTANTS
  Items,     \* the order items: name, HSN code of the product, price, quantity
  States,    \* two-digit state codes
  Rates,     \* HSN_RATE_TABLE: code to rate
  HsnOf,     \* PRODUCT_HSN_MAP: name to code
  MaxItems   \* bound: items of one order

NoCode == <<>>
Fallback == <<99, 99>>
Missing == [state |-> "", full |-> FALSE]

(* The slabs the table's rates are taken from: 0, 5, 12, 18 and 28 percent. *)
Slabs == {0, 500, 1200, 1800, 2800}
(* What a state code or a GSTIN may be: nothing, or its state and the rest.  *)
(* The seller's is a setting, the customer's column holds two characters.     *)
Fields == {Missing} \cup [state : States, full : BOOLEAN]

ASSUME RatesAssumption == Rates \in [DOMAIN Rates -> Slabs]
ASSUME CodesAssumption ==
  /\ DOMAIN Rates \subseteq Seq(Nat)
  /\ HsnOf \in [DOMAIN HsnOf -> Seq(Nat)]
ASSUME ItemsAssumption ==
  \A i \in Items : i.hsn \in Seq(Nat) /\ i.price \in Nat /\ i.quantity \in Nat
ASSUME StatesAssumption == "" \notin States
ASSUME BoundAssumption == MaxItems \in Nat

VARIABLES
  order,    \* the order: its items, the seller's and the customer's state
  pc,       \* taxing, summed, issued or failed
  lines,    \* breakdowns of the items taxed so far
  totals,   \* total_subtotal, total_cgst, total_sgst, total_igst
  summary,  \* the InvoiceTaxSummary
  exact     \* history: the tax of the lines so far without any rounding

vars == <<order, pc, lines, totals, summary, exact>>

Line == [hsn : Seq(Nat), rate : Slabs, taxable : Nat, inter : BOOLEAN,
         cgst : Nat, sgst : Nat, igst : Nat]
Totals == [taxable : Nat, cgst : Nat, sgst : Nat, igst : Nat]
Zero == [taxable |-> 0, cgst |-> 0, sgst |-> 0, igst |-> 0]

Init ==
  /\ order \in [items : UNION {[1..n -> Items] : n \in 1..MaxItems},
                seller : Fields, customer : {c \in Fields : ~c.full}]
  /\ pc = "taxing"
  /\ lines = <<>>
  /\ totals = Zero
  /\ summary = [tax |-> 0, total |-> 0, inter |-> FALSE]
  /\ exact = 0

----
(* HSN codes and rates. *)

HsnForProduct(name) == IF name \in DOMAIN HsnOf THEN HsnOf[name] ELSE NoCode

(* hsn_code or get_hsn_for_product(product_name) or "9999" *)
ResolvedHsn(item) ==
  IF item.hsn # NoCode THEN item.hsn
  ELSE IF HsnForProduct(item.name) # NoCode THEN HsnForProduct(item.name)
  ELSE Fallback

(* code[:2*n] *)
Prefix(code, n) == SubSeq(code, 1, IF Len(code) < n THEN Len(code) ELSE n)

(* Mutant: the rate of an entry in whole percent. *)
WholePercent(code) == IF code \in DOMAIN Rates THEN Rates[code] \div 100 ELSE 0
(* Mutant: no fallback to the heading. *)
ChapterOnly(code) ==
  LET known == {c \in {code, Prefix(code, 1)} : c \in DOMAIN Rates}
  IN  IF known = {} THEN 0
      ELSE Rates[CHOOSE c \in known : \A d \in known : Len(d) <= Len(c)]
(* The table's rate of the code, else of its first four digits, else of its  *)
(* first two, else none.                                                     *)
GstRate(code) ==
  LET known == {c \in {code, Prefix(code, 2), Prefix(code, 1)} : c \in DOMAIN Rates}
  IN  IF known = {} THEN 0
      ELSE Rates[CHOOSE c \in known : \A d \in known : Len(d) <= Len(c)]

----
(* The tax of one line. *)

(* Mutant: digits beyond the last are cut off. *)
Truncated(n, d) == n \div d
(* _round2: n / d to the nearest whole number, halves up. *)
Round(n, d) == (2 * n + d) \div (2 * d)

StateCode(field) == field.state

(* Mutant: the fields are compared, not the states in them. *)
FieldsDiffer(seller, buyer) == seller # Missing /\ buyer # Missing /\ seller # buyer
InterState(seller, buyer) ==
  /\ StateCode(seller) # "" /\ StateCode(buyer) # ""
  /\ StateCode(seller) # StateCode(buyer)

(* buyer_state_code: the customer's, or else the seller's. *)
Buyer == IF order.customer = Missing THEN order.seller ELSE order.customer
Inter == InterState(order.seller, Buyer)

(* Mutant: both halves at the full rate. *)
FullRate(rate) == rate
HalfRate(rate) == Round(rate, 2)
Taxable(item) == Round(item.price * item.quantity, 10)
Tax(taxable, rate) == Round(taxable * rate, 10000)

Breakdown(item, inter) ==
  LET taxable == Taxable(item)
      code == ResolvedHsn(item)
      rate == GstRate(code)
      half == Tax(taxable, HalfRate(rate))
      igst == Tax(taxable, rate)
  IN  [hsn |-> code, rate |-> rate, taxable |-> taxable, inter |-> inter,
       cgst |-> IF inter THEN 0 ELSE half,
       sgst |-> IF inter THEN 0 ELSE half,
       igst |-> IF inter THEN igst ELSE 0]

TotalTax(b) == b.cgst + b.sgst + b.igst

----
(* calculate_invoice_tax and create_invoice. *)

(* Mutant: SGST is not added up. *)
PlusWithoutSgst(t, b) ==
  [taxable |-> t.taxable + b.taxable, cgst |-> t.cgst + b.cgst,
   sgst |-> t.sgst, igst |-> t.igst + b.igst]
Plus(t, b) ==
  [taxable |-> t.taxable + b.taxable, cgst |-> t.cgst + b.cgst,
   sgst |-> t.sgst + b.sgst, igst |-> t.igst + b.igst]

TaxLine ==
  /\ pc = "taxing"
  /\ Len(lines) < Len(order.items)
  /\ LET item == order.items[Len(lines) + 1]
         line == Breakdown(item, Inter)
     IN  /\ lines' = Append(lines, line)
         /\ totals' = Plus(totals, line)
         /\ exact' = exact + item.price * item.quantity * line.rate
  /\ UNCHANGED <<order, pc, summary>>

Summarise ==
  /\ pc = "taxing"
  /\ Len(lines) = Len(order.items)
  /\ summary' = [tax |-> TotalTax(totals), total |-> totals.taxable + TotalTax(totals),
                 inter |-> \E k \in 1..Len(lines) : lines[k].inter]
  /\ pc' = "summed"
  /\ UNCHANGED <<order, lines, totals, exact>>

(* An invoice item's unit price is its taxable amount over its quantity: a   *)
(* quantity of 0 raises.                                                     *)
Dividable == \A k \in 1..Len(order.items) : order.items[k].quantity # 0

Issue ==
  /\ pc = "summed" /\ Dividable
  /\ pc' = "issued"
  /\ UNCHANGED <<order, lines, totals, summary, exact>>

Raise ==
  /\ pc = "summed" /\ ~Dividable
  /\ pc' = "failed"
  /\ UNCHANGED <<order, lines, totals, summary, exact>>

Next == TaxLine \/ Summarise \/ Issue \/ Raise

Spec == Init /\ [][Next]_vars

----
(* Properties. *)

(* The type invariant: what is computed are amounts that are not negative,   *)
(* at rates of the slabs, and the summary follows from the totals.           *)
TypeOK ==
  /\ order.items \in Seq(Items) /\ order.seller \in Fields /\ order.customer \in Fields
  /\ pc \in {"taxing", "summed", "issued", "failed"}
  /\ lines \in Seq(Line)
  /\ Len(lines) <= Len(order.items)
  /\ totals \in Totals
  /\ summary \in [tax : Nat, total : Nat, inter : BOOLEAN]
  /\ exact \in Nat

(* Rounding the price, the halves of the tax and each line apart moves the   *)
(* tax of an invoice from the exact one (in 1/100000 of a paisa) by at most  *)
(* 0.64 paise a line between states and 1.14 paise a line within one.        *)
TaxClose ==
  LET slack == Len(lines) * (IF Inter THEN 64000 ELSE 114000)
  IN  /\ 100000 * TotalTax(totals) - exact <= slack
      /\ exact - 100000 * TotalTax(totals) <= slack

(* Where the customer lives changes the tax of a line by one paisa at most:  *)
(* the two halves of a rate tax as the whole.                                *)
PlaceMattersLittle ==
  \A k \in 1..Len(lines) :
    LET line == lines[k]
        other == TotalTax(Breakdown(order.items[k], ~line.inter))
    IN  TotalTax(line) - other \in {-1, 0, 1}

(* A GSTIN stands for its state: an invoice bears IGST alone or equal halves *)
(* of CGST and SGST, and IGST only if the customer's state is known to be    *)
(* another than the seller's, in whichever form the two are written.         *)
OneKindOfTax ==
  /\ totals.igst = 0 \/ (totals.cgst = 0 /\ totals.sgst = 0)
  /\ totals.cgst = totals.sgst
  /\ totals.igst > 0 => order.seller.state # order.customer.state /\ order.customer # Missing

(* The invoice adds up: its total is the sum of what its lines show, and the *)
(* summary is inter-state exactly if the lines are.                          *)
SummaryAddsUp ==
  pc \in {"summed", "issued"} =>
    /\ summary.total =
         SumFunction([k \in 1..Len(lines) |-> lines[k].taxable + TotalTax(lines[k])])
    /\ summary.inter = Inter

(* The reference for the rate: the entry of the table that shares the most   *)
(* digits with the code.                                                     *)
Closest(code) ==
  LET known == {n \in 1..Len(code) : Prefix(code, n) \in DOMAIN Rates}
  IN  IF known = {} THEN 0 ELSE Rates[Prefix(code, Max(known))]

(* Codes of up to six digits are taxed at the rate of the closest entry; for *)
(* eight digits the six-digit entries are passed over.                       *)
ClosestRateUpToSixDigits ==
  \A k \in 1..Len(lines) :
    Len(lines[k].hsn) <= 3 => lines[k].rate = Closest(lines[k].hsn)
====
