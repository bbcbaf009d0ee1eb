SPECIFICATION Spec
CONSTANTS
  o1 = o1
  o2 = o2
  p1 = p1
  p2 = p2
  c1 = c1
  Customers = {c1}
  Orders = {o1, o2}
  Payments = {}
  Receipts = {3}
CONSTANT CustomerOf <- OneCustomer
CONSTANT Limit <- LimitOf
CONSTANT Bills <- UntaxedBills
INVARIANT LedgerChained
