SPECIFICATION FairSpec
CONSTANTS
  o1 = o1
  o2 = o2
  p1 = p1
  p2 = p2
  c1 = c1
  Customers = {c1}
  Orders = {o1, o2}
  Payments = {p1, p2}
  Receipts = {3, 5}
CONSTANT CustomerOf <- OneCustomer
CONSTANT Limit <- LimitOf
CONSTANT Bills <- TaxedBills
INVARIANTS TypeOK InvoiceAccounts LedgerMatchesInvoices ChainedLedgerIsRight PaymentReadsCurrent OrderBilledOnce OnlyOverlapPassesLimit
PROPERTIES OldestFirst BooksOnlyGrow SessionsEnd
