SPECIFICATION Spec
CONSTANTS
  m1 = m1
  m2 = m2
  r1 = r1
  r2 = r2
  Messages = {m1, m2}
  Requests = {r1, r2}
  MaxLosses = 0
  MaxFailures = 1
CONSTANT Batches <- EitherOrder
INVARIANT DuplicatesWereProcessed
