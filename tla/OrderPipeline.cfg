SPECIFICATION FairSpec
CONSTANTS
  A = A
  B = B
  NoRow = NoRow
  X = X
  r1 = r1
  r2 = r2
  r3 = r3
  m1 = m1
  m2 = m2
  m3 = m3
  m4 = m4
  ph1 = ph1
  ph2 = ph2
  Requests = {r1, r2, r3}
  Messages = {m1, m2, m3, m4}
  Phones = {ph1, ph2}
  Names = {A, B, NoRow, X}
  Products = {A, B, NoRow}
  StockRows = {A, B}
  Clerk = Clerk
  FirstPhones = {ph1}
  Registered = {ph2}
  PoolSize = 2
CONSTANT DeliveryOf <- Deliveries
CONSTANT Sender <- Senders
CONSTANT Readings <- Reads
CONSTANT FirstStock <- OneOfA
INVARIANTS TypeOK ToldIsBooked DeadlocksHaveACause
PROPERTIES KeepsPromise RequestsEnd
