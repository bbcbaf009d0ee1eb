SPECIFICATION FairSpec
CONSTANTS
  A = A
  B = B
  o1 = o1
  o2 = o2
  adj = adj
  up = up
  Products = {A, B}
  Orders = {o1, o2}
  Adjustments = {adj}
  Uploads = {up}
  Nothing = Nothing
CONSTANT WorkOf <- Mixed
CONSTANT StockRows <- OnlyA
CONSTANT FirstStock <- TwoOfA
INVARIANTS TypeOK PiecesAddUp
PROPERTIES KeepsPromise SessionsEnd
