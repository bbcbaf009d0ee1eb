SPECIFICATION Spec
CONSTANTS
  Processes = {"p", "q"}
  Creators = {"c"}
  Adders = {"a"}
  Orders = {"o1", "o2"}
  ProcessOf <- MCProcessOf
  Seeds = {"pulse", "sugar"}
  SeedRows <- MCSeedRows
  Aliases = {"chini", "2 chana", "chana"}
  Tokens <- MCTokens
  Token <- MCToken
  Distance <- MCDistance
  Soundex <- MCSoundex
  Length <- MCLength
  Price <- MCPrice
  MaxEngines = 1
INVARIANTS
  TypeOK
  OrdersCommittedProducts
  LoaderIsRight
  RolledBackAliasesStayHome
CHECK_DEADLOCK FALSE
