SPECIFICATION Spec
CONSTANTS
  Items <- MCItems
  States = {"27", "29"}
  Rates <- MCRates
  HsnOf <- MCHsnOf
  MaxItems = 3
INVARIANTS
  TypeOK
  TaxClose
  PlaceMattersLittle
  OneKindOfTax
  SummaryAddsUp
  ClosestRateUpToSixDigits
CHECK_DEADLOCK FALSE
