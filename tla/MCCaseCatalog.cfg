SPECIFICATION CatalogSpec
CONSTANTS
  Cases <- MCCases
INVARIANTS
  PassIsEarned
  ClaimsExact
  GoodRunPasses
