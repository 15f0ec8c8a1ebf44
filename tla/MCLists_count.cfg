CONSTANTS
  DefaultLimit = 2
  MaxLimit = 3
  SeedRows <- SeedDef
  Queries <- AllQueries
  Faults = TRUE
  MaxWrites = 2
  MaxPages = 8
  None = None
  Garbage = Garbage
  NaN = NaN
SPECIFICATION Spec
INVARIANT
  CountIsOfTheResponse
