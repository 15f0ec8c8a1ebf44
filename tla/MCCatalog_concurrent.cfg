CONSTANTS
  MaxRequests = 3
  MaxRows = 2
  Text <- TextDef
  Lower <- LowerDef
  ValidSku <- ValidSkuDef
  None = None
  Seed <- ShirtSeed
  Inputs <- ShirtInputs
  MaxInFlight = 3
  Faults = TRUE
  MaxCrashes = 1
SPECIFICATION Spec
INVARIANTS
  ActiveProductsHaveActiveRoot
  ActiveBridgesHaveActiveProduct
  ActiveKeysAreUnique
  CreationsAreAtomic
  DeletionsHold
  LeakedTransactionsBlockNobody
