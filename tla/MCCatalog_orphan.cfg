CONSTANTS
  MaxRequests = 2
  MaxRows = 2
  Text <- TextDef
  Lower <- LowerDef
  ValidSku <- ValidSkuDef
  None = None
  Seed <- ShirtSeed
  Inputs <- ShirtInputs
  MaxInFlight = 2
  Faults = FALSE
  MaxCrashes = 0
SPECIFICATION Spec
INVARIANT
  ActiveOptionsHaveActiveRoot
