CONSTANTS
  MaxRequests = 2
  Faults = FALSE
  MaxCrashes = 0
  Event <- EventDef
  Unknown = Unknown
  None = None
  SeedWebhooks <- SeedDef
  Inputs <- CreateInputs
  product_created = product_created
  product_updated = product_updated
SPECIFICATION FairSpec
INVARIANT
  CreationsSucceed
