CONSTANTS
  MaxRequests = 3
  Faults = TRUE
  MaxCrashes = 1
  Event <- EventDef
  Unknown = Unknown
  None = None
  SeedWebhooks <- SeedDef
  Inputs <- AllInputs
  product_created = product_created
  product_updated = product_updated
SPECIFICATION FairSpec
INVARIANT
  TypeOK
  SubscribersAreCalled
PROPERTY
  WebhooksAreSoftDeleted
  EveryRequestEnds
