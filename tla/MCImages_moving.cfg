CONSTANTS
  MaxRequests = 2
  MaxRows = 3
  Text <- TextDef
  Lower <- LowerDef
  ValidSku <- ValidSkuDef
  None = None
  Seed <- HatSeed
  Inputs <- ImageInputs
  MaxInFlight = 2
  Faults = TRUE
  MaxCrashes = 1
  Picture <- PictureDef
  OtherData <- OtherDataDef
  MaxImages = 2
  ImagesOf <- FetchedImages
SPECIFICATION ImagesFairSpec
INVARIANTS
  TypeOK
  ImagesTypeOK
  StoredBeforeShown
PROPERTY
  CatalogIsImplemented
  RowsAreSoftDeleted
  RequestsEndUnlessFetching
\* A deadlock is a request that never ends: RequestsEndUnlessFetching finds it.
CHECK_DEADLOCK FALSE
