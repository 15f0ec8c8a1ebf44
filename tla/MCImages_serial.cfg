CONSTANTS
  MaxRequests = 3
  MaxRows = 2
  Text <- TextDef
  Lower <- LowerDef
  ValidSku <- ValidSkuDef
  None = None
  Seed <- EmptySeed
  Inputs <- SerialInputs
  MaxInFlight = 1
  Faults = TRUE
  MaxCrashes = 1
  Picture <- PictureDef
  OtherData <- OtherDataDef
  MaxImages = 2
  ImagesOf <- ImagesDef
SPECIFICATION ImagesSpec
INVARIANTS
  ActiveValuesHaveActiveOption
  ActiveOptionsHaveActiveRoot
  UniqueActivePrefix
  PicturesAreOwn
  PrimaryImagesAreOwn
