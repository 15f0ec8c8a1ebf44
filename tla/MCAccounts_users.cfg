CONSTANTS
  MaxRequests = 3
  MaxInFlight = 2
  Faults = TRUE
  MaxCrashes = 1
  Limit = 1
  Window = 1
  Client <- ClientDef
  Username <- UsernameDef
  Email <- EmailDef
  Password <- PasswordDef
  Garbled = Garbled
  None = None
  SeedUsers <- SeedDef
  Inputs <- AllInputs
  c1 = c1
  c2 = c2
  frank = frank
  moon = moon
  fmail = fmail
  mmail = mmail
  right = right
  wrong = wrong
SPECIFICATION FairSpec
INVARIANTS
  TypeOK
  CookiesMatchUsers
  LoginFailuresAreBounded
PROPERTIES
  UsersAreSoftDeleted
  WaitingHelps
