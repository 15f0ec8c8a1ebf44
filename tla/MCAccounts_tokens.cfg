CONSTANTS
  MaxRequests = 2
  MaxInFlight = 1
  Faults = FALSE
  MaxCrashes = 0
  Limit = 2
  Window = 2
  Client <- ClientDef
  Username <- UsernameDef
  Email <- EmailDef
  Password <- PasswordDef
  Garbled = Garbled
  None = None
  SeedUsers <- SeedDef
  Inputs <- ForgotInputs
  c1 = c1
  c2 = c2
  frank = frank
  moon = moon
  fmail = fmail
  mmail = mmail
  right = right
  wrong = wrong
SPECIFICATION Spec
INVARIANT
  OneFreshToken
