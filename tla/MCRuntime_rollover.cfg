SPECIFICATION Spec
CONSTANTS
  NONE = NONE
  Empty = Empty
  Malformed = Malformed
  c1 = c1
  c2 = c2
  u1 = u1
  u2 = u2
  u3 = u3
  origin = origin
  other = other
  k1 = k1
  k2 = k2
  keyA = keyA
  keyB = keyB
  weak = weak
  Clients = {c1, c2}
  RedirectUris = {u1, u2, u3}
  Url <- MCUrl
  Kids = {k1, k2}
  KeyBits <- MCKeyBits
  MIN_RSA_MODULUS_BITS = 2048
  MIN_TTL = 1
  MAX_TTL = 3
  DEFAULT_ID_TOKEN_TTL_SECS = 1
  Isolates = {i1, i2, i3}
  Requests = {r1, r2}
  RequestKinds = {"token"}
  Environments <- Rollover
  FirstEnvironments <- RolloverStart
  Staged = TRUE
  MaxDeploys = 3
  MaxClock = 1
SYMMETRY RuntimeSymmetry
CHECK_DEADLOCK FALSE
INVARIANTS
  TypeOK
  Verifiable
