SPECIFICATION Spec
CONSTANTS
  NONE = NONE
  dyn = dyn
  stat = stat
  u1 = u1
  u2 = u2
  r1 = r1
  n1 = n1
  v1 = v1
  v2 = v2
  k0 = k0
  k1 = k1
  Clients = {dyn, stat}
  RedirectUris = {u1, u2}
  RpStates = {r1}
  Nonces = {n1}
  Verifiers = {v1, v2}
  MalformedVerifiers = {}
  Subjects = {m1, m2}
  Members = {m1}
  TRANSACTION_TTL_SECS = 1
  AUTHORIZATION_CODE_TTL_SECS = 1
  StaticClients = {stat}
  StaticConfig <- MCStaticConfig
  StaticSecret <- MCStaticSecret
  DynamicIds = {dyn}
  Secrets = {k0, k1}
  SECRET_ROTATION_OVERLAP_SECS = 1
  AuthorizeReqs = {a1, a2}
  CallbackReqs = {b1, b2}
  TokenReqs = {t1}
  AuthorizeInputs <- MixInputs
  Presentations <- MixPresentations
  InitialRegistry <- MCRegistry
  UpdateUris <- MCUpdateUris
  MaxVersions = 1
  MaxClock = 1
SYMMETRY FlowSymmetry
CHECK_DEADLOCK FALSE
INVARIANTS
  TokenBoundToLogin
  RedirectBoundToLogin
