SPECIFICATION Spec
CONSTANTS
  NONE = NONE
  d1 = d1
  d2 = d2
  u1 = u1
  u2 = u2
  Clients = {d1, d2, d3}
  RedirectUris = {u1, u2}
  StaticClients = {d2}
  StaticConfig <- MCStaticConfig
  StaticSecret <- MCStaticSecret
  DynamicIds = {d1, d2, d3}
  Secrets = {r1, r2, r3}
  Requests = {r1, r2, r3}
  SECRET_ROTATION_OVERLAP_SECS = 1
  MAX_ID_ATTEMPTS = 2
  MaxOutstanding = 2
  MaxClock = 2
SYMMETRY RequestSymmetry
CHECK_DEADLOCK FALSE
INVARIANTS
  TypeOK
  NoLostUpdate
  OverlapHonoured
  ActiveResolves
  TimesCoherent
  SecretsUnshared
PROPERTIES
  SecretsNeverRevive
