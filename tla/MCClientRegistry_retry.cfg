SPECIFICATION Spec
CONSTANTS
  NONE = NONE
  d1 = d1
  d2 = d2
  u1 = u1
  u2 = u2
  Clients = {d1, d2}
  RedirectUris = {u1, u2}
  StaticClients = {d2}
  StaticConfig <- MCStaticConfig
  StaticSecret <- MCStaticSecret
  DynamicIds = {d1, d2}
  Secrets = {r1, r2, r3}
  Requests = {r1, r2, r3}
  SECRET_ROTATION_OVERLAP_SECS = 2
  MAX_ID_ATTEMPTS = 2
  MaxOutstanding = 1
  MaxClock = 3
SYMMETRY RequestSymmetry
CHECK_DEADLOCK FALSE
INVARIANT
  DeliveredSecretKeepsOverlap
