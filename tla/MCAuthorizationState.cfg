SPECIFICATION Spec
CONSTANTS
  NONE = NONE
  Clients = {c1, c2}
  RedirectUris = {u1}
  Nonces = {}
  RpStates = {}
  Verifiers = {v1}
  MalformedVerifiers = {}
  Subjects = {d1}
  TRANSACTION_TTL_SECS = 4
  AUTHORIZATION_CODE_TTL_SECS = 2
  States = {s1}
  Codes = {k1}
  SWEEP_INTERVAL = 3
  AlarmLateness = 1
  Horizon = 5
  MaxFaults = 1
INVARIANTS
  TypeOK
  OneVerdict
  RetentionBound
PROPERTIES
  LeavesByUseOrExpiry
  EventuallyRemoved
