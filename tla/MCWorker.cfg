SPECIFICATION Spec
CONSTANTS
  NONE = NONE
  Empty = Empty
  Malformed = Malformed
  Twice = Twice
  TooLong = TooLong
  Long = Long
  Unread = Unread
  Transport = Transport
  pub = pub
  conf = conf
  dyn = dyn
  nobody = nobody
  u1 = u1
  u2 = u2
  u3 = u3
  u4 = u4
  x1 = x1
  x2 = x2
  x3 = x3
  t1 = t1
  t2 = t2
  Clients = {pub, conf, dyn, nobody}
  RedirectUris = {u1, u2, u3, u4}
  StaticClients = {pub, conf}
  StaticConfig <- MCStaticConfig
  StaticSecret <- MCStaticSecret
  DynamicIds = {dyn, pub}
  Secrets = {x1, x2, x3}
  SECRET_ROTATION_OVERLAP_SECS = 600
  Url <- MCUrl
  Queries <- MCQueries
  Registries <- MCRegistries
  TokenForms <- MCForms
  MaxChanges = 2
  AdminRequests <- MCAdminRequests
  AdminTokens = {NONE, Empty, t1}
  MAX_REDIRECT_URIS = 3
  CallbackQueries <- MCCallbackQueries
  Statuses = {200, 401, 404, 429, 500}
  UserIds = {a1, a2, a3}
  Snowflakes = {a1, a2}
CHECK_DEADLOCK FALSE
INVARIANTS
  RedirectExactlyWhenTrusted
  ProceedsExactly
  VerdictIgnores
  AdmittedByDiscord
  DeniedOnlyByDiscord
  CodeTouchedByAuthentic
  FailuresAlike
  AuthenticServed
  StrangersStopped
  CallsNameDynamicClients
  MetadataSound
  BodyReadWhereConsumed
