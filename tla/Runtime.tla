------------------------------- MODULE Runtime -------------------------------
(***************************************************************************)
(* The Worker's isolates (lib.rs).  Each memoises one runtime, its config  *)
(* and imported signing key (webcrypto.rs), as a shared future: the first  *)
(* request that needs it starts the load, every request awaits the same    *)
(* result, and a failure stays like a success.  Isolates of an old and of  *)
(* a new deployment run side by side, sign ID tokens and publish their     *)
(* JWKS (jwt.rs, jwk.rs), while an operator rolls the signing key over.    *)
(*                                                                         *)
(* An isolate runs the environment that was deployed when it started, and  *)
(* goes away when it is idle; identifiers are never reused.  A request may *)
(* be cancelled by its client.  Of a token request only the signing is     *)
(* kept (OidcFlow has the rest); any other route that needs the runtime is *)
(* "other" or, with the admin token, "admin".                              *)
(***************************************************************************)
EXTENDS Configuration

CONSTANTS
  Isolates, Requests,
  RequestKinds,     \* the kinds of requests that are made
  Environments,     \* environments an operator may deploy
  FirstEnvironments, \* environments of the first deployment
  Staged,           \* how careful the operator is, see Deploy
  MaxDeploys,       \* bound on deployments after the first
  MaxClock          \* bound on time

ASSUME RuntimeAssumption ==
  /\ FirstEnvironments \subseteq Environments
  /\ RequestKinds \subseteq {"jwks", "token", "other", "admin", "unauthenticated"}
  /\ Staged \in BOOLEAN
  /\ MaxDeploys \in Nat
  /\ MaxClock \in Nat

(* What the parsers hand to the validation: lists, maps and numbers, or one *)
(* of the marks of a setting that is missing or does not parse.             *)
ASSUME EnvironmentAssumption ==
  \A env \in Environments :
    /\ env.clients \notin {NONE, Empty, Malformed} =>
         /\ DOMAIN env.clients \subseteq Nat \ {0}
         /\ \A n \in DOMAIN env.clients :
              env.clients[n].client_type \in {"public", "confidential"}
    /\ env.client_secrets \notin {NONE, Malformed} =>
         \A id \in DOMAIN env.client_secrets : env.client_secrets[id] # NONE
    /\ env.additional \notin {NONE, Malformed} =>
         DOMAIN env.additional \subseteq Nat \ {0}
    /\ env.ttl \in Nat \cup {NONE, Malformed}

VARIABLES
  clock,     \* wall clock
  deployed,  \* environment of the current deployment
  deploys,   \* number of deployments after the first
  isolate,   \* isolates and their memoised runtime
  req,       \* HTTP requests
  tokens     \* ID tokens that went out

vars == <<clock, deployed, deploys, isolate, req, tokens>>

Answers == {"served", "config_error", "error", "unauthorized", "cancelled"}

Isolate == [phase : {"absent", "fresh", "importing", "ready", "failed", "gone"},
            env : Environments \cup {NONE}]
Request == [pc : {"idle", "wait", "sign"} \cup Answers, kind : RequestKinds \cup {NONE},
            on : Isolates \cup {NONE}, now : Nat]
Token == [kid : Kids, key : Keys, exp : Nat]

Init ==
  /\ clock = 0
  /\ deployed \in FirstEnvironments
  /\ deploys = 0
  /\ isolate = [i \in Isolates |-> [phase |-> "absent", env |-> NONE]]
  /\ req = [r \in Requests |-> [pc |-> "idle", kind |-> NONE, on |-> NONE, now |-> 0]]
  /\ tokens = {}

Running == {i \in Isolates : isolate[i].phase \notin {"absent", "gone"}}
Waiting(i) == {r \in Requests : req[r].on = i /\ req[r].pc = "wait"}
Pending(i) == {r \in Requests : req[r].on = i /\ req[r].pc \in {"wait", "sign"}}

-----------------------------------------------------------------------------
(* Keys and tokens. *)

(* from_secret_str: the material imports and is strong enough. *)
importable(env) ==
  /\ env.signing_private_key \in Keys
  /\ KeyBits[env.signing_private_key] >= MIN_RSA_MODULUS_BITS

SigningJwk(env) == [kid |-> env.signing_key_id, key |-> env.signing_private_key]

(* Mutant: the additional keys are left out. *)
JwksOfSigner(env) == {SigningJwk(env)}

(* GET /jwks.json: the signer's key and the additional ones. *)
jwks(env) ==
  {SigningJwk(env)} \cup
    IF env.additional = NONE THEN {}
    ELSE {[kid |-> env.additional[i].kid, key |-> env.additional[i].n] :
            i \in DOMAIN env.additional}

(* An RP verifies a token with the key its kid names. *)
Verifies(keys, t) ==
  /\ \E k \in keys : k.kid = t.kid
  /\ \A k \in keys : k.kid = t.kid => k.key = t.key

Alive(t) == clock < t.exp

Usable(env) == from_input(env) /\ importable(env)

-----------------------------------------------------------------------------
(* Isolates and deployments. *)

(* What the operator goes by: the settings name this key under this kid. *)
Names(env, kid, key) ==
  \/ env.signing_key_id = kid /\ env.signing_private_key = key
  \/ /\ env.additional # NONE
     /\ \E i \in DOMAIN env.additional :
          env.additional[i].kid = kid /\ env.additional[i].n = key

(* The settings of `reader` name the key that `signer` signs with. *)
Covers(reader, signer) ==
  Usable(reader) /\ Usable(signer) =>
    Names(reader, signer.signing_key_id, signer.signing_private_key)

(* As documented, a key stays in the settings until every token it signed   *)
(* has expired.  A staged operator also waits until the settings of all     *)
(* running isolates name the key the new deployment signs with, and does    *)
(* not drop a key that one of them still signs with.                        *)
Deploy(env) ==
  /\ env # deployed
  /\ deploys < MaxDeploys /\ deploys' = deploys + 1
  /\ Usable(env) => \A t \in tokens : Alive(t) => Names(env, t.kid, t.key)
  /\ Staged => \A i \in Running : /\ Covers(isolate[i].env, env)
                                 /\ Covers(env, isolate[i].env)
  /\ deployed' = env
  /\ UNCHANGED <<clock, isolate, req, tokens>>

StartIsolate(i) ==
  /\ isolate[i].phase = "absent"
  /\ isolate' = [isolate EXCEPT ![i] = [phase |-> "fresh", env |-> deployed]]
  /\ UNCHANGED <<clock, deployed, deploys, req, tokens>>

Recycle(i) ==
  /\ i \in Running /\ Pending(i) = {}
  /\ isolate' = [isolate EXCEPT ![i].phase = "gone"]
  /\ UNCHANGED <<clock, deployed, deploys, req, tokens>>

-----------------------------------------------------------------------------
(* Requests. *)

(* Mutant: a failure is not memoised, the next request loads again. *)
StartLoadAgain(i) ==
  IF isolate[i].phase \notin {"fresh", "failed"} THEN isolate
  ELSE [isolate EXCEPT ![i].phase =
          IF from_input(isolate[i].env) THEN "importing" ELSE "failed"]

(* runtime(): get_or_insert_with, then the first poll, which runs           *)
(* load_runtime up to the import of the key.                                *)
StartLoad(i) ==
  IF isolate[i].phase # "fresh" THEN isolate
  ELSE [isolate EXCEPT ![i].phase =
          IF from_input(isolate[i].env) THEN "importing" ELSE "failed"]

Accept(r, i, kind, pc) ==
  req' = [req EXCEPT ![r] = [pc |-> pc, kind |-> kind, on |-> i, now |-> 0]]

(* route, route_admin: without the admin token the control plane answers    *)
(* 401 before it touches the runtime; every other route awaits it.          *)
Arrive(r, i, kind) ==
  /\ req[r].pc = "idle" /\ i \in Running
  /\ \/ /\ kind = "unauthenticated"
        /\ Accept(r, i, kind, "unauthorized")
        /\ UNCHANGED isolate
     \/ /\ kind # "unauthenticated"
        /\ Accept(r, i, kind, "wait")
        /\ isolate' = StartLoad(i)
  /\ UNCHANGED <<clock, deployed, deploys, tokens>>

(* Mutant: a rejected import never resolves. *)
ImportHangs(i) ==
  /\ isolate[i].phase = "importing" /\ Waiting(i) # {}
  /\ importable(isolate[i].env)
  /\ isolate' = [isolate EXCEPT ![i].phase = "ready"]
  /\ UNCHANGED <<clock, deployed, deploys, req, tokens>>

(* importKey and exportKey complete, as long as somebody polls the shared   *)
(* future; Web Crypto may also fail for a reason of its own.                *)
Import(i) ==
  /\ isolate[i].phase = "importing" /\ Waiting(i) # {}
  /\ \/ /\ importable(isolate[i].env)
        /\ isolate' = [isolate EXCEPT ![i].phase = "ready"]
     \/ isolate' = [isolate EXCEPT ![i].phase = "failed"]
  /\ UNCHANGED <<clock, deployed, deploys, req, tokens>>

(* The shared future has resolved.  The data plane also needs the binding   *)
(* of AuthorizationState; the admin API does not.  The clock is read only   *)
(* here, after the await: a token's lifetime does not include the load.     *)
Serve(r) ==
  LET i == isolate[req[r].on]
      Answer(pc) == req' = [req EXCEPT ![r].pc = pc]
  IN
  /\ req[r].pc = "wait"
  /\ \/ i.phase = "failed" /\ Answer("config_error")
     \/ /\ i.phase = "ready"
        /\ IF req[r].kind # "admin" /\ ~i.env.store_bound THEN Answer("error")
           ELSE IF req[r].kind = "token"
                THEN req' = [req EXCEPT ![r].pc = "sign", ![r].now = clock]
           ELSE Answer("served")
  /\ UNCHANGED <<clock, deployed, deploys, isolate, tokens>>

(* encode_claims: exp counts from the `now` of the request. *)
Sign(r) ==
  LET env == isolate[req[r].on].env IN
  /\ req[r].pc = "sign"
  /\ \/ /\ req' = [req EXCEPT ![r].pc = "served"]
        /\ tokens' = tokens \cup {[kid |-> env.signing_key_id,
                                   key |-> env.signing_private_key,
                                   exp |-> req[r].now + id_token_ttl_secs(env)]}
     \/ req' = [req EXCEPT ![r].pc = "error"] /\ UNCHANGED tokens
  /\ UNCHANGED <<clock, deployed, deploys, isolate>>

Cancel(r) ==
  /\ req[r].pc \in {"wait", "sign"}
  /\ req' = [req EXCEPT ![r].pc = "cancelled"]
  /\ UNCHANGED <<clock, deployed, deploys, isolate, tokens>>

Tick ==
  /\ clock < MaxClock
  /\ clock' = clock + 1
  /\ UNCHANGED <<deployed, deploys, isolate, req, tokens>>

Next ==
  \/ \E env \in Environments : Deploy(env)
  \/ \E i \in Isolates : StartIsolate(i) \/ Recycle(i) \/ Import(i)
  \/ \E r \in Requests :
       \/ \E i \in Isolates, kind \in RequestKinds : Arrive(r, i, kind)
       \/ Serve(r) \/ Sign(r) \/ Cancel(r)
  \/ Tick

(* Web Crypto completes or fails, and a request goes on when it can. *)
Fairness ==
  /\ \A i \in Isolates : WF_vars(Import(i))
  /\ \A r \in Requests : WF_vars(Serve(r)) /\ WF_vars(Sign(r))

Spec == Init /\ [][Next]_vars /\ Fairness

-----------------------------------------------------------------------------
(* Properties. *)

TypeOK ==
  /\ clock \in Nat
  /\ deployed \in Environments
  /\ deploys \in Nat
  /\ isolate \in [Isolates -> Isolate]
  /\ req \in [Requests -> Request]
  /\ tokens \subseteq Token

Ready == {i \in Isolates : isolate[i].phase = "ready"}

(* With a staged operator, an RP can verify every ID token that has not     *)
(* expired with the JWKS of whichever isolate answers it, whichever         *)
(* deployment signed the token and however long it took to sign.            *)
Verifiable ==
  \A i \in Ready, t \in tokens : Alive(t) => Verifies(jwks(isolate[i].env), t)

(* No JWKS ever lists two keys under one kid, or a weak key, whatever the   *)
(* operator put into the environment (JwkError::DuplicateKeyId, WeakKey).   *)
KidUnambiguous ==
  \A i \in Ready : \A k1, k2 \in jwks(isolate[i].env) :
    /\ k1.kid = k2.kid => k1 = k2
    /\ KeyBits[k1.key] >= MIN_RSA_MODULUS_BITS

(* An isolate has one runtime: all its requests find it usable or none      *)
(* does, however many load it at once and whichever are cancelled.          *)
OneRuntime ==
  \A r1, r2 \in Requests :
    /\ req[r1].on = req[r2].on
    /\ req[r1].pc = "config_error"
    => req[r2].pc \notin {"served", "error", "sign"}

(* Every request that waits for the runtime is answered, unless its client  *)
(* goes away: also if the request that started the load was cancelled.      *)
Answered ==
  \A r \in Requests : req[r].pc \in {"wait", "sign"} ~> req[r].pc \in Answers

(* A static client authenticates at /token with Basic and its secret, or    *)
(* without one (authenticate_client): what the configuration must provide.  *)
BasicWorks(env, id) ==
  LET client == find(env.clients, id) IN
  /\ client.client_type = "confidential"
  /\ client.token_endpoint_auth_method = "client_secret_basic"
  /\ client_secret(env, id) # NONE
NoneWorks(env, id) ==
  LET client == find(env.clients, id) IN
  /\ client.client_type = "public" /\ client.token_endpoint_auth_method = "none"

(* A loaded configuration leaves no static client half configured: the      *)
(* client that was validated is the one lookup finds, it authenticates in   *)
(* exactly one way, a secret belongs to a client that uses it, it has a     *)
(* redirect URI and may be granted openid.                                  *)
StaticClientsUsable ==
  \A i \in Ready :
    LET env == isolate[i].env IN
    /\ \A n \in DOMAIN env.clients :
         LET client == env.clients[n] IN
         /\ find(env.clients, client.client_id) = client
         /\ BasicWorks(env, client.client_id) # NoneWorks(env, client.client_id)
         /\ client.redirect_uris # <<>> /\ client.allowed_scopes = {"openid"}
    /\ env.client_secrets # NONE => \A id \in DOMAIN env.client_secrets :
         find(env.clients, id) # NONE /\ BasicWorks(env, id)

(* Documented, not true: the kid in use is available from the JWKS          *)
(* (SECURITY.md), with the documented roll-over (DESIGN.md).  An isolate    *)
(* of the old deployment does not know the new key.                         *)
CurrentKidPublished ==
  \A i \in Ready, t \in tokens :
    Alive(t) => \E k \in jwks(isolate[i].env) : k.kid = t.kid
=============================================================================
