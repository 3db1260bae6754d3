---------------------------- MODULE Configuration ----------------------------
(***************************************************************************)
(* What an isolate makes of its environment: validation of the settings    *)
(* (config.rs), of the static clients and their secrets (client.rs) and of *)
(* the additional public keys (jwk.rs).                                    *)
(*                                                                         *)
(* Which check failed is only logged, so a validation is a predicate.      *)
(***************************************************************************)
EXTENDS ClientMetadata

CONSTANTS
  Kids,                  \* well-formed key ids
  KeyBits,               \* RSA keys and the length of their modulus
  MIN_RSA_MODULUS_BITS,  \* 2048 in jwk.rs
  MIN_TTL, MAX_TTL, DEFAULT_ID_TOKEN_TTL_SECS  \* 60, 3600 and 900 in config.rs

ASSUME ConfigurationAssumption ==
  /\ \A k \in DOMAIN KeyBits : KeyBits[k] \in Nat
  /\ MIN_TTL \in Nat /\ MAX_TTL \in Nat
  /\ DEFAULT_ID_TOKEN_TTL_SECS \in MIN_TTL .. MAX_TTL

Keys == DOMAIN KeyBits

required(value) == value \notin {NONE, Empty}

-----------------------------------------------------------------------------
(* Static clients. *)

(* A path-bearing issuer, or one with anything but an origin, is refused.   *)
validate_issuer(issuer) ==
  LET url == Url[issuer] IN
  /\ url # Malformed
  /\ url.scheme = "https" /\ url.host # NONE
  /\ ~url.userinfo /\ ~url.query /\ ~url.fragment /\ ~url.path

SUPPORTED_SCOPES == {"openid"}

(* The token endpoint authentication method a client type must have. *)
Consistent(client) ==
  client.token_endpoint_auth_method =
    IF client.client_type = "public" THEN "none" ELSE "client_secret_basic"

validate_client(client) ==
  /\ client.client_id \notin {Empty, Malformed}
  /\ client.redirect_uris # <<>>
  /\ \A i \in DOMAIN client.redirect_uris : is_valid_redirect_uri(client.redirect_uris[i])
  /\ "openid" \in client.allowed_scopes
  /\ client.allowed_scopes \subseteq SUPPORTED_SCOPES
  /\ Consistent(client)

(* ClientRegistry::find: the first client of that id. *)
find(clients, id) ==
  LET hits == {i \in DOMAIN clients : clients[i].client_id = id} IN
  IF hits = {} THEN NONE ELSE clients[CHOOSE i \in hits : \A j \in hits : i <= j]

(* Mutant: a confidential client without a secret is accepted. *)
RegistryForgetsMissingSecret(clients, secrets) ==
  /\ clients # Malformed /\ clients # <<>>
  /\ \A i \in DOMAIN clients : validate_client(clients[i])
  /\ \A i, j \in DOMAIN clients : clients[i].client_id = clients[j].client_id => i = j
  /\ secrets # Malformed
  /\ secrets # NONE => \A id \in DOMAIN secrets :
       LET client == find(clients, id) IN
       client # NONE /\ client.client_type = "confidential" /\ secrets[id] # Malformed

(* The clients one by one against those before them, then the secrets       *)
(* against the clients (a secret under 16 characters is Malformed), then    *)
(* the confidential clients against the secrets.                            *)
build_registry(clients, secrets) ==
  /\ clients # Malformed /\ clients # <<>>
  /\ \A i \in DOMAIN clients :
       /\ validate_client(clients[i])
       /\ \A j \in 1 .. i - 1 : clients[j].client_id # clients[i].client_id
  /\ secrets # Malformed
  /\ secrets # NONE => \A id \in DOMAIN secrets :
       LET client == find(clients, id) IN
       client # NONE /\ client.client_type = "confidential" /\ secrets[id] # Malformed
  /\ \A i \in DOMAIN clients :
       clients[i].client_type = "confidential" =>
         secrets # NONE /\ clients[i].client_id \in DOMAIN secrets

-----------------------------------------------------------------------------
(* Keys. *)

(* Mutant: any text is a key id. *)
KidIsAnyText(kid) == kid # NONE

is_valid_kid(kid) == kid \in Kids

(* An operator's JSON value as a public RSA key; members that are absent or *)
(* no strings are NONE.                                                     *)
validate_public(jwk) ==
  /\ jwk # Malformed
  /\ ~jwk.private
  /\ jwk.kty = "RSA"
  /\ jwk.n \in Keys /\ KeyBits[jwk.n] >= MIN_RSA_MODULUS_BITS
  /\ jwk.e \notin {NONE, Malformed}
  /\ jwk.alg \in {NONE, "RS256"}
  /\ jwk.use \in {NONE, "sig"}
  /\ is_valid_kid(jwk.kid)

(* Mutant: only neighbouring key ids are compared. *)
JwksComparedPairwise(kid, jwks) ==
  /\ jwks # Malformed
  /\ \A i \in DOMAIN jwks :
       /\ validate_public(jwks[i])
       /\ jwks[i].kid # IF i = 1 THEN kid ELSE jwks[i - 1].kid

(* OIDC_JWKS_ADDITIONAL_PUBLIC_KEYS: no key id twice, the signing key's own *)
(* id (in seen_kids from the start) included.                               *)
additional_public_jwks(kid, jwks) ==
  /\ jwks # Malformed
  /\ \A i \in DOMAIN jwks :
       /\ validate_public(jwks[i])
       /\ jwks[i].kid # kid
       /\ \A j \in 1 .. i - 1 : jwks[j].kid # jwks[i].kid

id_token_ttl(ttl) == ttl # Malformed /\ MIN_TTL <= ttl /\ ttl <= MAX_TTL

-----------------------------------------------------------------------------
(* Config::from_input: whether the environment is accepted. *)
from_input(env) ==
  /\ required(env.issuer) /\ validate_issuer(env.issuer)
  /\ required(env.discord_client_id) /\ is_snowflake(env.discord_client_id)
  /\ required(env.required_guild_id) /\ is_snowflake(env.required_guild_id)
  /\ required(env.discord_client_secret)
  /\ required(env.signing_key_id) /\ is_valid_kid(env.signing_key_id)
  /\ required(env.signing_private_key)
  /\ required(env.clients) /\ build_registry(env.clients, env.client_secrets)
  /\ env.additional # NONE => additional_public_jwks(env.signing_key_id, env.additional)
  /\ env.ttl # NONE => id_token_ttl(env.ttl)

id_token_ttl_secs(env) == IF env.ttl = NONE THEN DEFAULT_ID_TOKEN_TTL_SECS ELSE env.ttl

(* Config::client_secret *)
client_secret(env, id) ==
  IF env.client_secrets = NONE THEN NONE
  ELSE IF id \in DOMAIN env.client_secrets THEN env.client_secrets[id] ELSE NONE
=============================================================================
