------------------------ MODULE AuthorizationRecords ------------------------
(***************************************************************************)
(* The two short-lived records of the provider and the pure functions on   *)
(* them: the authorization transaction (transaction.rs), the authorization *)
(* code (code.rs) and PKCE (pkce.rs).                                      *)
(*                                                                         *)
(* Random tokens are opaque values chosen by the caller.                   *)
(* `scope` and `id` are carried without being read by any decision         *)
(* modelled here and are left out.                                         *)
(***************************************************************************)
EXTENDS Domain

CONSTANTS
  Nonces,
  RpStates,                     \* `state` values of RPs
  Verifiers,                    \* PKCE code_verifier values
  MalformedVerifiers,           \* those that is_valid_code_verifier rejects
  Subjects,                     \* Discord user snowflakes
  TRANSACTION_TTL_SECS,         \* 600 in config.rs
  AUTHORIZATION_CODE_TTL_SECS   \* 60 in config.rs

ASSUME TtlAssumption ==
  /\ TRANSACTION_TTL_SECS \in Nat \ {0}
  /\ AUTHORIZATION_CODE_TTL_SECS \in Nat \ {0}

ASSUME VerifierAssumption == MalformedVerifiers \subseteq Verifiers

Challenges == {sha256_b64url(v) : v \in Verifiers}

(* What /authorize hands on once a request is valid (authorize.rs). *)
ValidatedAuthorize ==
  [client_id : Clients, redirect_uri : RedirectUris,
   rp_state : RpStates \cup {NONE}, nonce : Nonces \cup {NONE},
   code_challenge : Challenges]

AuthorizationTransaction(States) ==
  [oidc_client_id : Clients, redirect_uri : RedirectUris,
   rp_state : RpStates \cup {NONE}, nonce : Nonces \cup {NONE},
   code_challenge : Challenges,
   discord_oauth_state : States, created_at : Nat, expires_at : Nat]

StoredAuthorizationCode(Hashes) ==
  [code_hash : Hashes, client_id : Clients, redirect_uri : RedirectUris,
   subject : Subjects, nonce : Nonces \cup {NONE},
   code_challenge : Challenges, created_at : Nat, expires_at : Nat]

ExchangeCheck ==
  [client_id : Clients, redirect_uri : RedirectUris, code_verifier : Verifiers]

-----------------------------------------------------------------------------

(* Mutant: the caller swaps two neighbouring arguments of one type. *)
NewTransactionSwapped(v, state, now) ==
  [oidc_client_id |-> v.client_id, redirect_uri |-> v.redirect_uri,
   rp_state |-> v.nonce, nonce |-> v.rp_state, code_challenge |-> v.code_challenge,
   discord_oauth_state |-> state,
   created_at |-> now, expires_at |-> now + TRANSACTION_TTL_SECS]

(* AuthorizationTransaction::new; `state` is the fresh random upstream state. *)
NewTransaction(v, state, now) ==
  [oidc_client_id |-> v.client_id, redirect_uri |-> v.redirect_uri,
   rp_state |-> v.rp_state, nonce |-> v.nonce, code_challenge |-> v.code_challenge,
   discord_oauth_state |-> state,
   created_at |-> now, expires_at |-> now + TRANSACTION_TTL_SECS]

(* Mutant: the last second counts. *)
IsExpiredLate(tx, now) == tx.expires_at < now

is_expired(tx, now) == tx.expires_at <= now

(* Mutant: the plaintext code is stored. *)
IssueStoresPlaintext(tx, subject, plaintext, now) ==
  [code_hash |-> plaintext,
   client_id |-> tx.oidc_client_id, redirect_uri |-> tx.redirect_uri,
   subject |-> subject, nonce |-> tx.nonce,
   code_challenge |-> tx.code_challenge,
   created_at |-> now, expires_at |-> now + AUTHORIZATION_CODE_TTL_SECS]

(* issue_code; `plaintext` is the fresh random code, only its hash is stored. *)
issue_code(tx, subject, plaintext, now) ==
  [code_hash |-> sha256_b64url(plaintext),
   client_id |-> tx.oidc_client_id, redirect_uri |-> tx.redirect_uri,
   subject |-> subject, nonce |-> tx.nonce,
   code_challenge |-> tx.code_challenge,
   created_at |-> now, expires_at |-> now + AUTHORIZATION_CODE_TTL_SECS]

verify_s256(verifier, challenge) ==
  /\ verifier \notin MalformedVerifiers
  /\ sha256_b64url(verifier) = challenge

(* Mutant: the client is not compared. *)
ExchangeIgnoresClient(record, check, now) ==
  IF record.expires_at <= now THEN "Expired"
  ELSE IF record.redirect_uri # check.redirect_uri THEN "RedirectMismatch"
  ELSE IF ~verify_s256(check.code_verifier, record.code_challenge)
       THEN "PkceMismatch"
  ELSE "Ok"

(* The reason an exchange is denied, or "Ok"; expiry is decided first. *)
evaluate_code_exchange(record, check, now) ==
  IF record.expires_at <= now THEN "Expired"
  ELSE IF record.client_id # check.client_id THEN "ClientMismatch"
  ELSE IF record.redirect_uri # check.redirect_uri THEN "RedirectMismatch"
  ELSE IF ~verify_s256(check.code_verifier, record.code_challenge)
       THEN "PkceMismatch"
  ELSE "Ok"
=============================================================================
