---------------------------- MODULE DynamicClient ----------------------------
(***************************************************************************)
(* The dynamic client record and its transitions (registry.rs), and how    *)
(* the data plane resolves a client: static registry first, then the       *)
(* dynamic one (resolver.rs).                                              *)
(*                                                                         *)
(* `redirect_uris` stands for all mutable metadata (display name and owner *)
(* are never read by a decision).  The token endpoint authentication       *)
(* method and the scopes are fixed by the client type (fixed_policy), so   *)
(* `client_type` stands for the three.                                     *)
(***************************************************************************)
EXTENDS Domain

CONSTANTS
  StaticClients,               \* ids in OIDC_CLIENTS_JSON
  StaticConfig,                \* their ClientConfig
  StaticSecret,                \* their configured secret, NONE for public ones
  DynamicIds,                  \* ids of the form oji_ + 22 characters
  Secrets,                     \* random client secrets
  SECRET_ROTATION_OVERLAP_SECS \* 600 in registry.rs

ASSUME ClientAssumption ==
  /\ StaticClients \subseteq Clients
  /\ DynamicIds \subseteq Clients
  /\ SECRET_ROTATION_OVERLAP_SECS \in Nat \ {0}

ClientType == {"public", "confidential"}
ClientStatus == {"active", "disabled"}
SecretHashes == {sha256_b64url(s) : s \in Secrets}

ClientConfig == [redirect_uris : SUBSET RedirectUris, client_type : ClientType]

DynamicClientRecord ==
  [redirect_uris : SUBSET RedirectUris, client_type : ClientType,
   status : ClientStatus,
   current_secret_hash : SecretHashes \cup {NONE},
   previous_secret_hash : SecretHashes \cup {NONE},
   previous_secret_valid_until : Nat \cup {NONE},
   created_at : Nat, updated_at : Nat, disabled_at : Nat \cup {NONE}]

ASSUME StaticAssumption ==
  /\ StaticConfig \in [StaticClients -> ClientConfig]
  /\ StaticSecret \in [StaticClients -> Secrets \cup {NONE}]

(* None is no time, no hash and no record. *)
ASSUME NoRecordAssumption ==
  /\ NONE \notin Nat
  /\ NONE \notin SecretHashes
  /\ NONE \notin ClientConfig
  /\ NONE \notin DynamicClientRecord

-----------------------------------------------------------------------------
(* Transitions of a record. *)

(* DynamicClientRecord::new *)
NewRecord(uris, type, secret_hash, now) ==
  [redirect_uris |-> uris, client_type |-> type, status |-> "active",
   current_secret_hash |-> secret_hash,
   previous_secret_hash |-> NONE, previous_secret_valid_until |-> NONE,
   created_at |-> now, updated_at |-> now, disabled_at |-> NONE]

is_active(r) == r.status = "active"

to_client_config(r) ==
  [redirect_uris |-> r.redirect_uris, client_type |-> r.client_type]

(* Mutant: a metadata update re-activates the client. *)
MetadataActivates(r, uris, now) ==
  [r EXCEPT !.redirect_uris = uris, !.updated_at = now, !.status = "active"]

apply_metadata(r, uris, now) ==
  [r EXCEPT !.redirect_uris = uris, !.updated_at = now]

disable(r, now) ==
  IF r.status = "active"
  THEN [r EXCEPT !.status = "disabled", !.disabled_at = now, !.updated_at = now]
  ELSE r

(* Mutant: disabled_at is not cleared. *)
EnableKeepsDisabledAt(r, now) ==
  IF r.status = "disabled"
  THEN [r EXCEPT !.status = "active", !.updated_at = now]
  ELSE r

enable(r, now) ==
  IF r.status = "disabled"
  THEN [r EXCEPT !.status = "active", !.disabled_at = NONE, !.updated_at = now]
  ELSE r

(* Mutant: an earlier previous secret is kept and its window reopened. *)
RotateKeepsOldest(r, new_secret_hash, now) ==
  IF r.client_type # "confidential" THEN r
  ELSE [r EXCEPT
          !.previous_secret_hash =
             IF @ = NONE THEN r.current_secret_hash ELSE @,
          !.previous_secret_valid_until = now + SECRET_ROTATION_OVERLAP_SECS,
          !.current_secret_hash = new_secret_hash,
          !.updated_at = now]

(* Mutant: the window of the previous secret is not extended. *)
RotateKeepsWindow(r, new_secret_hash, now) ==
  IF r.client_type # "confidential" THEN r
  ELSE [r EXCEPT
          !.previous_secret_hash = r.current_secret_hash,
          !.previous_secret_valid_until =
             IF @ = NONE THEN now + SECRET_ROTATION_OVERLAP_SECS ELSE @,
          !.current_secret_hash = new_secret_hash,
          !.updated_at = now]

(* Public clients have no secret: NoSecret, and the record is not written.  *)
(* The current hash becomes the previous one, any older one is dropped.     *)
rotate_secret(r, new_secret_hash, now) ==
  IF r.client_type # "confidential" THEN r
  ELSE [r EXCEPT
          !.previous_secret_hash = r.current_secret_hash,
          !.previous_secret_valid_until =
             IF r.current_secret_hash = NONE THEN NONE
             ELSE now + SECRET_ROTATION_OVERLAP_SECS,
          !.current_secret_hash = new_secret_hash,
          !.updated_at = now]

(* Mutant: the window is still open in the second at which it ends. *)
VerifyLastSecond(r, presented, now) ==
  /\ is_active(r)
  /\ \/ r.current_secret_hash = sha256_b64url(presented)
     \/ /\ r.previous_secret_valid_until # NONE
        /\ r.previous_secret_valid_until >= now
        /\ r.previous_secret_hash = sha256_b64url(presented)

(* The current secret, or the previous one while its window is open. *)
verify_secret(r, presented, now) ==
  /\ is_active(r)
  /\ \/ r.current_secret_hash = sha256_b64url(presented)
     \/ /\ r.previous_secret_valid_until # NONE
        /\ r.previous_secret_valid_until > now
        /\ r.previous_secret_hash = sha256_b64url(presented)

-----------------------------------------------------------------------------
(* Resolution by the data plane; `registry` maps dynamic ids to records. *)

is_dynamic_client_id(c) == c \in DynamicIds

find_client(registry, c) ==
  IF c \in StaticClients THEN StaticConfig[c]
  ELSE IF ~is_dynamic_client_id(c) THEN NONE
  ELSE IF registry[c] = NONE THEN NONE
  ELSE IF ~is_active(registry[c]) THEN NONE
  ELSE to_client_config(registry[c])

verify_client_secret(registry, c, presented, now) ==
  IF c \in StaticClients
  THEN StaticSecret[c] # NONE /\ StaticSecret[c] = presented
  ELSE /\ is_dynamic_client_id(c)
       /\ registry[c] # NONE
       /\ verify_secret(registry[c], presented, now)
=============================================================================
