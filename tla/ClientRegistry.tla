---------------------------- MODULE ClientRegistry ----------------------------
(***************************************************************************)
(* The control plane: admin requests (admin.rs) that reach the             *)
(* ClientRegistryState Durable Object (durable.rs) through RegistryClient  *)
(* (registry_client.rs).                                                   *)
(*                                                                         *)
(* An admin request reads the clock when it arrives, then calls the object *)
(* over the network.  Each call is one event of the object (Apply), at any *)
(* later time and in any order with the calls of other requests.  The call *)
(* fails before the object saw it, while it is still under way (the object *)
(* may yet apply it), or its reply is lost after the object applied it;    *)
(* RegistryClient maps all to RegistryStoreError and the operator sees     *)
(* `storage_error`.                                                        *)
(*                                                                         *)
(* The secret a request generates is named by the request itself: 256      *)
(* random bits are never drawn twice.  A generated client_id is any id of  *)
(* the dynamic form, so that collisions happen.  Requests answered without *)
(* calling the object (401, 404, 405, 409, 400) and the read-only list and *)
(* get change nothing and are left out.  Nothing deletes a client.         *)
(***************************************************************************)
EXTENDS DynamicClient, FiniteSets

CONSTANTS
  Requests,          \* admin requests; each is made at most once
  MAX_ID_ATTEMPTS,   \* 4 in admin.rs
  MaxOutstanding,    \* bound: admin requests being served at a time
  MaxClock           \* bound on time

ASSUME RegistryAssumption ==
  /\ Requests \subseteq Secrets
  /\ MAX_ID_ATTEMPTS \in Nat \ {0}
  /\ MaxOutstanding \in Nat \ {0}
  /\ MaxClock \in Nat

VARIABLES
  clock,      \* wall clock
  registry,   \* the object's storage: dynamic id -> record or NONE
  req,        \* admin requests
  effect,     \* history: last applied metadata, status and secret per client
  overlap,    \* history: last applied rotation per client
  delivered,  \* history: last secret an operator received per client
  replaced    \* history: when the overlap promised to a replaced secret ends

vars == <<clock, registry, req, effect, overlap, delivered, replaced>>
history == <<effect, overlap, delivered, replaced>>

Phases == {"idle", "generate", "sent", "applied", "late", "done"}
Ops == {"create", "update", "disable", "enable", "rotate"}
Results == {"inserted", "exists", "ok", "no_secret"}

IdleRequest ==
  [phase |-> "idle", op |-> NONE, id |-> NONE, now |-> 0, uris |-> {},
   type |-> NONE, attempts |-> 0, result |-> NONE]

Request ==
  [phase : Phases, op : Ops \cup {NONE}, id : DynamicIds \cup {NONE}, now : Nat,
   uris : SUBSET RedirectUris, type : ClientType \cup {NONE}, attempts : Nat,
   result : Results \cup {NONE}]

(* A request that was answered, with a reply or with storage_error. *)
DoneRequest == [IdleRequest EXCEPT !.phase = "done"]

Outstanding == {r \in Requests : req[r].phase \in {"generate", "sent", "applied", "late"}}

(* The call is on its way to the object; if late, nobody awaits the reply. *)
InFlight(r) == req[r].phase \in {"sent", "late"}

Effect ==
  [uris : SUBSET RedirectUris, status : ClientStatus \cup {NONE},
   secret : SecretHashes \cup {NONE}, type : ClientType \cup {NONE}]
NoEffect == [uris |-> {}, status |-> NONE, secret |-> NONE, type |-> NONE]

(* The secret a rotation replaced, and until when it is still accepted. *)
Rotation == [old : SecretHashes \cup {NONE}, until : Nat]

ASSUME NoRotationAssumption == NONE \notin Rotation

Init ==
  /\ clock = 0
  /\ registry = [c \in DynamicIds |-> NONE]
  /\ req = [r \in Requests |-> IdleRequest]
  /\ effect = [c \in DynamicIds |-> NoEffect]
  /\ overlap = [c \in DynamicIds |-> NONE]
  /\ delivered = [c \in DynamicIds |-> NONE]
  /\ replaced = [s \in Requests |-> NONE]

-----------------------------------------------------------------------------
(* The Worker. *)

(* A valid request: metadata names at least one URI (validate_metadata). *)
StartCreate(r, type, uris) ==
  /\ req[r].phase = "idle"
  /\ Cardinality(Outstanding) < MaxOutstanding
  /\ uris # {}
  /\ req' = [req EXCEPT ![r] = [IdleRequest EXCEPT
               !.phase = "generate", !.op = "create", !.now = clock,
               !.uris = uris, !.type = type]]
  /\ UNCHANGED <<clock, registry, history>>

(* Mutant: a generated id may be the id of a static client. *)
GenerateShadowing(r, id) ==
  /\ req[r].phase = "generate"
  /\ req[r].attempts < MAX_ID_ATTEMPTS
  /\ req' = [req EXCEPT ![r].attempts = @ + 1, ![r].id = id, ![r].phase = "sent"]
  /\ UNCHANGED <<clock, registry, history>>

(* One turn of the loop: an id taken by a static client costs an attempt. *)
GenerateId(r, id) ==
  /\ req[r].phase = "generate"
  /\ req[r].attempts < MAX_ID_ATTEMPTS
  /\ req' = [req EXCEPT
               ![r].attempts = @ + 1,
               ![r].id = IF id \in StaticClients THEN @ ELSE id,
               ![r].phase = IF id \in StaticClients THEN @ ELSE "sent"]
  /\ UNCHANGED <<clock, registry, history>>

(* Every attempt collided: storage_error, nothing was inserted. *)
AttemptsExhausted(r) ==
  /\ req[r].phase = "generate"
  /\ req[r].attempts = MAX_ID_ATTEMPTS
  /\ req' = [req EXCEPT ![r] = DoneRequest]
  /\ UNCHANGED <<clock, registry, history>>

(* PUT, disable, enable, rotate-secret: static and malformed ids have been  *)
(* turned away.  The id is one a create has inserted: nobody else knows it, *)
(* and an unknown id is answered 404 and changes nothing.                   *)
StartMutation(r, op, id, uris) ==
  /\ req[r].phase = "idle"
  /\ Cardinality(Outstanding) < MaxOutstanding
  /\ id \notin StaticClients /\ is_dynamic_client_id(id)
  /\ registry[id] # NONE
  /\ IF op = "update" THEN uris # {} ELSE uris = {}
  /\ req' = [req EXCEPT ![r] = [IdleRequest EXCEPT
               !.phase = "sent", !.op = op, !.id = id, !.now = clock, !.uris = uris]]
  /\ UNCHANGED <<clock, registry, history>>

(* The reply arrives.  409 on insert: try another id; otherwise the         *)
(* operator is answered, with the plaintext secret if there is one.         *)
Answer(r) ==
  LET q == req[r]
      secret == \/ q.op = "create" /\ q.type = "confidential"
                \/ q.op = "rotate" /\ q.result = "ok"
  IN
  /\ q.phase = "applied"
  /\ IF q.result = "exists"
     THEN /\ req' = [req EXCEPT ![r].phase = "generate", ![r].id = NONE,
                                ![r].result = NONE]
          /\ UNCHANGED delivered
     ELSE /\ req' = [req EXCEPT ![r] = DoneRequest]
          /\ delivered' = IF secret THEN [delivered EXCEPT ![q.id] = r] ELSE delivered
  /\ UNCHANGED <<clock, registry, effect, overlap, replaced>>

(* Mutant: a create whose insert failed goes on with another id. *)
FailTriesAgain(r) ==
  /\ req[r].phase \in {"sent", "applied"}
  /\ req' = [req EXCEPT ![r] =
               IF @.op = "create"
               THEN [@ EXCEPT !.phase = "generate", !.id = NONE, !.result = NONE]
               ELSE DoneRequest]
  /\ UNCHANGED <<clock, registry, history>>

(* RegistryStoreError: the call never reaches the object, is still under    *)
(* way, or its reply did not come back.  The request ends; create does not  *)
(* try another id.                                                          *)
Fail(r) ==
  /\ \/ /\ req[r].phase \in {"sent", "applied"}
        /\ req' = [req EXCEPT ![r] = DoneRequest]
     \/ /\ req[r].phase = "sent"
        /\ req' = [req EXCEPT ![r].phase = "late"]
  /\ UNCHANGED <<clock, registry, history>>

-----------------------------------------------------------------------------
(* The Durable Object: one event, read, modify and write. *)

Reply(r, result) ==
  req' = [req EXCEPT ![r] =
            IF @.phase = "late" THEN DoneRequest
            ELSE [@ EXCEPT !.phase = "applied", !.result = result]]

(* Mutant: the plaintext secret is stored. *)
InsertStoresPlaintext(r) ==
  LET q == req[r]
      secret == IF q.type = "confidential" THEN r ELSE NONE
  IN
  /\ InFlight(r) /\ q.op = "create"
  /\ \/ /\ registry[q.id] # NONE
        /\ Reply(r, "exists")
        /\ UNCHANGED <<registry, effect>>
     \/ /\ registry[q.id] = NONE
        /\ registry' = [registry EXCEPT ![q.id] = NewRecord(q.uris, q.type, secret, q.now)]
        /\ Reply(r, "inserted")
        /\ effect' = [effect EXCEPT ![q.id] = [uris |-> q.uris, status |-> "active",
                                               secret |-> secret, type |-> q.type]]
  /\ UNCHANGED <<clock, overlap, delivered, replaced>>

(* PUT /clients/{id}: 409 and unchanged if the id is taken. *)
Insert(r) ==
  LET q == req[r]
      hash == IF q.type = "confidential" THEN sha256_b64url(r) ELSE NONE
  IN
  /\ InFlight(r) /\ q.op = "create"
  /\ \/ /\ registry[q.id] # NONE
        /\ Reply(r, "exists")
        /\ UNCHANGED <<registry, effect>>
     \/ /\ registry[q.id] = NONE
        /\ registry' = [registry EXCEPT ![q.id] = NewRecord(q.uris, q.type, hash, q.now)]
        /\ Reply(r, "inserted")
        /\ effect' = [effect EXCEPT ![q.id] = [uris |-> q.uris, status |-> "active",
                                               secret |-> hash, type |-> q.type]]
  /\ UNCHANGED <<clock, overlap, delivered, replaced>>

(* mutate: the closure is applied to the stored record, which is put back. *)
Mutate(r, op, record) ==
  /\ InFlight(r) /\ req[r].op = op
  /\ registry' = [registry EXCEPT ![req[r].id] = record]
  /\ Reply(r, "ok")
  /\ UNCHANGED <<clock, overlap, delivered, replaced>>

Update(r) ==
  LET q == req[r] IN
  /\ Mutate(r, "update", apply_metadata(registry[q.id], q.uris, q.now))
  /\ effect' = [effect EXCEPT ![q.id].uris = q.uris]

Disable(r) ==
  LET q == req[r] IN
  /\ Mutate(r, "disable", disable(registry[q.id], q.now))
  /\ effect' = [effect EXCEPT ![q.id].status = "disabled"]

Enable(r) ==
  LET q == req[r] IN
  /\ Mutate(r, "enable", enable(registry[q.id], q.now))
  /\ effect' = [effect EXCEPT ![q.id].status = "active"]

(* The secret that stops being current is promised the overlap. *)
Rotate(r) ==
  LET q == req[r]
      old == registry[q.id].current_secret_hash
      until == q.now + SECRET_ROTATION_OVERLAP_SECS
      confidential == registry[q.id].client_type = "confidential"
  IN
  /\ InFlight(r) /\ q.op = "rotate"
  /\ registry' = [registry EXCEPT ![q.id] = rotate_secret(@, sha256_b64url(r), q.now)]
  /\ Reply(r, IF confidential THEN "ok" ELSE "no_secret")
  /\ IF confidential
     THEN /\ effect' = [effect EXCEPT ![q.id].secret = sha256_b64url(r)]
          /\ overlap' = [overlap EXCEPT ![q.id] = [old |-> old, until |-> until]]
          /\ replaced' = [s \in Requests |->
                            IF sha256_b64url(s) = old THEN until ELSE replaced[s]]
     ELSE UNCHANGED <<effect, overlap, replaced>>
  /\ UNCHANGED <<clock, delivered>>

Tick ==
  /\ clock < MaxClock
  /\ clock' = clock + 1
  /\ UNCHANGED <<registry, req, history>>

Next ==
  \/ \E r \in Requests :
       \/ \E type \in ClientType, uris \in SUBSET RedirectUris :
            StartCreate(r, type, uris)
       \/ \E id \in DynamicIds : GenerateId(r, id)
       \/ AttemptsExhausted(r)
       \/ \E op \in Ops \ {"create"}, id \in DynamicIds, uris \in SUBSET RedirectUris :
            StartMutation(r, op, id, uris)
       \/ Insert(r) \/ Update(r) \/ Disable(r) \/ Enable(r) \/ Rotate(r)
       \/ Answer(r)
       \/ Fail(r)
  \/ Tick

Spec == Init /\ [][Next]_vars

-----------------------------------------------------------------------------
(* Properties. *)

TypeOK ==
  /\ clock \in Nat
  /\ registry \in [DynamicIds -> DynamicClientRecord \cup {NONE}]
  /\ req \in [Requests -> Request]
  /\ effect \in [DynamicIds -> Effect]
  /\ overlap \in [DynamicIds -> Rotation \cup {NONE}]
  /\ delivered \in [DynamicIds -> Requests \cup {NONE}]
  /\ replaced \in [Requests -> Nat \cup {NONE}]

(* Whether the data plane would accept secret s now, were the client active. *)
Accepts(c, s) ==
  /\ registry[c] # NONE
  /\ verify_secret([registry[c] EXCEPT !.status = "active"], s, clock)

(* No concurrent update is lost: the record shows the last applied metadata, *)
(* the last applied status and the last applied secret, whatever order the  *)
(* object saw them in, and the type of the request that created it.  In     *)
(* particular a PUT or a rotation never re-enables a disabled client.       *)
NoLostUpdate ==
  \A c \in DynamicIds : registry[c] # NONE =>
    /\ registry[c].redirect_uris = effect[c].uris
    /\ registry[c].status = effect[c].status
    /\ registry[c].current_secret_hash = effect[c].secret
    /\ registry[c].client_type = effect[c].type

(* A secret that is no longer accepted never becomes acceptable again: the  *)
(* only secret a step can make acceptable is the new one it installs.       *)
SecretsNeverRevive ==
  [][\A c \in DynamicIds, s \in Requests :
       ~Accepts(c, s) /\ Accepts(c, s)' =>
         InFlight(s) /\ req'[s].phase \in {"applied", "done"}]_vars

(* What the last rotation announced is kept through whatever follows: the   *)
(* replaced secret is accepted strictly before `previous_secret_valid_until` *)
(* and no longer at it, and no third secret is.                             *)
OverlapHonoured ==
  \A c \in DynamicIds : overlap[c] # NONE =>
    \A s \in Requests :
      /\ sha256_b64url(s) = overlap[c].old => (Accepts(c, s) <=> clock < overlap[c].until)
      /\ Accepts(c, s) => sha256_b64url(s) \in {overlap[c].old, effect[c].secret}

(* No two clients ever share a secret: one create request, which draws its  *)
(* secret once and then tries several ids, makes at most one client, also   *)
(* when a reply is lost or its insert is applied after it was given up.     *)
SecretsUnshared ==
  \A c1, c2 \in DynamicIds, s \in Requests :
    Accepts(c1, s) /\ Accepts(c2, s) => c1 = c2

(* An active dynamic client is reachable in the data plane: no generated id *)
(* is shadowed by a static client.                                          *)
ActiveResolves ==
  \A c \in DynamicIds :
    registry[c] # NONE /\ is_active(registry[c]) =>
      find_client(registry, c) = to_client_config(registry[c])

(* However late a mutation is applied, it started after the client existed; *)
(* disabled_at is set exactly while the client is disabled.                 *)
TimesCoherent ==
  \A c \in DynamicIds : registry[c] # NONE =>
    LET r == registry[c] IN
    /\ r.created_at <= r.updated_at
    /\ r.disabled_at # NONE <=> r.status = "disabled"
    /\ r.disabled_at # NONE => r.created_at <= r.disabled_at

(* Documented, not true: storage_error is safe to retry and a rotated-out   *)
(* secret stays valid for the overlap; so the last secret an operator was   *)
(* given is accepted until the overlap that began when it was replaced ends *)
(* (RP_ONBOARDING.md).                                                      *)
DeliveredSecretKeepsOverlap ==
  \A c \in DynamicIds : delivered[c] # NONE =>
    \/ Accepts(c, delivered[c])
    \/ replaced[delivered[c]] # NONE /\ clock >= replaced[delivered[c]]
=============================================================================
