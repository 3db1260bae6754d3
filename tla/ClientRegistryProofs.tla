------------------------ MODULE ClientRegistryProofs ------------------------
(***************************************************************************)
(* Proofs about ClientRegistry, for every set of ids, static clients and   *)
(* requests, every overlap and every bound.                                *)
(***************************************************************************)
EXTENDS ClientRegistry, TLAPS

(* What a request carries while it is served: the clock it read is past, a  *)
(* call names a dynamic id no static client has, and a mutation names a     *)
(* client that existed when the request began (nothing deletes one).        *)
RequestInv ==
  \A r \in Requests : LET q == req[r] IN
    /\ q.now <= clock
    /\ q.phase = "generate" => q.op = "create"
    /\ q.phase = "applied" /\ q.result = "exists" => q.op = "create"
    /\ q.phase \in {"sent", "applied", "late"} =>
         q.op \in Ops /\ q.id \in DynamicIds \ StaticClients
    /\ q.phase \in {"generate", "sent", "applied", "late"} /\ q.op = "create" =>
         q.type \in ClientType
    /\ InFlight(r) /\ q.op # "create" =>
         registry[q.id] # NONE /\ registry[q.id].created_at <= q.now

(* What a stored record satisfies whatever was applied to it: exactly the   *)
(* confidential clients have a secret, and a previous secret has a window.  *)
RecordInv ==
  \A c \in DynamicIds : registry[c] # NONE => LET rec == registry[c] IN
    /\ c \notin StaticClients
    /\ rec.created_at <= clock
    /\ rec.current_secret_hash # NONE <=> rec.client_type = "confidential"
    /\ rec.previous_secret_hash # NONE => rec.previous_secret_valid_until # NONE

(* A request whose secret no record can hold yet: its call has not been     *)
(* applied, or it was refused because the id was taken.                     *)
Fresh(r) ==
  \/ req[r].phase \in {"idle", "generate", "sent", "late"}
  \/ req[r].phase = "applied" /\ req[r].result = "exists"

Stores(c, hash) ==
  /\ registry[c] # NONE
  /\ hash \in {registry[c].current_secret_hash, registry[c].previous_secret_hash}

(* A secret is stored in at most one record, in at most one of its places,  *)
(* and not before its request was applied.                                  *)
SecretInv ==
  /\ \A r \in Requests : Fresh(r) =>
       \A c \in DynamicIds : ~Stores(c, sha256_b64url(r))
  /\ \A s \in Requests, c1, c2 \in DynamicIds :
       Stores(c1, sha256_b64url(s)) /\ Stores(c2, sha256_b64url(s)) => c1 = c2
  /\ \A c \in DynamicIds : registry[c] # NONE /\ registry[c].current_secret_hash # NONE =>
       registry[c].current_secret_hash # registry[c].previous_secret_hash

(* The record still shows the last rotation. *)
RotationInv ==
  \A c \in DynamicIds : overlap[c] # NONE =>
    /\ registry[c] # NONE
    /\ overlap[c].old # NONE
    /\ registry[c].previous_secret_hash = overlap[c].old
    /\ registry[c].previous_secret_valid_until = overlap[c].until
    /\ registry[c].current_secret_hash # NONE

(* What verify_secret accepts, in terms of what the record holds. *)
Held(c, hash) ==
  /\ registry[c] # NONE
  /\ hash # NONE
  /\ \/ registry[c].current_secret_hash = hash
     \/ /\ registry[c].previous_secret_hash = hash
        /\ registry[c].previous_secret_valid_until > clock

AcceptsHeld ==
  \A c \in DynamicIds, s \in Requests : Accepts(c, s) <=> Held(c, sha256_b64url(s))

-----------------------------------------------------------------------------
(* The transitions of a record (registry.rs). *)

(* A new record is well formed, and its fields are the ones given. *)
LEMMA NewRecordType ==
  ASSUME NEW uris \in SUBSET RedirectUris, NEW type \in ClientType,
         NEW hash \in SecretHashes \cup {NONE}, NEW now \in Nat
  PROVE  NewRecord(uris, type, hash, now) \in DynamicClientRecord
BY DEF NewRecord, DynamicClientRecord, ClientStatus

(* A metadata update replaces the metadata and keeps everything else. *)
LEMMA ApplyMetadataKeeps ==
  ASSUME NEW rec \in DynamicClientRecord, NEW uris \in SUBSET RedirectUris, NEW now \in Nat
  PROVE  LET new == apply_metadata(rec, uris, now) IN
         /\ new \in DynamicClientRecord
         /\ new.redirect_uris = uris
         /\ new.updated_at = now
         /\ new.status = rec.status
         /\ new.disabled_at = rec.disabled_at
         /\ new.client_type = rec.client_type
         /\ new.created_at = rec.created_at
         /\ new.current_secret_hash = rec.current_secret_hash
         /\ new.previous_secret_hash = rec.previous_secret_hash
         /\ new.previous_secret_valid_until = rec.previous_secret_valid_until
BY DEF apply_metadata, DynamicClientRecord

(* Disabling sets the status, also of a client that is disabled already,    *)
(* and keeps metadata and secrets.                                          *)
LEMMA DisableKeeps ==
  ASSUME NEW rec \in DynamicClientRecord, NEW now \in Nat
  PROVE  LET new == disable(rec, now) IN
         /\ new \in DynamicClientRecord
         /\ new.status = "disabled"
         /\ \/ new = rec
            \/ new.updated_at = now /\ new.disabled_at = now
         /\ new.redirect_uris = rec.redirect_uris
         /\ new.client_type = rec.client_type
         /\ new.created_at = rec.created_at
         /\ new.current_secret_hash = rec.current_secret_hash
         /\ new.previous_secret_hash = rec.previous_secret_hash
         /\ new.previous_secret_valid_until = rec.previous_secret_valid_until
BY DEF disable, DynamicClientRecord, ClientStatus

(* Enabling likewise. *)
LEMMA EnableKeeps ==
  ASSUME NEW rec \in DynamicClientRecord, NEW now \in Nat
  PROVE  LET new == enable(rec, now) IN
         /\ new \in DynamicClientRecord
         /\ new.status = "active"
         /\ \/ new = rec
            \/ new.updated_at = now /\ new.disabled_at = NONE
         /\ new.redirect_uris = rec.redirect_uris
         /\ new.client_type = rec.client_type
         /\ new.created_at = rec.created_at
         /\ new.current_secret_hash = rec.current_secret_hash
         /\ new.previous_secret_hash = rec.previous_secret_hash
         /\ new.previous_secret_valid_until = rec.previous_secret_valid_until
BY DEF enable, DynamicClientRecord, ClientStatus

(* A rotation of a confidential client moves its current secret to the      *)
(* previous place for the overlap; nothing but secrets and updated_at moves.*)
LEMMA RotateKeeps ==
  ASSUME NEW rec \in DynamicClientRecord, NEW hash \in SecretHashes, NEW now \in Nat
  PROVE  LET new == rotate_secret(rec, hash, now) IN
         /\ new \in DynamicClientRecord
         /\ new.redirect_uris = rec.redirect_uris
         /\ new.client_type = rec.client_type
         /\ new.status = rec.status
         /\ new.disabled_at = rec.disabled_at
         /\ new.created_at = rec.created_at
         /\ rec.client_type # "confidential" => new = rec
         /\ rec.client_type = "confidential" =>
              /\ new.updated_at = now
              /\ new.current_secret_hash = hash
              /\ new.previous_secret_hash = rec.current_secret_hash
              /\ rec.current_secret_hash # NONE =>
                   new.previous_secret_valid_until = now + SECRET_ROTATION_OVERLAP_SECS
<1>1. CASE rec.client_type # "confidential"
  BY <1>1 DEF rotate_secret
<1>2. CASE rec.client_type = "confidential"
  <2>1. now + SECRET_ROTATION_OVERLAP_SECS \in Nat
    BY ClientAssumption
  <2> QED BY <1>2, <2>1 DEF rotate_secret, DynamicClientRecord
<1> QED BY <1>1, <1>2

(* Two secrets never have one hash, and None is no hash. *)
LEMMA HashFacts ==
  /\ \A s \in Requests : sha256_b64url(s) \in SecretHashes
  /\ \A s, t \in Requests : sha256_b64url(s) = sha256_b64url(t) => s = t
  /\ \A s \in Requests : sha256_b64url(s) # NONE
BY RegistryAssumption, NoRecordAssumption DEF SecretHashes, sha256_b64url

-----------------------------------------------------------------------------
(* Types and requests. *)

(* Requests that have not begun, or have ended, are well formed. *)
LEMMA RequestConstants ==
  /\ IdleRequest \in Request
  /\ DoneRequest \in Request
  /\ DoneRequest.phase = "done"
  /\ DoneRequest.now = 0
BY DEF DoneRequest, IdleRequest, Request, Phases

(* The object's reply touches the request it answers and no other: a late   *)
(* call ends its request, another one hands over its result.                *)
LEMMA ReplyEffect ==
  ASSUME TypeOK, NEW r \in Requests, NEW result \in Results, InFlight(r),
         Reply(r, result)
  PROVE  /\ req' \in [Requests -> Request]
         /\ \A s \in Requests : s # r => req'[s] = req[s]
         /\ \/ req[r].phase = "late" /\ req'[r] = DoneRequest
            \/ /\ req[r].phase = "sent"
               /\ req'[r] = [req[r] EXCEPT !.phase = "applied", !.result = result]
               /\ req'[r].phase = "applied" /\ req'[r].result = result
               /\ req'[r].op = req[r].op /\ req'[r].id = req[r].id
               /\ req'[r].type = req[r].type /\ req'[r].now = req[r].now
<1>1. req[r] \in Request
  BY DEF TypeOK
<1>2. [req[r] EXCEPT !.phase = "applied", !.result = result] \in Request
  BY <1>1 DEF Request, Phases
<1>3. req' \in [Requests -> Request]
  BY <1>1, <1>2, RequestConstants DEF Reply, TypeOK
<1>4. \A s \in Requests : s # r => req'[s] = req[s]
  BY DEF Reply, TypeOK
<1>5. CASE req[r].phase = "late"
  BY <1>3, <1>4, <1>5 DEF Reply, TypeOK
<1>6. CASE req[r].phase = "sent"
  <2>1. req'[r] = [req[r] EXCEPT !.phase = "applied", !.result = result]
    BY <1>6 DEF Reply, TypeOK
  <2> QED BY <1>1, <1>3, <1>4, <1>6, <2>1 DEF Request
<1> QED BY <1>5, <1>6 DEF InFlight

(* The client a mutation under way names has a well formed record. *)
LEMMA MutationTarget ==
  ASSUME TypeOK, RequestInv, NEW r \in Requests, InFlight(r), req[r].op # "create"
  PROVE  /\ req[r].id \in DynamicIds
         /\ registry[req[r].id] \in DynamicClientRecord
         /\ registry[req[r].id].created_at <= req[r].now
         /\ req[r].now \in Nat
         /\ req[r].uris \in SUBSET RedirectUris
<1>1. req[r].id \in DynamicIds /\ registry[req[r].id] # NONE
       /\ registry[req[r].id].created_at <= req[r].now
  BY DEF RequestInv, InFlight
<1>2. req[r] \in Request
  BY DEF TypeOK
<1> QED BY <1>1, <1>2 DEF TypeOK, Request

(* Every step keeps the state well typed; the objects' steps do because the *)
(* call they serve names an id, and a client if it is a mutation.           *)
LEMMA TypeStep == TypeOK /\ RequestInv /\ [Next]_vars => TypeOK'
<1> SUFFICES ASSUME TypeOK, RequestInv, [Next]_vars PROVE TypeOK'
  OBVIOUS
<1>a. ASSUME NEW r \in Requests, NEW q \in Request, req' = [req EXCEPT ![r] = q],
             UNCHANGED <<clock, registry, history>>
      PROVE  TypeOK'
  BY <1>a DEF TypeOK, history
<1>1. ASSUME NEW r \in Requests, NEW type \in ClientType,
             NEW uris \in SUBSET RedirectUris, StartCreate(r, type, uris)
      PROVE  TypeOK'
  <2>1. [IdleRequest EXCEPT !.phase = "generate", !.op = "create", !.now = clock,
           !.uris = uris, !.type = type] \in Request
    BY DEF TypeOK, IdleRequest, Request, Phases, Ops
  <2> QED BY <1>1, <1>a, <2>1 DEF StartCreate
<1>2. ASSUME NEW r \in Requests, NEW id \in DynamicIds, GenerateId(r, id)
      PROVE  TypeOK'
  <2>1. req[r] \in Request
    BY DEF TypeOK
  <2> DEFINE q == [req[r] EXCEPT !.attempts = @ + 1,
                     !.id = IF id \in StaticClients THEN @ ELSE id,
                     !.phase = IF id \in StaticClients THEN @ ELSE "sent"]
  <2>2. q \in Request
    <3>1. req[r].attempts + 1 \in Nat
      BY <2>1 DEF Request
    <3>2. CASE id \in StaticClients
      BY <2>1, <3>1, <3>2 DEF Request
    <3>3. CASE id \notin StaticClients
      BY <2>1, <3>1, <3>3 DEF Request, Phases
    <3> QED BY <3>2, <3>3
  <2>3. req' = [req EXCEPT ![r] = q]
    BY <1>2, <2>1 DEF GenerateId, TypeOK, Request
  <2> QED BY <1>2, <1>a, <2>2, <2>3 DEF GenerateId
<1>3. ASSUME NEW r \in Requests, AttemptsExhausted(r) PROVE TypeOK'
  BY <1>3, <1>a, RequestConstants DEF AttemptsExhausted
<1>4. ASSUME NEW r \in Requests, NEW op \in Ops \ {"create"}, NEW id \in DynamicIds,
             NEW uris \in SUBSET RedirectUris, StartMutation(r, op, id, uris)
      PROVE  TypeOK'
  <2>1. [IdleRequest EXCEPT !.phase = "sent", !.op = op, !.id = id, !.now = clock,
           !.uris = uris] \in Request
    BY DEF TypeOK, IdleRequest, Request, Phases
  <2> QED BY <1>4, <1>a, <2>1 DEF StartMutation
<1>5. ASSUME NEW r \in Requests, Insert(r) PROVE TypeOK'
  <2>1. /\ req[r].id \in DynamicIds /\ req[r].type \in ClientType
        /\ req[r].now \in Nat /\ req[r].uris \in SUBSET RedirectUris
    BY <1>5 DEF Insert, InFlight, RequestInv, TypeOK, Request
  <2> DEFINE hash == IF req[r].type = "confidential" THEN sha256_b64url(r) ELSE NONE
  <2>2. hash \in SecretHashes \cup {NONE}
    BY HashFacts
  <2>3. CASE registry[req[r].id] # NONE
    BY <1>5, <2>3, ReplyEffect DEF Insert, TypeOK, Results
  <2>4. CASE registry[req[r].id] = NONE
    <3>1. NewRecord(req[r].uris, req[r].type, hash, req[r].now) \in DynamicClientRecord
      BY <2>1, <2>2, NewRecordType
    <3>2. [uris |-> req[r].uris, status |-> "active", secret |-> hash,
           type |-> req[r].type] \in Effect
      BY <2>1, <2>2 DEF Effect, ClientStatus
    <3>3. Reply(r, "inserted") /\ InFlight(r)
      BY <1>5, <2>4 DEF Insert
    <3>4. req' \in [Requests -> Request]
      BY <3>3, ReplyEffect DEF Results
    <3> QED BY <1>5, <2>1, <2>4, <3>1, <3>2, <3>4 DEF Insert, TypeOK
  <2> QED BY <2>3, <2>4
<1>b. ASSUME NEW r \in Requests, NEW op \in Ops \ {"create"},
             NEW rec \in DynamicClientRecord, NEW e \in Effect, Mutate(r, op, rec),
             effect' = [effect EXCEPT ![req[r].id] = e]
      PROVE  TypeOK'
  <2>1. req' \in [Requests -> Request]
    BY <1>b, ReplyEffect DEF Mutate, Results
  <2> QED BY <1>b, <2>1 DEF Mutate, TypeOK
<1>6. ASSUME NEW r \in Requests, Update(r) PROVE TypeOK'
  <2>1. InFlight(r) /\ req[r].op = "update"
    BY <1>6 DEF Update, Mutate
  <2>2. apply_metadata(registry[req[r].id], req[r].uris, req[r].now) \in DynamicClientRecord
    BY <2>1, MutationTarget, ApplyMetadataKeeps
  <2>3. effect[req[r].id] \in Effect
    BY <2>1, MutationTarget DEF TypeOK
  <2>4. [effect[req[r].id] EXCEPT !.uris = req[r].uris] \in Effect
    BY <2>1, <2>3, MutationTarget DEF Effect
  <2> QED BY <1>6, <1>b, <2>2, <2>4 DEF Update, Ops
<1>7. ASSUME NEW r \in Requests, Disable(r) PROVE TypeOK'
  <2>1. InFlight(r) /\ req[r].op = "disable"
    BY <1>7 DEF Disable, Mutate
  <2>2. disable(registry[req[r].id], req[r].now) \in DynamicClientRecord
    BY <2>1, MutationTarget, DisableKeeps
  <2>3. effect[req[r].id] \in Effect
    BY <2>1, MutationTarget DEF TypeOK
  <2>4. [effect[req[r].id] EXCEPT !.status = "disabled"] \in Effect
    BY <2>3 DEF Effect, ClientStatus
  <2> QED BY <1>7, <1>b, <2>2, <2>4 DEF Disable, Ops
<1>8. ASSUME NEW r \in Requests, Enable(r) PROVE TypeOK'
  <2>1. InFlight(r) /\ req[r].op = "enable"
    BY <1>8 DEF Enable, Mutate
  <2>2. enable(registry[req[r].id], req[r].now) \in DynamicClientRecord
    BY <2>1, MutationTarget, EnableKeeps
  <2>3. effect[req[r].id] \in Effect
    BY <2>1, MutationTarget DEF TypeOK
  <2>4. [effect[req[r].id] EXCEPT !.status = "active"] \in Effect
    BY <2>3 DEF Effect, ClientStatus
  <2> QED BY <1>8, <1>b, <2>2, <2>4 DEF Enable, Ops
<1>9. ASSUME NEW r \in Requests, Rotate(r) PROVE TypeOK'
  <2>1. InFlight(r) /\ req[r].op = "rotate"
    BY <1>9 DEF Rotate
  <2> DEFINE c == req[r].id
             rec == registry[c]
             until == req[r].now + SECRET_ROTATION_OVERLAP_SECS
  <2>2. c \in DynamicIds /\ rec \in DynamicClientRecord
    BY <2>1, MutationTarget
  <2>3. rotate_secret(rec, sha256_b64url(r), req[r].now) \in DynamicClientRecord
    BY <2>1, MutationTarget, HashFacts, RotateKeeps
  <2>4. registry' \in [DynamicIds -> DynamicClientRecord \cup {NONE}]
    BY <1>9, <2>2, <2>3 DEF Rotate, TypeOK
  <2>5. req' \in [Requests -> Request]
    <3>1. CASE rec.client_type = "confidential"
      BY <1>9, <2>1, <3>1, ReplyEffect DEF Rotate, Results
    <3>2. CASE rec.client_type # "confidential"
      BY <1>9, <2>1, <3>2, ReplyEffect DEF Rotate, Results
    <3> QED BY <3>1, <3>2
  <2>6. CASE rec.client_type = "confidential"
    <3>1. rec.current_secret_hash \in SecretHashes \cup {NONE} /\ until \in Nat
      BY <2>1, <2>2, MutationTarget, ClientAssumption DEF DynamicClientRecord
    <3>2. [effect[c] EXCEPT !.secret = sha256_b64url(r)] \in Effect
      BY <2>2, HashFacts DEF TypeOK, Effect
    <3>3. effect' \in [DynamicIds -> Effect]
      BY <1>9, <2>2, <2>6, <3>2 DEF Rotate, TypeOK
    <3>4. overlap' \in [DynamicIds -> Rotation \cup {NONE}]
      BY <1>9, <2>2, <2>6, <3>1 DEF Rotate, TypeOK, Rotation
    <3>5. replaced' \in [Requests -> Nat \cup {NONE}]
      BY <1>9, <2>6, <3>1 DEF Rotate, TypeOK
    <3> QED BY <1>9, <2>4, <2>5, <3>3, <3>4, <3>5 DEF Rotate, TypeOK
  <2>7. CASE rec.client_type # "confidential"
    BY <1>9, <2>4, <2>5, <2>7 DEF Rotate, TypeOK
  <2> QED BY <2>6, <2>7
<1>10. ASSUME NEW r \in Requests, Answer(r) PROVE TypeOK'
  <2>1. req[r].id \in DynamicIds /\ req[r] \in Request
    BY <1>10 DEF Answer, RequestInv, TypeOK
  <2>2. CASE req[r].result = "exists"
    <3>1. [req[r] EXCEPT !.phase = "generate", !.id = NONE, !.result = NONE] \in Request
      BY <2>1 DEF Request, Phases
    <3>2. req' = [req EXCEPT ![r] = [req[r] EXCEPT !.phase = "generate", !.id = NONE,
                                                   !.result = NONE]]
      BY <1>10, <2>1, <2>2 DEF Answer, TypeOK, Request
    <3> QED BY <1>10, <1>a, <2>2, <3>1, <3>2 DEF Answer, history
  <2>3. CASE req[r].result # "exists"
    BY <1>10, <2>1, <2>3, RequestConstants DEF Answer, TypeOK
  <2> QED BY <2>2, <2>3
<1>11. ASSUME NEW r \in Requests, Fail(r) PROVE TypeOK'
  <2>1. [req[r] EXCEPT !.phase = "late"] \in Request
    BY DEF TypeOK, Request, Phases
  <2>2. \/ req' = [req EXCEPT ![r] = DoneRequest]
        \/ req' = [req EXCEPT ![r] = [req[r] EXCEPT !.phase = "late"]]
    BY <1>11 DEF Fail, TypeOK
  <2> QED BY <1>11, <1>a, <2>1, <2>2, RequestConstants DEF Fail
<1>12. ASSUME Tick PROVE TypeOK'
  BY <1>12 DEF Tick, TypeOK, history
<1>13. ASSUME UNCHANGED vars PROVE TypeOK'
  BY <1>13 DEF vars, TypeOK
<1> QED BY <1>1, <1>2, <1>3, <1>4, <1>5, <1>6, <1>7, <1>8, <1>9, <1>10, <1>11, <1>12,
           <1>13 DEF Next

-----------------------------------------------------------------------------
(* What each step does to the stored records. *)

(* Only the object's five operations touch a record. *)
LEMMA WorkerSteps ==
  ASSUME TypeOK, [Next]_vars,
         \A r \in Requests : ~(Insert(r) \/ Update(r) \/ Disable(r) \/ Enable(r) \/ Rotate(r))
  PROVE  /\ UNCHANGED <<registry, effect, overlap>>
         /\ clock' \in Nat /\ clock <= clock'
<1>1. ASSUME Tick
      PROVE  UNCHANGED <<registry, effect, overlap>> /\ clock' \in Nat /\ clock <= clock'
  BY <1>1 DEF Tick, TypeOK, history
<1>2. CASE UNCHANGED vars
  BY <1>2 DEF vars, TypeOK
<1>3. ASSUME NEW r \in Requests,
             \/ \E type \in ClientType, uris \in SUBSET RedirectUris : StartCreate(r, type, uris)
             \/ \E id \in DynamicIds : GenerateId(r, id)
             \/ AttemptsExhausted(r)
             \/ \E op \in Ops \ {"create"}, id \in DynamicIds, uris \in SUBSET RedirectUris :
                  StartMutation(r, op, id, uris)
             \/ Answer(r)
             \/ Fail(r)
      PROVE  UNCHANGED <<clock, registry, effect, overlap>>
  BY <1>3 DEF StartCreate, GenerateId, AttemptsExhausted, StartMutation, Answer, Fail, history
<1>4. clock \in Nat
  BY DEF TypeOK
<1> QED BY <1>1, <1>2, <1>3, <1>4 DEF Next

(* An insert writes a record at a free id, or nothing at all. *)
LEMMA InsertEffect ==
  ASSUME TypeOK, RequestInv, NEW r \in Requests, Insert(r)
  PROVE  LET c == req[r].id
             rec == registry'[c]
             hash == sha256_b64url(r)
         IN
         /\ UNCHANGED <<clock, overlap>>
         /\ c \in DynamicIds \ StaticClients
         /\ \/ registry[c] # NONE /\ UNCHANGED <<registry, effect>> /\ Reply(r, "exists")
            \/ /\ registry[c] = NONE
               /\ Reply(r, "inserted")
               /\ \A d \in DynamicIds : d # c =>
                    registry'[d] = registry[d] /\ effect'[d] = effect[d]
               /\ rec \in DynamicClientRecord
               /\ rec.status = "active" /\ rec.disabled_at = NONE
               /\ rec.created_at = req[r].now /\ rec.updated_at = req[r].now
               /\ rec.client_type \in ClientType
               /\ rec.current_secret_hash =
                    IF rec.client_type = "confidential" THEN hash ELSE NONE
               /\ rec.previous_secret_hash = NONE
               /\ rec.redirect_uris = effect'[c].uris
               /\ rec.status = effect'[c].status
               /\ rec.current_secret_hash = effect'[c].secret
               /\ rec.client_type = effect'[c].type
<1>1. /\ req[r].id \in DynamicIds \ StaticClients /\ req[r].type \in ClientType
      /\ req[r].now \in Nat /\ req[r].uris \in SUBSET RedirectUris
  BY DEF Insert, InFlight, RequestInv, TypeOK, Request
<1> DEFINE h == IF req[r].type = "confidential" THEN sha256_b64url(r) ELSE NONE
           new == NewRecord(req[r].uris, req[r].type, h, req[r].now)
<1>2. CASE registry[req[r].id] # NONE
  BY <1>1, <1>2 DEF Insert
<1>3. CASE registry[req[r].id] = NONE
  <2>1. new \in DynamicClientRecord
    BY <1>1, HashFacts, NewRecordType
  <2>2. /\ registry' = [registry EXCEPT ![req[r].id] = new]
        /\ effect' = [effect EXCEPT ![req[r].id] = [uris |-> req[r].uris,
                        status |-> "active", secret |-> h, type |-> req[r].type]]
        /\ Reply(r, "inserted")
        /\ UNCHANGED <<clock, overlap>>
    BY <1>3 DEF Insert
  <2>3. registry'[req[r].id] = new
    BY <1>1, <2>2 DEF TypeOK
  <2>4. effect'[req[r].id] = [uris |-> req[r].uris, status |-> "active", secret |-> h,
                              type |-> req[r].type]
    BY <1>1, <2>2 DEF TypeOK
  <2>5. \A d \in DynamicIds : d # req[r].id =>
          registry'[d] = registry[d] /\ effect'[d] = effect[d]
    BY <2>2 DEF TypeOK
  <2> QED BY <1>1, <1>3, <2>1, <2>2, <2>3, <2>4, <2>5 DEF NewRecord
<1> QED BY <1>2, <1>3

(* An update, disable or enable changes one record and neither its secrets  *)
(* nor its type nor its creation time.                                      *)
LEMMA MutateEffect ==
  ASSUME TypeOK, RequestInv, NEW r \in Requests, Update(r) \/ Disable(r) \/ Enable(r)
  PROVE  LET c == req[r].id
             old == registry[c]
             new == registry'[c]
         IN
         /\ UNCHANGED <<clock, overlap>>
         /\ InFlight(r) /\ Reply(r, "ok")
         /\ c \in DynamicIds
         /\ \A d \in DynamicIds : d # c =>
              registry'[d] = registry[d] /\ effect'[d] = effect[d]
         /\ old \in DynamicClientRecord /\ new \in DynamicClientRecord
         /\ old.created_at <= req[r].now
         /\ new.client_type = old.client_type
         /\ new.created_at = old.created_at
         /\ new.current_secret_hash = old.current_secret_hash
         /\ new.previous_secret_hash = old.previous_secret_hash
         /\ new.previous_secret_valid_until = old.previous_secret_valid_until
         /\ effect'[c].secret = effect[c].secret /\ effect'[c].type = effect[c].type
         /\ \/ /\ effect'[c].status = effect[c].status /\ new.status = old.status
               /\ effect'[c].uris = new.redirect_uris
            \/ /\ effect'[c].status = new.status
               /\ effect'[c].uris = effect[c].uris /\ new.redirect_uris = old.redirect_uris
         /\ \/ new = old
            \/ /\ new.updated_at = req[r].now
               /\ \/ new.status = old.status /\ new.disabled_at = old.disabled_at
                  \/ new.status = "disabled" /\ new.disabled_at = req[r].now
                  \/ new.status = "active" /\ new.disabled_at = NONE
<1> DEFINE c == req[r].id
<1>1. InFlight(r) /\ req[r].op # "create"
  BY DEF Update, Disable, Enable, Mutate
<1>2. /\ c \in DynamicIds /\ registry[c] \in DynamicClientRecord
      /\ registry[c].created_at <= req[r].now
      /\ req[r].now \in Nat /\ req[r].uris \in SUBSET RedirectUris
  BY <1>1, MutationTarget
<1>3. effect[c] \in Effect
  BY <1>2 DEF TypeOK
<1>4. ASSUME NEW op, NEW rec, NEW e, Mutate(r, op, rec), effect' = [effect EXCEPT ![c] = e]
      PROVE  /\ UNCHANGED <<clock, overlap>> /\ Reply(r, "ok")
             /\ \A d \in DynamicIds : d # c =>
                  registry'[d] = registry[d] /\ effect'[d] = effect[d]
             /\ registry'[c] = rec /\ effect'[c] = e
  BY <1>2, <1>4 DEF Mutate, TypeOK
<1>5. CASE Update(r)
  <2> DEFINE rec == apply_metadata(registry[c], req[r].uris, req[r].now)
             e == [effect[c] EXCEPT !.uris = req[r].uris]
  <2>1. Mutate(r, "update", rec) /\ effect' = [effect EXCEPT ![c] = e]
    BY <1>5 DEF Update
  <2>2. e.uris = req[r].uris /\ e.status = effect[c].status
         /\ e.secret = effect[c].secret /\ e.type = effect[c].type
    BY <1>3 DEF Effect
  <2>3. /\ UNCHANGED <<clock, overlap>> /\ Reply(r, "ok")
        /\ \A d \in DynamicIds : d # c =>
             registry'[d] = registry[d] /\ effect'[d] = effect[d]
        /\ registry'[c] = rec /\ effect'[c] = e
    BY <1>4, <2>1
  <2> HIDE DEF e
  <2> QED BY <1>1, <1>2, <2>2, <2>3, ApplyMetadataKeeps
<1>6. CASE Disable(r)
  <2> DEFINE rec == disable(registry[c], req[r].now)
             e == [effect[c] EXCEPT !.status = "disabled"]
  <2>1. Mutate(r, "disable", rec) /\ effect' = [effect EXCEPT ![c] = e]
    BY <1>6 DEF Disable
  <2>2. e.uris = effect[c].uris /\ e.status = "disabled"
         /\ e.secret = effect[c].secret /\ e.type = effect[c].type
    BY <1>3 DEF Effect
  <2>3. /\ UNCHANGED <<clock, overlap>> /\ Reply(r, "ok")
        /\ \A d \in DynamicIds : d # c =>
             registry'[d] = registry[d] /\ effect'[d] = effect[d]
        /\ registry'[c] = rec /\ effect'[c] = e
    BY <1>4, <2>1
  <2> HIDE DEF e
  <2> QED BY <1>1, <1>2, <2>2, <2>3, DisableKeeps
<1>7. CASE Enable(r)
  <2> DEFINE rec == enable(registry[c], req[r].now)
             e == [effect[c] EXCEPT !.status = "active"]
  <2>1. Mutate(r, "enable", rec) /\ effect' = [effect EXCEPT ![c] = e]
    BY <1>7 DEF Enable
  <2>2. e.uris = effect[c].uris /\ e.status = "active"
         /\ e.secret = effect[c].secret /\ e.type = effect[c].type
    BY <1>3 DEF Effect
  <2>3. /\ UNCHANGED <<clock, overlap>> /\ Reply(r, "ok")
        /\ \A d \in DynamicIds : d # c =>
             registry'[d] = registry[d] /\ effect'[d] = effect[d]
        /\ registry'[c] = rec /\ effect'[c] = e
    BY <1>4, <2>1
  <2> HIDE DEF e
  <2> QED BY <1>1, <1>2, <2>2, <2>3, EnableKeeps
<1> QED BY <1>5, <1>6, <1>7

(* A rotation installs the request's secret in a confidential client, whose *)
(* current secret becomes the previous one; other clients keep everything.  *)
LEMMA RotateEffect ==
  ASSUME TypeOK, RequestInv, NEW r \in Requests, Rotate(r)
  PROVE  LET c == req[r].id
             old == registry[c]
             new == registry'[c]
         IN
         /\ UNCHANGED clock
         /\ InFlight(r)
         /\ \E result \in Results \ {"exists"} : Reply(r, result)
         /\ c \in DynamicIds
         /\ \A d \in DynamicIds : d # c =>
              registry'[d] = registry[d] /\ effect'[d] = effect[d] /\ overlap'[d] = overlap[d]
         /\ old \in DynamicClientRecord /\ new \in DynamicClientRecord
         /\ old.created_at <= req[r].now
         /\ new.redirect_uris = old.redirect_uris
         /\ new.client_type = old.client_type
         /\ new.status = old.status
         /\ new.disabled_at = old.disabled_at
         /\ new.created_at = old.created_at
         /\ effect'[c].uris = effect[c].uris
         /\ effect'[c].status = effect[c].status
         /\ effect'[c].type = effect[c].type
         /\ \/ /\ old.client_type # "confidential"
               /\ new = old /\ effect'[c] = effect[c] /\ overlap'[c] = overlap[c]
            \/ /\ old.client_type = "confidential"
               /\ new.updated_at = req[r].now
               /\ new.current_secret_hash = sha256_b64url(r)
               /\ effect'[c].secret = sha256_b64url(r)
               /\ new.previous_secret_hash = old.current_secret_hash
               /\ overlap'[c].old = old.current_secret_hash
               /\ overlap'[c].until = req[r].now + SECRET_ROTATION_OVERLAP_SECS
               /\ old.current_secret_hash # NONE =>
                    new.previous_secret_valid_until = overlap'[c].until
<1> DEFINE c == req[r].id
           new == rotate_secret(registry[c], sha256_b64url(r), req[r].now)
           until == req[r].now + SECRET_ROTATION_OVERLAP_SECS
<1>1. InFlight(r) /\ req[r].op = "rotate"
  BY DEF Rotate
<1>2. /\ c \in DynamicIds /\ registry[c] \in DynamicClientRecord
      /\ registry[c].created_at <= req[r].now /\ req[r].now \in Nat
  BY <1>1, MutationTarget
<1>3. effect[c] \in Effect
  BY <1>2 DEF TypeOK
<1>4. /\ UNCHANGED clock
      /\ registry'[c] = new
      /\ \A d \in DynamicIds : d # c => registry'[d] = registry[d]
  BY <1>2 DEF Rotate, TypeOK
<1>5. sha256_b64url(r) \in SecretHashes
  BY HashFacts
<1>6. CASE registry[c].client_type = "confidential"
  <2>1. /\ effect' = [effect EXCEPT ![c].secret = sha256_b64url(r)]
        /\ overlap' = [overlap EXCEPT ![c] = [old |-> registry[c].current_secret_hash,
                                              until |-> until]]
        /\ Reply(r, "ok")
    BY <1>6 DEF Rotate
  <2>2. /\ effect'[c].secret = sha256_b64url(r)
        /\ effect'[c].uris = effect[c].uris
        /\ effect'[c].status = effect[c].status
        /\ effect'[c].type = effect[c].type
    BY <1>2, <1>3, <2>1 DEF TypeOK, Effect
  <2>3. /\ overlap'[c].old = registry[c].current_secret_hash
        /\ overlap'[c].until = until
        /\ \A d \in DynamicIds : d # c => effect'[d] = effect[d] /\ overlap'[d] = overlap[d]
    BY <1>2, <2>1 DEF TypeOK
  <2>4. "ok" \in Results \ {"exists"}
    BY DEF Results
  <2> QED BY <1>1, <1>2, <1>4, <1>5, <1>6, <2>1, <2>2, <2>3, <2>4, RotateKeeps
<1>7. CASE registry[c].client_type # "confidential"
  <2>1. UNCHANGED <<effect, overlap>> /\ Reply(r, "no_secret")
    BY <1>7 DEF Rotate
  <2>2. "no_secret" \in Results \ {"exists"}
    BY DEF Results
  <2> QED BY <1>1, <1>2, <1>4, <1>5, <1>7, <2>1, <2>2, RotateKeeps
<1> QED BY <1>6, <1>7

(* No step deletes a client, changes its type or rewrites its birth. *)
LEMMA RecordsPersist ==
  ASSUME TypeOK, RequestInv, [Next]_vars, NEW c \in DynamicIds, registry[c] # NONE
  PROVE  /\ registry'[c] # NONE
         /\ registry'[c].created_at = registry[c].created_at
         /\ registry'[c].client_type = registry[c].client_type
<1>1. ASSUME NEW r \in Requests, Insert(r)
      PROVE  registry'[c] = registry[c]
  BY <1>1, InsertEffect
<1>2. ASSUME NEW r \in Requests, Update(r) \/ Disable(r) \/ Enable(r)
      PROVE  /\ registry'[c] # NONE
             /\ registry'[c].created_at = registry[c].created_at
             /\ registry'[c].client_type = registry[c].client_type
  BY <1>2, MutateEffect, NoRecordAssumption
<1>3. ASSUME NEW r \in Requests, Rotate(r)
      PROVE  /\ registry'[c] # NONE
             /\ registry'[c].created_at = registry[c].created_at
             /\ registry'[c].client_type = registry[c].client_type
  BY <1>3, RotateEffect, NoRecordAssumption
<1> QED BY <1>1, <1>2, <1>3, WorkerSteps

(* Requests stay coherent: the client a mutation names is never deleted,    *)
(* and a request only begins on a client that already exists.               *)
LEMMA RequestStep == TypeOK /\ RequestInv /\ RecordInv /\ [Next]_vars => RequestInv'
<1> SUFFICES ASSUME TypeOK, RequestInv, RecordInv, [Next]_vars,
                    NEW s \in Requests
             PROVE  LET q == req'[s] IN
                    /\ q.now <= clock'
                    /\ q.phase = "generate" => q.op = "create"
                    /\ q.phase = "applied" /\ q.result = "exists" => q.op = "create"
                    /\ q.phase \in {"sent", "applied", "late"} =>
                         q.op \in Ops /\ q.id \in DynamicIds \ StaticClients
                    /\ q.phase \in {"generate", "sent", "applied", "late"}
                         /\ q.op = "create" => q.type \in ClientType
                    /\ q.phase \in {"sent", "late"} /\ q.op # "create" =>
                         registry'[q.id] # NONE /\ registry'[q.id].created_at <= q.now
  BY DEF RequestInv, InFlight
<1> DEFINE Good(q) ==
      /\ q.now <= clock'
      /\ q.phase = "generate" => q.op = "create"
      /\ q.phase = "applied" /\ q.result = "exists" => q.op = "create"
      /\ q.phase \in {"sent", "applied", "late"} =>
           q.op \in Ops /\ q.id \in DynamicIds \ StaticClients
      /\ q.phase \in {"generate", "sent", "applied", "late"} /\ q.op = "create" =>
           q.type \in ClientType
      /\ q.phase \in {"sent", "late"} /\ q.op # "create" =>
           registry'[q.id] # NONE /\ registry'[q.id].created_at <= q.now
<1>a. req[s] \in Request /\ clock \in Nat
  BY DEF TypeOK
<1>b. ASSUME clock' \in Nat, clock <= clock' PROVE Good(req[s])
  <2>1. /\ req[s].now \in Nat /\ req[s].now <= clock
        /\ req[s].phase = "generate" => req[s].op = "create"
        /\ req[s].phase = "applied" /\ req[s].result = "exists" => req[s].op = "create"
        /\ req[s].phase \in {"sent", "applied", "late"} =>
             req[s].op \in Ops /\ req[s].id \in DynamicIds \ StaticClients
        /\ req[s].phase \in {"generate", "sent", "applied", "late"} /\ req[s].op = "create" =>
             req[s].type \in ClientType
        /\ req[s].phase \in {"sent", "late"} /\ req[s].op # "create" =>
             /\ registry[req[s].id] # NONE
             /\ registry[req[s].id].created_at <= req[s].now
    BY <1>a DEF RequestInv, InFlight, Request
  <2>2. req[s].phase \in {"sent", "late"} /\ req[s].op # "create" =>
          /\ registry'[req[s].id] # NONE
          /\ registry'[req[s].id].created_at <= req[s].now
    BY <2>1, RecordsPersist
  <2> QED BY <1>a, <1>b, <2>1, <2>2
<1>c. clock' \in Nat /\ clock <= clock'
  <2>1. ASSUME UNCHANGED clock PROVE clock' \in Nat /\ clock <= clock'
    BY <1>a, <2>1
  <2> QED BY <2>1, WorkerSteps, InsertEffect, MutateEffect, RotateEffect
<1>d. Good(req[s])
  BY <1>b, <1>c
<1>e. Good(DoneRequest)
  BY <1>c, RequestConstants DEF DoneRequest, IdleRequest
<1>f. ASSUME NEW r \in Requests, NEW result \in Results, InFlight(r), Reply(r, result),
             result = "exists" => req[r].op = "create"
      PROVE  Good(req'[s])
  <2>1. CASE s # r
    BY <1>d, <1>f, <2>1, ReplyEffect
  <2>2. CASE s = r
    <3>1. CASE req'[r] = DoneRequest
      BY <1>e, <2>2, <3>1
    <3>2. CASE req'[r] # DoneRequest
      BY <1>d, <1>f, <2>2, <3>2, ReplyEffect
    <3> QED BY <3>1, <3>2
  <2> QED BY <2>1, <2>2
<1>1. ASSUME NEW r \in Requests, NEW type \in ClientType,
             NEW uris \in SUBSET RedirectUris, StartCreate(r, type, uris)
      PROVE  Good(req'[s])
  <2>1. CASE s # r
    BY <1>d, <1>1, <2>1 DEF StartCreate, TypeOK
  <2>2. CASE s = r
    BY <1>a, <1>c, <1>1, <2>2 DEF StartCreate, TypeOK, IdleRequest, Ops
  <2> QED BY <2>1, <2>2
<1>2. ASSUME NEW r \in Requests, NEW id \in DynamicIds, GenerateId(r, id)
      PROVE  Good(req'[s])
  <2>1. CASE s # r
    BY <1>d, <1>2, <2>1 DEF GenerateId, TypeOK
  <2>2. CASE s = r
    <3>1. /\ req'[s].now = req[s].now /\ req'[s].op = req[s].op
          /\ req'[s].type = req[s].type
          /\ \/ req'[s].phase = req[s].phase /\ req'[s].id = req[s].id
             \/ req'[s].phase = "sent" /\ req'[s].id = id /\ id \notin StaticClients
      BY <1>a, <1>2, <2>2 DEF GenerateId, TypeOK, Request
    <3>2. req[s].phase = "generate"
      BY <1>2, <2>2 DEF GenerateId
    <3> QED BY <1>d, <3>1, <3>2 DEF Ops
  <2> QED BY <2>1, <2>2
<1>3. ASSUME NEW r \in Requests, AttemptsExhausted(r) PROVE Good(req'[s])
  BY <1>d, <1>e, <1>3 DEF AttemptsExhausted, TypeOK
<1>4. ASSUME NEW r \in Requests, NEW op \in Ops \ {"create"}, NEW id \in DynamicIds,
             NEW uris \in SUBSET RedirectUris, StartMutation(r, op, id, uris)
      PROVE  Good(req'[s])
  <2>1. CASE s # r
    BY <1>d, <1>4, <2>1 DEF StartMutation, TypeOK
  <2>2. CASE s = r
    <3>1. registry'[id] # NONE /\ registry'[id].created_at <= clock /\ clock' = clock
      BY <1>4 DEF StartMutation, RecordInv
    <3>2. /\ req'[s].phase = "sent" /\ req'[s].op = op /\ req'[s].id = id
          /\ req'[s].now = clock /\ id \notin StaticClients
      BY <1>4, <2>2 DEF StartMutation, TypeOK, IdleRequest
    <3> QED BY <1>a, <3>1, <3>2
  <2> QED BY <2>1, <2>2
<1>5. ASSUME NEW r \in Requests, Insert(r) PROVE Good(req'[s])
  BY <1>5, <1>f DEF Insert, Results
<1>6. ASSUME NEW r \in Requests, Update(r) \/ Disable(r) \/ Enable(r) PROVE Good(req'[s])
  BY <1>6, <1>f DEF Update, Disable, Enable, Mutate, Results
<1>7. ASSUME NEW r \in Requests, Rotate(r) PROVE Good(req'[s])
  BY <1>7, <1>f, RotateEffect
<1>8. ASSUME NEW r \in Requests, Answer(r) PROVE Good(req'[s])
  <2>1. CASE s # r
    BY <1>d, <1>8, <2>1 DEF Answer, TypeOK
  <2>2. CASE s = r /\ req[r].result # "exists"
    BY <1>e, <1>8, <2>2 DEF Answer, TypeOK
  <2>3. CASE s = r /\ req[r].result = "exists"
    <3>1. /\ req'[s].now = req[s].now /\ req'[s].op = req[s].op
          /\ req'[s].type = req[s].type /\ req'[s].phase = "generate"
      BY <1>a, <1>8, <2>3 DEF Answer, TypeOK, Request
    <3> QED BY <1>d, <1>8, <2>3, <3>1 DEF Answer
  <2> QED BY <2>1, <2>2, <2>3
<1>9. ASSUME NEW r \in Requests, Fail(r) PROVE Good(req'[s])
  <2>1. CASE s # r
    BY <1>d, <1>9, <2>1 DEF Fail, TypeOK
  <2>2. CASE s = r
    <3>1. ASSUME req[r].phase = "sent", req' = [req EXCEPT ![r].phase = "late"]
          PROVE  Good(req'[s])
      <4>1. /\ req'[s].now = req[s].now /\ req'[s].op = req[s].op
            /\ req'[s].type = req[s].type /\ req'[s].id = req[s].id
            /\ req'[s].phase = "late"
        BY <1>a, <2>2, <3>1 DEF TypeOK, Request
      <4> QED BY <1>d, <2>2, <3>1, <4>1
    <3> QED BY <1>e, <1>9, <2>2, <3>1 DEF Fail, TypeOK
  <2> QED BY <2>1, <2>2
<1>10. ASSUME Tick \/ UNCHANGED vars PROVE Good(req'[s])
  BY <1>d, <1>10 DEF Tick, vars
<1> QED BY <1>1, <1>2, <1>3, <1>4, <1>5, <1>6, <1>7, <1>8, <1>9, <1>10 DEF Next

(* Stored records stay coherent. *)
LEMMA RecordStep == TypeOK /\ RequestInv /\ RecordInv /\ [Next]_vars => RecordInv'
<1> SUFFICES ASSUME TypeOK, RequestInv, RecordInv, [Next]_vars PROVE RecordInv'
  OBVIOUS
<1> USE DEF RecordInv
<1>a. clock \in Nat /\ \A c \in DynamicIds : registry[c] # NONE => registry[c].created_at \in Nat
  BY DEF TypeOK, DynamicClientRecord
<1>1. ASSUME NEW r \in Requests, Insert(r) PROVE RecordInv'
  <2>1. req[r].now <= clock
    BY DEF RequestInv
  <2> QED BY <1>1, <2>1, InsertEffect, HashFacts
<1>2. ASSUME NEW r \in Requests, Update(r) \/ Disable(r) \/ Enable(r) PROVE RecordInv'
  <2>1. registry[req[r].id] # NONE
    BY <1>2, MutateEffect, NoRecordAssumption
  <2> QED BY <1>2, <2>1, MutateEffect
<1>3. ASSUME NEW r \in Requests, Rotate(r) PROVE RecordInv'
  <2>1. registry[req[r].id] # NONE
    BY <1>3, RotateEffect, NoRecordAssumption
  <2>2. req[r].now + SECRET_ROTATION_OVERLAP_SECS # NONE
    BY ClientAssumption, NoRecordAssumption DEF TypeOK, Request
  <2> QED BY <1>3, <2>1, <2>2, RotateEffect, HashFacts
<1>4. ASSUME \A r \in Requests :
               ~(Insert(r) \/ Update(r) \/ Disable(r) \/ Enable(r) \/ Rotate(r))
      PROVE  RecordInv'
  BY <1>a, <1>4, WorkerSteps
<1> QED BY <1>1, <1>2, <1>3, <1>4

(* The record and the last applied effects move together. *)
LEMMA NoLostUpdateStep == TypeOK /\ RequestInv /\ NoLostUpdate /\ [Next]_vars => NoLostUpdate'
<1> SUFFICES ASSUME TypeOK, RequestInv, NoLostUpdate, [Next]_vars PROVE NoLostUpdate'
  OBVIOUS
<1> USE DEF NoLostUpdate
<1>1. ASSUME NEW r \in Requests, Insert(r) PROVE NoLostUpdate'
  BY <1>1, InsertEffect
<1>2. ASSUME NEW r \in Requests, Update(r) \/ Disable(r) \/ Enable(r) PROVE NoLostUpdate'
  <2>1. registry[req[r].id] # NONE
    BY <1>2, MutateEffect, NoRecordAssumption
  <2> QED BY <1>2, <2>1, MutateEffect
<1>3. ASSUME NEW r \in Requests, Rotate(r) PROVE NoLostUpdate'
  <2>1. registry[req[r].id] # NONE
    BY <1>3, RotateEffect, NoRecordAssumption
  <2> QED BY <1>3, <2>1, RotateEffect
<1>4. ASSUME \A r \in Requests :
               ~(Insert(r) \/ Update(r) \/ Disable(r) \/ Enable(r) \/ Rotate(r))
      PROVE  NoLostUpdate'
  BY <1>4, WorkerSteps
<1> QED BY <1>1, <1>2, <1>3, <1>4

(* A mutation is stamped with the time its request arrived, which is never  *)
(* before the client's creation.                                            *)
LEMMA TimesStep == TypeOK /\ RequestInv /\ TimesCoherent /\ [Next]_vars => TimesCoherent'
<1> SUFFICES ASSUME TypeOK, RequestInv, TimesCoherent, [Next]_vars PROVE TimesCoherent'
  OBVIOUS
<1> USE DEF TimesCoherent
<1>a. \A r \in Requests : req[r].now \in Nat /\ req[r].now # NONE
  BY NoRecordAssumption DEF TypeOK, Request
<1>1. ASSUME NEW r \in Requests, Insert(r) PROVE TimesCoherent'
  BY <1>1, <1>a, InsertEffect
<1>2. ASSUME NEW r \in Requests, Update(r) \/ Disable(r) \/ Enable(r) PROVE TimesCoherent'
  <2>1. registry[req[r].id] # NONE
    BY <1>2, MutateEffect, NoRecordAssumption
  <2> QED BY <1>2, <1>a, <2>1, MutateEffect
<1>3. ASSUME NEW r \in Requests, Rotate(r) PROVE TimesCoherent'
  <2>1. registry[req[r].id] # NONE
    BY <1>3, RotateEffect, NoRecordAssumption
  <2> QED BY <1>3, <2>1, RotateEffect
<1>4. ASSUME \A r \in Requests :
               ~(Insert(r) \/ Update(r) \/ Disable(r) \/ Enable(r) \/ Rotate(r))
      PROVE  TimesCoherent'
  BY <1>4, WorkerSteps
<1> QED BY <1>1, <1>2, <1>3, <1>4

(* The last rotation stays recorded until the next one. *)
LEMMA RotationStep ==
  TypeOK /\ RequestInv /\ RecordInv /\ RotationInv /\ [Next]_vars => RotationInv'
<1> SUFFICES ASSUME TypeOK, RequestInv, RecordInv, RotationInv, [Next]_vars
             PROVE  RotationInv'
  OBVIOUS
<1> USE DEF RotationInv
<1>1. ASSUME NEW r \in Requests, Insert(r) PROVE RotationInv'
  BY <1>1, InsertEffect
<1>2. ASSUME NEW r \in Requests, Update(r) \/ Disable(r) \/ Enable(r) PROVE RotationInv'
  BY <1>2, MutateEffect, NoRecordAssumption
<1>3. ASSUME NEW r \in Requests, Rotate(r) PROVE RotationInv'
  <2>1. registry[req[r].id] # NONE /\ registry'[req[r].id] # NONE
    BY <1>3, RotateEffect, NoRecordAssumption
  <2>2. registry[req[r].id].client_type = "confidential" =>
          registry[req[r].id].current_secret_hash # NONE
    BY <1>3, <2>1, RotateEffect DEF RecordInv
  <2> QED BY <1>3, <2>1, <2>2, RotateEffect, HashFacts
<1>4. ASSUME \A r \in Requests :
               ~(Insert(r) \/ Update(r) \/ Disable(r) \/ Enable(r) \/ Rotate(r))
      PROVE  RotationInv'
  BY <1>4, WorkerSteps
<1> QED BY <1>1, <1>2, <1>3, <1>4

-----------------------------------------------------------------------------
(* Secrets. *)

(* A request is fresh until its call is applied, and never again: a create  *)
(* that tries another id after a collision has stored nothing so far.       *)
LEMMA FreshOnce ==
  ASSUME TypeOK, [Next]_vars, NEW s \in Requests, Fresh(s)'
  PROVE  Fresh(s)
<1> USE DEF Fresh
<1>a. req[s] \in Request
  BY DEF TypeOK
<1>b. ASSUME NEW r \in Requests, NEW result \in Results, InFlight(r), Reply(r, result)
      PROVE  Fresh(s)
  BY <1>b, ReplyEffect DEF InFlight
<1>1. ASSUME NEW r \in Requests, NEW type \in ClientType,
             NEW uris \in SUBSET RedirectUris, StartCreate(r, type, uris)
      PROVE  Fresh(s)
  BY <1>1 DEF StartCreate, TypeOK
<1>2. ASSUME NEW r \in Requests, NEW id \in DynamicIds, GenerateId(r, id)
      PROVE  Fresh(s)
  BY <1>2 DEF GenerateId, TypeOK
<1>3. ASSUME NEW r \in Requests, AttemptsExhausted(r) PROVE Fresh(s)
  BY <1>3 DEF AttemptsExhausted, TypeOK
<1>4. ASSUME NEW r \in Requests, NEW op \in Ops \ {"create"}, NEW id \in DynamicIds,
             NEW uris \in SUBSET RedirectUris, StartMutation(r, op, id, uris)
      PROVE  Fresh(s)
  BY <1>4 DEF StartMutation, TypeOK
<1>5. ASSUME NEW r \in Requests, Insert(r) PROVE Fresh(s)
  BY <1>5, <1>b DEF Insert, Results
<1>6. ASSUME NEW r \in Requests, Update(r) \/ Disable(r) \/ Enable(r) PROVE Fresh(s)
  BY <1>6, <1>b DEF Update, Disable, Enable, Mutate, Results
<1>7. ASSUME NEW r \in Requests, Rotate(r) PROVE Fresh(s)
  BY <1>7, <1>b DEF Rotate, Results
<1>8. ASSUME NEW r \in Requests, Answer(r) PROVE Fresh(s)
  <2>1. CASE s # r
    BY <1>8, <2>1 DEF Answer, TypeOK
  <2>2. CASE s = r /\ req[r].result = "exists"
    BY <1>8, <2>2 DEF Answer
  <2>3. CASE s = r /\ req[r].result # "exists"
    BY <1>8, <2>3, RequestConstants DEF Answer, TypeOK
  <2> QED BY <2>1, <2>2, <2>3
<1>9. ASSUME NEW r \in Requests, Fail(r) PROVE Fresh(s)
  <2>1. CASE s # r
    BY <1>9, <2>1 DEF Fail, TypeOK
  <2>2. CASE s = r
    BY <1>9, <2>2, RequestConstants DEF Fail, TypeOK
  <2> QED BY <2>1, <2>2
<1>10. ASSUME Tick \/ UNCHANGED vars PROVE Fresh(s)
  BY <1>10 DEF Tick, vars
<1> QED BY <1>1, <1>2, <1>3, <1>4, <1>5, <1>6, <1>7, <1>8, <1>9, <1>10 DEF Next

(* The request the object serves was fresh; once its secret is installed it *)
(* is not.                                                                  *)
LEMMA ReplySpends ==
  ASSUME TypeOK, NEW r \in Requests, InFlight(r), NEW result \in Results \ {"exists"},
         Reply(r, result)
  PROVE  Fresh(r) /\ ~Fresh(r)'
<1>1. CASE req'[r] = DoneRequest
  BY <1>1, RequestConstants DEF Fresh, InFlight
<1>2. CASE req'[r].phase = "applied" /\ req'[r].result = result
  BY <1>2 DEF Fresh, InFlight
<1> QED BY <1>1, <1>2, ReplyEffect

(* A step stores no secret anew but the one of the request it applies. *)
LEMMA StoresOnly ==
  ASSUME TypeOK, RequestInv, [Next]_vars, NEW c \in DynamicIds, NEW s \in Requests,
         Stores(c, sha256_b64url(s))', ~Stores(c, sha256_b64url(s))
  PROVE  /\ InFlight(s) /\ c = req[s].id
         /\ ~Fresh(s)'
         /\ \A d \in DynamicIds : d # c => registry'[d] = registry[d]
<1> DEFINE Goal == /\ InFlight(s) /\ c = req[s].id
                   /\ ~Fresh(s)'
                   /\ \A d \in DynamicIds : d # c => registry'[d] = registry[d]
<1>1. ASSUME NEW r \in Requests, Insert(r) PROVE Goal
  <2>1. r = s /\ c = req[r].id /\ Reply(r, "inserted") /\ InFlight(r)
        /\ \A d \in DynamicIds : d # c => registry'[d] = registry[d]
    BY <1>1, InsertEffect, HashFacts DEF Stores, Insert
  <2> QED BY <2>1, ReplySpends DEF Results
<1>2. ASSUME NEW r \in Requests, Update(r) \/ Disable(r) \/ Enable(r) PROVE FALSE
  BY <1>2, MutateEffect, NoRecordAssumption DEF Stores
<1>3. ASSUME NEW r \in Requests, Rotate(r) PROVE Goal
  <2>1. /\ r = s /\ c = req[r].id /\ InFlight(r)
        /\ \A d \in DynamicIds : d # c => registry'[d] = registry[d]
    BY <1>3, RotateEffect, HashFacts, NoRecordAssumption DEF Stores
  <2>2. \E result \in Results \ {"exists"} : Reply(r, result)
    BY <1>3, RotateEffect
  <2> QED BY <2>1, <2>2, ReplySpends
<1> QED BY <1>1, <1>2, <1>3, WorkerSteps DEF Stores

(* Only fresh secrets are stored, so none is ever stored twice. *)
LEMMA SecretStep == TypeOK /\ RequestInv /\ SecretInv /\ [Next]_vars => SecretInv'
<1> SUFFICES ASSUME TypeOK, RequestInv, SecretInv, [Next]_vars PROVE SecretInv'
  OBVIOUS
<1>1. ASSUME NEW s \in Requests, Fresh(s)', NEW c \in DynamicIds
      PROVE  ~Stores(c, sha256_b64url(s))'
  <2>1. ~Stores(c, sha256_b64url(s))
    BY <1>1, FreshOnce DEF SecretInv
  <2> QED BY <1>1, <2>1, StoresOnly
<1>2. ASSUME NEW s \in Requests, NEW c1 \in DynamicIds, NEW c2 \in DynamicIds,
             Stores(c1, sha256_b64url(s))', Stores(c2, sha256_b64url(s))'
      PROVE  c1 = c2
  <2>a. InFlight(s) => Fresh(s)
    BY DEF InFlight, Fresh
  <2>1. CASE Stores(c1, sha256_b64url(s)) /\ Stores(c2, sha256_b64url(s))
    BY <2>1 DEF SecretInv
  <2>2. CASE ~Stores(c1, sha256_b64url(s))
    BY <1>2, <2>a, <2>2, StoresOnly DEF SecretInv
  <2>3. CASE ~Stores(c2, sha256_b64url(s))
    BY <1>2, <2>a, <2>3, StoresOnly DEF SecretInv
  <2> QED BY <2>1, <2>2, <2>3
<1>3. ASSUME NEW c \in DynamicIds, registry'[c] # NONE, registry'[c].current_secret_hash # NONE
      PROVE  registry'[c].current_secret_hash # registry'[c].previous_secret_hash
  <2>1. ASSUME NEW r \in Requests, Insert(r)
        PROVE  registry'[c].current_secret_hash # registry'[c].previous_secret_hash
    BY <1>3, <2>1, InsertEffect DEF SecretInv
  <2>2. ASSUME NEW r \in Requests, Update(r) \/ Disable(r) \/ Enable(r)
        PROVE  registry'[c].current_secret_hash # registry'[c].previous_secret_hash
    BY <1>3, <2>2, MutateEffect, NoRecordAssumption DEF SecretInv
  <2>3. ASSUME NEW r \in Requests, Rotate(r)
        PROVE  registry'[c].current_secret_hash # registry'[c].previous_secret_hash
    <3>1. Fresh(r)
      BY <2>3, RotateEffect DEF Fresh, InFlight
    <3>2. ~Stores(c, sha256_b64url(r))
      BY <3>1 DEF SecretInv
    <3> QED BY <1>3, <2>3, <3>2, RotateEffect, NoRecordAssumption DEF SecretInv, Stores
  <2>4. ASSUME \A r \in Requests :
                 ~(Insert(r) \/ Update(r) \/ Disable(r) \/ Enable(r) \/ Rotate(r))
        PROVE  registry'[c].current_secret_hash # registry'[c].previous_secret_hash
    BY <1>3, <2>4, WorkerSteps DEF SecretInv
  <2> QED BY <2>1, <2>2, <2>3, <2>4
<1> QED BY <1>1, <1>2, <1>3 DEF SecretInv

-----------------------------------------------------------------------------
(* The theorems. *)

(* The inductive invariant. *)
Inv ==
  /\ TypeOK /\ RequestInv /\ RecordInv
  /\ NoLostUpdate /\ TimesCoherent
  /\ SecretInv /\ RotationInv

(* It holds in every reachable state; the theorems below follow from it. *)
LEMMA Invariance == Spec => []Inv
<1>1. Init => TypeOK
  BY RequestConstants DEF Init, TypeOK, NoEffect, Effect, ClientStatus
<1>2. Init => RequestInv
  BY DEF Init, RequestInv, IdleRequest, InFlight
<1>3. Init => RecordInv /\ NoLostUpdate /\ TimesCoherent /\ SecretInv /\ RotationInv
  BY DEF Init, RecordInv, NoLostUpdate, TimesCoherent, SecretInv, RotationInv, Stores
<1>4. Inv /\ [Next]_vars => Inv'
  BY TypeStep, RequestStep, RecordStep, NoLostUpdateStep, TimesStep, SecretStep, RotationStep
  DEF Inv
<1> QED BY <1>1, <1>2, <1>3, <1>4, PTL DEF Spec, Inv

(* The registry, the requests in every phase and the history are always     *)
(* well typed; only hashes of secrets are stored (registry.rs).             *)
THEOREM TypeCorrect == Spec => []TypeOK
BY Invariance, PTL DEF Inv

(* However many admin requests run at once and however late their calls are *)
(* applied, no applied update is lost (ClientRegistryState::mutate).        *)
THEOREM UpdatesKept == Spec => []NoLostUpdate
BY Invariance, PTL DEF Inv

(* Timestamps agree with the order things happened in and with the status   *)
(* (registry.rs), although a mutation is stamped before it is applied.      *)
THEOREM TimestampsSound == Spec => []TimesCoherent
BY Invariance, PTL DEF Inv

(* No client is created under an id that a static client shadows            *)
(* (create_client in admin.rs, find_client in resolver.rs).                 *)
THEOREM ClientsReachable == Spec => []ActiveResolves
<1>1. RecordInv => ActiveResolves
  BY DEF RecordInv, ActiveResolves, find_client, is_dynamic_client_id
<1> QED BY <1>1, Invariance, PTL DEF Inv

(* verify_secret of an active client accepts what the record holds; the     *)
(* window it tests for first is there whenever a previous secret is.        *)
LEMMA AcceptedIsHeld == Inv => AcceptsHeld
<1> SUFFICES ASSUME Inv, NEW c \in DynamicIds, NEW s \in Requests
             PROVE  Accepts(c, s) <=> Held(c, sha256_b64url(s))
  BY DEF AcceptsHeld
<1>1. CASE registry[c] = NONE
  BY <1>1 DEF Accepts, Held
<1>2. CASE registry[c] # NONE
  <2> DEFINE rec == registry[c]
             active == [rec EXCEPT !.status = "active"]
             h == sha256_b64url(s)
  <2>1. rec \in DynamicClientRecord
    BY <1>2 DEF Inv, TypeOK
  <2>2. /\ active.status = "active"
        /\ active.current_secret_hash = rec.current_secret_hash
        /\ active.previous_secret_hash = rec.previous_secret_hash
        /\ active.previous_secret_valid_until = rec.previous_secret_valid_until
    BY <2>1 DEF DynamicClientRecord
  <2>3. h # NONE
    BY HashFacts
  <2>4. rec.previous_secret_hash = h => rec.previous_secret_valid_until # NONE
    BY <1>2, <2>3 DEF Inv, RecordInv
  <2>5. Accepts(c, s) <=>
          \/ rec.current_secret_hash = h
          \/ /\ rec.previous_secret_valid_until # NONE
             /\ rec.previous_secret_valid_until > clock
             /\ rec.previous_secret_hash = h
    BY <1>2, <2>2 DEF Accepts, verify_secret, is_active
  <2> QED BY <1>2, <2>3, <2>4, <2>5 DEF Held
<1> QED BY <1>1, <1>2

(* No secret is ever accepted for two clients, whatever replies are lost    *)
(* and whatever calls are applied late.                                     *)
THEOREM SecretsSeparate == Spec => []SecretsUnshared
<1>1. SecretInv /\ AcceptsHeld => SecretsUnshared
  BY HashFacts DEF SecretInv, SecretsUnshared, AcceptsHeld, Held, Stores
<1> QED BY <1>1, AcceptedIsHeld, Invariance, PTL DEF Inv

(* The promise of the last rotation is kept to the second and no third      *)
(* secret is accepted (rotate_secret, verify_secret).                       *)
THEOREM OverlapKept == Spec => []OverlapHonoured
<1>1. Inv => OverlapHonoured
  <2> SUFFICES ASSUME Inv, NEW c \in DynamicIds, overlap[c] # NONE
               PROVE  \A s \in Requests :
                        /\ sha256_b64url(s) = overlap[c].old =>
                             (Accepts(c, s) <=> clock < overlap[c].until)
                        /\ Accepts(c, s) =>
                             sha256_b64url(s) \in {overlap[c].old, effect[c].secret}
    BY DEF OverlapHonoured
  <2>1. /\ registry[c] # NONE
        /\ overlap[c].old # NONE
        /\ registry[c].previous_secret_hash = overlap[c].old
        /\ registry[c].previous_secret_valid_until = overlap[c].until
        /\ registry[c].current_secret_hash # NONE
    BY DEF Inv, RotationInv
  <2>2. registry[c].current_secret_hash # overlap[c].old
    BY <2>1 DEF Inv, SecretInv
  <2>3. overlap[c].until \in Nat /\ clock \in Nat
    BY DEF Inv, TypeOK, Rotation
  <2>4. registry[c].current_secret_hash = effect[c].secret
    BY <2>1 DEF Inv, NoLostUpdate
  <2>5. Held(c, overlap[c].old) <=> clock < overlap[c].until
    BY <2>1, <2>2, <2>3 DEF Held
  <2>6. \A s \in Requests : Accepts(c, s) <=> Held(c, sha256_b64url(s))
    BY AcceptedIsHeld DEF AcceptsHeld
  <2>7. \A s \in Requests : Held(c, sha256_b64url(s)) =>
          sha256_b64url(s) \in {overlap[c].old, effect[c].secret}
    BY <2>1, <2>4 DEF Held
  <2> QED BY <2>5, <2>6, <2>7
<1> QED BY <1>1, Invariance, PTL

(* A secret that was replaced twice, or whose window closed, is dead for    *)
(* good: a step makes acceptable only the secret of the request it applies. *)
THEOREM NoRevival == Spec => SecretsNeverRevive
<1> DEFINE A == \A c \in DynamicIds, s \in Requests :
                  ~Accepts(c, s) /\ Accepts(c, s)' =>
                    InFlight(s) /\ req'[s].phase \in {"applied", "done"}
<1>1. Inv /\ AcceptsHeld /\ AcceptsHeld' /\ [Next]_vars => A
  <2> SUFFICES ASSUME Inv, [Next]_vars, NEW c \in DynamicIds, NEW s \in Requests,
                      ~Held(c, sha256_b64url(s)), Held(c, sha256_b64url(s))'
               PROVE  InFlight(s) /\ req'[s].phase \in {"applied", "done"}
    BY DEF AcceptsHeld
  <2> DEFINE h == sha256_b64url(s)
  <2>a. TypeOK /\ RequestInv /\ RecordInv
    BY DEF Inv
  <2>b. h # NONE
    BY HashFacts
  <2>1. ASSUME NEW r \in Requests, Insert(r) PROVE r = s
    <3>1. registry'[c] # registry[c] /\ c = req[r].id
      BY <2>1, <2>a, InsertEffect DEF Held
    <3>2. h = sha256_b64url(r)
      BY <2>1, <2>a, <2>b, <3>1, InsertEffect DEF Held
    <3> QED BY <3>2, HashFacts
  <2>2. ASSUME NEW r \in Requests, Update(r) \/ Disable(r) \/ Enable(r) PROVE FALSE
    BY <2>2, <2>a, MutateEffect, NoRecordAssumption DEF Held
  <2>3. ASSUME NEW r \in Requests, Rotate(r) PROVE r = s
    <3>1. h = sha256_b64url(r)
      BY <2>3, <2>a, <2>b, RotateEffect, NoRecordAssumption DEF Held
    <3> QED BY <3>1, HashFacts
  <2>4. ASSUME \A r \in Requests :
                 ~(Insert(r) \/ Update(r) \/ Disable(r) \/ Enable(r) \/ Rotate(r))
        PROVE  FALSE
    <3>1. registry' = registry /\ clock' \in Nat /\ clock <= clock' /\ clock \in Nat
      BY <2>4, <2>a, WorkerSteps DEF TypeOK
    <3>2. registry[c] \in DynamicClientRecord
      BY <2>a, <3>1 DEF Held, TypeOK
    <3>3. registry[c].previous_secret_hash = h =>
            registry[c].previous_secret_valid_until \in Nat
      BY <2>a, <2>b, <3>2, NoRecordAssumption DEF RecordInv, DynamicClientRecord
    <3> QED BY <2>b, <3>1, <3>3 DEF Held
  <2>5. ASSUME NEW result \in Results, InFlight(s), Reply(s, result)
        PROVE  req'[s].phase \in {"applied", "done"}
    BY <2>5, <2>a, ReplyEffect, RequestConstants
  <2>6. Insert(s) \/ Rotate(s)
    BY <2>1, <2>2, <2>3, <2>4
  <2>7. InFlight(s) /\ \E result \in Results : Reply(s, result)
    BY <2>6 DEF Insert, Rotate, Results
  <2> QED BY <2>5, <2>7
<1>2. Spec => [][A]_vars
  BY <1>1, AcceptedIsHeld, Invariance, PTL DEF Spec
<1> QED BY <1>2 DEF SecretsNeverRevive
=============================================================================
