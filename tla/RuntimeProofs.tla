---------------------------- MODULE RuntimeProofs ----------------------------
(***************************************************************************)
(* What the isolates' memoised runtime guarantees, for every set of        *)
(* isolates, requests and environments: that one isolate has one runtime,  *)
(* that a loaded configuration is sound, and that ID tokens stay           *)
(* verifiable while a staged operator rolls the signing key over.          *)
(***************************************************************************)
EXTENDS Runtime, TLAPS

-----------------------------------------------------------------------------
(* The inductive invariant. *)

(* How far the load has come tells what is known about the environment. *)
LoadInv ==
  \A i \in Isolates :
    /\ i \in Running => isolate[i].env \in Environments
    /\ isolate[i].phase = "importing" => from_input(isolate[i].env)
    /\ isolate[i].phase = "ready" => Usable(isolate[i].env)

(* Where a request stands tells how far the load of its isolate has come.   *)
(* An isolate that is gone no longer tells: OneRuntime has to remember it.  *)
RequestInv ==
  \A r \in Requests :
    LET phase == isolate[req[r].on].phase IN
    /\ req[r].pc # "idle" => req[r].on \in Isolates
    /\ req[r].pc = "wait" => phase \in {"importing", "ready", "failed"}
    /\ req[r].pc = "sign" => phase = "ready"
    /\ req[r].pc = "config_error" => phase \in {"failed", "gone"}
    /\ req[r].pc \in {"served", "error"} => phase \in {"ready", "gone"}

(* A staged roll-over: the settings of all running isolates and of the      *)
(* deployment name the keys the others sign with, and the key of every      *)
(* token that has not expired.                                              *)
RolloverInv ==
  /\ \A i \in Running :
       /\ Covers(isolate[i].env, deployed) /\ Covers(deployed, isolate[i].env)
       /\ \A j \in Running : Covers(isolate[i].env, isolate[j].env)
  /\ \A t \in tokens : Alive(t) =>
       /\ Usable(deployed) => Names(deployed, t.kid, t.key)
       /\ \A i \in Running : Usable(isolate[i].env) => Names(isolate[i].env, t.kid, t.key)

Inv == TypeOK /\ LoadInv /\ RequestInv /\ OneRuntime /\ (Staged => RolloverInv)

-----------------------------------------------------------------------------
(* What an accepted configuration guarantees. *)

(* build_registry: client ids are unique, whichever of two clients is       *)
(* listed first.                                                            *)
LEMMA ClientIdsUnique ==
  ASSUME NEW clients, NEW secrets, build_registry(clients, secrets),
         DOMAIN clients \subseteq Nat \ {0},
         NEW m \in DOMAIN clients, NEW n \in DOMAIN clients,
         clients[m].client_id = clients[n].client_id
  PROVE  m = n
<1>1. ~(m < n)
  <2>1. m < n => m \in 1 .. n - 1
    OBVIOUS
  <2>. QED  BY <2>1 DEF build_registry
<1>2. ~(n < m)
  <2>1. n < m => n \in 1 .. m - 1
    OBVIOUS
  <2>. QED  BY <2>1 DEF build_registry
<1>. QED  BY <1>1, <1>2

(* find: lookup returns the very client that was validated. *)
LEMMA FindsValidated ==
  ASSUME NEW clients, NEW secrets, build_registry(clients, secrets),
         DOMAIN clients \subseteq Nat \ {0}, NEW n \in DOMAIN clients
  PROVE  find(clients, clients[n].client_id) = clients[n]
<1>. DEFINE hits == {i \in DOMAIN clients : clients[i].client_id = clients[n].client_id}
<1>1. hits = {n}
  BY ClientIdsUnique
<1>2. (CHOOSE i \in hits : \A j \in hits : i <= j) = n
  <2>1. n \in hits /\ \A j \in hits : n <= j
    BY <1>1
  <2>2. (CHOOSE i \in hits : \A j \in hits : i <= j) \in hits
    BY <2>1
  <2>. QED  BY <1>1, <2>2
<1>. QED  BY <1>1, <1>2 DEF find

(* find: what lookup returns is a validated client of that id. *)
LEMMA FoundIsListed ==
  ASSUME NEW clients, NEW secrets, build_registry(clients, secrets),
         DOMAIN clients \subseteq Nat \ {0}, NEW id, find(clients, id) # NONE
  PROVE  \E n \in DOMAIN clients : find(clients, id) = clients[n]
<1>1. PICK n \in DOMAIN clients : clients[n].client_id = id
  BY DEF find
<1>. QED  BY <1>1, FindsValidated

(* jwks: an accepted configuration publishes every key id for one key only, *)
(* and no weak key.                                                         *)
LEMMA JwksSound ==
  ASSUME NEW env \in Environments, Usable(env),
         NEW k1 \in jwks(env), NEW k2 \in jwks(env)
  PROVE  /\ k1.kid = k2.kid => k1 = k2
         /\ k1.kid \in Kids /\ k1.key \in Keys
         /\ KeyBits[k1.key] >= MIN_RSA_MODULUS_BITS
<1>. DEFINE Additional(i) == [kid |-> env.additional[i].kid, key |-> env.additional[i].n]
<1>1. /\ env.signing_key_id \in Kids /\ env.signing_private_key \in Keys
      /\ KeyBits[env.signing_private_key] >= MIN_RSA_MODULUS_BITS
  BY DEF Usable, from_input, importable, is_valid_kid
<1>2. CASE env.additional = NONE
  BY <1>1, <1>2 DEF jwks, SigningJwk
<1>3. CASE env.additional # NONE
  <2>1. /\ DOMAIN env.additional \subseteq Nat \ {0}
        /\ additional_public_jwks(env.signing_key_id, env.additional)
    BY <1>3, EnvironmentAssumption DEF Usable, from_input, additional_public_jwks
  <2>2. \A i \in DOMAIN env.additional :
          /\ env.additional[i].kid \in Kids /\ env.additional[i].n \in Keys
          /\ KeyBits[env.additional[i].n] >= MIN_RSA_MODULUS_BITS
          /\ env.additional[i].kid # env.signing_key_id
    BY <2>1 DEF additional_public_jwks, validate_public, is_valid_kid
  <2>3. ASSUME NEW i \in DOMAIN env.additional, NEW j \in DOMAIN env.additional,
               env.additional[i].kid = env.additional[j].kid
        PROVE  i = j
    <3>1. ~(i < j)
      <4>1. i < j => i \in 1 .. j - 1
        BY <2>1
      <4>. QED  BY <2>1, <2>3, <4>1 DEF additional_public_jwks
    <3>2. ~(j < i)
      <4>1. j < i => j \in 1 .. i - 1
        BY <2>1
      <4>. QED  BY <2>1, <2>3, <4>1 DEF additional_public_jwks
    <3>. QED  BY <2>1, <3>1, <3>2
  <2>4. \A k \in jwks(env) :
          k = SigningJwk(env) \/ \E i \in DOMAIN env.additional : k = Additional(i)
    BY <1>3 DEF jwks
  <2>5. CASE k1 = SigningJwk(env)
    BY <1>1, <2>2, <2>4, <2>5 DEF SigningJwk
  <2>6. CASE \E i \in DOMAIN env.additional : k1 = Additional(i)
    <3>1. PICK i \in DOMAIN env.additional : k1 = Additional(i)
      BY <2>6
    <3>2. CASE k2 = SigningJwk(env)
      BY <2>2, <3>1, <3>2 DEF SigningJwk
    <3>3. CASE \E j \in DOMAIN env.additional : k2 = Additional(j)
      BY <2>2, <2>3, <3>1, <3>3
    <3>. QED  BY <2>4, <3>2, <3>3
  <2>. QED  BY <2>4, <2>5, <2>6
<1>. QED  BY <1>2, <1>3

(* An RP that sees the key of a token in the settings of an isolate can     *)
(* verify the token with the JWKS of that isolate.                          *)
LEMMA NamedVerifies ==
  ASSUME NEW env \in Environments, Usable(env), NEW t, Names(env, t.kid, t.key)
  PROVE  Verifies(jwks(env), t)
<1>1. \E k \in jwks(env) : k.kid = t.kid /\ k.key = t.key
  <2>1. CASE env.signing_key_id = t.kid /\ env.signing_private_key = t.key
    <3>1. SigningJwk(env) \in jwks(env)
      BY DEF jwks
    <3>2. SigningJwk(env).kid = t.kid /\ SigningJwk(env).key = t.key
      BY <2>1 DEF SigningJwk
    <3>. QED  BY <3>1, <3>2
  <2>2. CASE /\ env.additional # NONE
             /\ \E i \in DOMAIN env.additional :
                  env.additional[i].kid = t.kid /\ env.additional[i].n = t.key
    <3>. DEFINE Additional(i) == [kid |-> env.additional[i].kid, key |-> env.additional[i].n]
    <3>1. PICK i \in DOMAIN env.additional : Additional(i).kid = t.kid /\ Additional(i).key = t.key
      BY <2>2
    <3>2. Additional(i) \in jwks(env)
      BY <2>2 DEF jwks
    <3>. QED  BY <3>1, <3>2
  <2>. QED  BY <2>1, <2>2 DEF Names
<1>. QED  BY <1>1, JwksSound DEF Verifies

(* id_token_ttl_secs: the accepted lifetime is a number. *)
LEMMA TtlNat ==
  ASSUME NEW env \in Environments, from_input(env)
  PROVE  id_token_ttl_secs(env) \in Nat
BY ConfigurationAssumption, EnvironmentAssumption
   DEF from_input, id_token_ttl, id_token_ttl_secs

-----------------------------------------------------------------------------
(* The steps. *)

LEMMA InvInit == Init => Inv
<1>. SUFFICES ASSUME Init PROVE Inv
  OBVIOUS
<1>1. TypeOK
  BY RuntimeAssumption DEF Init, TypeOK, Isolate, Request
<1>2. LoadInv /\ RequestInv /\ OneRuntime
  BY DEF Init, LoadInv, RequestInv, OneRuntime, Running
<1>3. RolloverInv
  BY DEF Init, RolloverInv, Running
<1>. QED  BY <1>1, <1>2, <1>3 DEF Inv

LEMMA TypeStep == Inv /\ [Next]_vars => TypeOK'
<1>. SUFFICES ASSUME TypeOK, LoadInv, RequestInv, [Next]_vars PROVE TypeOK'
  BY DEF Inv
<1>1. ASSUME NEW env \in Environments, Deploy(env) PROVE TypeOK'
  BY <1>1 DEF TypeOK, Deploy
<1>2. ASSUME NEW i \in Isolates, StartIsolate(i) PROVE TypeOK'
  BY <1>2 DEF TypeOK, StartIsolate, Isolate
<1>3. ASSUME NEW i \in Isolates, Recycle(i) PROVE TypeOK'
  BY <1>3 DEF TypeOK, Recycle, Isolate
<1>4. ASSUME NEW i \in Isolates, Import(i) PROVE TypeOK'
  BY <1>4 DEF TypeOK, Import, Isolate
<1>5. ASSUME NEW r \in Requests, NEW i \in Isolates, NEW kind \in RequestKinds,
             Arrive(r, i, kind)
      PROVE  TypeOK'
  <2>1. isolate' \in [Isolates -> Isolate]
    BY <1>5 DEF TypeOK, Arrive, StartLoad, Isolate
  <2>2. req' \in [Requests -> Request]
    BY <1>5 DEF TypeOK, Arrive, Accept, Request, Answers
  <2>. QED  BY <1>5, <2>1, <2>2 DEF TypeOK, Arrive
<1>6. ASSUME NEW r \in Requests, Serve(r) PROVE TypeOK'
  <2>1. req' \in [Requests -> Request]
    BY <1>6 DEF TypeOK, Serve, Request, Answers
  <2>. QED  BY <1>6, <2>1 DEF TypeOK, Serve
<1>7. ASSUME NEW r \in Requests, Sign(r) PROVE TypeOK'
  <2>. DEFINE env == isolate[req[r].on].env
  <2>1. env \in Environments /\ Usable(env)
    BY <1>7 DEF Sign, RequestInv, LoadInv, Running
  <2>2. /\ env.signing_key_id \in Kids /\ env.signing_private_key \in Keys
        /\ id_token_ttl_secs(env) \in Nat
    BY <2>1, TtlNat DEF Usable, from_input, importable, is_valid_kid
  <2>3. req[r].now \in Nat
    BY DEF TypeOK, Request
  <2>4. tokens' \subseteq Token
    BY <1>7, <2>2, <2>3 DEF TypeOK, Sign, Token
  <2>5. req' \in [Requests -> Request]
    BY <1>7 DEF TypeOK, Sign, Request, Answers
  <2>. QED  BY <1>7, <2>4, <2>5 DEF TypeOK, Sign
<1>8. ASSUME NEW r \in Requests, Cancel(r) PROVE TypeOK'
  BY <1>8 DEF TypeOK, Cancel, Request, Answers
<1>9. CASE Tick
  BY <1>9 DEF TypeOK, Tick
<1>10. CASE UNCHANGED vars
  BY <1>10 DEF TypeOK, vars
<1>. QED
  BY <1>1, <1>2, <1>3, <1>4, <1>5, <1>6, <1>7, <1>8, <1>9, <1>10 DEF Next

LEMMA LoadStep == Inv /\ [Next]_vars => LoadInv'
<1>. SUFFICES ASSUME TypeOK, LoadInv, [Next]_vars PROVE LoadInv'
  BY DEF Inv
<1>1. ASSUME UNCHANGED isolate PROVE LoadInv'
  BY <1>1 DEF LoadInv, Running
<1>2. ASSUME NEW i \in Isolates, StartIsolate(i) PROVE LoadInv'
  BY <1>2 DEF TypeOK, LoadInv, Running, StartIsolate, Isolate
<1>3. ASSUME NEW i \in Isolates, Recycle(i) PROVE LoadInv'
  BY <1>3 DEF TypeOK, LoadInv, Running, Recycle, Isolate
<1>4. ASSUME NEW i \in Isolates, Import(i) PROVE LoadInv'
  BY <1>4 DEF TypeOK, LoadInv, Running, Import, Isolate, Usable
<1>5. ASSUME NEW r \in Requests, NEW i \in Isolates, NEW kind \in RequestKinds,
             Arrive(r, i, kind)
      PROVE  LoadInv'
  BY <1>5 DEF TypeOK, LoadInv, Running, Arrive, StartLoad, Isolate
<1>6. ASSUME NEW env \in Environments, Deploy(env) PROVE UNCHANGED isolate
  BY <1>6 DEF Deploy
<1>7. ASSUME NEW r \in Requests, Serve(r) \/ Sign(r) \/ Cancel(r)
      PROVE  UNCHANGED isolate
  BY <1>7 DEF Serve, Sign, Cancel
<1>8. Tick \/ UNCHANGED vars => UNCHANGED isolate
  BY DEF Tick, vars
<1>. QED
  BY <1>1, <1>2, <1>3, <1>4, <1>5, <1>6, <1>7, <1>8 DEF Next

LEMMA RequestStep == Inv /\ [Next]_vars => (RequestInv /\ OneRuntime)'
<1>. SUFFICES ASSUME TypeOK, RequestInv, OneRuntime, [Next]_vars
              PROVE  (RequestInv /\ OneRuntime)'
  BY DEF Inv
<1>1. ASSUME UNCHANGED <<isolate, req>> PROVE (RequestInv /\ OneRuntime)'
  BY <1>1 DEF RequestInv, OneRuntime
<1>2. ASSUME NEW i \in Isolates, StartIsolate(i) PROVE (RequestInv /\ OneRuntime)'
  BY <1>2 DEF TypeOK, RequestInv, OneRuntime, StartIsolate, Isolate
<1>3. ASSUME NEW i \in Isolates, Recycle(i) PROVE (RequestInv /\ OneRuntime)'
  <2>1. \A r \in Requests : req[r].on = i => req[r].pc \notin {"wait", "sign"}
    BY <1>3 DEF Recycle, Pending
  <2>. QED  BY <1>3, <2>1 DEF TypeOK, RequestInv, OneRuntime, Recycle, Isolate
<1>4. ASSUME NEW i \in Isolates, Import(i) PROVE (RequestInv /\ OneRuntime)'
  BY <1>4 DEF TypeOK, RequestInv, OneRuntime, Import, Isolate
<1>5. ASSUME NEW r \in Requests, NEW i \in Isolates, NEW kind \in RequestKinds,
             Arrive(r, i, kind)
      PROVE  (RequestInv /\ OneRuntime)'
  <2>1. /\ isolate[i].phase \in {"fresh", "importing", "ready", "failed"}
        /\ \A j \in Isolates \ {i} : isolate'[j] = isolate[j]
        /\ isolate[i].phase # "fresh" => isolate' = isolate
        /\ isolate' # isolate => isolate'[i].phase \in {"importing", "failed"}
    BY <1>5 DEF TypeOK, Arrive, StartLoad, Running, Isolate
  <2>2. \A s \in Requests \ {r} : req'[s] = req[s]
    BY <1>5 DEF TypeOK, Arrive, Accept
  <2>3. /\ req'[r].on = i
        /\ \/ req'[r].pc = "unauthorized"
           \/ req'[r].pc = "wait" /\ isolate'[i].phase \in {"importing", "ready", "failed"}
    BY <1>5, <2>1 DEF TypeOK, Arrive, Accept, StartLoad, Isolate
  <2>4. RequestInv'
    BY <2>1, <2>2, <2>3 DEF RequestInv
  <2>5. OneRuntime'
    BY <2>2, <2>3 DEF OneRuntime
  <2>. QED  BY <2>4, <2>5
<1>6. ASSUME NEW r \in Requests, Serve(r) PROVE (RequestInv /\ OneRuntime)'
  BY <1>6 DEF TypeOK, RequestInv, OneRuntime, Serve, Request
<1>7. ASSUME NEW r \in Requests, Sign(r) PROVE (RequestInv /\ OneRuntime)'
  BY <1>7 DEF TypeOK, RequestInv, OneRuntime, Sign, Request
<1>8. ASSUME NEW r \in Requests, Cancel(r) PROVE (RequestInv /\ OneRuntime)'
  BY <1>8 DEF TypeOK, RequestInv, OneRuntime, Cancel, Request
<1>9. ASSUME NEW env \in Environments, Deploy(env) PROVE UNCHANGED <<isolate, req>>
  BY <1>9 DEF Deploy
<1>10. Tick \/ UNCHANGED vars => UNCHANGED <<isolate, req>>
  BY DEF Tick, vars
<1>. QED
  BY <1>1, <1>2, <1>3, <1>4, <1>5, <1>6, <1>7, <1>8, <1>9, <1>10 DEF Next

(* An isolate's settings name the key it signs with itself. *)
LEMMA CoversItself == \A env : Covers(env, env)
BY DEF Covers, Names

(* Steps that start no isolate, sign nothing and deploy nothing keep a      *)
(* staged roll-over staged, as time only lets tokens expire.                *)
LEMMA RolloverQuiet ==
  ASSUME TypeOK, RolloverInv, clock' \in Nat, clock <= clock',
         UNCHANGED <<deployed, tokens>>,
         \A i \in Running' : i \in Running /\ isolate'[i].env = isolate[i].env
  PROVE  RolloverInv'
<1>1. \A t \in tokens : Alive(t)' => Alive(t)
  BY DEF Alive, TypeOK, Token
<1>. QED  BY <1>1 DEF RolloverInv

LEMMA RolloverStep ==
  ASSUME Staged, Inv, [Next]_vars
  PROVE  RolloverInv'
<1>. USE DEF Inv
<1>. DEFINE Same == \A i \in Running' : i \in Running /\ isolate'[i].env = isolate[i].env
<1>1. ASSUME NEW env \in Environments, Deploy(env) PROVE RolloverInv'
  <2>1. UNCHANGED <<clock, isolate, tokens>> /\ deployed' = env
    BY <1>1 DEF Deploy
  <2>2. \A i \in Running : Covers(isolate[i].env, env) /\ Covers(env, isolate[i].env)
    BY <1>1 DEF Deploy
  <2>3. \A t \in tokens : Alive(t) => (Usable(env) => Names(env, t.kid, t.key))
    BY <1>1 DEF Deploy
  <2>. QED  BY <2>1, <2>2, <2>3 DEF RolloverInv, Running, Alive
<1>2. ASSUME NEW i \in Isolates, StartIsolate(i) PROVE RolloverInv'
  <2>1. /\ UNCHANGED <<clock, deployed, tokens>>
        /\ isolate'[i].env = deployed
        /\ Running' = Running \cup {i}
        /\ \A j \in Running : j # i /\ isolate'[j] = isolate[j]
    BY <1>2 DEF StartIsolate, Running, TypeOK, Isolate
  <2>. QED  BY <2>1, CoversItself DEF RolloverInv, Alive
<1>3. ASSUME NEW i \in Isolates, Recycle(i) PROVE RolloverInv'
  <2>1. Same
    BY <1>3 DEF Recycle, Running, TypeOK, Isolate
  <2>. QED  BY <1>3, <2>1, RolloverQuiet DEF Recycle, TypeOK
<1>4. ASSUME NEW i \in Isolates, Import(i) PROVE RolloverInv'
  <2>1. Same
    BY <1>4 DEF Import, Running, TypeOK, Isolate
  <2>. QED  BY <1>4, <2>1, RolloverQuiet DEF Import, TypeOK
<1>5. ASSUME NEW r \in Requests, NEW i \in Isolates, NEW kind \in RequestKinds,
             Arrive(r, i, kind)
      PROVE  RolloverInv'
  <2>1. Same
    BY <1>5 DEF Arrive, StartLoad, Running, TypeOK, Isolate
  <2>. QED  BY <1>5, <2>1, RolloverQuiet DEF Arrive, TypeOK
<1>6. ASSUME NEW r \in Requests, Serve(r) \/ Cancel(r) PROVE RolloverInv'
  <2>1. UNCHANGED <<clock, deployed, isolate, tokens>>
    BY <1>6 DEF Serve, Cancel
  <2>. QED  BY <2>1 DEF RolloverInv, Running, Alive
<1>7. ASSUME NEW r \in Requests, Sign(r) PROVE RolloverInv'
  <2>. DEFINE i == req[r].on
              env == isolate[i].env
  <2>1. i \in Running /\ Usable(env)
    BY <1>7 DEF Sign, RequestInv, LoadInv, Running
  <2>2. UNCHANGED <<clock, deployed, isolate>>
    BY <1>7 DEF Sign
  <2>3. \A t \in tokens' :
          \/ t \in tokens
          \/ t.kid = env.signing_key_id /\ t.key = env.signing_private_key
    BY <1>7 DEF Sign
  <2>4. Usable(deployed) => Names(deployed, env.signing_key_id, env.signing_private_key)
    BY <2>1 DEF RolloverInv, Covers
  <2>5. \A j \in Running : Usable(isolate[j].env) =>
          Names(isolate[j].env, env.signing_key_id, env.signing_private_key)
    BY <2>1 DEF RolloverInv, Covers
  <2>. QED  BY <2>2, <2>3, <2>4, <2>5 DEF RolloverInv, Running, Alive
<1>8. CASE Tick
  <2>1. Same
    BY <1>8 DEF Tick, Running
  <2>2. clock' \in Nat /\ clock <= clock'
    BY <1>8 DEF Tick, TypeOK
  <2>. QED  BY <1>8, <2>1, <2>2, RolloverQuiet DEF Tick
<1>9. CASE UNCHANGED vars
  BY <1>9 DEF RolloverInv, Running, Alive, vars
<1>. QED
  BY <1>1, <1>2, <1>3, <1>4, <1>5, <1>6, <1>7, <1>8, <1>9 DEF Next

LEMMA Invariance == Spec => []Inv
<1>1. Inv /\ [Next]_vars => Inv'
  BY TypeStep, LoadStep, RequestStep, RolloverStep DEF Inv
<1>. QED  BY InvInit, <1>1, PTL DEF Spec

-----------------------------------------------------------------------------
(* Theorems. *)

(* The isolates' and requests' state stays well-formed: every ID token that *)
(* goes out carries an accepted key id, an imported key and a numeric exp   *)
(* (load_runtime, encode_claims).                                           *)
THEOREM TypeCorrect == Spec => []TypeOK
<1>1. Inv => TypeOK
  BY DEF Inv
<1>. QED  BY Invariance, <1>1, PTL

(* One isolate has one runtime: no request finds it usable after another    *)
(* found it failed, or before (the memoised shared future in runtime()).    *)
THEOREM RuntimeShared == Spec => []OneRuntime
<1>1. Inv => OneRuntime
  BY DEF Inv
<1>. QED  BY Invariance, <1>1, PTL

(* No published JWKS lists two keys under one kid, or a weak key, whatever  *)
(* the environment holds (additional_public_jwks, from_secret_str).         *)
THEOREM KidsUnambiguous == Spec => []KidUnambiguous
<1>1. Inv => KidUnambiguous
  BY JwksSound DEF Inv, LoadInv, Ready, Running, KidUnambiguous
<1>. QED  BY Invariance, <1>1, PTL

(* A loaded configuration leaves no static client half configured, however  *)
(* many clients and secrets it lists (build_registry, find).                *)
THEOREM ClientsUsable == Spec => []StaticClientsUsable
<1>1. Inv => StaticClientsUsable
  <2>. SUFFICES ASSUME Inv, NEW i \in Ready
                PROVE  LET env == isolate[i].env IN
                       /\ \A n \in DOMAIN env.clients :
                            LET client == env.clients[n] IN
                            /\ find(env.clients, client.client_id) = client
                            /\ BasicWorks(env, client.client_id) #
                                 NoneWorks(env, client.client_id)
                            /\ client.redirect_uris # <<>>
                            /\ client.allowed_scopes = {"openid"}
                       /\ env.client_secrets # NONE => \A id \in DOMAIN env.client_secrets :
                            find(env.clients, id) # NONE /\ BasicWorks(env, id)
    BY DEF StaticClientsUsable
  <2>. DEFINE env == isolate[i].env
  <2>1. env \in Environments /\ from_input(env)
    BY DEF Inv, LoadInv, Ready, Running, Usable
  <2>2. /\ build_registry(env.clients, env.client_secrets)
        /\ DOMAIN env.clients \subseteq Nat \ {0}
        /\ \A n \in DOMAIN env.clients : env.clients[n].client_type \in {"public", "confidential"}
    BY <2>1, EnvironmentAssumption DEF from_input, required, build_registry
  <2>3. env.client_secrets # NONE =>
          \A id \in DOMAIN env.client_secrets : client_secret(env, id) # NONE
    BY <2>1, <2>2, EnvironmentAssumption DEF build_registry, client_secret
  <2>4. \A n \in DOMAIN env.clients : validate_client(env.clients[n])
    BY <2>2 DEF build_registry
  <2>5. ASSUME NEW n \in DOMAIN env.clients
        PROVE  LET client == env.clients[n] IN
               /\ find(env.clients, client.client_id) = client
               /\ BasicWorks(env, client.client_id) # NoneWorks(env, client.client_id)
               /\ client.redirect_uris # <<>> /\ client.allowed_scopes = {"openid"}
    <3>. DEFINE client == env.clients[n]
    <3>1. find(env.clients, client.client_id) = client
      BY <2>2, FindsValidated
    <3>2. client.redirect_uris # <<>> /\ client.allowed_scopes = {"openid"}
      BY <2>4 DEF validate_client, SUPPORTED_SCOPES
    <3>3. client.client_type = "confidential" => client_secret(env, client.client_id) # NONE
      BY <2>2, <2>3 DEF build_registry
    <3>4. Consistent(client)
      BY <2>4 DEF validate_client
    <3>5. BasicWorks(env, client.client_id) # NoneWorks(env, client.client_id)
      <4>1. CASE client.client_type = "public"
        BY <3>1, <3>4, <4>1 DEF BasicWorks, NoneWorks, Consistent
      <4>2. CASE client.client_type = "confidential"
        BY <3>1, <3>3, <3>4, <4>2 DEF BasicWorks, NoneWorks, Consistent
      <4>. QED  BY <2>2, <4>1, <4>2
    <3>. QED  BY <3>1, <3>2, <3>5
  <2>6. ASSUME env.client_secrets # NONE, NEW id \in DOMAIN env.client_secrets
        PROVE  find(env.clients, id) # NONE /\ BasicWorks(env, id)
    <3>1. find(env.clients, id) # NONE /\ find(env.clients, id).client_type = "confidential"
      BY <2>2, <2>6 DEF build_registry
    <3>2. Consistent(find(env.clients, id))
      BY <2>2, <2>4, <3>1, FoundIsListed DEF validate_client
    <3>. QED  BY <2>3, <2>6, <3>1, <3>2 DEF BasicWorks, Consistent
  <2>. QED  BY <2>5, <2>6
<1>. QED  BY Invariance, <1>1, PTL

(* With a staged operator, whatever isolate answers an RP, its JWKS         *)
(* verifies every ID token that has not expired, over any number of         *)
(* deployments, isolates and keys (jwks, encode_claims).                    *)
THEOREM RolloverVerifiable == Spec => [](Staged => Verifiable)
<1>1. Inv => (Staged => Verifiable)
  <2>. SUFFICES ASSUME Inv, Staged, NEW i \in Ready, NEW t \in tokens, Alive(t)
                PROVE  Verifies(jwks(isolate[i].env), t)
    BY DEF Verifiable
  <2>1. i \in Running /\ isolate[i].env \in Environments /\ Usable(isolate[i].env)
    BY DEF Inv, LoadInv, Ready, Running
  <2>2. Names(isolate[i].env, t.kid, t.key)
    BY <2>1 DEF Inv, RolloverInv
  <2>. QED  BY <2>1, <2>2, NamedVerifies
<1>. QED  BY Invariance, <1>1, PTL
=============================================================================
