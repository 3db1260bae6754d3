------------------------- MODULE TokenRequestProofs -------------------------
(***************************************************************************)
(* What POST /token guarantees about the clients it serves, for every      *)
(* form, every registry and every change of the registry during the        *)
(* request.                                                                *)
(***************************************************************************)
EXTENDS WorkerProofs

LEMMA FormErrors ==
  ASSUME NEW q, FirstFailure(Token!FormChecks(q)) # NONE
  PROVE  FirstFailure(Token!FormChecks(q)) # "consume"
<1>. DEFINE checks == Token!FormChecks(q)
            S == {"invalid_request", "unsupported_grant_type"}
<1>1. DOMAIN checks \subseteq Nat /\ \A i \in DOMAIN checks : checks[i].code \in S
  <2>1. DOMAIN checks = 1 .. 5 /\ \A i \in 1 .. 5 : checks[i].code \in S
    BY DEF Token!FormChecks, Token!Check
  <2>. HIDE DEF checks
  <2>. QED  BY <2>1
<1>2. FirstFailure(checks) # NONE
  OBVIOUS
<1>. HIDE DEF checks, S
<1>3. FirstFailure(checks) \in S
  BY <1>1, <1>2, SomeFailure
<1>. QED  BY <1>3 DEF checks, S

LEMMA ExchangeErrors ==
  ASSUME NEW q, FirstFailure(Token!ExchangeChecks(q)) # NONE
  PROVE  FirstFailure(Token!ExchangeChecks(q)) # "consume"
<1>. DEFINE checks == Token!ExchangeChecks(q)
            S == {"invalid_request"}
<1>1. DOMAIN checks \subseteq Nat /\ \A i \in DOMAIN checks : checks[i].code \in S
  BY DEF Token!ExchangeChecks, Token!Check
<1>2. FirstFailure(checks) # NONE
  OBVIOUS
<1>. HIDE DEF checks, S
<1>3. FirstFailure(checks) \in S
  BY <1>1, <1>2, SomeFailure
<1>. QED  BY <1>3 DEF checks, S

LEMMA FormAccepted ==
  ASSUME NEW q
  PROVE  Token!FirstFailure(Token!FormChecks(q)) = NONE <=> Token!WellFormed(q)
<1>. DEFINE checks == Token!FormChecks(q)
<1>1. Token!FirstFailure(checks) = FirstFailure(checks)
  BY DEF Token!FirstFailure, FirstFailure
<1>2. checks =
        <<[fails |-> q["content_type"] # "form", code |-> "invalid_request"],
          [fails |-> q["too_large"], code |-> "invalid_request"],
          [fails |-> \E name \in Token!FormParameters : q[name] = Twice,
           code |-> "invalid_request"],
          [fails |-> q["grant_type"] = NONE, code |-> "invalid_request"],
          [fails |-> q["grant_type"] # "authorization_code",
           code |-> "unsupported_grant_type"]>>
  BY DEF Token!FormChecks, Token!Check
<1>. HIDE DEF checks
<1>3. DOMAIN checks = 1 .. 5
  BY <1>2
<1>4. /\ checks[1].fails <=> q["content_type"] # "form"
      /\ checks[2].fails <=> q["too_large"]
      /\ checks[3].fails <=> \E name \in Token!FormParameters : q[name] = Twice
      /\ checks[4].fails <=> q["grant_type"] = NONE
      /\ checks[5].fails <=> q["grant_type"] # "authorization_code"
  BY <1>2
<1>5. \A i \in 1 .. 5 : checks[i].code \in Codes
  BY <1>2 DEF Codes
<1>6. FirstFailure(checks) = NONE <=> \A i \in 1 .. 5 : ~checks[i].fails
  BY <1>3, <1>5, NoFailure
<1>7. (\A i \in 1 .. 5 : ~checks[i].fails) <=>
        ~checks[1].fails /\ ~checks[2].fails /\ ~checks[3].fails /\ ~checks[4].fails
          /\ ~checks[5].fails
  OBVIOUS
<1>8. (\A i \in 1 .. 5 : ~checks[i].fails) <=> Token!WellFormed(q)
  BY <1>4, <1>7, CallerAssumption DEF Token!WellFormed
<1>. QED  BY <1>1, <1>6, <1>8 DEF checks

LEMMA ExchangeAccepted ==
  ASSUME NEW q, Token!WellFormed(q)
  PROVE  Token!FirstFailure(Token!ExchangeChecks(q)) = NONE <=> Token!Complete(q)
<1>. DEFINE checks == Token!ExchangeChecks(q)
<1>1. Token!FirstFailure(checks) = FirstFailure(checks)
  BY DEF Token!FirstFailure, FirstFailure
<1>2. checks =
        <<[fails |-> ~Token!Required(q, "code"), code |-> "invalid_request"],
          [fails |-> ~Token!Required(q, "redirect_uri"), code |-> "invalid_request"],
          [fails |-> ~Token!Required(q, "code_verifier"), code |-> "invalid_request"]>>
  BY DEF Token!ExchangeChecks, Token!Check
<1>. HIDE DEF checks
<1>3. DOMAIN checks = 1 .. 3
  BY <1>2
<1>4. /\ checks[1].fails <=> ~Token!Required(q, "code")
      /\ checks[2].fails <=> ~Token!Required(q, "redirect_uri")
      /\ checks[3].fails <=> ~Token!Required(q, "code_verifier")
  BY <1>2
<1>5. \A i \in 1 .. 3 : checks[i].code \in Codes
  BY <1>2 DEF Codes
<1>6. FirstFailure(checks) = NONE <=> \A i \in 1 .. 3 : ~checks[i].fails
  BY <1>3, <1>5, NoFailure
<1>7. (\A i \in 1 .. 3 : ~checks[i].fails) <=>
        ~checks[1].fails /\ ~checks[2].fails /\ ~checks[3].fails
  OBVIOUS
<1>8. \A name \in {"code", "redirect_uri", "code_verifier"} :
        Token!Required(q, name) <=> q[name] \notin {NONE, Empty, TooLong}
  BY DEF Token!Required, Token!Given, Token!WellFormed, Token!FormParameters
<1>9. (\A i \in 1 .. 3 : ~checks[i].fails) <=> Token!Complete(q)
  BY <1>4, <1>7, <1>8 DEF Token!Complete
<1>. QED  BY <1>1, <1>6, <1>9 DEF checks

-----------------------------------------------------------------------------
(* Clients. *)

Registry == [DynamicIds -> DynamicClientRecord \cup {NONE}]

(* What administration never changes: that the client exists, and its type. *)
Confidential(reg, id) ==
  IF id \in StaticClients THEN StaticConfig[id].client_type = "confidential"
  ELSE id \in DynamicIds /\ reg[id] # NONE /\ reg[id].client_type = "confidential"

(* find_client finds only ids of the configuration or of the dynamic form,  *)
(* and only a confidential client is found with that type.                  *)
LEMMA Found ==
  ASSUME NEW reg \in Registry, NEW id, Token!find_client(reg, id) # NONE
  PROVE  /\ id # NONE
         /\ Token!find_client(reg, id).client_type = "confidential" => Confidential(reg, id)
<1>1. CASE id \in StaticClients
  BY <1>1, CallerAssumption, ClientAssumption DEF Token!find_client, Confidential
<1>2. CASE id \notin StaticClients
  <2>1. id \in DynamicIds /\ reg[id] # NONE
        /\ Token!find_client(reg, id) = Token!to_client_config(reg[id])
    BY <1>2 DEF Token!find_client, Token!is_dynamic_client_id
  <2>. QED
    BY <1>2, <2>1, CallerAssumption, ClientAssumption DEF Token!to_client_config, Confidential
<1>. QED  BY <1>1, <1>2

(* A confidential client whose secret verifies is found at that moment. *)
LEMMA VerifiedFound ==
  ASSUME NEW reg \in Registry, NEW id, NEW secret, Confidential(reg, id),
         Token!verify_client_secret(reg, id, secret, 0)
  PROVE  /\ Token!find_client(reg, id) # NONE
         /\ Token!find_client(reg, id).client_type = "confidential"
<1>1. CASE id \in StaticClients
  <2>1. StaticConfig[id] \in ClientConfig /\ Token!find_client(reg, id) = StaticConfig[id]
    BY <1>1, StaticAssumption DEF Token!find_client
  <2>. QED  BY <1>1, <2>1, NoRecordAssumption DEF Confidential
<1>2. CASE id \notin StaticClients
  <2>1. id \in DynamicIds /\ reg[id] \in DynamicClientRecord
        /\ reg[id].client_type = "confidential"
    BY <1>2 DEF Confidential, Registry
  <2>2. Token!is_active(reg[id])
    BY <1>2 DEF Token!verify_client_secret, Token!verify_secret
  <2>3. Token!find_client(reg, id) =
          [redirect_uris |-> reg[id].redirect_uris, client_type |-> reg[id].client_type]
    BY <1>2, <2>1, <2>2, NoRecordAssumption
       DEF Token!find_client, Token!is_dynamic_client_id, Token!to_client_config
  <2>4. Token!find_client(reg, id) \in ClientConfig
    BY <2>1, <2>3 DEF ClientConfig, DynamicClientRecord
  <2>. QED  BY <2>1, <2>3, <2>4, NoRecordAssumption
<1>. QED  BY <1>1, <1>2

(* What a request that names a client has presented. *)
LEMMA Claims ==
  ASSUME NEW q, Token!WellFormed(q), Token!ClaimedId(q) # NONE
  PROVE  /\ Token!Basic(q) =>
              /\ q["authorization"] \notin {NONE, Malformed}
              /\ q["client_id"] \in {NONE, q["authorization"].id}
              /\ Token!ClaimedId(q) = q["authorization"].id
         /\ ~Token!Basic(q) =>
              /\ q["authorization"] = NONE
              /\ q["client_id"] # NONE /\ Token!ClaimedId(q) = q["client_id"]
<1>1. Token!single(q, "client_id") = q["client_id"]
  BY DEF Token!WellFormed, Token!FormParameters, Token!single
<1>. QED  BY <1>1 DEF Token!ClaimedId, Token!Basic

(* An authentic client passes both reads. *)
LEMMA AuthenticPasses ==
  ASSUME NEW q, NEW reg \in Registry, Token!WellFormed(q), Token!Authentic(q, reg)
  PROVE  LET id == Token!ClaimedId(q) IN
         /\ id # NONE
         /\ Token!find_client(reg, id) # NONE
         /\ Token!RightMethod(q, Token!find_client(reg, id))
         /\ Token!Basic(q) =>
              Token!verify_client_secret(reg, id, q["authorization"].secret, 0)
<1>1. Token!single(q, "client_id") = q["client_id"]
  BY DEF Token!WellFormed, Token!FormParameters, Token!single
<1>2. CASE q["authorization"] \notin {NONE, Malformed}
  <2>1. Token!ClaimedId(q) = q["authorization"].id /\ Token!Basic(q)
    BY <1>1, <1>2 DEF Token!Authentic, Token!ClaimedId, Token!Basic
  <2>. QED  BY <1>2, <2>1, Found DEF Token!Authentic, Token!RightMethod
<1>3. CASE q["authorization"] = NONE
  BY <1>1, <1>3 DEF Token!Authentic, Token!ClaimedId, Token!Basic, Token!RightMethod
<1>. QED  BY <1>2, <1>3 DEF Token!Authentic

(* disable, enable and rotate_secret keep a record and its client type. *)
LEMMA RecordKept ==
  ASSUME NEW rec \in DynamicClientRecord, NEW r,
         \/ r \in {Token!disable(rec, 0), Token!enable(rec, 0)}
         \/ \E hash \in SecretHashes : r = Token!rotate_secret(rec, hash, 0)
  PROVE  r \in DynamicClientRecord /\ r.client_type = rec.client_type
<1>1. /\ Token!disable(rec, 0) \in DynamicClientRecord
      /\ Token!disable(rec, 0).client_type = rec.client_type
  BY DEF Token!disable, DynamicClientRecord, ClientStatus
<1>2. /\ Token!enable(rec, 0) \in DynamicClientRecord
      /\ Token!enable(rec, 0).client_type = rec.client_type
  BY DEF Token!enable, DynamicClientRecord, ClientStatus
<1>3. ASSUME NEW hash \in SecretHashes
      PROVE  /\ Token!rotate_secret(rec, hash, 0) \in DynamicClientRecord
             /\ Token!rotate_secret(rec, hash, 0).client_type = rec.client_type
  <2>1. 0 + SECRET_ROTATION_OVERLAP_SECS \in Nat
    BY ClientAssumption
  <2>2. CASE rec.client_type # "confidential"
    BY <2>2 DEF Token!rotate_secret
  <2>3. CASE rec.client_type = "confidential"
    BY <2>1, <2>3 DEF Token!rotate_secret, DynamicClientRecord
  <2>. QED  BY <2>2, <2>3
<1>. QED  BY <1>1, <1>2, <1>3

(* An administrative change keeps the registry well-formed, the client and  *)
(* its type.                                                                *)
LEMMA AdministerKeeps ==
  ASSUME registry \in Registry, NEW c \in DynamicIds, Token!Administer(c), NEW id
  PROVE  /\ registry' \in Registry
         /\ Confidential(registry, id) => Confidential(registry', id)
<1>1. PICK r \in {Token!disable(registry[c], 0), Token!enable(registry[c], 0)} \cup
               {Token!rotate_secret(registry[c], Token!sha256_b64url(x), 0) : x \in Secrets} :
        registry' = [registry EXCEPT ![c] = r]
  BY DEF Token!Administer
<1>2. registry[c] # NONE /\ registry[c] \in DynamicClientRecord
  BY DEF Token!Administer, Registry
<1>3. r \in DynamicClientRecord /\ r.client_type = registry[c].client_type
  <2>1. \A x \in Secrets : Token!sha256_b64url(x) \in SecretHashes
    BY DEF Token!sha256_b64url, SecretHashes, sha256_b64url
  <2>2. \/ r \in {Token!disable(registry[c], 0), Token!enable(registry[c], 0)}
        \/ \E hash \in SecretHashes : r = Token!rotate_secret(registry[c], hash, 0)
    BY <1>1, <2>1
  <2>. QED  BY <1>2, <2>2, RecordKept
<1>. QED  BY <1>1, <1>2, <1>3, NoRecordAssumption DEF Registry, Confidential

-----------------------------------------------------------------------------
(* The handler. *)

(* `seen` ends with the present registry; between the two reads the client  *)
(* stays confidential though it may be disabled or get another secret; past *)
(* them it was authentic at one of the moments seen.                        *)
TokenInv ==
  /\ registry \in Registry
  /\ seen \in Seq(Registry) /\ Len(seen) # 0 /\ seen[Len(seen)] = registry
  /\ pc \in {"parse", "find", "verify", "exchange", "done"}
  /\ pc # "done" => answer = NONE
  /\ pc \in {"find", "verify", "exchange"} =>
       Token!WellFormed(request) /\ Token!ClaimedId(request) # NONE
  /\ pc = "verify" => Token!Basic(request) /\ Confidential(registry, Token!ClaimedId(request))
  /\ pc = "exchange" => \E i \in DOMAIN seen : Token!Authentic(request, seen[i])

TokenProps ==
  Token!CodeTouchedByAuthentic /\ Token!FailuresAlike /\ Token!AuthenticServed

TokenCorrect == handler = "POST /token" => TokenInv /\ TokenProps

LEMMA TokenInit == Token!Init => TokenInv /\ TokenProps
<1>. SUFFICES ASSUME Token!Init PROVE TokenInv /\ TokenProps
  OBVIOUS
<1>1. registry \in Registry
  BY CallerAssumption DEF Token!Init, Registry
<1>2. seen \in Seq(Registry) /\ Len(seen) = 1 /\ seen[1] = registry
  BY <1>1 DEF Token!Init
<1>3. TokenInv
  BY <1>1, <1>2 DEF Token!Init, TokenInv
<1>4. answer # "consume" /\ pc # "done"
  BY CallerAssumption DEF Token!Init, Codes
<1>. QED
  BY <1>3, <1>4 DEF TokenProps, Token!CodeTouchedByAuthentic, Token!FailuresAlike,
                    Token!AuthenticServed

(* A step that goes on decides nothing. *)
LEMMA Undecided ==
  ASSUME pc' # "done", answer' = NONE
  PROVE  TokenProps'
BY CallerAssumption DEF TokenProps, Token!CodeTouchedByAuthentic, Token!FailuresAlike,
                        Token!AuthenticServed, Codes

(* The present registry is one of those seen. *)
LEMMA PresentSeen ==
  ASSUME TokenInv
  PROVE  Len(seen) \in DOMAIN seen /\ seen[Len(seen)] = registry
BY DEF TokenInv

(* A client that was turned away was not authentic at this moment. *)
LEMMA TurnsAway ==
  ASSUME TokenInv, Token!Answer("invalid_client"), UNCHANGED <<registry, request, seen>>,
         Token!WellFormed(request) => ~Token!Authentic(request, registry)
  PROVE  (TokenInv /\ TokenProps)'
<1>1. answer' = "invalid_client" /\ pc' = "done"
  BY DEF Token!Answer
<1>2. TokenInv'
  BY <1>1 DEF TokenInv
<1>3. Token!CodeTouchedByAuthentic' /\ Token!FailuresAlike'
  BY <1>1 DEF Token!CodeTouchedByAuthentic, Token!FailuresAlike
<1>4. Token!AuthenticServed'
  BY <1>1, PresentSeen DEF Token!AuthenticServed
<1>. QED  BY <1>2, <1>3, <1>4 DEF TokenProps

LEMMA RegistryError ==
  ASSUME TokenInv, Token!Answer("server_error"), UNCHANGED <<registry, request, seen>>
  PROVE  (TokenInv /\ TokenProps)'
BY DEF Token!Answer, TokenInv, TokenProps, Token!CodeTouchedByAuthentic,
       Token!FailuresAlike, Token!AuthenticServed

LEMMA ParseStep ==
  ASSUME TokenInv, Token!Parse
  PROVE  (TokenInv /\ TokenProps)'
<1>. DEFINE error == Token!FirstFailure(Token!FormChecks(request))
<1>1. pc = "parse" /\ UNCHANGED <<registry, request, seen>>
  BY DEF Token!Parse
<1>2. CASE error # NONE
  <2>1. ~Token!WellFormed(request)
    BY <1>2, FormAccepted
  <2>2. answer' = error /\ pc' = "done"
    BY <1>2 DEF Token!Parse, Token!Answer
  <2>3. error # "consume"
    <3>1. error = FirstFailure(Token!FormChecks(request))
      BY DEF Token!FirstFailure, FirstFailure
    <3>. QED  BY <1>2, <3>1, FormErrors
  <2>. QED
    BY <1>1, <2>1, <2>2, <2>3 DEF TokenInv, TokenProps, Token!CodeTouchedByAuthentic,
       Token!FailuresAlike, Token!AuthenticServed
<1>3. CASE error = NONE /\ Token!ClaimedId(request) = NONE
  <2>1. Token!Answer("invalid_client")
    BY <1>3 DEF Token!Parse
  <2>2. Token!WellFormed(request) => ~Token!Authentic(request, registry)
    BY <1>3, AuthenticPasses DEF TokenInv
  <2>. QED  BY <1>1, <2>1, <2>2, TurnsAway
<1>4. CASE error = NONE /\ Token!ClaimedId(request) # NONE
  <2>1. pc' = "find" /\ answer' = answer
    BY <1>4 DEF Token!Parse, Token!Continue
  <2>2. Token!WellFormed(request)
    BY <1>4, FormAccepted
  <2>3. answer' = NONE
    BY <1>1, <2>1 DEF TokenInv
  <2>4. TokenProps'
    BY <2>1, <2>3, Undecided
  <2>. QED  BY <1>1, <1>4, <2>1, <2>2, <2>3, <2>4 DEF TokenInv
<1>. QED  BY <1>2, <1>3, <1>4

LEMMA FindStep ==
  ASSUME TokenInv, Token!Find
  PROVE  (TokenInv /\ TokenProps)'
<1>. DEFINE id == Token!ClaimedId(request)
            client == Token!find_client(registry, id)
            ok == client # NONE /\ Token!RightMethod(request, client)
<1>1. /\ pc = "find" /\ UNCHANGED <<registry, request, seen>>
      /\ Token!WellFormed(request) /\ id # NONE /\ registry \in Registry
  BY DEF Token!Find, TokenInv
<1>2. CASE Token!RegistryFails(id)
  BY <1>1, <1>2, RegistryError DEF Token!RegistryFails
<1>3. CASE ~ok /\ Token!Answer("invalid_client")
  BY <1>1, <1>3, AuthenticPasses, TurnsAway
<1>4. CASE ok /\ Token!Continue(IF Token!Basic(request) THEN "verify" ELSE "exchange")
  <2>1. /\ pc' = IF Token!Basic(request) THEN "verify" ELSE "exchange"
        /\ answer' = NONE
    BY <1>1, <1>4 DEF Token!Continue, TokenInv
  <2>2. TokenProps'
    BY <2>1, Undecided
  <2>3. CASE Token!Basic(request)
    <3>1. Confidential(registry, id)
      BY <1>1, <1>4, <2>3, Found DEF Token!RightMethod
    <3>. QED  BY <1>1, <2>1, <2>2, <2>3, <3>1 DEF TokenInv
  <2>4. CASE ~Token!Basic(request)
    <3>1. Token!Authentic(request, registry)
      BY <1>1, <1>4, <2>4, Claims DEF Token!RightMethod, Token!Authentic
    <3>2. \E i \in DOMAIN seen : Token!Authentic(request, seen[i])
      BY <3>1, PresentSeen
    <3>. QED  BY <1>1, <2>1, <2>2, <2>4, <3>2 DEF TokenInv
  <2>. QED  BY <2>3, <2>4
<1>. QED  BY <1>2, <1>3, <1>4 DEF Token!Find

LEMMA VerifyStep ==
  ASSUME TokenInv, Token!Verify
  PROVE  (TokenInv /\ TokenProps)'
<1>. DEFINE id == Token!ClaimedId(request)
            secret == request["authorization"].secret
            ok == Token!verify_client_secret(registry, id, secret, 0)
<1>1. /\ pc = "verify" /\ UNCHANGED <<registry, request, seen>>
      /\ Token!WellFormed(request) /\ id # NONE /\ registry \in Registry
      /\ Token!Basic(request) /\ Confidential(registry, id)
  BY DEF Token!Verify, TokenInv
<1>2. CASE Token!RegistryFails(id)
  BY <1>1, <1>2, RegistryError DEF Token!RegistryFails
<1>3. CASE ~ok /\ Token!Answer("invalid_client")
  BY <1>1, <1>3, AuthenticPasses, TurnsAway
<1>4. CASE ok /\ Token!Continue("exchange")
  <2>1. pc' = "exchange" /\ answer' = NONE
    BY <1>1, <1>4 DEF Token!Continue, TokenInv
  <2>2. TokenProps'
    BY <2>1, Undecided
  <2>3. /\ Token!find_client(registry, id) # NONE
        /\ Token!find_client(registry, id).client_type = "confidential"
    BY <1>1, <1>4, VerifiedFound
  <2>4. Token!Authentic(request, registry)
    BY <1>1, <1>4, <2>3, Claims DEF Token!Authentic
  <2>5. \E i \in DOMAIN seen : Token!Authentic(request, seen[i])
    BY <2>4, PresentSeen
  <2>. QED  BY <1>1, <2>1, <2>2, <2>5 DEF TokenInv
<1>. QED  BY <1>2, <1>3, <1>4 DEF Token!Verify

LEMMA ExchangeStep ==
  ASSUME TokenInv, Token!Exchange
  PROVE  (TokenInv /\ TokenProps)'
<1>. DEFINE error == Token!FirstFailure(Token!ExchangeChecks(request))
<1>1. /\ pc = "exchange" /\ UNCHANGED <<registry, request, seen>>
      /\ Token!WellFormed(request) /\ Token!ClaimedId(request) # NONE
      /\ \E i \in DOMAIN seen : Token!Authentic(request, seen[i])
  BY DEF Token!Exchange, TokenInv
<1>2. /\ pc' = "done"
      /\ answer' = IF error # NONE THEN error ELSE "consume"
  BY DEF Token!Exchange, Token!Answer
<1>3. error = NONE <=> Token!Complete(request)
  BY <1>1, ExchangeAccepted
<1>4. error # NONE => error # "consume"
  <2>1. error = FirstFailure(Token!ExchangeChecks(request))
    BY DEF Token!FirstFailure, FirstFailure
  <2>. QED  BY <2>1, ExchangeErrors
<1>5. TokenInv'
  BY <1>1, <1>2 DEF TokenInv
<1>6. Token!CodeTouchedByAuthentic'
  BY <1>1, <1>2, <1>3, <1>4, Claims DEF Token!CodeTouchedByAuthentic, Token!Basic
<1>7. Token!FailuresAlike'
  BY <1>1 DEF Token!FailuresAlike
<1>8. Token!AuthenticServed'
  BY <1>1, <1>2, <1>3 DEF Token!AuthenticServed
<1>. QED  BY <1>5, <1>6, <1>7, <1>8 DEF TokenProps

LEMMA AdministerStep ==
  ASSUME TokenInv, NEW c \in DynamicIds, Token!Administer(c)
  PROVE  (TokenInv /\ TokenProps)'
<1>1. /\ pc \in {"find", "verify"} /\ UNCHANGED <<request, pc, answer>>
      /\ seen' = Append(seen, registry') /\ registry \in Registry
  BY DEF Token!Administer, TokenInv
<1>2. registry' \in Registry
  BY <1>1, AdministerKeeps
<1>3. seen' \in Seq(Registry) /\ Len(seen') # 0 /\ seen'[Len(seen')] = registry'
  <2>1. seen \in Seq(Registry)
    BY DEF TokenInv
  <2>. QED  BY <1>1, <1>2, <2>1, AppendProperties
<1>4. Confidential(registry, Token!ClaimedId(request)) =>
        Confidential(registry', Token!ClaimedId(request))
  BY <1>1, AdministerKeeps
<1>5. TokenProps'
  BY <1>1, Undecided DEF TokenInv
<1>. QED  BY <1>1, <1>2, <1>3, <1>4, <1>5 DEF TokenInv

LEMMA TokenInvariance == Spec => []TokenCorrect
<1>1. Init => TokenCorrect
  BY TokenInit DEF Init, GetAuthorize, GetCallback, PostToken, AnyAdmin, TokenCorrect
<1>2. TokenCorrect /\ [Next]_vars => TokenCorrect'
  <2>. SUFFICES ASSUME TokenCorrect, [Next]_vars, handler' = "POST /token"
                PROVE  (TokenInv /\ TokenProps)'
    BY DEF TokenCorrect
  <2>1. handler = "POST /token" /\ (Token!Next \/ UNCHANGED vars)
    BY DEF Next, vars
  <2>2. CASE Token!Next
    BY <2>1, <2>2, ParseStep, FindStep, VerifyStep, ExchangeStep, AdministerStep
       DEF Token!Next, TokenCorrect
  <2>3. CASE UNCHANGED vars
    BY <2>1, <2>3 DEF vars, TokenCorrect, TokenInv, TokenProps,
       Token!CodeTouchedByAuthentic, Token!FailuresAlike, Token!AuthenticServed
  <2>. QED  BY <2>1, <2>2, <2>3
<1>. QED  BY <1>1, <1>2, PTL DEF Spec

(* POST /token touches a code only for a complete request of a client that  *)
(* was authentic at some moment of the request, however operators changed   *)
(* the registry between its two reads (authenticate_client).                *)
THEOREM CodesGuarded == Spec => []CodeTouchedByAuthentic
<1>1. TokenCorrect => CodeTouchedByAuthentic
  BY DEF TokenCorrect, TokenProps, CodeTouchedByAuthentic
<1>. QED  BY TokenInvariance, <1>1, PTL

(* A client that is at no moment authentic is told invalid_client, or that  *)
(* the registry failed, whatever code and parameters it sends               *)
(* (authenticate_client, handle_token).                                     *)
THEOREM StrangersLearnNothing == Spec => []FailuresAlike
<1>1. TokenCorrect => FailuresAlike
  BY DEF TokenCorrect, TokenProps, FailuresAlike
<1>. QED  BY TokenInvariance, <1>1, PTL

(* A client that is authentic at every moment of a complete request gets to *)
(* its code unless the registry cannot be reached (authenticate_client).    *)
THEOREM ClientsServed == Spec => []AuthenticServed
<1>1. TokenCorrect => AuthenticServed
  BY DEF TokenCorrect, TokenProps, AuthenticServed
<1>. QED  BY TokenInvariance, <1>1, PTL
=============================================================================
