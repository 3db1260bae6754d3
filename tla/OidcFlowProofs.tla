--------------------------- MODULE OidcFlowProofs ---------------------------
(***************************************************************************)
(* Proofs about OidcFlow, for every number of requests, every set of       *)
(* clients, users and secrets, every lifetime and every bound.             *)
(***************************************************************************)
EXTENDS OidcFlow, SequenceTheorems, TLAPS

(* The callback holds a transaction it took, or has answered with one. *)
Holding == {"resolve", "exchange", "user", "guild", "store"}
Took == Holding \cup CallbackRedirects

(* What the login's records are made of. *)
TxOf(a) == NewTransaction(authz[a].input, a, authz[a].now)
CodeOf(b) == issue_code(callback[b].tx, callback[b].user, b, callback[b].now)
CheckOf(t) ==
  [client_id |-> token[t].presented.client_id,
   redirect_uri |-> token[t].presented.redirect_uri,
   code_verifier |-> token[t].presented.code_verifier]

(* A request that has begun carries what it began with: a callback a state  *)
(* that went out to Discord, a token request a code that went out to an RP. *)
StartedInv ==
  /\ version >= 1
  /\ \A a \in AuthorizeReqs : authz[a].pc # "idle" => authz[a].input \in AuthorizeInputs
  /\ \A b \in CallbackReqs : callback[b].pc # "idle" =>
       /\ callback[b].state \in AuthorizeReqs
       /\ callback[b].user \in Subjects
       /\ authz[callback[b].state].pc = "discord"
       /\ callback[b].since \in 1..version
       /\ callback[b].pc \in Holding =>
            callback[b].tx \in AuthorizationTransaction(AuthorizeReqs)
  /\ \A t \in TokenReqs : token[t].pc # "idle" =>
       /\ token[t].code \in CallbackReqs
       /\ token[t].presented \in Presentations
       /\ callback[token[t].code].pc = "redirect_code"
       /\ token[t].since \in 1..version

(* The transaction of a login exists once: in storage, or with the one      *)
(* callback that took it in time; it is what the /authorize request put,    *)
(* and what a redirect is made from.                                        *)
TransactionInv ==
  /\ \A a \in AuthorizeReqs : transactions[a] # NONE =>
       authz[a].pc \in {"discord", "page"} /\ transactions[a] = TxOf(a)
  /\ \A b \in CallbackReqs : callback[b].pc \in Took =>
       transactions[callback[b].state] = NONE
  /\ \A b1, b2 \in CallbackReqs :
       callback[b1].pc \in Took /\ callback[b2].pc \in Took
         /\ callback[b1].state = callback[b2].state => b1 = b2
  /\ \A b \in CallbackReqs :
       callback[b].pc \in Holding \cup {"redirect_code", "redirect_error"} =>
         /\ callback[b].tx = TxOf(callback[b].state)
         /\ ~is_expired(callback[b].tx, callback[b].now)
  /\ \A b \in CallbackReqs : callback[b].pc \in CallbackRedirects =>
       callback[b].sent = RedirectTo(TxOf(callback[b].state))
  /\ \A b \in CallbackReqs : callback[b].pc = "store" => callback[b].user \in Members

(* The code of a login exists once: in storage, or with the one token       *)
(* request that consumed it with a check that passed.                       *)
CodeInv ==
  /\ \A b \in CallbackReqs : codes[sha256_b64url(b)] # NONE =>
       /\ callback[b].pc \in {"redirect_code", "redirect_error"}
       /\ codes[sha256_b64url(b)] = CodeOf(b)
       /\ callback[b].user \in Members
  /\ \A t \in TokenReqs : token[t].pc \in {"sign", "token"} =>
       /\ codes[sha256_b64url(token[t].code)] = NONE
       /\ token[t].record = CodeOf(token[t].code)
       /\ callback[token[t].code].user \in Members
       /\ evaluate_code_exchange(token[t].record, CheckOf(t), token[t].now) = "Ok"
  /\ \A t1, t2 \in TokenReqs :
       token[t1].pc \in {"sign", "token"} /\ token[t2].pc \in {"sign", "token"}
         /\ token[t1].code = token[t2].code => t1 = t2

(* At some moment between `since` and `upto` the client had the URI. *)
RedirectWindow(b, upto) ==
  \E i \in callback[b].since .. upto :
    RegisteredIn(i, callback[b].tx.oidc_client_id, callback[b].tx.redirect_uri)

(* At registry version i the token request authenticates its client. *)
Authenticates(t, i) ==
  LET p == token[t].presented
      config == find_client(versions[i], p.client_id)
  IN
  /\ config # NONE
  /\ IF p.secret = NONE
     THEN config.client_type = "public"
     ELSE verify_client_secret(versions[i], p.client_id, p.secret, token[t].now)

(* A handler past a registry check still has a version to show for it. *)
RegistryInv ==
  /\ \A b \in CallbackReqs :
       /\ callback[b].pc \in {"exchange", "user", "guild", "store"} =>
            RedirectWindow(b, version)
       /\ callback[b].pc \in {"redirect_code", "redirect_error"} =>
            callback[b].upto <= version /\ RedirectWindow(b, callback[b].upto)
  /\ \A t \in TokenReqs :
       /\ token[t].pc = "verify" => token[t].presented.secret # NONE
       /\ token[t].pc \in {"consume", "sign"} =>
            \E i \in token[t].since .. version : Authenticates(t, i)
       /\ token[t].pc = "token" =>
            /\ token[t].upto <= version
            /\ \E i \in token[t].since .. token[t].upto : Authenticates(t, i)

-----------------------------------------------------------------------------
(* The records. *)

(* The transaction of a validated request is well formed. *)
LEMMA NewTransactionType ==
  ASSUME NEW v \in AuthorizeInputs, NEW a \in AuthorizeReqs, NEW now \in Nat
  PROVE  NewTransaction(v, a, now) \in AuthorizationTransaction(AuthorizeReqs)
BY TtlAssumption, FlowAssumption
   DEF NewTransaction, AuthorizationTransaction, ValidatedAuthorize

(* So is the code issued from it. *)
LEMMA IssueCodeType ==
  ASSUME NEW tx \in AuthorizationTransaction(AuthorizeReqs), NEW b \in CallbackReqs,
         NEW u \in Subjects, NEW now \in Nat
  PROVE  issue_code(tx, u, b, now) \in StoredAuthorizationCode(Hashes)
BY TtlAssumption
   DEF issue_code, AuthorizationTransaction, StoredAuthorizationCode, Hashes

(* The codes of two callbacks have different hashes. *)
LEMMA CodeHashes ==
  /\ \A b \in CallbackReqs : sha256_b64url(b) \in Hashes
  /\ \A b1, b2 \in CallbackReqs : sha256_b64url(b1) = sha256_b64url(b2) => b1 = b2
BY DEF Hashes, sha256_b64url

(* The current registry is one of the recorded ones. *)
LEMMA RegistryType ==
  ASSUME TypeOK, version >= 1
  PROVE  /\ version \in Nat
         /\ registry \in [DynamicIds -> DynamicClientRecord \cup {NONE}]
BY DEF TypeOK, version, registry

(* What an operator stores is a well formed record. *)
LEMMA AdminRecordType ==
  ASSUME NEW rec \in DynamicClientRecord, NEW now \in Nat
  PROVE  /\ disable(rec, now) \in DynamicClientRecord
         /\ enable(rec, now) \in DynamicClientRecord
         /\ \A uris \in SUBSET RedirectUris :
              apply_metadata(rec, uris, now) \in DynamicClientRecord
         /\ \A s \in Secrets :
              rotate_secret(rec, sha256_b64url(s), now) \in DynamicClientRecord
<1>1. disable(rec, now) \in DynamicClientRecord
  BY DEF disable, DynamicClientRecord, ClientStatus
<1>2. enable(rec, now) \in DynamicClientRecord
  BY DEF enable, DynamicClientRecord, ClientStatus
<1>3. ASSUME NEW uris \in SUBSET RedirectUris
      PROVE  apply_metadata(rec, uris, now) \in DynamicClientRecord
  BY DEF apply_metadata, DynamicClientRecord
<1>4. now + SECRET_ROTATION_OVERLAP_SECS \in Nat
  BY ClientAssumption
<1>5. ASSUME NEW s \in Secrets
      PROVE  rotate_secret(rec, sha256_b64url(s), now) \in DynamicClientRecord
  <2>1. sha256_b64url(s) \in SecretHashes
    BY DEF SecretHashes
  <2> QED BY <1>4, <2>1 DEF rotate_secret, DynamicClientRecord
<1> QED BY <1>1, <1>2, <1>3, <1>5

-----------------------------------------------------------------------------
(* What one step of a handler does. *)

(* A step of /authorize moves its own request and at most puts its own      *)
(* transaction, which it does from "put" only.                              *)
LEMMA AuthorizeEffect ==
  ASSUME TypeOK, NEW a \in AuthorizeReqs, AuthorizeStep(a)
  PROVE  LET q == authz[a]
             q2 == authz'[a]
         IN
         /\ UNCHANGED <<clock, versions, codes, callback, token>>
         /\ authz' \in [AuthorizeReqs -> AuthorizeRequest]
         /\ \A x \in AuthorizeReqs : x # a => authz'[x] = authz[x]
         /\ q2.now = q.now /\ q2.input = q.input
         /\ \/ /\ q.pc = "resolve" /\ q2.pc \in {"page", "redirect_error", "put"}
               /\ UNCHANGED transactions
            \/ /\ q.pc = "put" /\ q2.pc \in {"discord", "page"}
               /\ transactions' = [transactions EXCEPT ![a] = TxOf(a)]
            \/ /\ q.pc = "put" /\ q2.pc = "page"
               /\ UNCHANGED transactions
<1>a. authz[a] \in AuthorizeRequest
  BY DEF TypeOK
<1>b. ASSUME NEW pc \in {"put"} \cup AuthorizeAnswers, authz' = [authz EXCEPT ![a].pc = pc]
      PROVE  /\ authz' \in [AuthorizeReqs -> AuthorizeRequest]
             /\ \A x \in AuthorizeReqs : x # a => authz'[x] = authz[x]
             /\ authz'[a].now = authz[a].now /\ authz'[a].input = authz[a].input
             /\ authz'[a].pc = pc
  BY <1>a, <1>b DEF TypeOK, AuthorizeRequest
<1>1. CASE AuthorizeResolve(a)
  <2>1. PICK pc \in {"page", "redirect_error", "put"} : authz' = [authz EXCEPT ![a].pc = pc]
    BY <1>1 DEF AuthorizeResolve
  <2>2. /\ authz[a].pc = "resolve"
        /\ UNCHANGED <<clock, versions, transactions, codes, callback, token>>
    BY <1>1 DEF AuthorizeResolve, store
  <2> QED BY <1>b, <2>1, <2>2 DEF AuthorizeAnswers
<1>2. CASE AuthorizePut(a)
  <2>1. authz[a].pc = "put" /\ UNCHANGED <<clock, versions, codes, callback, token>>
    BY <1>2 DEF AuthorizePut
  <2>2. \/ /\ transactions' = [transactions EXCEPT ![a] = TxOf(a)]
           /\ authz' = [authz EXCEPT ![a].pc = "discord"]
        \/ /\ \/ transactions' = [transactions EXCEPT ![a] = TxOf(a)]
              \/ UNCHANGED transactions
           /\ authz' = [authz EXCEPT ![a].pc = "page"]
    BY <1>2 DEF AuthorizePut, StoreError, TxOf
  <2> QED BY <1>b, <2>1, <2>2 DEF AuthorizeAnswers
<1> QED BY <1>1, <1>2 DEF AuthorizeStep

(* The callback handler moves to pc and keeps what it began with. *)
CallbackMoved(b, pc, tx, sent, upto) ==
  /\ callback' \in [CallbackReqs -> CallbackRequest]
  /\ \A x \in CallbackReqs : x # b => callback'[x] = callback[x]
  /\ callback'[b].pc = pc /\ callback'[b].tx = tx
  /\ callback'[b].sent = sent /\ callback'[b].upto = upto
  /\ callback'[b].now = callback[b].now /\ callback'[b].state = callback[b].state
  /\ callback'[b].user = callback[b].user /\ callback'[b].since = callback[b].since

(* It has four ways to do so. *)
LEMMA CallbackMoves ==
  ASSUME TypeOK, NEW b \in CallbackReqs, NEW pc \in Holding \cup CallbackAnswers
  PROVE  LET q == callback[b] IN
         /\ CallbackAnswer(b, pc) => CallbackMoved(b, pc, q.tx, q.sent, version)
         /\ CallbackProceed(b, pc) => CallbackMoved(b, pc, q.tx, q.sent, q.upto)
         /\ \A tx \in AuthorizationTransaction(AuthorizeReqs) :
              /\ CallbackRedirect(b, pc, tx) =>
                   CallbackMoved(b, pc, q.tx, RedirectTo(tx), version)
              /\ callback' = [callback EXCEPT ![b] = [@ EXCEPT !.pc = pc, !.tx = tx]] =>
                   CallbackMoved(b, pc, tx, q.sent, q.upto)
<1>1. callback[b] \in CallbackRequest /\ version \in Nat
  BY DEF TypeOK, version
<1>2. ASSUME CallbackAnswer(b, pc)
      PROVE  CallbackMoved(b, pc, callback[b].tx, callback[b].sent, version)
  <2>1. [callback[b] EXCEPT !.pc = pc, !.upto = version] \in CallbackRequest
    BY <1>1 DEF CallbackRequest, Holding, CallbackAnswers
  <2>2. callback'[b] = [callback[b] EXCEPT !.pc = pc, !.upto = version]
    BY <1>2 DEF CallbackAnswer, TypeOK
  <2> QED BY <1>1, <1>2, <2>1, <2>2 DEF CallbackAnswer, CallbackMoved, TypeOK, CallbackRequest
<1>3. ASSUME CallbackProceed(b, pc)
      PROVE  CallbackMoved(b, pc, callback[b].tx, callback[b].sent, callback[b].upto)
  <2>1. [callback[b] EXCEPT !.pc = pc] \in CallbackRequest
    BY <1>1 DEF CallbackRequest, Holding, CallbackAnswers
  <2>2. callback'[b] = [callback[b] EXCEPT !.pc = pc]
    BY <1>3 DEF CallbackProceed, TypeOK
  <2> QED BY <1>1, <1>3, <2>1, <2>2 DEF CallbackProceed, CallbackMoved, TypeOK, CallbackRequest
<1>4. ASSUME NEW tx \in AuthorizationTransaction(AuthorizeReqs),
             callback' = [callback EXCEPT ![b] = [@ EXCEPT !.pc = pc, !.tx = tx]]
      PROVE  CallbackMoved(b, pc, tx, callback[b].sent, callback[b].upto)
  <2>1. [callback[b] EXCEPT !.pc = pc, !.tx = tx] \in CallbackRequest
    BY <1>1 DEF CallbackRequest, Holding, CallbackAnswers
  <2>2. callback'[b] = [callback[b] EXCEPT !.pc = pc, !.tx = tx]
    BY <1>4 DEF TypeOK
  <2> QED BY <1>1, <1>4, <2>1, <2>2 DEF CallbackMoved, TypeOK, CallbackRequest
<1>5. ASSUME NEW tx \in AuthorizationTransaction(AuthorizeReqs), CallbackRedirect(b, pc, tx)
      PROVE  CallbackMoved(b, pc, callback[b].tx, RedirectTo(tx), version)
  <2> DEFINE to == RedirectTo(tx)
  <2>1. to \in [redirect_uri : RedirectUris, state : RpStates \cup {NONE}]
    BY DEF RedirectTo, AuthorizationTransaction
  <2>2. callback' = [callback EXCEPT ![b] =
                       [@ EXCEPT !.pc = pc, !.upto = version, !.sent = to]]
    BY <1>5 DEF CallbackRedirect
  <2> HIDE DEF to
  <2>3. [callback[b] EXCEPT !.pc = pc, !.upto = version, !.sent = to] \in CallbackRequest
    BY <1>1, <2>1 DEF CallbackRequest, Holding, CallbackAnswers
  <2>4. callback'[b] = [callback[b] EXCEPT !.pc = pc, !.upto = version, !.sent = to]
    BY <2>2 DEF TypeOK
  <2>5. CallbackMoved(b, pc, callback[b].tx, to, version)
    BY <1>1, <2>2, <2>3, <2>4 DEF CallbackMoved, TypeOK, CallbackRequest
  <2> QED BY <2>5 DEF to
<1> QED BY <1>2, <1>3, <1>4, <1>5

(* A step of the callback handler moves its own request; it takes only its  *)
(* own transaction and stores only its own code.                            *)
CallbackEffect(b) ==
  LET q == callback[b]
      config == find_client(registry, q.tx.oidc_client_id)
      taken == transactions' = [transactions EXCEPT ![q.state] = NONE]
      put == codes' = [codes EXCEPT ![sha256_b64url(b)] = CodeOf(b)]
  IN
  /\ UNCHANGED <<clock, versions, authz, token>>
  /\ \/ /\ q.pc = "take" /\ CallbackMoved(b, "page", q.tx, q.sent, version)
        /\ taken \/ UNCHANGED transactions
        /\ UNCHANGED codes
     \/ /\ q.pc = "take"
        /\ CallbackMoved(b, "redirect_expired", q.tx, RedirectTo(transactions[q.state]), version)
        /\ transactions[q.state] # NONE /\ taken
        /\ UNCHANGED codes
     \/ /\ q.pc = "take" /\ CallbackMoved(b, "resolve", transactions[q.state], q.sent, q.upto)
        /\ transactions[q.state] # NONE /\ taken
        /\ ~is_expired(transactions[q.state], q.now)
        /\ UNCHANGED codes
     \/ /\ q.pc = "resolve" /\ CallbackMoved(b, "page", q.tx, q.sent, version)
        /\ UNCHANGED <<transactions, codes>>
     \/ /\ q.pc = "resolve" /\ Registered(config, q.tx.redirect_uri)
        /\ \/ CallbackMoved(b, "redirect_error", q.tx, RedirectTo(q.tx), version)
           \/ CallbackMoved(b, "exchange", q.tx, q.sent, q.upto)
        /\ UNCHANGED <<transactions, codes>>
     \/ /\ q.pc \in {"exchange", "user", "guild"}
        /\ \/ CallbackMoved(b, "redirect_error", q.tx, RedirectTo(q.tx), version)
           \/ CallbackMoved(b, "user", q.tx, q.sent, q.upto)
           \/ CallbackMoved(b, "guild", q.tx, q.sent, q.upto)
           \/ q.user \in Members /\ CallbackMoved(b, "store", q.tx, q.sent, q.upto)
        /\ UNCHANGED <<transactions, codes>>
     \/ /\ q.pc = "store" /\ CallbackMoved(b, "redirect_code", q.tx, RedirectTo(q.tx), version)
        /\ put /\ UNCHANGED transactions
     \/ /\ q.pc = "store" /\ CallbackMoved(b, "redirect_error", q.tx, RedirectTo(q.tx), version)
        /\ put \/ UNCHANGED codes
        /\ UNCHANGED transactions

(* Every step of the callback handler (callback.rs) has that effect. *)
LEMMA CallbackStepEffect ==
  ASSUME TypeOK, StartedInv, NEW b \in CallbackReqs, CallbackStep(b)
  PROVE  CallbackEffect(b)
<1> DEFINE q == callback[b]
           ErrorSent == CallbackMoved(b, "redirect_error", q.tx, RedirectTo(q.tx), version)
           CodeSent == CallbackMoved(b, "redirect_code", q.tx, RedirectTo(q.tx), version)
<1>a. {"page", "redirect_expired", "redirect_error", "redirect_code"} = CallbackAnswers
  BY DEF CallbackAnswers, CallbackRedirects
<1>b. ASSUME q.pc # "idle" PROVE q.state \in AuthorizeReqs
  BY <1>b DEF StartedInv
<1>c. /\ CallbackAnswer(b, "page") => CallbackMoved(b, "page", q.tx, q.sent, version)
      /\ \A pc \in Holding : CallbackProceed(b, pc) =>
           CallbackMoved(b, pc, q.tx, q.sent, q.upto)
  BY <1>a, CallbackMoves
<1>d. ASSUME q.pc \in Holding
      PROVE  /\ CallbackRedirect(b, "redirect_error", q.tx) => ErrorSent
             /\ CallbackRedirect(b, "redirect_code", q.tx) => CodeSent
  <2>1. q.tx \in AuthorizationTransaction(AuthorizeReqs)
    BY <1>d DEF StartedInv, Holding
  <2> QED BY <1>a, <2>1, CallbackMoves
<1>1. CASE CallbackTake(b)
  <2>1. q.pc = "take" /\ UNCHANGED <<clock, versions, codes, authz, token>>
    BY <1>1 DEF CallbackTake
  <2>2. transactions[q.state] # NONE =>
          transactions[q.state] \in AuthorizationTransaction(AuthorizeReqs)
    BY <1>b, <2>1 DEF TypeOK
  <2> DEFINE tx == transactions[q.state]
             take == transactions' = [transactions EXCEPT ![q.state] = NONE]
  <2>3. \/ (take \/ UNCHANGED transactions) /\ CallbackAnswer(b, "page")
        \/ tx = NONE /\ UNCHANGED transactions /\ CallbackAnswer(b, "page")
        \/ tx # NONE /\ take /\ CallbackRedirect(b, "redirect_expired", tx)
        \/ /\ tx # NONE /\ take /\ ~is_expired(tx, q.now)
           /\ callback' = [callback EXCEPT ![b] = [@ EXCEPT !.pc = "resolve", !.tx = tx]]
    BY <1>1 DEF CallbackTake, StoreError
  <2>4. /\ tx # NONE /\ CallbackRedirect(b, "redirect_expired", tx) =>
             CallbackMoved(b, "redirect_expired", q.tx, RedirectTo(tx), version)
        /\ tx # NONE /\ callback' = [callback EXCEPT ![b] = [@ EXCEPT !.pc = "resolve", !.tx = tx]]
             => CallbackMoved(b, "resolve", tx, q.sent, q.upto)
    BY <1>a, <2>2, CallbackMoves DEF Holding
  <2> QED BY <1>c, <2>1, <2>3, <2>4 DEF CallbackEffect
<1>2. CASE CallbackResolve(b)
  BY <1>2, <1>c, <1>d DEF CallbackResolve, CallbackEffect, store, Holding
<1>3. CASE CallbackDiscord(b) \/ CallbackGuild(b)
  BY <1>3, <1>c, <1>d DEF CallbackDiscord, CallbackGuild, CallbackEffect, store, Holding
<1>4. CASE CallbackStore(b)
  <2>1. CodeOf(b).code_hash = sha256_b64url(b)
    BY DEF CodeOf, issue_code
  <2>2. /\ q.pc = "store" /\ UNCHANGED <<clock, versions, transactions, authz, token>>
        /\ \/ /\ codes' = [codes EXCEPT ![CodeOf(b).code_hash] = CodeOf(b)]
              /\ CallbackRedirect(b, "redirect_code", q.tx)
           \/ /\ \/ codes' = [codes EXCEPT ![CodeOf(b).code_hash] = CodeOf(b)]
                 \/ UNCHANGED codes
              /\ CallbackRedirect(b, "redirect_error", q.tx)
    BY <1>4 DEF CallbackStore, CodeOf, StoreError
  <2> QED BY <1>d, <2>1, <2>2 DEF CallbackEffect, Holding
<1> QED BY <1>1, <1>2, <1>3, <1>4 DEF CallbackStep

(* The token handler moves to pc and keeps what it began with. *)
TokenMoved(t, pc, record, upto) ==
  /\ token' \in [TokenReqs -> TokenRequest]
  /\ \A x \in TokenReqs : x # t => token'[x] = token[x]
  /\ token'[t].pc = pc /\ token'[t].record = record /\ token'[t].upto = upto
  /\ token'[t].now = token[t].now /\ token'[t].code = token[t].code
  /\ token'[t].presented = token[t].presented /\ token'[t].since = token[t].since

(* It has three ways to do so. *)
LEMMA TokenMoves ==
  ASSUME TypeOK, NEW t \in TokenReqs,
         NEW pc \in {"verify", "consume", "sign"} \cup TokenAnswers
  PROVE  /\ TokenAnswer(t, pc) => TokenMoved(t, pc, token[t].record, version)
         /\ TokenProceed(t, pc) => TokenMoved(t, pc, token[t].record, token[t].upto)
         /\ \A record \in StoredAuthorizationCode(Hashes) :
              token' = [token EXCEPT ![t] = [@ EXCEPT !.pc = pc, !.record = record]] =>
                TokenMoved(t, pc, record, token[t].upto)
<1>1. token[t] \in TokenRequest /\ version \in Nat
  BY DEF TypeOK, version
<1>2. ASSUME TokenAnswer(t, pc) PROVE TokenMoved(t, pc, token[t].record, version)
  <2>1. [token[t] EXCEPT !.pc = pc, !.upto = version] \in TokenRequest
    BY <1>1 DEF TokenRequest, TokenAnswers
  <2>2. token'[t] = [token[t] EXCEPT !.pc = pc, !.upto = version]
    BY <1>2 DEF TokenAnswer, TypeOK
  <2> QED BY <1>1, <1>2, <2>1, <2>2 DEF TokenAnswer, TokenMoved, TypeOK, TokenRequest
<1>3. ASSUME TokenProceed(t, pc) PROVE TokenMoved(t, pc, token[t].record, token[t].upto)
  <2>1. [token[t] EXCEPT !.pc = pc] \in TokenRequest
    BY <1>1 DEF TokenRequest, TokenAnswers
  <2>2. token'[t] = [token[t] EXCEPT !.pc = pc]
    BY <1>3 DEF TokenProceed, TypeOK
  <2> QED BY <1>1, <1>3, <2>1, <2>2 DEF TokenProceed, TokenMoved, TypeOK, TokenRequest
<1>4. ASSUME NEW record \in StoredAuthorizationCode(Hashes),
             token' = [token EXCEPT ![t] = [@ EXCEPT !.pc = pc, !.record = record]]
      PROVE  TokenMoved(t, pc, record, token[t].upto)
  <2>1. [token[t] EXCEPT !.pc = pc, !.record = record] \in TokenRequest
    BY <1>1 DEF TokenRequest, TokenAnswers
  <2>2. token'[t] = [token[t] EXCEPT !.pc = pc, !.record = record]
    BY <1>4 DEF TypeOK
  <2> QED BY <1>1, <1>4, <2>1, <2>2 DEF TokenMoved, TypeOK, TokenRequest
<1> QED BY <1>2, <1>3, <1>4

(* A step of the token handler moves its own request; it deletes only the   *)
(* code it presents, and goes on to sign only with the record it deleted.   *)
TokenEffect(t) ==
  LET q == token[t]
      p == q.presented
      h == sha256_b64url(q.code)
      config == find_client(registry, p.client_id)
      consumed == codes' = [codes EXCEPT ![h] = NONE]
  IN
  /\ UNCHANGED <<clock, versions, transactions, authz, callback>>
  /\ \/ /\ TokenMoved(t, "error", q.record, version)
        /\ q.pc \in {"find", "verify", "consume", "sign"}
        /\ UNCHANGED codes \/ (q.pc = "consume" /\ consumed)
     \/ /\ q.pc = "find" /\ p.secret # NONE
        /\ TokenMoved(t, "verify", q.record, q.upto)
        /\ UNCHANGED codes
     \/ /\ q.pc = "find" /\ p.secret = NONE
        /\ config # NONE /\ config.client_type = "public"
        /\ TokenMoved(t, "consume", q.record, q.upto)
        /\ UNCHANGED codes
     \/ /\ q.pc = "verify"
        /\ verify_client_secret(registry, p.client_id, p.secret, q.now)
        /\ TokenMoved(t, "consume", q.record, q.upto)
        /\ UNCHANGED codes
     \/ /\ q.pc = "consume" /\ codes[h] # NONE
        /\ evaluate_code_exchange(codes[h], CheckOf(t), q.now) = "Ok"
        /\ TokenMoved(t, "sign", codes[h], q.upto)
        /\ consumed
     \/ /\ q.pc = "sign" /\ TokenMoved(t, "token", q.record, version)
        /\ UNCHANGED codes

(* Every step of the token handler (token.rs) has that effect. *)
LEMMA TokenStepEffect ==
  ASSUME TypeOK, StartedInv, NEW t \in TokenReqs, TokenStep(t)
  PROVE  TokenEffect(t)
<1>a. /\ TokenAnswer(t, "error") => TokenMoved(t, "error", token[t].record, version)
      /\ TokenAnswer(t, "token") => TokenMoved(t, "token", token[t].record, version)
      /\ TokenProceed(t, "verify") => TokenMoved(t, "verify", token[t].record, token[t].upto)
      /\ TokenProceed(t, "consume") => TokenMoved(t, "consume", token[t].record, token[t].upto)
  BY TokenMoves DEF TokenAnswers
<1>1. CASE TokenFind(t)
  BY <1>1, <1>a DEF TokenFind, TokenEffect, store
<1>2. CASE TokenVerify(t)
  BY <1>2, <1>a DEF TokenVerify, TokenEffect, store
<1>3. CASE TokenConsume(t)
  <2> DEFINE h == sha256_b64url(token[t].code)
             verdict == IF codes[h] = NONE THEN "Unknown"
                        ELSE evaluate_code_exchange(codes[h], CheckOf(t), token[t].now)
             consume == codes' = IF verdict \in {"Ok", "Expired"}
                                 THEN [codes EXCEPT ![h] = NONE] ELSE codes
  <2>1. token[t].pc = "consume" /\ UNCHANGED <<clock, versions, transactions, authz, callback>>
    BY <1>3 DEF TokenConsume
  <2>2. \/ (consume \/ UNCHANGED codes) /\ TokenAnswer(t, "error")
        \/ verdict # "Ok" /\ consume /\ TokenAnswer(t, "error")
        \/ /\ verdict = "Ok" /\ consume
           /\ token' = [token EXCEPT ![t] = [@ EXCEPT !.pc = "sign", !.record = codes[h]]]
    BY <1>3 DEF TokenConsume, StoreError, CheckOf
  <2>3. h \in Hashes
    BY <2>1, CodeHashes DEF StartedInv
  <2>4. CASE TokenAnswer(t, "error")
    BY <1>a, <2>1, <2>2, <2>4 DEF TokenEffect
  <2>5. CASE /\ verdict = "Ok" /\ consume
             /\ token' = [token EXCEPT ![t] = [@ EXCEPT !.pc = "sign", !.record = codes[h]]]
    <3>1. codes[h] # NONE
      BY <2>5
    <3>2. codes[h] \in StoredAuthorizationCode(Hashes)
      BY <2>3, <3>1 DEF TypeOK
    <3>3. TokenMoved(t, "sign", codes[h], token[t].upto)
      BY <2>5, <3>2, TokenMoves
    <3> QED BY <2>1, <2>5, <3>1, <3>3 DEF TokenEffect
  <2> QED BY <2>2, <2>4, <2>5
<1>4. CASE TokenSign(t)
  BY <1>4, <1>a DEF TokenSign, TokenEffect, store
<1> QED BY <1>1, <1>2, <1>3, <1>4 DEF TokenStep

(* A registry change appends a version: the earlier ones stay as they were. *)
LEMMA AdminEffect ==
  ASSUME TypeOK, version >= 1, NEW c \in DynamicIds, NEW now \in 0..clock, Admin(c, now)
  PROVE  /\ UNCHANGED <<clock, transactions, codes, authz, callback, token>>
         /\ versions' \in Seq([DynamicIds -> DynamicClientRecord \cup {NONE}])
         /\ version \in Nat /\ version' = version + 1
         /\ \A i \in 1..version : versions'[i] = versions[i]
<1>1. /\ registry \in [DynamicIds -> DynamicClientRecord \cup {NONE}]
      /\ registry[c] \in DynamicClientRecord
      /\ now \in Nat
  BY RegistryType DEF Admin, TypeOK
<1>2. \E rec \in DynamicClientRecord : AdminSet(c, rec)
  <2>1. \A uris \in UpdateUris : uris \in SUBSET RedirectUris
    BY FlowAssumption
  <2>2. /\ disable(registry[c], now) \in DynamicClientRecord
        /\ enable(registry[c], now) \in DynamicClientRecord
        /\ \A uris \in UpdateUris : apply_metadata(registry[c], uris, now) \in DynamicClientRecord
        /\ \A s \in Secrets :
             rotate_secret(registry[c], sha256_b64url(s), now) \in DynamicClientRecord
    BY <1>1, <2>1, AdminRecordType
  <2> QED BY <2>2 DEF Admin
<1>3. PICK rec \in DynamicClientRecord : AdminSet(c, rec)
  BY <1>2
<1>4. [registry EXCEPT ![c] = rec] \in [DynamicIds -> DynamicClientRecord \cup {NONE}]
  BY <1>1
<1>5. versions' = Append(versions, [registry EXCEPT ![c] = rec])
  BY <1>3 DEF AdminSet
<1>6. UNCHANGED <<clock, transactions, codes, authz, callback, token>>
  BY <1>3 DEF AdminSet, store
<1> HIDE DEF registry
<1> QED BY <1>4, <1>5, <1>6 DEF version, TypeOK

(* The first step of each handler. *)
LEMMA AuthorizeStartEffect ==
  ASSUME TypeOK, NEW a \in AuthorizeReqs, NEW in \in AuthorizeInputs, AuthorizeStart(a, in)
  PROVE  /\ UNCHANGED <<clock, versions, transactions, codes, callback, token>>
         /\ authz' \in [AuthorizeReqs -> AuthorizeRequest]
         /\ \A x \in AuthorizeReqs : x # a => authz'[x] = authz[x]
         /\ authz[a].pc = "idle" /\ authz'[a].pc = "resolve" /\ authz'[a].input = in
<1>1. [pc |-> "resolve", now |-> clock, input |-> in] \in AuthorizeRequest
  BY DEF AuthorizeRequest, TypeOK
<1> QED BY <1>1 DEF AuthorizeStart, TypeOK, store

(* A callback starts with a state that Discord was given. *)
LEMMA CallbackStartEffect ==
  ASSUME TypeOK, NEW b \in CallbackReqs, NEW a \in AuthorizeReqs,
         NEW reply \in {"code", "error", "none"}, NEW u \in Subjects,
         CallbackStart(b, a, reply, u)
  PROVE  /\ UNCHANGED <<clock, versions, transactions, codes, authz, token>>
         /\ callback' \in [CallbackReqs -> CallbackRequest]
         /\ \A x \in CallbackReqs : x # b => callback'[x] = callback[x]
         /\ callback[b].pc = "idle" /\ authz[a].pc = "discord"
         /\ callback'[b].pc = "take" /\ callback'[b].state = a /\ callback'[b].user = u
         /\ callback'[b].since = version
<1> DEFINE q == [callback[b] EXCEPT !.pc = "take", !.now = clock, !.state = a,
                   !.reply = reply, !.user = u, !.since = version]
<1>1. callback[b] \in CallbackRequest /\ clock \in Nat /\ version \in Nat
  BY DEF TypeOK, version
<1>2. q \in CallbackRequest
  BY <1>1 DEF CallbackRequest
<1>3. callback' = [callback EXCEPT ![b] = q]
  BY DEF CallbackStart
<1>4. q.pc = "take" /\ q.state = a /\ q.user = u /\ q.since = version
  BY <1>1 DEF CallbackRequest
<1> HIDE DEF q
<1> QED BY <1>2, <1>3, <1>4 DEF CallbackStart, TypeOK, store

(* A token request starts with a code that an RP was given. *)
LEMMA TokenStartEffect ==
  ASSUME TypeOK, NEW t \in TokenReqs, NEW b \in CallbackReqs, NEW p \in Presentations,
         TokenStart(t, b, p)
  PROVE  /\ UNCHANGED <<clock, versions, transactions, codes, authz, callback>>
         /\ token' \in [TokenReqs -> TokenRequest]
         /\ \A x \in TokenReqs : x # t => token'[x] = token[x]
         /\ token[t].pc = "idle" /\ callback[b].pc = "redirect_code"
         /\ token'[t].pc = "find" /\ token'[t].code = b /\ token'[t].presented = p
         /\ token'[t].since = version
<1> DEFINE q == [token[t] EXCEPT !.pc = "find", !.now = clock, !.code = b,
                   !.presented = p, !.since = version]
<1>1. token[t] \in TokenRequest /\ clock \in Nat /\ version \in Nat
  BY DEF TypeOK, version
<1>2. q \in TokenRequest
  BY <1>1 DEF TokenRequest
<1>3. token' = [token EXCEPT ![t] = q]
  BY DEF TokenStart
<1>4. q.pc = "find" /\ q.code = b /\ q.presented = p /\ q.since = version
  BY <1>1 DEF TokenRequest
<1> HIDE DEF q
<1> QED BY <1>2, <1>3, <1>4 DEF TokenStart, TypeOK, store

(* The sweep only removes. *)
LEMMA SweepEffect ==
  ASSUME TypeOK, Sweep
  PROVE  /\ UNCHANGED <<clock, versions, authz, callback, token>>
         /\ transactions' \in
              [AuthorizeReqs -> AuthorizationTransaction(AuthorizeReqs) \cup {NONE}]
         /\ codes' \in [Hashes -> StoredAuthorizationCode(Hashes) \cup {NONE}]
         /\ \A a \in AuthorizeReqs : transactions'[a] \in {transactions[a], NONE}
         /\ \A h \in Hashes : codes'[h] \in {codes[h], NONE}
BY DEF Sweep, TypeOK

-----------------------------------------------------------------------------
(* Each step preserves the invariant. *)

(* The state stays well typed. *)
LEMMA TypeStep == TypeOK /\ StartedInv /\ TransactionInv /\ [Next]_vars => TypeOK'
<1> SUFFICES ASSUME TypeOK, StartedInv, TransactionInv, [Next]_vars PROVE TypeOK'
  OBVIOUS
<1>a. ASSUME NEW a \in AuthorizeReqs, authz[a].pc # "idle"
      PROVE  TxOf(a) \in AuthorizationTransaction(AuthorizeReqs)
  <2>1. authz[a].now \in Nat
    BY DEF TypeOK, AuthorizeRequest
  <2> QED BY <1>a, <2>1, NewTransactionType DEF TxOf, StartedInv
<1>1. ASSUME NEW a \in AuthorizeReqs, AuthorizeStep(a) PROVE TypeOK'
  <2>1. authz[a].pc # "idle"
    BY <1>1, AuthorizeEffect
  <2>2. transactions' \in [AuthorizeReqs -> AuthorizationTransaction(AuthorizeReqs) \cup {NONE}]
    BY <1>1, <1>a, <2>1, AuthorizeEffect DEF TypeOK
  <2> QED BY <1>1, <2>2, AuthorizeEffect DEF TypeOK
<1>2. ASSUME NEW a \in AuthorizeReqs, NEW in \in AuthorizeInputs, AuthorizeStart(a, in)
      PROVE  TypeOK'
  BY <1>2, AuthorizeStartEffect DEF TypeOK
<1>3. ASSUME NEW b \in CallbackReqs, CallbackStep(b) PROVE TypeOK'
  <2>1. CallbackEffect(b)
    BY <1>3, CallbackStepEffect
  <2>2. callback' \in [CallbackReqs -> CallbackRequest]
    BY <2>1 DEF CallbackEffect, CallbackMoved
  <2>3. transactions' \in [AuthorizeReqs -> AuthorizationTransaction(AuthorizeReqs) \cup {NONE}]
    BY <2>1 DEF CallbackEffect, TypeOK
  <2>4. callback[b].pc = "store" => CodeOf(b) \in StoredAuthorizationCode(Hashes)
    <3> SUFFICES ASSUME callback[b].pc = "store"
                 PROVE  CodeOf(b) \in StoredAuthorizationCode(Hashes)
      OBVIOUS
    <3>1. /\ callback[b].state \in AuthorizeReqs /\ callback[b].user \in Subjects
          /\ authz[callback[b].state].pc # "idle"
      BY DEF StartedInv
    <3>2. callback[b].tx = TxOf(callback[b].state)
      BY DEF TransactionInv, Holding
    <3>3. callback[b].now \in Nat
      BY DEF TypeOK, CallbackRequest
    <3> QED BY <1>a, <3>1, <3>2, <3>3, IssueCodeType DEF CodeOf
  <2>5. codes' \in [Hashes -> StoredAuthorizationCode(Hashes) \cup {NONE}]
    BY <2>1, <2>4 DEF CallbackEffect, TypeOK
  <2> QED BY <2>1, <2>2, <2>3, <2>5 DEF CallbackEffect, TypeOK
<1>4. ASSUME NEW b \in CallbackReqs, NEW a \in AuthorizeReqs,
             NEW reply \in {"code", "error", "none"}, NEW u \in Subjects,
             CallbackStart(b, a, reply, u)
      PROVE  TypeOK'
  BY <1>4, CallbackStartEffect DEF TypeOK
<1>5. ASSUME NEW t \in TokenReqs, TokenStep(t) PROVE TypeOK'
  <2>1. TokenEffect(t)
    BY <1>5, TokenStepEffect
  <2>2. token' \in [TokenReqs -> TokenRequest]
    BY <2>1 DEF TokenEffect, TokenMoved
  <2>3. codes' \in [Hashes -> StoredAuthorizationCode(Hashes) \cup {NONE}]
    BY <2>1 DEF TokenEffect, TypeOK
  <2> QED BY <2>1, <2>2, <2>3 DEF TokenEffect, TypeOK
<1>6. ASSUME NEW t \in TokenReqs, NEW b \in CallbackReqs, NEW p \in Presentations,
             TokenStart(t, b, p)
      PROVE  TypeOK'
  BY <1>6, TokenStartEffect DEF TypeOK
<1>7. ASSUME NEW c \in DynamicIds, NEW now \in 0..clock, Admin(c, now) PROVE TypeOK'
  BY <1>7, AdminEffect DEF TypeOK, StartedInv
<1>8. ASSUME Sweep PROVE TypeOK'
  BY <1>8, SweepEffect DEF TypeOK
<1>9. ASSUME Tick PROVE TypeOK'
  BY <1>9 DEF Tick, TypeOK, store
<1>10. ASSUME UNCHANGED vars PROVE TypeOK'
  BY <1>10 DEF vars, TypeOK
<1> QED BY <1>1, <1>2, <1>3, <1>4, <1>5, <1>6, <1>7, <1>8, <1>9, <1>10 DEF Next

(* Requests keep what they began with, and an answer is final. *)
LEMMA StartedStep == TypeOK /\ StartedInv /\ [Next]_vars => StartedInv'
<1> SUFFICES ASSUME TypeOK, StartedInv, [Next]_vars PROVE StartedInv'
  OBVIOUS
<1>a. version \in Nat
  BY DEF TypeOK, version
<1> USE DEF StartedInv
<1>1. ASSUME NEW a \in AuthorizeReqs, AuthorizeStep(a) PROVE StartedInv'
  <2>1. version' = version
    BY <1>1, AuthorizeEffect DEF version
  <2>2. UNCHANGED <<callback, token>> /\ \A x \in AuthorizeReqs :
          /\ authz'[x].input = authz[x].input
          /\ authz'[x].pc # "idle" => authz[x].pc # "idle"
          /\ authz[x].pc = "discord" => authz'[x].pc = "discord"
    BY <1>1, AuthorizeEffect
  <2> QED BY <2>1, <2>2
<1>2. ASSUME NEW a \in AuthorizeReqs, NEW in \in AuthorizeInputs, AuthorizeStart(a, in)
      PROVE  StartedInv'
  <2>1. version' = version
    BY <1>2, AuthorizeStartEffect DEF version
  <2> QED BY <1>2, <2>1, AuthorizeStartEffect
<1>3. ASSUME NEW b \in CallbackReqs, CallbackStep(b) PROVE StartedInv'
  <2>1. CallbackEffect(b)
    BY <1>3, CallbackStepEffect
  <2>2. version' = version
    BY <2>1 DEF CallbackEffect, version
  <2>3. /\ callback[b].pc \notin {"idle", "redirect_code"}
        /\ \A x \in CallbackReqs : x # b => callback'[x] = callback[x]
        /\ callback'[b].state = callback[b].state /\ callback'[b].user = callback[b].user
        /\ callback'[b].since = callback[b].since
        /\ UNCHANGED <<authz, token>>
    BY <2>1 DEF CallbackEffect, CallbackMoved
  <2>4. callback'[b].pc \in Holding =>
          callback'[b].tx \in AuthorizationTransaction(AuthorizeReqs)
    <3>1. callback[b].state \in AuthorizeReqs
      BY <2>3
    <3>2. callback'[b].pc \in Holding =>
            \/ callback[b].pc \in Holding /\ callback'[b].tx = callback[b].tx
            \/ /\ callback'[b].tx = transactions[callback[b].state]
               /\ transactions[callback[b].state] # NONE
      BY <2>1 DEF CallbackEffect, CallbackMoved, Holding
    <3> QED BY <2>3, <3>1, <3>2 DEF TypeOK
  <2> QED BY <2>2, <2>3, <2>4
<1>4. ASSUME NEW b \in CallbackReqs, NEW a \in AuthorizeReqs,
             NEW reply \in {"code", "error", "none"}, NEW u \in Subjects,
             CallbackStart(b, a, reply, u)
      PROVE  StartedInv'
  <2>1. version' = version
    BY <1>4, CallbackStartEffect DEF version
  <2>2. version \in 1..version /\ "take" \notin Holding
    BY <1>a DEF Holding
  <2> QED BY <1>4, <2>1, <2>2, CallbackStartEffect
<1>5. ASSUME NEW t \in TokenReqs, TokenStep(t) PROVE StartedInv'
  <2>1. TokenEffect(t)
    BY <1>5, TokenStepEffect
  <2>2. version' = version
    BY <2>1 DEF TokenEffect, version
  <2>3. /\ token[t].pc # "idle"
        /\ \A x \in TokenReqs : x # t => token'[x] = token[x]
        /\ token'[t].code = token[t].code /\ token'[t].presented = token[t].presented
        /\ token'[t].since = token[t].since
        /\ UNCHANGED <<authz, callback>>
    BY <2>1 DEF TokenEffect, TokenMoved
  <2> QED BY <2>2, <2>3
<1>6. ASSUME NEW t \in TokenReqs, NEW b \in CallbackReqs, NEW p \in Presentations,
             TokenStart(t, b, p)
      PROVE  StartedInv'
  <2>1. version' = version
    BY <1>6, TokenStartEffect DEF version
  <2>2. version \in 1..version
    BY <1>a
  <2> QED BY <1>6, <2>1, <2>2, TokenStartEffect
<1>7. ASSUME NEW c \in DynamicIds, NEW now \in 0..clock, Admin(c, now) PROVE StartedInv'
  <2>1. /\ version' = version + 1 /\ UNCHANGED <<authz, callback, token>>
    BY <1>7, AdminEffect
  <2>2. \A i : i \in 1..version => i \in 1..version'
    BY <1>a, <2>1
  <2> QED BY <1>a, <2>1, <2>2
<1>8. ASSUME Sweep \/ Tick \/ UNCHANGED vars PROVE StartedInv'
  <2>1. UNCHANGED <<versions, authz, callback, token>>
    BY <1>8, SweepEffect DEF Tick, vars
  <2>2. version' = version
    BY <2>1 DEF version
  <2> QED BY <2>1, <2>2
<1> QED BY <1>1, <1>2, <1>3, <1>4, <1>5, <1>6, <1>7, <1>8 DEF Next

(* A transaction is put before its state goes out and taken once: only a    *)
(* callback that found it goes on, and none other with that state ever does.*)
LEMMA TransactionStep ==
  TypeOK /\ StartedInv /\ TransactionInv /\ [Next]_vars => TransactionInv'
<1> SUFFICES ASSUME TypeOK, StartedInv, TransactionInv, [Next]_vars PROVE TransactionInv'
  OBVIOUS
<1> DEFINE Known == Holding \cup {"redirect_code", "redirect_error"}
<1>a. /\ \A pc \in Took : pc \notin {"idle", "take", "page"}
      /\ \A pc \in Known \cup CallbackRedirects : pc \in Took
      /\ Took = {"resolve", "exchange", "user", "guild", "store",
                 "redirect_code", "redirect_error", "redirect_expired"}
  BY DEF Took, Holding, CallbackRedirects
<1>b. ASSUME UNCHANGED <<authz, callback>>,
             \A x \in AuthorizeReqs : transactions'[x] \in {transactions[x], NONE}
      PROVE  TransactionInv'
  <2>1. \A x : TxOf(x)' = TxOf(x)
    BY <1>b DEF TxOf
  <2>2. \A b \in CallbackReqs : callback[b].pc \in Took =>
          callback[b].state \in AuthorizeReqs
    BY <1>a DEF StartedInv
  <2> QED BY <1>b, <2>1, <2>2 DEF TransactionInv
<1>1. ASSUME NEW a \in AuthorizeReqs, AuthorizeStep(a) PROVE TransactionInv'
  <2>1. \A x \in AuthorizeReqs : TxOf(x)' = TxOf(x)
    <3>1. \A x \in AuthorizeReqs : authz'[x].input = authz[x].input /\ authz'[x].now = authz[x].now
      BY <1>1, AuthorizeEffect
    <3> QED BY <3>1 DEF TxOf
  <2>2. /\ UNCHANGED callback
        /\ authz[a].pc \in {"resolve", "put"}
        /\ \A x \in AuthorizeReqs : x # a => authz'[x] = authz[x]
        /\ \/ UNCHANGED transactions
           \/ /\ authz'[a].pc \in {"discord", "page"}
              /\ transactions' = [transactions EXCEPT ![a] = TxOf(a)]
    BY <1>1, AuthorizeEffect
  <2>3. transactions[a] = NONE
    BY <2>2 DEF TransactionInv
  <2>4. \A b \in CallbackReqs : callback[b].pc \in Took =>
          callback[b].state \in AuthorizeReqs /\ callback[b].state # a
    BY <1>a, <2>2 DEF StartedInv
  <2>5. \A x \in AuthorizeReqs : x # a => transactions'[x] = transactions[x]
    BY <2>2 DEF TypeOK
  <2>6. transactions'[a] # NONE =>
          authz'[a].pc \in {"discord", "page"} /\ transactions'[a] = TxOf(a)
    BY <2>2, <2>3 DEF TypeOK
  <2> QED BY <1>a, <2>1, <2>2, <2>3, <2>4, <2>5, <2>6 DEF TransactionInv
<1>2. ASSUME NEW a \in AuthorizeReqs, NEW in \in AuthorizeInputs, AuthorizeStart(a, in)
      PROVE  TransactionInv'
  <2>1. /\ UNCHANGED <<transactions, callback>>
        /\ \A x \in AuthorizeReqs : x # a => authz'[x] = authz[x]
        /\ authz[a].pc = "idle"
    BY <1>2, AuthorizeStartEffect
  <2>2. \A x \in AuthorizeReqs : x # a => TxOf(x)' = TxOf(x)
    BY <2>1 DEF TxOf
  <2>3. transactions[a] = NONE
    BY <2>1 DEF TransactionInv
  <2>4. \A b \in CallbackReqs : callback[b].pc \in Took =>
          callback[b].state \in AuthorizeReqs /\ callback[b].state # a
    BY <1>a, <2>1 DEF StartedInv
  <2> QED BY <1>a, <2>1, <2>2, <2>3, <2>4 DEF TransactionInv
<1>3. ASSUME NEW b \in CallbackReqs, CallbackStep(b) PROVE TransactionInv'
  <2> DEFINE a == callback[b].state
             q == callback[b]
             q2 == callback'[b]
  <2>1. CallbackEffect(b)
    BY <1>3, CallbackStepEffect
  <2>2. /\ UNCHANGED authz
        /\ \A x \in CallbackReqs : x # b => callback'[x] = callback[x]
        /\ q2.state = a /\ q2.now = q.now /\ q2.user = q.user
    BY <2>1 DEF CallbackEffect, CallbackMoved
  <2>3. \A x : TxOf(x)' = TxOf(x)
    BY <2>2 DEF TxOf
  <2>4. \A x \in CallbackReqs : callback[x].pc \in Took => callback[x].state \in AuthorizeReqs
    BY <1>a DEF StartedInv
  <2>5. a \in AuthorizeReqs
    BY <2>1 DEF CallbackEffect, StartedInv
  <2>6. \A x \in AuthorizeReqs : transactions'[x] \in {transactions[x], NONE}
    BY <2>1, <2>5 DEF CallbackEffect, TypeOK
  <2>7. CASE q2.pc = "page"
    BY <1>a, <2>2, <2>3, <2>4, <2>6, <2>7 DEF TransactionInv
  <2>8. CASE q.pc = "take" /\ q2.pc # "page"
    <3>1. /\ q2.pc \in {"redirect_expired", "resolve"}
          /\ q2.pc = "resolve" => q2.tx = transactions[a] /\ ~is_expired(q2.tx, q.now)
          /\ q2.pc = "redirect_expired" => q2.sent = RedirectTo(transactions[a])
          /\ transactions[a] # NONE
          /\ transactions' = [transactions EXCEPT ![a] = NONE]
      BY <2>1, <2>8 DEF CallbackEffect, CallbackMoved
    <3>2. transactions'[a] = NONE
      BY <2>5, <3>1 DEF TypeOK
    <3>3. \A x \in CallbackReqs : callback[x].pc \in Took => callback[x].state # a
      BY <3>1 DEF TransactionInv
    <3>4. transactions[a] = TxOf(a)
      BY <2>5, <3>1 DEF TransactionInv
    <3>5. /\ q2.pc # "store" /\ (q2.pc \in Known => q2.pc = "resolve")
          /\ q2.pc \in CallbackRedirects => q2.pc = "redirect_expired"
      BY <3>1 DEF Holding, CallbackRedirects
    <3> QED BY <1>a, <2>2, <2>3, <2>4, <2>6, <3>1, <3>2, <3>3, <3>4, <3>5
            DEF TransactionInv
  <2>9. CASE q.pc # "take" /\ q2.pc # "page"
    <3>1. /\ q.pc \in Holding /\ q2.pc \in Known /\ q2.tx = q.tx
          /\ UNCHANGED transactions
          /\ q2.pc = "store" => q.user \in Members
          /\ q2.pc \in CallbackRedirects => q2.sent = RedirectTo(q.tx)
      BY <2>1, <2>9 DEF CallbackEffect, CallbackMoved, Holding, CallbackRedirects
    <3>2. q.pc \in Took /\ q2.pc \in Took
      BY <1>a, <3>1
    <3>3. q.tx = TxOf(a) /\ ~is_expired(q.tx, q.now)
      BY <3>1 DEF TransactionInv
    <3> QED BY <2>2, <2>3, <2>4, <3>1, <3>2, <3>3 DEF TransactionInv
  <2> QED BY <2>7, <2>8, <2>9
<1>4. ASSUME NEW b \in CallbackReqs, NEW a \in AuthorizeReqs,
             NEW reply \in {"code", "error", "none"}, NEW u \in Subjects,
             CallbackStart(b, a, reply, u)
      PROVE  TransactionInv'
  <2>1. /\ UNCHANGED <<transactions, authz>>
        /\ \A x \in CallbackReqs : x # b => callback'[x] = callback[x]
        /\ callback'[b].pc = "take"
    BY <1>4, CallbackStartEffect
  <2>2. \A x : TxOf(x)' = TxOf(x)
    BY <2>1 DEF TxOf
  <2> QED BY <1>a, <2>1, <2>2 DEF TransactionInv
<1>5. ASSUME NEW t \in TokenReqs, TokenStep(t) PROVE TransactionInv'
  BY <1>5, <1>b, TokenStepEffect DEF TokenEffect
<1>6. ASSUME NEW t \in TokenReqs, NEW b \in CallbackReqs, NEW p \in Presentations,
             TokenStart(t, b, p)
      PROVE  TransactionInv'
  BY <1>6, <1>b, TokenStartEffect
<1>7. ASSUME NEW c \in DynamicIds, NEW now \in 0..clock, Admin(c, now) PROVE TransactionInv'
  BY <1>7, <1>b, AdminEffect DEF StartedInv
<1>8. ASSUME Sweep PROVE TransactionInv'
  BY <1>8, <1>b, SweepEffect
<1>9. ASSUME Tick \/ UNCHANGED vars PROVE TransactionInv'
  BY <1>9, <1>b DEF Tick, vars, store
<1> QED BY <1>1, <1>2, <1>3, <1>4, <1>5, <1>6, <1>7, <1>8, <1>9 DEF Next

(* A code is stored before it goes out and consumed once: only a token      *)
(* request that found it, and passed the check, goes on.                    *)
LEMMA CodeStep ==
  TypeOK /\ StartedInv /\ TransactionInv /\ CodeInv /\ [Next]_vars => CodeInv'
<1> SUFFICES ASSUME TypeOK, StartedInv, TransactionInv, CodeInv, [Next]_vars PROVE CodeInv'
  OBVIOUS
<1>a. \A t \in TokenReqs : token[t].pc # "idle" =>
        token[t].code \in CallbackReqs /\ callback[token[t].code].pc = "redirect_code"
  BY DEF StartedInv
<1>b. ASSUME UNCHANGED <<callback, token>>,
             \A h \in Hashes : codes'[h] \in {codes[h], NONE}
      PROVE  CodeInv'
  <2>1. (\A b : CodeOf(b)' = CodeOf(b)) /\ (\A t : CheckOf(t)' = CheckOf(t))
    BY <1>b DEF CodeOf, CheckOf
  <2> QED BY <1>a, <1>b, <2>1, CodeHashes DEF CodeInv
<1>1. ASSUME NEW a \in AuthorizeReqs, AuthorizeStep(a) PROVE CodeInv'
  BY <1>1, <1>b, AuthorizeEffect
<1>2. ASSUME NEW a \in AuthorizeReqs, NEW in \in AuthorizeInputs, AuthorizeStart(a, in)
      PROVE  CodeInv'
  BY <1>2, <1>b, AuthorizeStartEffect
<1>3. ASSUME NEW b \in CallbackReqs, CallbackStep(b) PROVE CodeInv'
  <2> DEFINE h == sha256_b64url(b)
  <2>1. CallbackEffect(b)
    BY <1>3, CallbackStepEffect
  <2>2. /\ UNCHANGED token
        /\ \A x \in CallbackReqs : x # b => callback'[x] = callback[x]
        /\ callback'[b].now = callback[b].now /\ callback'[b].user = callback[b].user
    BY <2>1 DEF CallbackEffect, CallbackMoved
  <2>3. callback[b].pc \in {"take", "resolve", "exchange", "user", "guild", "store"}
    BY <2>1 DEF CallbackEffect
  <2>4. /\ \A x \in CallbackReqs : x # b => CodeOf(x)' = CodeOf(x)
        /\ \A t : CheckOf(t)' = CheckOf(t)
    BY <2>2 DEF CodeOf, CheckOf
  <2>5. codes[h] = NONE
    BY <2>3 DEF CodeInv
  <2>6. \A x \in CallbackReqs : x # b => codes'[sha256_b64url(x)] = codes[sha256_b64url(x)]
    BY <2>1, CodeHashes DEF CallbackEffect, TypeOK
  <2>7. codes'[h] # NONE => /\ codes'[h] = CodeOf(b)' /\ callback'[b].user \in Members
                            /\ callback'[b].pc \in {"redirect_code", "redirect_error"}
    <3>1. CASE UNCHANGED codes
      BY <2>5, <3>1
    <3>2. CASE codes' # codes
      <4>1. /\ callback[b].pc = "store" /\ codes' = [codes EXCEPT ![h] = CodeOf(b)]
            /\ callback'[b].pc \in {"redirect_code", "redirect_error"}
            /\ callback'[b].tx = callback[b].tx
        BY <2>1, <3>2 DEF CallbackEffect, CallbackMoved
      <4>2. CodeOf(b)' = CodeOf(b)
        BY <2>2, <4>1 DEF CodeOf
      <4>3. callback[b].user \in Members
        BY <4>1 DEF TransactionInv
      <4> QED BY <2>2, <4>1, <4>2, <4>3, CodeHashes DEF TypeOK
    <3> QED BY <3>1, <3>2
  <2>8. \A t \in TokenReqs : token[t].pc # "idle" =>
          token[t].code \in CallbackReqs /\ token[t].code # b
    BY <1>a, <2>3
  <2> QED BY <2>2, <2>4, <2>6, <2>7, <2>8 DEF CodeInv
<1>4. ASSUME NEW b \in CallbackReqs, NEW a \in AuthorizeReqs,
             NEW reply \in {"code", "error", "none"}, NEW u \in Subjects,
             CallbackStart(b, a, reply, u)
      PROVE  CodeInv'
  <2>1. /\ UNCHANGED <<codes, token>>
        /\ \A x \in CallbackReqs : x # b => callback'[x] = callback[x]
        /\ callback[b].pc = "idle"
    BY <1>4, CallbackStartEffect
  <2>2. /\ \A x \in CallbackReqs : x # b => CodeOf(x)' = CodeOf(x)
        /\ \A t : CheckOf(t)' = CheckOf(t)
    BY <2>1 DEF CodeOf, CheckOf
  <2>3. codes[sha256_b64url(b)] = NONE
    BY <2>1 DEF CodeInv
  <2>4. \A t \in TokenReqs : token[t].pc # "idle" =>
          token[t].code \in CallbackReqs /\ token[t].code # b
    BY <1>a, <2>1
  <2> QED BY <2>1, <2>2, <2>3, <2>4 DEF CodeInv
<1>5. ASSUME NEW t \in TokenReqs, TokenStep(t) PROVE CodeInv'
  <2> DEFINE h == sha256_b64url(token[t].code)
  <2>1. TokenEffect(t)
    BY <1>5, TokenStepEffect
  <2>2. /\ UNCHANGED callback
        /\ \A x \in TokenReqs : x # t => token'[x] = token[x]
        /\ token[t].pc # "idle"
        /\ token'[t].now = token[t].now /\ token'[t].code = token[t].code
        /\ token'[t].presented = token[t].presented
    BY <2>1 DEF TokenEffect, TokenMoved
  <2>3. /\ \A b : CodeOf(b)' = CodeOf(b)
        /\ \A x \in TokenReqs : CheckOf(x)' = CheckOf(x)
    BY <2>2 DEF CodeOf, CheckOf
  <2>4. token[t].code \in CallbackReqs /\ h \in Hashes
    BY <1>a, <2>2, CodeHashes
  <2>5. \A g \in Hashes : codes'[g] \in {codes[g], NONE}
    BY <2>1, <2>4 DEF TokenEffect, TypeOK
  <2>6. CASE token'[t].pc \notin {"sign", "token"}
    BY <1>a, <2>2, <2>3, <2>5, <2>6, CodeHashes DEF CodeInv
  <2>7. CASE token'[t].pc = "token"
    <3>1. token[t].pc = "sign" /\ token'[t].record = token[t].record /\ UNCHANGED codes
      BY <2>1, <2>7 DEF TokenEffect, TokenMoved
    <3> QED BY <1>a, <2>2, <2>3, <3>1 DEF CodeInv
  <2>8. CASE token'[t].pc = "sign"
    <3>1. /\ token'[t].record = codes[h] /\ codes[h] # NONE
          /\ codes' = [codes EXCEPT ![h] = NONE]
          /\ evaluate_code_exchange(codes[h], CheckOf(t), token[t].now) = "Ok"
      BY <2>1, <2>8 DEF TokenEffect, TokenMoved
    <3>2. codes'[h] = NONE
      BY <2>4, <3>1 DEF TypeOK
    <3>3. codes[h] = CodeOf(token[t].code) /\ callback[token[t].code].user \in Members
      BY <2>4, <3>1 DEF CodeInv
    <3>4. \A x \in TokenReqs : token[x].pc \in {"sign", "token"} => token[x].code # token[t].code
      BY <3>1 DEF CodeInv
    <3>5. /\ \A b \in CallbackReqs : codes'[sha256_b64url(b)] # NONE =>
               /\ callback[b].pc \in {"redirect_code", "redirect_error"}
               /\ codes'[sha256_b64url(b)] = CodeOf(b)
               /\ callback[b].user \in Members
      BY <2>5, CodeHashes DEF CodeInv
    <3>6. \A x \in TokenReqs : x # t /\ token[x].pc \in {"sign", "token"} =>
            codes'[sha256_b64url(token[x].code)] = NONE
      BY <1>a, <2>5, CodeHashes DEF CodeInv
    <3> QED BY <2>2, <2>3, <3>1, <3>2, <3>3, <3>4, <3>5, <3>6 DEF CodeInv
  <2> QED BY <2>6, <2>7, <2>8
<1>6. ASSUME NEW t \in TokenReqs, NEW b \in CallbackReqs, NEW p \in Presentations,
             TokenStart(t, b, p)
      PROVE  CodeInv'
  <2>1. /\ UNCHANGED <<codes, callback>> /\ token'[t].pc = "find"
        /\ \A x \in TokenReqs : x # t => token'[x] = token[x]
    BY <1>6, TokenStartEffect
  <2>2. /\ \A x : CodeOf(x)' = CodeOf(x)
        /\ \A x \in TokenReqs : x # t => CheckOf(x)' = CheckOf(x)
    BY <2>1 DEF CodeOf, CheckOf
  <2> QED BY <2>1, <2>2 DEF CodeInv
<1>7. ASSUME NEW c \in DynamicIds, NEW now \in 0..clock, Admin(c, now) PROVE CodeInv'
  BY <1>7, <1>b, AdminEffect DEF StartedInv
<1>8. ASSUME Sweep PROVE CodeInv'
  BY <1>8, <1>b, SweepEffect
<1>9. ASSUME Tick \/ UNCHANGED vars PROVE CodeInv'
  BY <1>9, <1>b DEF Tick, vars, store
<1> QED BY <1>1, <1>2, <1>3, <1>4, <1>5, <1>6, <1>7, <1>8, <1>9 DEF Next

(* A secret that verifies belongs to a client that resolves. *)
LEMMA VerifiedResolves ==
  ASSUME NEW reg \in [DynamicIds -> DynamicClientRecord \cup {NONE}], NEW c, NEW s, NEW now,
         verify_client_secret(reg, c, s, now)
  PROVE  find_client(reg, c) # NONE
<1>1. CASE c \in StaticClients
  BY <1>1, StaticAssumption, NoRecordAssumption DEF find_client
<1>2. CASE c \notin StaticClients
  <2>1. c \in DynamicIds /\ reg[c] # NONE /\ is_active(reg[c])
    BY <1>2 DEF verify_client_secret, is_dynamic_client_id, verify_secret
  <2>2. to_client_config(reg[c]) \in ClientConfig
    BY <2>1 DEF to_client_config, ClientConfig, DynamicClientRecord
  <2> QED BY <1>2, <2>1, <2>2, NoRecordAssumption DEF find_client, is_dynamic_client_id
<1> QED BY <1>1, <1>2

(* Only operators change the registry, and they only add versions. *)
LEMMA VersionsKept ==
  ASSUME TypeOK, StartedInv, [Next]_vars
  PROVE  /\ version \in Nat /\ version' \in Nat /\ version <= version'
         /\ \A i \in 1..version : versions'[i] = versions[i]
<1>a. version \in Nat
  BY DEF TypeOK, version
<1>1. ASSUME UNCHANGED versions
      PROVE  version' \in Nat /\ version <= version'
               /\ \A i \in 1..version : versions'[i] = versions[i]
  BY <1>a, <1>1 DEF version
<1>2. ASSUME NEW c \in DynamicIds, NEW now \in 0..clock, Admin(c, now)
      PROVE  version' \in Nat /\ version <= version'
               /\ \A i \in 1..version : versions'[i] = versions[i]
  BY <1>2, <1>a, AdminEffect DEF StartedInv
<1>3. UNCHANGED versions \/ \E c \in DynamicIds, now \in 0..clock : Admin(c, now)
  BY AuthorizeEffect, AuthorizeStartEffect, CallbackStepEffect, CallbackStartEffect,
     TokenStepEffect, TokenStartEffect, SweepEffect
     DEF Next, CallbackEffect, TokenEffect, Tick, vars
<1> QED BY <1>a, <1>1, <1>2, <1>3

(* The window of registry versions a handler has lived through only grows.  *)
LEMMA WindowsKept ==
  ASSUME TypeOK, StartedInv, [Next]_vars, NEW u \in Nat, NEW u2 \in Nat,
         u <= version, u <= u2
  PROVE  /\ \A b \in CallbackReqs :
              /\ callback[b].pc # "idle" /\ RedirectWindow(b, u)
              /\ callback'[b].since = callback[b].since
              /\ callback'[b].tx = callback[b].tx
              => \E i \in callback'[b].since .. u2 :
                   RegisteredIn(i, callback[b].tx.oidc_client_id,
                                   callback[b].tx.redirect_uri)'
         /\ \A t \in TokenReqs :
              /\ token[t].pc # "idle" /\ \E i \in token[t].since .. u : Authenticates(t, i)
              /\ token'[t].since = token[t].since /\ token'[t].now = token[t].now
              /\ token'[t].presented = token[t].presented
              => \E i \in token'[t].since .. u2 : Authenticates(t, i)'
<1>a. /\ version \in Nat
      /\ \A i \in 1..version : versions'[i] = versions[i]
  BY VersionsKept
<1>1. ASSUME NEW b \in CallbackReqs, callback[b].pc # "idle", RedirectWindow(b, u),
             callback'[b].since = callback[b].since, callback'[b].tx = callback[b].tx
      PROVE  \E i \in callback'[b].since .. u2 :
               RegisteredIn(i, callback[b].tx.oidc_client_id, callback[b].tx.redirect_uri)'
  <2>1. callback[b].since \in 1..version
    BY <1>1 DEF StartedInv
  <2>2. PICK i \in callback[b].since .. u :
          RegisteredIn(i, callback[b].tx.oidc_client_id, callback[b].tx.redirect_uri)
    BY <1>1 DEF RedirectWindow
  <2>3. i \in 1..version /\ i \in callback'[b].since .. u2
    BY <1>a, <1>1, <2>1
  <2>4. RegisteredIn(i, callback[b].tx.oidc_client_id, callback[b].tx.redirect_uri)'
    BY <1>a, <1>1, <2>2, <2>3 DEF RegisteredIn
  <2> QED BY <2>3, <2>4
<1>2. ASSUME NEW t \in TokenReqs, token[t].pc # "idle",
             \E i \in token[t].since .. u : Authenticates(t, i),
             token'[t].since = token[t].since, token'[t].now = token[t].now,
             token'[t].presented = token[t].presented
      PROVE  \E i \in token'[t].since .. u2 : Authenticates(t, i)'
  <2>1. token[t].since \in 1..version
    BY <1>2 DEF StartedInv
  <2>2. PICK i \in token[t].since .. u : Authenticates(t, i)
    BY <1>2
  <2>3. i \in 1..version /\ i \in token'[t].since .. u2
    BY <1>a, <1>2, <2>1
  <2>4. Authenticates(t, i)'
    BY <1>a, <1>2, <2>2, <2>3 DEF Authenticates
  <2> QED BY <2>3, <2>4
<1> QED BY <1>1, <1>2

(* A handler goes past a registry check only with the version it was made   *)
(* against, which stays within its window.                                  *)
LEMMA RegistryStep == TypeOK /\ StartedInv /\ RegistryInv /\ [Next]_vars => RegistryInv'
<1> SUFFICES ASSUME TypeOK, StartedInv, RegistryInv, [Next]_vars PROVE RegistryInv'
  OBVIOUS
<1>a. version \in Nat /\ version' \in Nat /\ version <= version'
  BY VersionsKept
<1> DEFINE GoodC(b) ==
      /\ callback'[b].pc \in {"exchange", "user", "guild", "store"} =>
           \E i \in callback'[b].since .. version' :
             RegisteredIn(i, callback[b].tx.oidc_client_id, callback[b].tx.redirect_uri)'
      /\ callback'[b].pc \in {"redirect_code", "redirect_error"} =>
           /\ callback'[b].upto <= version'
           /\ \E i \in callback'[b].since .. callback'[b].upto :
                RegisteredIn(i, callback[b].tx.oidc_client_id, callback[b].tx.redirect_uri)'
<1> DEFINE GoodT(t) ==
      /\ token'[t].pc = "verify" => token'[t].presented.secret # NONE
      /\ token'[t].pc \in {"consume", "sign"} =>
           \E i \in token'[t].since .. version' : Authenticates(t, i)'
      /\ token'[t].pc = "token" =>
           /\ token'[t].upto <= version'
           /\ \E i \in token'[t].since .. token'[t].upto : Authenticates(t, i)'
<1>1. ASSUME NEW b \in CallbackReqs, callback'[b] = callback[b] PROVE GoodC(b)
  <2>1. CASE callback[b].pc \in {"exchange", "user", "guild", "store"}
    <3>1. RedirectWindow(b, version)
      BY <2>1 DEF RegistryInv
    <3> QED BY <1>1, <1>a, <2>1, <3>1, WindowsKept
  <2>2. CASE callback[b].pc \in {"redirect_code", "redirect_error"}
    <3>1. callback[b].upto <= version /\ RedirectWindow(b, callback[b].upto)
      BY <2>2 DEF RegistryInv
    <3>2. callback[b].upto \in Nat
      BY DEF TypeOK, CallbackRequest
    <3>3. \E i \in callback'[b].since .. callback[b].upto :
            RegisteredIn(i, callback[b].tx.oidc_client_id, callback[b].tx.redirect_uri)'
      BY <1>1, <2>2, <3>1, <3>2, WindowsKept
    <3> QED BY <1>1, <1>a, <2>2, <3>1, <3>2, <3>3
  <2> QED BY <1>1, <2>1, <2>2
<1>2. ASSUME NEW b \in CallbackReqs, CallbackStep(b) PROVE GoodC(b)
  <2>1. CallbackEffect(b)
    BY <1>2, CallbackStepEffect
  <2>2. /\ callback[b].pc # "idle" /\ callback'[b].since = callback[b].since
        /\ UNCHANGED versions
    BY <2>1 DEF CallbackEffect, CallbackMoved
  <2>3. version' = version
    BY <2>2 DEF version
  <2>4. CASE /\ callback'[b].pc \notin {"exchange", "user", "guild", "store"}
             /\ callback'[b].pc \notin {"redirect_code", "redirect_error"}
    BY <2>4
  <2>5. CASE \/ callback'[b].pc \in {"exchange", "user", "guild", "store"}
             \/ callback'[b].pc \in {"redirect_code", "redirect_error"}
    <3>1. /\ callback'[b].tx = callback[b].tx
          /\ callback'[b].pc \in {"redirect_code", "redirect_error"} =>
               callback'[b].upto = version
          /\ \/ /\ callback[b].pc = "resolve"
                /\ Registered(find_client(registry, callback[b].tx.oidc_client_id),
                              callback[b].tx.redirect_uri)
             \/ callback[b].pc \in {"exchange", "user", "guild", "store"}
      BY <2>1, <2>5 DEF CallbackEffect, CallbackMoved
    <3>2. RedirectWindow(b, version)
      <4>1. CASE callback[b].pc = "resolve"
        <5>1. RegisteredIn(version, callback[b].tx.oidc_client_id, callback[b].tx.redirect_uri)
          BY <3>1, <4>1 DEF RegisteredIn, registry
        <5>2. version \in callback[b].since .. version
          BY <1>a, <2>2 DEF StartedInv
        <5> QED BY <5>1, <5>2 DEF RedirectWindow
      <4>2. CASE callback[b].pc \in {"exchange", "user", "guild", "store"}
        BY <4>2 DEF RegistryInv
      <4> QED BY <3>1, <4>1, <4>2
    <3>3. \E i \in callback'[b].since .. version :
            RegisteredIn(i, callback[b].tx.oidc_client_id, callback[b].tx.redirect_uri)'
      BY <1>a, <2>2, <3>1, <3>2, WindowsKept
    <3> QED BY <1>a, <2>3, <3>1, <3>3
  <2> QED BY <2>4, <2>5
<1>3. ASSUME NEW b \in CallbackReqs, NEW a \in AuthorizeReqs,
             NEW reply \in {"code", "error", "none"}, NEW u \in Subjects,
             CallbackStart(b, a, reply, u)
      PROVE  GoodC(b)
  BY <1>3, CallbackStartEffect
<1>4. ASSUME NEW t \in TokenReqs, token'[t] = token[t] PROVE GoodT(t)
  <2>1. CASE token[t].pc \in {"consume", "sign"}
    <3>1. \E i \in token[t].since .. version : Authenticates(t, i)
      BY <2>1 DEF RegistryInv
    <3> QED BY <1>4, <1>a, <2>1, <3>1, WindowsKept
  <2>2. CASE token[t].pc = "token"
    <3>1. /\ token[t].upto <= version
          /\ \E i \in token[t].since .. token[t].upto : Authenticates(t, i)
      BY <2>2 DEF RegistryInv
    <3>2. token[t].upto \in Nat
      BY DEF TypeOK, TokenRequest
    <3>3. \E i \in token'[t].since .. token[t].upto : Authenticates(t, i)'
      BY <1>4, <2>2, <3>1, <3>2, WindowsKept
    <3> QED BY <1>4, <1>a, <2>2, <3>1, <3>2, <3>3
  <2>3. CASE token[t].pc = "verify"
    BY <1>4, <2>3 DEF RegistryInv
  <2> QED BY <1>4, <2>1, <2>2, <2>3
<1>5. ASSUME NEW t \in TokenReqs, TokenStep(t) PROVE GoodT(t)
  <2>1. TokenEffect(t)
    BY <1>5, TokenStepEffect
  <2>2. /\ token[t].pc # "idle" /\ token'[t].since = token[t].since
        /\ token'[t].now = token[t].now /\ token'[t].presented = token[t].presented
        /\ UNCHANGED versions
    BY <2>1 DEF TokenEffect, TokenMoved
  <2>3. version' = version
    BY <2>2 DEF version
  <2>4. CASE token'[t].pc \in {"error", "verify"}
    BY <2>1, <2>4 DEF TokenEffect, TokenMoved
  <2>5. CASE token'[t].pc \in {"consume", "sign", "token"}
    <3>1. /\ token'[t].pc = "token" => token'[t].upto = version
          /\ \/ Authenticates(t, version)
             \/ token[t].pc \in {"consume", "sign"}
      <4>1. CASE token[t].pc \in {"consume", "sign"}
        BY <2>1, <2>5, <4>1 DEF TokenEffect, TokenMoved
      <4>2. CASE token[t].pc = "find"
        BY <2>1, <2>5, <4>2 DEF TokenEffect, TokenMoved, Authenticates, registry
      <4>3. CASE token[t].pc = "verify"
        <5>1. /\ verify_client_secret(registry, token[t].presented.client_id,
                                      token[t].presented.secret, token[t].now)
              /\ token'[t].pc = "consume"
          BY <2>1, <2>5, <4>3 DEF TokenEffect, TokenMoved
        <5>2. registry \in [DynamicIds -> DynamicClientRecord \cup {NONE}]
          BY RegistryType DEF StartedInv
        <5>3. find_client(registry, token[t].presented.client_id) # NONE
          BY <5>1, <5>2, VerifiedResolves
        <5>4. token[t].presented.secret # NONE
          BY <4>3 DEF RegistryInv
        <5> QED BY <5>1, <5>3, <5>4 DEF Authenticates, registry
      <4> QED BY <2>1, <2>5, <4>1, <4>2, <4>3 DEF TokenEffect, TokenMoved
    <3>2. version \in token[t].since .. version
      BY <1>a, <2>2 DEF StartedInv
    <3>3. \E i \in token[t].since .. version : Authenticates(t, i)
      BY <3>1, <3>2 DEF RegistryInv
    <3>4. \E i \in token'[t].since .. version : Authenticates(t, i)'
      BY <1>a, <2>2, <3>3, WindowsKept
    <3> QED BY <1>a, <2>3, <2>5, <3>1, <3>4
  <2> QED BY <2>1, <2>4, <2>5 DEF TokenEffect, TokenMoved
<1>6. ASSUME NEW t \in TokenReqs, NEW b \in CallbackReqs, NEW p \in Presentations,
             TokenStart(t, b, p)
      PROVE  GoodT(t)
  BY <1>6, TokenStartEffect
<1>7. ASSUME NEW b \in CallbackReqs PROVE GoodC(b)
  <2>1. \/ callback'[b] = callback[b]
        \/ CallbackStep(b)
        \/ \E a \in AuthorizeReqs, reply \in {"code", "error", "none"}, u \in Subjects :
             CallbackStart(b, a, reply, u)
    BY AuthorizeEffect, AuthorizeStartEffect, CallbackStepEffect, CallbackStartEffect,
       TokenStepEffect, TokenStartEffect, AdminEffect, SweepEffect
       DEF Next, CallbackEffect, CallbackMoved, TokenEffect, Tick, vars, StartedInv
  <2> QED BY <1>1, <1>2, <1>3, <2>1
<1>8. ASSUME NEW t \in TokenReqs PROVE GoodT(t)
  <2>1. \/ token'[t] = token[t]
        \/ TokenStep(t)
        \/ \E b \in CallbackReqs, p \in Presentations : TokenStart(t, b, p)
    BY AuthorizeEffect, AuthorizeStartEffect, CallbackStepEffect, CallbackStartEffect,
       TokenStepEffect, TokenStartEffect, AdminEffect, SweepEffect
       DEF Next, CallbackEffect, TokenEffect, TokenMoved, Tick, vars, StartedInv
  <2> QED BY <1>4, <1>5, <1>6, <2>1
<1> QED BY <1>7, <1>8 DEF RegistryInv, RedirectWindow

-----------------------------------------------------------------------------
(* The theorems. *)

(* The inductive invariant. *)
Inv == TypeOK /\ StartedInv /\ TransactionInv /\ CodeInv /\ RegistryInv

(* It holds at the start, with nothing stored and nothing begun. *)
LEMMA InvInit == Init => Inv
<1> SUFFICES ASSUME Init PROVE Inv
  OBVIOUS
<1>1. InitialRegistry \in [DynamicIds -> DynamicClientRecord \cup {NONE}]
  BY FlowAssumption
<1>2. version = 1 /\ versions \in Seq([DynamicIds -> DynamicClientRecord \cup {NONE}])
  BY <1>1 DEF Init, version
<1>3. TypeOK
  BY <1>2 DEF Init, TypeOK, AuthorizeRequest, CallbackRequest, TokenRequest
<1>4. /\ \A a \in AuthorizeReqs : authz[a].pc = "idle" /\ transactions[a] = NONE
      /\ \A b \in CallbackReqs : callback[b].pc = "idle" /\ codes[sha256_b64url(b)] = NONE
      /\ \A t \in TokenReqs : token[t].pc = "idle"
  BY CodeHashes DEF Init
<1>5. StartedInv
  BY <1>2, <1>4 DEF StartedInv
<1>6. TransactionInv
  BY <1>4 DEF TransactionInv, Took, Holding, CallbackRedirects
<1>7. CodeInv /\ RegistryInv
  BY <1>4 DEF CodeInv, RegistryInv
<1> QED BY <1>3, <1>5, <1>6, <1>7 DEF Inv

(* It holds in every reachable state, whatever the fairness. *)
LEMMA Invariance == Spec => []Inv
<1>1. Inv /\ [Next]_vars => Inv'
  BY TypeStep, StartedStep, TransactionStep, CodeStep, RegistryStep DEF Inv
<1> QED BY InvInit, <1>1, PTL DEF Spec

(* Stored records, registry versions and requests are always well typed. *)
THEOREM TypeCorrect == Spec => []TypeOK
BY Invariance, PTL DEF Inv

(* However often the callback is repeated, one login is answered with a     *)
(* redirect at most once (take_transaction before anything else).           *)
THEOREM RedirectOnce == Spec => []OneRedirectPerLogin
<1>1. Inv => OneRedirectPerLogin
  BY DEF Inv, TransactionInv, OneRedirectPerLogin, Took
<1> QED BY <1>1, Invariance, PTL

(* What is known of a token that is out: the code it came from, and the     *)
(* transaction that code came from.                                         *)
LEMMA IssuedFrom ==
  ASSUME Inv, NEW t \in Issued
  PROVE  LET b == token[t].code
             a == Login(t)
         IN
         /\ t \in TokenReqs
         /\ b \in CallbackReqs /\ callback[b].pc = "redirect_code"
         /\ a \in AuthorizeReqs
         /\ token[t].record = CodeOf(b)
         /\ callback[b].tx = TxOf(a)
         /\ ~is_expired(callback[b].tx, callback[b].now)
         /\ evaluate_code_exchange(token[t].record, CheckOf(t), token[t].now) = "Ok"
         /\ callback[b].user \in Members
<1>1. t \in TokenReqs /\ token[t].pc = "token"
  BY DEF Issued
<1>2. token[t].code \in CallbackReqs /\ callback[token[t].code].pc = "redirect_code"
  BY <1>1 DEF Inv, StartedInv
<1>3. Login(t) \in AuthorizeReqs
  BY <1>2 DEF Inv, StartedInv, Login
<1> QED BY <1>1, <1>2, <1>3 DEF Inv, CodeInv, TransactionInv, Login

(* One login yields at most one ID token: its transaction is taken by one   *)
(* callback, and that callback's code is consumed by one token request.     *)
THEOREM TokenOnce == Spec => []OneTokenPerLogin
<1>1. Inv => OneTokenPerLogin
  <2> SUFFICES ASSUME Inv, NEW t1 \in Issued, NEW t2 \in Issued, Login(t1) = Login(t2)
               PROVE  t1 = t2
    BY DEF OneTokenPerLogin
  <2>1. /\ t1 \in TokenReqs /\ t2 \in TokenReqs
        /\ token[t1].code \in CallbackReqs /\ callback[token[t1].code].pc = "redirect_code"
        /\ token[t2].code \in CallbackReqs /\ callback[token[t2].code].pc = "redirect_code"
    BY IssuedFrom
  <2>2. token[t1].code = token[t2].code
    BY <2>1 DEF Inv, TransactionInv, Login, Took, CallbackRedirects
  <2> QED BY <2>1, <2>2 DEF Inv, CodeInv, Issued
<1> QED BY <1>1, Invariance, PTL

(* The ID token is for the member who logged in, at the client, with the    *)
(* nonce and against the PKCE challenge of the /authorize request.          *)
THEOREM TokenBound == Spec => []TokenBoundToLogin
<1>1. Inv => TokenBoundToLogin
  <2> SUFFICES ASSUME Inv, NEW t \in Issued
               PROVE  LET in == authz[Login(t)].input
                          p == token[t].presented
                          record == token[t].record
                      IN
                      /\ p.client_id = in.client_id
                      /\ p.redirect_uri = in.redirect_uri
                      /\ sha256_b64url(p.code_verifier) = in.code_challenge
                      /\ record.nonce = in.nonce
                      /\ record.subject = callback[token[t].code].user
                      /\ record.subject \in Members
    BY DEF TokenBoundToLogin
  <2> DEFINE in == authz[Login(t)].input
             record == token[t].record
  <2>1. /\ record = CodeOf(token[t].code)
        /\ callback[token[t].code].tx = TxOf(Login(t))
        /\ evaluate_code_exchange(record, CheckOf(t), token[t].now) = "Ok"
        /\ callback[token[t].code].user \in Members
    BY IssuedFrom
  <2>2. /\ record.client_id = in.client_id /\ record.redirect_uri = in.redirect_uri
        /\ record.code_challenge = in.code_challenge /\ record.nonce = in.nonce
        /\ record.subject = callback[token[t].code].user
    BY <2>1 DEF CodeOf, TxOf, issue_code, NewTransaction
  <2>3. /\ record.client_id = CheckOf(t).client_id
        /\ record.redirect_uri = CheckOf(t).redirect_uri
        /\ sha256_b64url(CheckOf(t).code_verifier) = record.code_challenge
    BY <2>1 DEF evaluate_code_exchange, verify_s256
  <2> QED BY <2>1, <2>2, <2>3 DEF CheckOf
<1> QED BY <1>1, Invariance, PTL

(* The RP is sent back to with the redirect_uri and the `state` of its own  *)
(* /authorize request, whether the session expired, the upstream failed or  *)
(* a code was issued (callback.rs, redirect_error and the final redirect).  *)
THEOREM RedirectBound == Spec => []RedirectBoundToLogin
<1>1. Inv => RedirectBoundToLogin
  BY DEF Inv, TransactionInv, RedirectBoundToLogin, RedirectTo, TxOf, NewTransaction
<1> QED BY <1>1, Invariance, PTL

(* A login lasts less than its two lifetimes, whichever clock reading each  *)
(* handler acts on (config.rs, is_expired, evaluate_code_exchange).         *)
THEOREM LoginShort == Spec => []LoginIsShort
<1>1. Inv => LoginIsShort
  <2> SUFFICES ASSUME Inv, NEW t \in Issued
               PROVE  token[t].now + 2 <= authz[Login(t)].now
                        + TRANSACTION_TTL_SECS + AUTHORIZATION_CODE_TTL_SECS
    BY DEF LoginIsShort
  <2> DEFINE b == token[t].code
  <2>1. /\ t \in TokenReqs /\ b \in CallbackReqs /\ Login(t) \in AuthorizeReqs
        /\ token[t].record = CodeOf(b) /\ callback[b].tx = TxOf(Login(t))
        /\ ~is_expired(callback[b].tx, callback[b].now)
        /\ evaluate_code_exchange(token[t].record, CheckOf(t), token[t].now) = "Ok"
    BY IssuedFrom
  <2>2. token[t].now \in Nat /\ callback[b].now \in Nat /\ authz[Login(t)].now \in Nat
    BY <2>1 DEF Inv, TypeOK, AuthorizeRequest, CallbackRequest, TokenRequest
  <2>3. token[t].record.expires_at = callback[b].now + AUTHORIZATION_CODE_TTL_SECS
    BY <2>1 DEF CodeOf, issue_code
  <2>4. callback[b].tx.expires_at = authz[Login(t)].now + TRANSACTION_TTL_SECS
    BY <2>1 DEF TxOf, NewTransaction
  <2>5. ~(token[t].record.expires_at <= token[t].now)
    BY <2>1 DEF evaluate_code_exchange
  <2>6. ~(callback[b].tx.expires_at <= callback[b].now)
    BY <2>1 DEF is_expired
  <2> QED BY <2>2, <2>3, <2>4, <2>5, <2>6, TtlAssumption
<1> QED BY <1>1, Invariance, PTL

(* A code or an upstream error goes only to a URI that the client had       *)
(* registered, while active, at some moment of the callback (callback.rs).  *)
THEOREM RedirectsAuthorized == Spec => []RedirectAuthorized
<1>1. Inv => RedirectAuthorized
  <2> SUFFICES ASSUME Inv, NEW b \in CallbackReqs,
                      callback[b].pc \in {"redirect_code", "redirect_error"}
               PROVE  \E i \in callback[b].since .. callback[b].upto :
                        RegisteredIn(i, authz[callback[b].state].input.client_id,
                                        authz[callback[b].state].input.redirect_uri)
    BY DEF RedirectAuthorized
  <2>1. callback[b].tx = TxOf(callback[b].state)
    BY DEF Inv, TransactionInv
  <2>2. /\ callback[b].tx.oidc_client_id = authz[callback[b].state].input.client_id
        /\ callback[b].tx.redirect_uri = authz[callback[b].state].input.redirect_uri
    BY <2>1 DEF TxOf, NewTransaction
  <2>3. RedirectWindow(b, callback[b].upto)
    BY DEF Inv, RegistryInv
  <2> QED BY <2>2, <2>3 DEF RedirectWindow
<1> QED BY <1>1, Invariance, PTL

(* A secret that verify_secret accepts is held, with its window open. *)
LEMMA AcceptedIsHeld ==
  ASSUME NEW rec \in DynamicClientRecord, NEW s, NEW now \in Nat,
         verify_secret(rec, s, now)
  PROVE  rec.status = "active" /\ HoldsSecret(rec, s, now)
<1>1. rec.previous_secret_valid_until \in Nat \cup {NONE}
  BY DEF DynamicClientRecord
<1> QED BY <1>1 DEF verify_secret, is_active, HoldsSecret

(* A token is issued only to a client that, at some moment of the token     *)
(* request, was active and public or held the presented secret, although    *)
(* the record is read twice and the window compared once (token.rs,         *)
(* registry.rs verify_secret).                                              *)
THEOREM TokensAuthorized == Spec => []TokenAuthorized
<1>1. Inv => TokenAuthorized
  <2> SUFFICES ASSUME Inv, NEW t \in Issued
               PROVE  LET c == token[t].presented.client_id
                          s == token[t].presented.secret
                      IN
                      \E i \in token[t].since .. token[t].upto :
                        \/ /\ c \in StaticClients
                           /\ \/ s = NONE /\ StaticConfig[c].client_type = "public"
                              \/ s # NONE /\ StaticSecret[c] = s
                        \/ /\ c \in DynamicIds \ StaticClients
                           /\ versions[i][c] # NONE
                           /\ versions[i][c].status = "active"
                           /\ \/ s = NONE /\ versions[i][c].client_type = "public"
                              \/ s # NONE /\ HoldsSecret(versions[i][c], s, token[t].now)
    BY DEF TokenAuthorized
  <2> DEFINE c == token[t].presented.client_id
             s == token[t].presented.secret
  <2>1. /\ t \in TokenReqs /\ token[t].now \in Nat /\ token[t].upto \in Nat
        /\ token[t].since \in 1..version /\ token[t].upto <= version /\ version \in Nat
    BY DEF Issued, Inv, TypeOK, TokenRequest, StartedInv, RegistryInv, version
  <2>2. PICK i \in token[t].since .. token[t].upto : Authenticates(t, i)
    BY DEF Issued, Inv, RegistryInv
  <2>3. i \in 1..Len(versions)
    BY <2>1, <2>2 DEF version
  <2>4. versions[i] \in [DynamicIds -> DynamicClientRecord \cup {NONE}]
    BY <2>3 DEF Inv, TypeOK
  <2>5. CASE c \in StaticClients
    BY <2>2, <2>5 DEF Authenticates, find_client, verify_client_secret
  <2>6. CASE c \notin StaticClients
    <3>1. /\ c \in DynamicIds /\ versions[i][c] # NONE
          /\ versions[i][c] \in DynamicClientRecord /\ is_active(versions[i][c])
      BY <2>2, <2>4, <2>6 DEF Authenticates, find_client, is_dynamic_client_id
    <3>2. CASE s = NONE
      BY <2>2, <2>6, <3>1, <3>2
         DEF Authenticates, find_client, is_dynamic_client_id, is_active, to_client_config
    <3>3. CASE s # NONE
      <4>1. verify_secret(versions[i][c], s, token[t].now)
        BY <2>2, <2>6, <3>3 DEF Authenticates, verify_client_secret
      <4> QED BY <2>1, <2>6, <3>1, <3>3, <4>1, AcceptedIsHeld
    <3> QED BY <3>2, <3>3
  <2> QED BY <2>5, <2>6
<1> QED BY <1>1, Invariance, PTL
=============================================================================
