------------------------------ MODULE OidcFlow ------------------------------
(***************************************************************************)
(* The data plane: the /authorize, Discord callback and /token handlers    *)
(* (authorize.rs, callback.rs, token.rs) running concurrently against the  *)
(* two Durable Objects, while operators change the client registry.        *)
(*                                                                         *)
(* A handler reads the clock once, when its request arrives, and every     *)
(* `.await` on a Durable Object or on Discord is a step of its own, so all *)
(* other requests, operators, the sweep and time run between two awaits.   *)
(* A Durable Object call fails without effect, or takes effect and its     *)
(* reply is lost: both are StoreError to the handler.  A call that takes   *)
(* effect only after its failure was reported looks the same to everybody: *)
(* nobody else knows the state or code of a late put, and a late removal   *)
(* is one that others came before or did not.                              *)
(*                                                                         *)
(* Requests are made at most once; the random values a request draws are   *)
(* named by the request: the upstream state by the authorize request, the  *)
(* code by the callback.  Parameters that fail validation before the first *)
(* await produce an error page and no state; they are left out.            *)
(***************************************************************************)
EXTENDS AuthorizationRecords, DynamicClient, Sequences

CONSTANTS
  AuthorizeReqs, CallbackReqs, TokenReqs,   \* HTTP requests
  AuthorizeInputs,    \* what RPs ask for at /authorize
  Presentations,      \* what is presented at /token, apart from the code
  Members,            \* Discord users in the required guild
  InitialRegistry,    \* dynamic registry at the start
  UpdateUris,         \* redirect_uris an operator may set
  MaxVersions,        \* bound on registry changes
  MaxClock            \* bound on time

ASSUME FlowAssumption ==
  /\ AuthorizeInputs \subseteq ValidatedAuthorize
  /\ Presentations \subseteq
       [client_id : Clients, redirect_uri : RedirectUris,
        code_verifier : Verifiers, secret : Secrets \cup {NONE}]
  /\ Members \subseteq Subjects
  /\ InitialRegistry \in [DynamicIds -> DynamicClientRecord \cup {NONE}]
  /\ UpdateUris \subseteq SUBSET RedirectUris
  /\ MaxVersions \in Nat /\ MaxClock \in Nat

VARIABLES
  clock,         \* wall clock
  versions,      \* every registry content so far, the current one last
  transactions,  \* AuthorizationState: upstream state -> transaction or NONE
  codes,         \* AuthorizationState: code hash -> code or NONE
  authz,         \* /authorize requests
  callback,      \* Discord callback requests
  token          \* /token requests

vars == <<clock, versions, transactions, codes, authz, callback, token>>
store == <<transactions, codes>>

Hashes == {sha256_b64url(b) : b \in CallbackReqs}

(* None is no transaction and no code. *)
ASSUME NoStoredAssumption ==
  /\ NONE \notin AuthorizationTransaction(AuthorizeReqs)
  /\ NONE \notin StoredAuthorizationCode(Hashes)

version == Len(versions)
registry == versions[version]

(* Terminal program counters; the others wait for an await to complete. *)
AuthorizeAnswers == {"page", "redirect_error", "discord"}
CallbackRedirects == {"redirect_code", "redirect_error", "redirect_expired"}
CallbackAnswers == CallbackRedirects \cup {"page"}
TokenAnswers == {"token", "error"}

AuthorizeRequest ==
  [pc : {"idle", "resolve", "put"} \cup AuthorizeAnswers, now : Nat,
   input : AuthorizeInputs \cup {NONE}]

CallbackRequest ==
  [pc : {"idle", "take", "resolve", "exchange", "user", "guild", "store"}
          \cup CallbackAnswers,
   now : Nat, state : AuthorizeReqs \cup {NONE},
   reply : {"code", "error", "none", NONE}, user : Subjects \cup {NONE},
   tx : AuthorizationTransaction(AuthorizeReqs) \cup {NONE},
   sent : [redirect_uri : RedirectUris, state : RpStates \cup {NONE}] \cup {NONE},
   since : Nat, upto : Nat]

TokenRequest ==
  [pc : {"idle", "find", "verify", "consume", "sign"} \cup TokenAnswers,
   now : Nat, code : CallbackReqs \cup {NONE},
   presented : Presentations \cup {NONE},
   record : StoredAuthorizationCode(Hashes) \cup {NONE},
   since : Nat, upto : Nat]

Init ==
  /\ clock = 0
  /\ versions = <<InitialRegistry>>
  /\ transactions = [a \in AuthorizeReqs |-> NONE]
  /\ codes = [h \in Hashes |-> NONE]
  /\ authz = [a \in AuthorizeReqs |-> [pc |-> "idle", now |-> 0, input |-> NONE]]
  /\ callback = [b \in CallbackReqs |->
       [pc |-> "idle", now |-> 0, state |-> NONE, reply |-> NONE, user |-> NONE,
        tx |-> NONE, sent |-> NONE, since |-> 0, upto |-> 0]]
  /\ token = [t \in TokenReqs |->
       [pc |-> "idle", now |-> 0, code |-> NONE, presented |-> NONE,
        record |-> NONE, since |-> 0, upto |-> 0]]

-----------------------------------------------------------------------------
(* DoStore::post: StoreError, from a call that never reached the object or  *)
(* one whose reply was lost.                                                *)
StoreError(effect, none) == effect \/ none

-----------------------------------------------------------------------------
(* GET /authorize *)

AuthorizeStart(a, input) ==
  /\ authz[a].pc = "idle"
  /\ authz' = [authz EXCEPT ![a] = [pc |-> "resolve", now |-> clock, input |-> input]]
  /\ UNCHANGED <<clock, versions, store, callback, token>>

Registered(config, uri) == config # NONE /\ uri \in config.redirect_uris

(* find_client and the rest of the validation.  A static client is resolved *)
(* without a call, so only a dynamic one can meet a registry failure.       *)
AuthorizeResolve(a) ==
  LET in == authz[a].input
      config == find_client(registry, in.client_id)
      Answer(pc) == authz' = [authz EXCEPT ![a].pc = pc]
  IN
  /\ authz[a].pc = "resolve"
  /\ \/ in.client_id \notin StaticClients /\ Answer("page")
     \/ ~Registered(config, in.redirect_uri) /\ Answer("page")
     \/ /\ Registered(config, in.redirect_uri)
        /\ \/ Answer("redirect_error")     \* some other parameter is invalid
           \/ Answer("put")
  /\ UNCHANGED <<clock, versions, store, callback, token>>

(* put_transaction; the browser learns the state only if it succeeded. *)
AuthorizePut(a) ==
  LET put == transactions' = [transactions EXCEPT ![a] =
                               NewTransaction(authz[a].input, a, authz[a].now)]
  IN
  /\ authz[a].pc = "put"
  /\ \/ put /\ authz' = [authz EXCEPT ![a].pc = "discord"]
     \/ StoreError(put, UNCHANGED transactions) /\ authz' = [authz EXCEPT ![a].pc = "page"]
  /\ UNCHANGED <<clock, versions, codes, callback, token>>

-----------------------------------------------------------------------------
(* GET /oauth/discord/callback *)

(* Discord sends the browser back, any number of times, with a code for the *)
(* user who logged in, with an error, or with neither.                      *)
CallbackStart(b, a, reply, user) ==
  /\ callback[b].pc = "idle"
  /\ authz[a].pc = "discord"
  /\ callback' = [callback EXCEPT ![b] =
       [@ EXCEPT !.pc = "take", !.now = clock, !.state = a, !.reply = reply,
                 !.user = user, !.since = version]]
  /\ UNCHANGED <<clock, versions, store, authz, token>>

(* The handler answers with a page; the registry versions it lived through  *)
(* are recorded.                                                            *)
CallbackAnswer(b, pc) ==
  callback' = [callback EXCEPT ![b] = [@ EXCEPT !.pc = pc, !.upto = version]]

(* Mutant: the state that is echoed is the upstream one. *)
RedirectWithUpstreamState(tx) ==
  [redirect_uri |-> tx.redirect_uri, state |-> tx.discord_oauth_state]

(* Where the browser is sent and with which `state`: the RP's own, from the *)
(* transaction, not the upstream one the callback came with.                *)
RedirectTo(tx) == [redirect_uri |-> tx.redirect_uri, state |-> tx.rp_state]

(* The handler answers with a redirect to the RP, error or code. *)
CallbackRedirect(b, pc, tx) ==
  callback' = [callback EXCEPT ![b] =
    [@ EXCEPT !.pc = pc, !.upto = version, !.sent = RedirectTo(tx)]]

CallbackProceed(b, pc) == callback' = [callback EXCEPT ![b].pc = pc]

(* Mutant: the transaction is read but not removed. *)
TakeKeepsTransaction(b) ==
  LET a == callback[b].state
      tx == transactions[a]
  IN
  /\ callback[b].pc = "take"
  /\ \/ tx = NONE /\ CallbackAnswer(b, "page")
     \/ tx # NONE /\ is_expired(tx, callback[b].now)
        /\ CallbackRedirect(b, "redirect_expired", tx)
     \/ /\ tx # NONE /\ ~is_expired(tx, callback[b].now)
        /\ callback' = [callback EXCEPT ![b] = [@ EXCEPT !.pc = "resolve", !.tx = tx]]
  /\ UNCHANGED <<clock, versions, transactions, codes, authz, token>>

(* take_transaction: an expired transaction is answered with a redirect to  *)
(* its redirect_uri at once.  A failure may have removed the transaction.   *)
CallbackTake(b) ==
  LET a == callback[b].state
      tx == transactions[a]
      take == transactions' = [transactions EXCEPT ![a] = NONE]
  IN
  /\ callback[b].pc = "take"
  /\ \/ StoreError(take, UNCHANGED transactions) /\ CallbackAnswer(b, "page")
     \/ tx = NONE /\ UNCHANGED transactions /\ CallbackAnswer(b, "page")
     \/ /\ tx # NONE /\ take
        /\ \/ is_expired(tx, callback[b].now) /\ CallbackRedirect(b, "redirect_expired", tx)
           \/ /\ ~is_expired(tx, callback[b].now)
              /\ callback' = [callback EXCEPT ![b] = [@ EXCEPT !.pc = "resolve", !.tx = tx]]
  /\ UNCHANGED <<clock, versions, codes, authz, token>>

(* Mutant: the client is not looked up again. *)
ResolveTrustsTransaction(b) ==
  /\ callback[b].pc = "resolve"
  /\ \/ /\ callback[b].reply \in {"error", "none"}
        /\ CallbackRedirect(b, "redirect_error", callback[b].tx)
     \/ callback[b].reply = "code" /\ CallbackProceed(b, "exchange")
  /\ UNCHANGED <<clock, versions, store, authz, token>>

(* Mutant: an unresolved client is not answered. *)
ResolveNeverRenders(b) ==
  /\ callback[b].pc = "resolve"
  /\ Registered(find_client(registry, callback[b].tx.oidc_client_id),
                callback[b].tx.redirect_uri)
  /\ \/ /\ callback[b].reply \in {"error", "none"}
        /\ CallbackRedirect(b, "redirect_error", callback[b].tx)
     \/ callback[b].reply = "code" /\ CallbackProceed(b, "exchange")
  /\ UNCHANGED <<clock, versions, store, authz, token>>

(* The client is resolved again and must still have the redirect_uri; only  *)
(* then may anything, an upstream error included, go to the RP.             *)
CallbackResolve(b) ==
  LET tx == callback[b].tx
      config == find_client(registry, tx.oidc_client_id)
  IN
  /\ callback[b].pc = "resolve"
  /\ \/ tx.oidc_client_id \notin StaticClients /\ CallbackAnswer(b, "page")
     \/ ~Registered(config, tx.redirect_uri) /\ CallbackAnswer(b, "page")
     \/ /\ Registered(config, tx.redirect_uri)
        /\ \/ /\ callback[b].reply \in {"error", "none"}
              /\ CallbackRedirect(b, "redirect_error", tx)
           \/ callback[b].reply = "code" /\ CallbackProceed(b, "exchange")
  /\ UNCHANGED <<clock, versions, store, authz, token>>

(* exchange_code, then fetch_user; each may fail, and an id that is not a   *)
(* snowflake counts as a failure.                                           *)
CallbackDiscord(b) ==
  /\ \/ callback[b].pc = "exchange" /\ CallbackProceed(b, "user")
     \/ callback[b].pc = "user" /\ CallbackProceed(b, "guild")
     \/ /\ callback[b].pc \in {"exchange", "user"}
        /\ CallbackRedirect(b, "redirect_error", callback[b].tx)
  /\ UNCHANGED <<clock, versions, store, authz, token>>

(* Mutant: a failed membership check lets the user in. *)
GuildFailsOpen(b) ==
  /\ callback[b].pc = "guild"
  /\ CallbackProceed(b, "store")
  /\ UNCHANGED <<clock, versions, store, authz, token>>

(* fetch_guild_member: only a member goes on. *)
CallbackGuild(b) ==
  /\ callback[b].pc = "guild"
  /\ \/ callback[b].user \in Members /\ CallbackProceed(b, "store")
     \/ CallbackRedirect(b, "redirect_error", callback[b].tx)
  /\ UNCHANGED <<clock, versions, store, authz, token>>

(* issue_code and put_authorization_code; the code reaches the RP only if   *)
(* the put succeeded.                                                       *)
CallbackStore(b) ==
  LET tx == callback[b].tx
      code == issue_code(tx, callback[b].user, b, callback[b].now)
      put == codes' = [codes EXCEPT ![code.code_hash] = code]
  IN
  /\ callback[b].pc = "store"
  /\ \/ put /\ CallbackRedirect(b, "redirect_code", tx)
     \/ StoreError(put, UNCHANGED codes) /\ CallbackRedirect(b, "redirect_error", tx)
  /\ UNCHANGED <<clock, versions, transactions, authz, token>>

-----------------------------------------------------------------------------
(* POST /token *)

(* Someone presents a code that went out in a redirect. *)
TokenStart(t, b, p) ==
  /\ token[t].pc = "idle"
  /\ callback[b].pc = "redirect_code"
  /\ token' = [token EXCEPT ![t] =
       [@ EXCEPT !.pc = "find", !.now = clock, !.code = b, !.presented = p,
                 !.since = version]]
  /\ UNCHANGED <<clock, versions, store, authz, callback>>

TokenAnswer(t, pc) == token' = [token EXCEPT ![t] = [@ EXCEPT !.pc = pc, !.upto = version]]

TokenProceed(t, pc) == token' = [token EXCEPT ![t].pc = pc]

(* authenticate_client, first call: with a Basic header the client must be  *)
(* confidential, without one it must be public.                             *)
TokenFind(t) ==
  LET p == token[t].presented
      config == find_client(registry, p.client_id)
      basic == p.secret # NONE
  IN
  /\ token[t].pc = "find"
  /\ \/ p.client_id \notin StaticClients /\ TokenAnswer(t, "error")
     \/ config = NONE /\ TokenAnswer(t, "error")
     \/ /\ config # NONE
        /\ \/ /\ basic # (config.client_type = "confidential")
              /\ TokenAnswer(t, "error")
           \/ basic /\ config.client_type = "confidential" /\ TokenProceed(t, "verify")
           \/ ~basic /\ config.client_type = "public" /\ TokenProceed(t, "consume")
  /\ UNCHANGED <<clock, versions, store, authz, callback>>

(* Second call, verify_client_secret: the record is read again. *)
TokenVerify(t) ==
  LET p == token[t].presented
      ok == verify_client_secret(registry, p.client_id, p.secret, token[t].now)
  IN
  /\ token[t].pc = "verify"
  /\ \/ p.client_id \notin StaticClients /\ TokenAnswer(t, "error")
     \/ ~ok /\ TokenAnswer(t, "error")
     \/ ok /\ TokenProceed(t, "consume")
  /\ UNCHANGED <<clock, versions, store, authz, callback>>

(* Mutant: the code is checked but not deleted. *)
ConsumeKeepsCode(t) ==
  LET p == token[t].presented
      record == codes[sha256_b64url(token[t].code)]
      check == [client_id |-> p.client_id, redirect_uri |-> p.redirect_uri,
                code_verifier |-> p.code_verifier]
  IN
  /\ token[t].pc = "consume"
  /\ \/ TokenAnswer(t, "error")
     \/ /\ record # NONE
        /\ evaluate_code_exchange(record, check, token[t].now) = "Ok"
        /\ token' = [token EXCEPT ![t] = [@ EXCEPT !.pc = "sign", !.record = record]]
  /\ UNCHANGED <<clock, versions, transactions, codes, authz, callback>>

(* consume_authorization_code: Ok and Expired delete the code, a mismatch   *)
(* leaves it; a failure happens before or after that.                       *)
TokenConsume(t) ==
  LET p == token[t].presented
      h == sha256_b64url(token[t].code)
      record == codes[h]
      check == [client_id |-> p.client_id, redirect_uri |-> p.redirect_uri,
                code_verifier |-> p.code_verifier]
      verdict == IF record = NONE THEN "Unknown"
                 ELSE evaluate_code_exchange(record, check, token[t].now)
      consume == codes' = IF verdict \in {"Ok", "Expired"}
                          THEN [codes EXCEPT ![h] = NONE] ELSE codes
  IN
  /\ token[t].pc = "consume"
  /\ \/ StoreError(consume, UNCHANGED codes) /\ TokenAnswer(t, "error")
     \/ verdict # "Ok" /\ consume /\ TokenAnswer(t, "error")     \* invalid_grant
     \/ /\ verdict = "Ok" /\ consume
        /\ token' = [token EXCEPT ![t] = [@ EXCEPT !.pc = "sign", !.record = record]]
  /\ UNCHANGED <<clock, versions, transactions, authz, callback>>

(* The claims are signed; a failure loses the code that was consumed. *)
TokenSign(t) ==
  /\ token[t].pc = "sign"
  /\ TokenAnswer(t, "token") \/ TokenAnswer(t, "error")
  /\ UNCHANGED <<clock, versions, store, authz, callback>>

-----------------------------------------------------------------------------
(* Operators, the sweep and time. *)

(* An admin mutation applied by the registry object (see ClientRegistry). *)
AdminSet(c, record) ==
  /\ version < MaxVersions
  /\ record # registry[c]
  /\ versions' = Append(versions, [registry EXCEPT ![c] = record])
  /\ UNCHANGED <<clock, store, authz, callback, token>>

(* A rotation installs a secret that was never the client's before. *)
FreshSecret(c, s) ==
  \A i \in 1..version : versions[i][c].current_secret_hash # sha256_b64url(s)

(* `now` is the time at which the admin request arrived. *)
Admin(c, now) ==
  /\ registry[c] # NONE
  /\ \/ AdminSet(c, disable(registry[c], now))
     \/ AdminSet(c, enable(registry[c], now))
     \/ \E uris \in UpdateUris : AdminSet(c, apply_metadata(registry[c], uris, now))
     \/ \E s \in Secrets :
          /\ FreshSecret(c, s)
          /\ AdminSet(c, rotate_secret(registry[c], sha256_b64url(s), now))

(* The alarm of AuthorizationState. *)
Sweep ==
  /\ transactions' = [a \in AuthorizeReqs |->
       IF transactions[a] # NONE /\ is_expired(transactions[a], clock)
       THEN NONE ELSE transactions[a]]
  /\ codes' = [h \in Hashes |->
       IF codes[h] # NONE /\ codes[h].expires_at <= clock THEN NONE ELSE codes[h]]
  /\ store' # store
  /\ UNCHANGED <<clock, versions, authz, callback, token>>

Tick ==
  /\ clock < MaxClock
  /\ clock' = clock + 1
  /\ UNCHANGED <<versions, store, authz, callback, token>>

AuthorizeStep(a) == AuthorizeResolve(a) \/ AuthorizePut(a)
CallbackStep(b) ==
  CallbackTake(b) \/ CallbackResolve(b) \/ CallbackDiscord(b) \/ CallbackGuild(b)
    \/ CallbackStore(b)
TokenStep(t) == TokenFind(t) \/ TokenVerify(t) \/ TokenConsume(t) \/ TokenSign(t)

Next ==
  \/ \E a \in AuthorizeReqs :
       AuthorizeStep(a) \/ \E input \in AuthorizeInputs : AuthorizeStart(a, input)
  \/ \E b \in CallbackReqs :
       \/ CallbackStep(b)
       \/ \E a \in AuthorizeReqs, reply \in {"code", "error", "none"}, u \in Subjects :
            CallbackStart(b, a, reply, u)
  \/ \E t \in TokenReqs :
       \/ TokenStep(t)
       \/ \E b \in CallbackReqs, p \in Presentations : TokenStart(t, b, p)
  \/ \E c \in DynamicIds, now \in 0..clock : Admin(c, now)
  \/ Sweep
  \/ Tick

(* A handler goes on once its await completes; Durable Objects and Discord  *)
(* answer or fail in the end.  Nobody is bound to make a request.           *)
Fairness ==
  /\ \A a \in AuthorizeReqs : WF_vars(AuthorizeStep(a))
  /\ \A b \in CallbackReqs : WF_vars(CallbackStep(b))
  /\ \A t \in TokenReqs : WF_vars(TokenStep(t))

Spec == Init /\ [][Next]_vars /\ Fairness

-----------------------------------------------------------------------------
(* Properties. *)

TypeOK ==
  /\ clock \in Nat
  /\ versions \in Seq([DynamicIds -> DynamicClientRecord \cup {NONE}])
  /\ transactions \in [AuthorizeReqs -> AuthorizationTransaction(AuthorizeReqs) \cup {NONE}]
  /\ codes \in [Hashes -> StoredAuthorizationCode(Hashes) \cup {NONE}]
  /\ authz \in [AuthorizeReqs -> AuthorizeRequest]
  /\ callback \in [CallbackReqs -> CallbackRequest]
  /\ token \in [TokenReqs -> TokenRequest]

Issued == {t \in TokenReqs : token[t].pc = "token"}
Login(t) == callback[token[t].code].state

(* One login yields at most one ID token, however often the callback and    *)
(* the token request are repeated and whichever replies are lost.           *)
OneTokenPerLogin ==
  \A t1, t2 \in Issued : Login(t1) = Login(t2) => t1 = t2

(* One login reaches the RP at most once: of the callbacks that present the *)
(* same state, at most one is answered with a redirect.                     *)
OneRedirectPerLogin ==
  \A b1, b2 \in CallbackReqs :
    /\ callback[b1].pc \in CallbackRedirects
    /\ callback[b2].pc \in CallbackRedirects
    /\ callback[b1].state = callback[b2].state
    => b1 = b2

(* The ID token is bound to one login end to end: the client, URI and PKCE  *)
(* challenge of the /authorize request are those proved at /token, the      *)
(* nonce is that request's, and the subject is the guild member whom        *)
(* Discord named in the callback of that very login.                        *)
TokenBoundToLogin ==
  \A t \in Issued :
    LET in == authz[Login(t)].input
        p == token[t].presented
        record == token[t].record
    IN
    /\ p.client_id = in.client_id
    /\ p.redirect_uri = in.redirect_uri
    /\ sha256_b64url(p.code_verifier) = in.code_challenge
    /\ record.nonce = in.nonce
    /\ record.subject = callback[token[t].code].user
    /\ record.subject \in Members

(* What goes back to the RP, a code or an error, goes to the redirect_uri   *)
(* of the /authorize request that began this very login and carries that    *)
(* request's `state`: none is invented, lost, or taken from another login,  *)
(* and the upstream state never leaves the provider.                        *)
RedirectBoundToLogin ==
  \A b \in CallbackReqs :
    callback[b].pc \in CallbackRedirects =>
      LET in == authz[callback[b].state].input IN
      callback[b].sent = [redirect_uri |-> in.redirect_uri, state |-> in.rp_state]

(* A login is short: from the arrival of the /authorize request to the iat  *)
(* of its token less than the two lifetimes pass, by one second at each of  *)
(* the two checks, although every handler uses the time at which its        *)
(* request arrived and not the time at which it acts.                       *)
LoginIsShort ==
  \A t \in Issued :
    token[t].now + 2 <= authz[Login(t)].now
                          + TRANSACTION_TTL_SECS + AUTHORIZATION_CODE_TTL_SECS

RegisteredIn(i, c, uri) == Registered(find_client(versions[i], c), uri)

(* A code or an upstream error goes to the RP only if the client was active *)
(* and had that redirect_uri registered at some moment of the callback: a   *)
(* client disabled, or a URI removed, before the callback came in gets      *)
(* nothing (the expired-session redirect is not covered, see                *)
(* NoRedirectOnceUnregistered).                                             *)
RedirectAuthorized ==
  \A b \in CallbackReqs :
    callback[b].pc \in {"redirect_code", "redirect_error"} =>
      LET in == authz[callback[b].state].input IN
      \E i \in callback[b].since .. callback[b].upto :
        RegisteredIn(i, in.client_id, in.redirect_uri)

(* The record holds that secret: it is the current one, or the previous one *)
(* strictly before the end of its window.                                   *)
HoldsSecret(r, s, now) ==
  \/ r.current_secret_hash = sha256_b64url(s)
  \/ r.previous_secret_hash = sha256_b64url(s) /\ now < r.previous_secret_valid_until

(* An ID token is issued only if, at some moment of the token request, the  *)
(* client was active and public, or active and held the presented secret at *)
(* the iat of the token; at the end of a rotation overlap the old secret is *)
(* no longer held.                                                          *)
TokenAuthorized ==
  \A t \in Issued :
    LET c == token[t].presented.client_id
        s == token[t].presented.secret
    IN
    \E i \in token[t].since .. token[t].upto :
      \/ /\ c \in StaticClients
         /\ \/ s = NONE /\ StaticConfig[c].client_type = "public"
            \/ s # NONE /\ StaticSecret[c] = s
      \/ /\ c \in DynamicIds \ StaticClients
         /\ versions[i][c] # NONE
         /\ versions[i][c].status = "active"
         /\ \/ s = NONE /\ versions[i][c].client_type = "public"
            \/ s # NONE /\ HoldsSecret(versions[i][c], s, token[t].now)

(* The state of a login as a ticket: redeemed once a token is out, granted  *)
(* while its code is stored or a token request holds the consumed record,   *)
(* pending while its transaction is stored or held by a callback.           *)
CodesOf(a) ==
  {h \in Hashes : codes[h] # NONE
     /\ \E b \in CallbackReqs : callback[b].state = a /\ h = sha256_b64url(b)}
TokensOf(a, pc) ==
  {t \in TokenReqs : token[t].pc = pc /\ Login(t) = a}
HoldersOf(a) ==
  {b \in CallbackReqs : callback[b].state = a
     /\ callback[b].pc \in {"resolve", "exchange", "user", "guild", "store"}}

LoginStage(a) ==
  IF TokensOf(a, "token") # {} THEN "redeemed"
  ELSE IF CodesOf(a) # {} \/ TokensOf(a, "sign") # {} THEN "granted"
  ELSE IF transactions[a] # NONE \/ HoldersOf(a) # {} THEN "pending"
  ELSE IF authz[a].pc \in {"idle", "resolve", "put"} THEN "new"
  ELSE "closed"

LoginUsers(a) ==
  {codes[h].subject : h \in CodesOf(a)}
    \cup {token[t].record.subject : t \in TokensOf(a, "sign") \cup TokensOf(a, "token")}

Ticket == INSTANCE LoginTicket WITH
  Logins <- AuthorizeReqs,
  Users <- Members,
  stage <- [a \in AuthorizeReqs |-> LoginStage(a)],
  who <- [a \in AuthorizeReqs |-> LoginUsers(a)]

(* The handlers implement the login ticket. *)
ImplementsTicket == Ticket!Spec

(* Every request that has begun is answered. *)
Answered ==
  /\ \A a \in AuthorizeReqs : authz[a].pc = "resolve" ~> authz[a].pc \in AuthorizeAnswers
  /\ \A b \in CallbackReqs : callback[b].pc = "take" ~> callback[b].pc \in CallbackAnswers
  /\ \A t \in TokenReqs : token[t].pc = "find" ~> token[t].pc \in TokenAnswers

(* Documented, not true: a client disabled between /authorize and the       *)
(* callback gets no RP redirect, nor does a removed URI (callback.rs,       *)
(* handle_callback; DESIGN.md).  The expired-session answer breaks it.      *)
NoRedirectOnceUnregistered ==
  \A b \in CallbackReqs :
    callback[b].pc \in CallbackRedirects =>
      LET in == authz[callback[b].state].input IN
      \E i \in callback[b].since .. callback[b].upto :
        RegisteredIn(i, in.client_id, in.redirect_uri)

(* Documented, not true: for a client disabled after /authorize no code is  *)
(* issued and a removed URI is never redirected to (DESIGN.md).  A change   *)
(* made while the callback waits for Discord comes too late.                *)
NoCodeOnceUnregistered ==
  \A b \in CallbackReqs :
    callback[b].pc = "redirect_code" =>
      LET in == authz[callback[b].state].input IN
      RegisteredIn(callback[b].upto, in.client_id, in.redirect_uri)
=============================================================================
