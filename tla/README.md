# A formal model of discord-oidc

`discord-oidc` is an OpenID Provider that runs as a Cloudflare Worker. It
delegates the login to Discord OAuth2, lets in members of one guild only, and
keeps its state in two Durable Objects. This directory holds TLA+ modules of
its core, the TLC configurations that check them on small instances, and proofs
that TLAPS checks for every value of the constants.

Paths below are relative to `src/crates/`; `core` is `oidc-core/src`, `worker`
is `discord-oidc-worker/src`.

## The system

| part | state | operations | talks to |
|---|---|---|---|
| `AuthorizationState` Durable Object (`worker/durable.rs`, `do_store.rs`) | `tx:` and `code:` records, one alarm | put transaction, take transaction, put code, consume code, sweep, alarm | called by the three handlers through `DoStore` |
| `ClientRegistryState` Durable Object (`worker/durable.rs`, `registry_client.rs`) | one record per dynamic client | insert, update, disable, enable, rotate-secret, get, list | called by the admin API and by the resolver |
| Admin API (`core/admin.rs`) | none | create (with an id loop), list, get, update, disable, enable, rotate | registry object |
| Resolver (`core/resolver.rs`) | none, uncached | `find_client`, `verify_client_secret` | static configuration first, then the registry object |
| `GET /authorize` (`core/authorize.rs`) | none | validate, store a transaction, redirect to Discord | resolver, `AuthorizationState` |
| Discord callback (`core/callback.rs`, `worker/discord_http.rs`) | none | take the transaction, resolve the client again, three Discord calls, issue a code | both objects, Discord |
| `POST /token` (`core/token.rs`) | none | authenticate the client (two registry reads), consume the code, sign | both objects, Web Crypto |
| Records (`core/transaction.rs`, `code.rs`, `pkce.rs`, `registry.rs`) | none | pure functions | |
| Configuration (`core/config.rs`, `client.rs`) | read once per isolate | validation at load | |
| Keys and tokens (`core/jwk.rs`, `jwt.rs`, `worker/webcrypto.rs`) | one imported key per isolate | sign, publish JWKS | |
| Entry point (`worker/lib.rs`) | the memoised runtime of the isolate | routing | everything above |

What makes it hard:

* every handler reads the clock once, when the runtime is there, and then awaits
  other machines up to five times. All decisions, in the handler and in the
  Durable Objects, use that old `now`;
* between two awaits every other request, every operator and the sweep may run;
* a Durable Object call may fail before it took effect or after it did, and the
  handler cannot tell which;
* callbacks and token requests are repeated by browsers and RPs;
* cleaning up relies on one alarm that each put must arm and each sweep re-arm,
  and whose setting can fail after the record was stored;
* all requests of an isolate share one load of the runtime, driven by whichever
  of them still polls it, and its failure is kept like its success;
* isolates of two deployments, with different signing keys, run side by side;
* whether an error goes to a page or to a `redirect_uri`, and what a stranger
  learns, depends on the order of many checks.

What makes each part correct: single use and bounded life of transactions and
codes (`AuthorizationState`); no lost update, an honoured secret overlap, no
revived and no shared secret (`ClientRegistryState`); one token per login, bound
end to end to the request that began it, and nothing sent to a client that is no
longer registered (the handlers); redirects exactly after client and URI are
validated (`/authorize`), authentication before a code is touched (`/token`),
strangers stopped before anything else (admin API), an outage of Discord never
taken for an answer (callback); one outcome per isolate, and every live token
verifiable with every JWKS that is served (entry point, keys).

## Modules

| module | models | notes |
|---|---|---|
| `Domain` | `util.rs` SHA-256 | an injective constructor; a hash is never equal to its preimage |
| `AuthorizationRecords` | `transaction.rs`, `code.rs`, `pkce.rs` | records and pure functions; `scope` and `id` are carried but decide nothing and are left out |
| `AuthorizationState` | the object of that name | one action per endpoint, the alarm, alarm faults, time |
| `DynamicClient` | `registry.rs`, `resolver.rs` | the record, its transitions, static-first resolution; `redirect_uris` stands for all metadata, `client_type` for the policy it fixes |
| `ClientRegistry` | `admin.rs`, `registry_client.rs`, `ClientRegistryState` | an admin request is started, applied by the object, answered; each call may fail on either side |
| `OidcFlow` | `authorize.rs`, `callback.rs`, `token.rs` | the handlers, one action per await, over both objects, with operators and the sweep; uses the operators of `AuthorizationRecords` and `DynamicClient` |
| `LoginTicket` | an abstract specification | what one login promises: begun, granted to one member, redeemed once, or closed |
| `Parameters` | parsed queries and forms | absent, single, repeated or oversized values; the first failing check decides |
| `AuthorizeRequest` | `authorize.rs`, validation | every check of the query, up to the verdict |
| `TokenRequest` | `token.rs`, authentication | content type, form, header, the two registry reads, exchange parameters |
| `AdminRequest` | `lib.rs` `route_admin`, `admin.rs` | authentication, runtime, body, routing, validation, up to the call |
| `DiscordLogin` | `callback.rs`, `discord_http.rs` | the callback's query and the three replies of Discord |
| `Worker` | `lib.rs` `route` | composes the four modules above: one request, dispatched to one handler |
| `ClientMetadata` | `config.rs`, `client.rs` | checks shared by the configuration and the admin API |
| `Configuration` | `config.rs`, `client.rs`, `jwk.rs` | validation of every setting |
| `Runtime` | `lib.rs`, `webcrypto.rs`, `jwt.rs`, `jwk.rs` | isolates, the shared load, deployments, signing, JWKS |
| `MCAuthorizationState`, `MCClientRegistry`, `MCOidcFlow`, `MCWorker`, `MCRuntime` | | instances for TLC |
| `AuthorizationStateProofs`, `ClientRegistryProofs`, `OidcFlowProofs`, `RuntimeProofs` | | theorems about the module of that name |
| `LoginTicketProofs` | | `OidcFlow` implements `LoginTicket` |
| `WorkerProofs` | | lemmas on lists and first failing checks; theorems about the callback and the admin API |
| `AuthorizeRequestProofs`, `TokenRequestProofs` | | theorems about `GET /authorize` and `POST /token` |

Definitions keep the source's names (`issue_code`, `is_expired`,
`evaluate_code_exchange`, `ensure_alarm`, `sweep`, `rotate_secret`,
`find_client`, ...); `PROJECT.json` maps each one to its lines. Operators marked
"Mutant:" are deliberately wrong variants that each property is tried against.

### How state and actions correspond

*AuthorizationState.* `storage` is the key-value storage, `alarm` the pending
alarm. The runtime runs one event of an object at a time and no endpoint awaits
anything but its own storage between reading and writing a record, so one
endpoint is one action. Each action takes a `now` between 0 and the clock: the
time its Worker read, however long ago. `ensure_alarm` may fail after the put.
`AlarmGivenUp` is the runtime dropping an alarm whose handler keeps failing.
`/sweep` is an endpoint no handler calls; it is modelled because it shares the
alarm. `created`, `storedAt`, `used`, `refused`, `armedAt`, `disturbed` and
`faults` are history variables that no action's effect on the object depends on
(only `created`, random keys are never drawn twice, and the bounds restrict it).
`disturbed` holds from the loss of an alarm until a put or a `/sweep` has armed
one again, at `armedAt`; from then on the properties cover the records that were
left behind, too.

*ClientRegistry.* A request goes from `idle` over `generate` (create only) and
`sent` to `applied` (the object has run) and `done`. `Fail` reports
`storage_error`: from `applied` the reply was lost; from `sent` the call was
lost, or it is still under way (`late`) and the object applies it afterwards,
when the operator may already have tried again. The secret a request
generates is named by the request. `effect`, `overlap`, `delivered` and
`replaced` record what was applied, announced and handed to operators. Mutations
are made to ids that exist; an unknown id is answered 404 and changes nothing.

*OidcFlow.* `authz`, `callback` and `token` hold one record per HTTP request
with a program counter that names the await it is at. `versions` is the history
of registry contents; a request notes the versions current when it began and
ended. The upstream state is named by the authorize request that drew it, the
code by the callback that drew it; `sent` is where a callback sent the browser
and with which `state`. A call that fails did nothing, or took effect and its
reply was lost. One that takes effect after its failure was reported is not a
case of its own: nobody else knows the state or code of a late put, and a late
removal is one that other requests came before or did not. `AuthorizationState` appears through its
`take`, `put`, `consume` and sweep; `AuthorizationState.tla` covers the rest of
it. Parameter checks of `/authorize` after the redirect URI are one
nondeterministic outcome (`redirect_error` or go on), as they change no state;
`AuthorizeRequest`, `TokenRequest` and `DiscordLogin` cover what decides them.
The granted scope is always `openid` and is left out. Clients are not created
during a login.

*Worker.* `handler` is the route; the variables of the other handlers have no
value. `AuthorizeRequest` ends with a verdict: a page, a redirect with an error,
or a login that begins. `TokenRequest` has a step per await of
`authenticate_client`; operators disable, enable or rotate between its two
registry reads, and `seen` keeps the registry contents of the request. It ends
with an error or with the code going to the object. `AdminRequest` ends with an
error or with a call; a path is its sequence of segments, tested twice: before
the body is read (on the raw path) and when the request is routed (without
leading slashes). The two tests differ: `PUT /admin/clients//id` is routed to
update without its body and is answered 400. `DiscordLogin` lets Discord answer
each call with any status and a usable or unusable body, or not at all.

*Runtime.* An isolate goes from `fresh` over `importing` to `ready` or `failed`
and keeps the environment it was started with. `Import` needs a request that
still waits (a future nobody polls does not run); a token request reads the
clock after the load, when it is served. Configurations are validated
by `from_input` as a whole, at the load. `Deploy` is the operator: as documented
he keeps a key among the additional ones until the tokens it signed have
expired; a `Staged` one also publishes a key one deployment before it signs.

## Runs

All state counts are distinct states.

| run | instance | checks | result |
|---|---|---|---|
| `authorization_state` | 1 state, 1 code, 2 clients, lifetimes 4 and 2, sweep every 3, lateness 1, 1 alarm fault, requests until 5 | `TypeOK`, `OneVerdict`, `RetentionBound`, `LeavesByUseOrExpiry`, `EventuallyRemoved` | holds, 88,719 |
| `client_registry` | 3 admin requests, 2 at a time, 3 dynamic ids of which one is a static client's, 2 URIs, 2 id attempts, overlap 1, time to 2; requests and free ids symmetric | `TypeOK`, `NoLostUpdate`, `OverlapHonoured`, `ActiveResolves`, `TimesCoherent`, `SecretsUnshared`, `SecretsNeverRevive` | holds, 1,922,817 |
| `flow_admin` | 1 login, 1 callback, 1 token request of a dynamic confidential client; 2 admin changes | `TypeOK`, `RedirectAuthorized`, `TokenAuthorized`, `Answered` | holds, 177,494 |
| `flow_replay` | 1 login, 2 callbacks, 2 token requests, a member and a non-member | `OneTokenPerLogin`, `OneRedirectPerLogin`, `LoginIsShort`, `ImplementsTicket` | holds, 320,365 |
| `flow_mix` | 2 logins of a dynamic confidential or a static public client, 2 callbacks, 1 token request with right and wrong client, URI, verifier and secret; lifetimes 1, so that a callback may come too late; requests symmetric | `TokenBoundToLogin`, `RedirectBoundToLogin` | holds, 334,082 |
| `worker` | one request to each handler: queries, forms and bodies up to two parameters off; 2 registry changes during `/token`; callback queries of up to 3 pairs, 5 statuses | `RedirectExactlyWhenTrusted`, `ProceedsExactly`, `VerdictIgnores`, `AdmittedByDiscord`, `DeniedOnlyByDiscord`, `CodeTouchedByAuthentic`, `FailuresAlike`, `AuthenticServed`, `StrangersStopped`, `CallsNameDynamicClients`, `MetadataSound`, `BodyReadWhereConsumed` | holds, 48,612 |
| `runtime_config` | 1404 environments up to two settings off, 1 isolate, 2 requests of every kind | `OneRuntime`, `Answered`, `KidUnambiguous`, `StaticClientsUsable` | holds, 430,514 |
| `runtime_rollover` | 3 isolates, 2 token requests, 3 deployments of a staged operator among 6 environments, ID tokens of lifetime 1, time to 1; isolates and requests symmetric | `TypeOK`, `Verifiable` | holds, 590,247 |
| `flow_expired` | as `flow_admin` | `NoRedirectOnceUnregistered` | violated, see findings |
| `flow_late_disable` | as `flow_admin` | `NoCodeOnceUnregistered` | violated, see findings |
| `registry_retry` | 3 admin requests, one at a time, overlap 2, time to 3 | `DeliveredSecretKeepsOverlap` | violated, see findings |
| `runtime_documented` | 2 isolates, 2 token requests, the documented roll-over | `CurrentKidPublished` | violated, see findings |

The properties in words:

* `OneVerdict`: a record is handed out or reported expired at most once in total.
* `LeavesByUseOrExpiry`: no step removes a record that is neither handed out nor
  expired; a mismatching exchange does not burn a code.
* `RetentionBound`, `EventuallyRemoved`: the alarm removes what has expired,
  within one interval plus its lateness. A record that lost its alarm, because
  `set_alarm` failed or the runtime gave up, is covered again from the next put
  that arms one; before that nothing in the code would remove it.
* `NoLostUpdate`: the stored client shows the last applied metadata, status and
  secret, so no PUT or rotation re-enables a disabled client.
* `OverlapHonoured`, `SecretsNeverRevive`: `verify_secret` accepts exactly the
  current and, strictly before its announced end, the replaced secret; what is
  no longer accepted never is again.
* `ActiveResolves`: no generated id is shadowed by a static client.
* `SecretsUnshared`: no two clients accept one secret, also when an insert that
  was reported as failed is applied later.
* `TimesCoherent`: no client is changed or disabled before it was created, and
  `disabled_at` is set exactly while it is disabled.
* `OneTokenPerLogin`, `OneRedirectPerLogin`, `TokenBoundToLogin`, `LoginIsShort`:
  the login as a whole, across the three requests.
* `RedirectBoundToLogin`: what a callback sends to the RP, a code, an error or the
  expired answer, goes to the URI and carries the `state` of the authorize
  request that began this login, and never the upstream state.
* `RedirectAuthorized`, `TokenAuthorized`: what goes out was authorised by some
  registry content that was current during the request. `TokenAuthorized` says
  what a held secret is without the code's own check, so that the second at
  which an overlap ends is compared with something.
* `ImplementsTicket`: the handlers refine `LoginTicket`, with the stage and the
  user of a login read off the stored records and the handlers that hold them.
* `Answered`: every request that has begun is answered; in `Runtime`, also if
  the request that started the load was cancelled.
* `RedirectExactlyWhenTrusted`, `ProceedsExactly`, `VerdictIgnores`: the verdict on an authorization request, against a reference
  that does not depend on the order of the checks.
* `CodeTouchedByAuthentic`, `FailuresAlike`, `AuthenticServed`: a code is
  touched only for who was authentic at some moment of the request; who never
  was learns only that; who always was is served.
* `StrangersStopped`, `CallsNameDynamicClients`, `MetadataSound`,
  `BodyReadWhereConsumed`: what the admin API lets through to the object.
* `AdmittedByDiscord`, `DeniedOnlyByDiscord`: a code needs three complete
  successes, `access_denied` a refusal.
* `OneRuntime`: the requests of an isolate all find a runtime or none does.
* `KidUnambiguous`, `StaticClientsUsable`: what a configuration that loads
  guarantees, among others to the constants of the other modules.
* `Verifiable`: every live ID token verifies with every JWKS that is served.

### Bounds

Lifetimes and intervals are scaled down and keep their order (a code lives less
long than a transaction in `authorization_state`, the sweep interval lies
between them); time runs far enough for every record to expire and be swept.
One key of each kind suffices for `OneVerdict` and `LeavesByUseOrExpiry`, as
keys interact only through the alarm, and two keys do meet at the alarm; the
proofs remove this bound. Three admin requests are the fewest that create a
client, rotate it twice or rotate it against another change. Two parameters
off are the fewest whose checks compete for the answer; `MAX_REDIRECT_URIS` is 3
instead of 16, so that lists at and over the limit occur. Two registry changes
put a different content before, between and after the reads of `/token`. Three
isolates and deployments cover a roll-over from its first to its last stage.
`Horizon`, `MaxFaults`, `MaxOutstanding`, `MaxClock`, `MaxVersions`, `MaxChanges`
and `MaxDeploys` are bounds of the models and not of the code. Requests are finite in number, so all models
but `AuthorizationState` stop in the end and are run without the deadlock check;
`AuthorizationState` is checked for deadlock.

### Fairness

`AuthorizationState`: weak fairness of `Alarm` (the runtime runs a due alarm and
retries it) and of `Tick`; nobody is bound to make a request, and a lost alarm
is an explicit fault. `OidcFlow`: weak fairness of each handler's step once it
has begun, as every await in the code completes with an answer or an error; no
fairness of browsers, RPs, operators or the sweep. `Runtime`: weak fairness of
`Import` (while it is polled; Web Crypto completes or fails), `Serve` and
`Sign`; none of clients, operators or the starting and ending of isolates.
`ClientRegistry` and the request modules state none.

## Findings

Each is a place where the code does something other than the repository's words
say; `PROJECT.json` has the quotations.

1. `flow_expired`: an expired transaction is answered with a redirect to its
   `redirect_uri` before the client is resolved again (`callback.rs:96`), so a
   disabled client, or a removed URI, still gets the `temporarily_unavailable`
   redirect.
2. `flow_late_disable`: the client is resolved once, before the Discord calls
   (`callback.rs:119`); a disable during them does not stop the code. The token
   request still fails, as it resolves the client again (`TokenAuthorized`).
3. `registry_retry`: `storage_error` is not safe to retry for `rotate-secret`: if
   the first rotation was applied, the retry drops the secret in use at once.
4. `runtime_documented`: an isolate publishes the keys of its own deployment
   only (`lib.rs:254`). With the documented roll-over the new deployment signs
   with a key that isolates of the old one do not publish. Publishing the key one
   deployment ahead avoids it (`runtime_rollover`).

## Proofs

TLAPS proves 37 theorems, for every value of the constants that satisfies the
named assumptions: any number of requests, clients, logins, isolates and
deployments, any lifetimes, limits and bounds, queries, paths and lists of any
length. Between them they state every invariant, both action properties and the
refinement that the passing runs check. TLC confirms each inductive invariant on
the instances of the runs.

### AuthorizationStateProofs

* `TypeCorrect` (`TypeOK`) is inductive as it stands. It rests on
  `NewTransactionType` and `IssueCodeType`: what a put stores is well formed, a
  code under its hash.
* `SingleUse` (`OneVerdict`). By itself it is not inductive: nothing in it stops
  a record that had its verdict from being present. `VerdictInv` adds that a
  present record, and a key never put, has had none.
* `NoEarlyRemoval` (`LeavesByUseOrExpiry`), an action property from `VerdictInv`
  (a put never overwrites a present record). The `now` of a request is never
  ahead of the clock; that is what makes early sweeping impossible.
* `BoundedRetention` (`RetentionBound`). `AlarmInv` says that, while undisturbed,
  an alarm is pending whenever anything is stored, at most one interval after the
  latest of the expiry and the arrival of each record and the last arming
  (a put that arms an alarm after one was lost takes over every record left
  behind), and that it is never further than one interval ahead nor overdue by
  more than the lateness. A put that finds a pending alarm relies on the second
  half, a sweep on the fact that what remains expires after it.

### ClientRegistryProofs

`TypeCorrect`, `UpdatesKept` (`NoLostUpdate`), `TimestampsSound`
(`TimesCoherent`), `ClientsReachable` (`ActiveResolves`), `SecretsSeparate`
(`SecretsUnshared`), `OverlapKept` (`OverlapHonoured`) and `NoRevival`
(`SecretsNeverRevive`) follow from one invariant, whose parts say what a
request may rely on when its call is applied late:

* `RequestInv`: what a request carries (its `now` is past; a call names a
  dynamic id no static client has; a mutation names a client that was created
  before the request's `now`, and nothing deletes one). Without it
  `disabled_at` could come before `created_at`.
* `RecordInv`: exactly confidential clients have a secret, and a previous secret
  has a window.
* `SecretInv`: a secret is in no record before its request is applied, and then
  in one place of one record. `SecretsUnshared` is about the secrets that are
  accepted now; the invariant must be about the ones stored, as an expired one
  still lies there.
* `RotationInv`: the record still shows the last rotation. An applied create
  cannot disturb it because it only ever fills an empty record.

### OidcFlowProofs and LoginTicketProofs

The idea behind all of it is that a login lives in one place at a time: in its
stored transaction, in the callback that took it, in its stored code, or in the
token request that consumed it.

* `StartedInv`: a callback carries a state that went to Discord, a token request
  a code that went to an RP.
* `TransactionInv`: a stored transaction is what `/authorize` put; what a callback
  holds is that transaction, unexpired at its `now`, and nobody else holds it.
  What a callback sent is read off it. Gives `RedirectOnce` and `RedirectBound`.
* `CodeInv`: the same for the code, and what a token request holds passed
  `evaluate_code_exchange`. With the above, gives `TokenOnce`, `TokenBound`
  and `LoginShort`.
* `RegistryInv`: a handler past a registry check has a version, between its start
  and now, that passed it. The second read of `/token` may see another version
  than the first: the second read alone supports the claim. `AcceptedIsHeld`
  turns what `verify_client_secret` accepts into what `HoldsSecret` says. Gives
  `RedirectsAuthorized` and `TokensAuthorized`.

`FlowImplementsTicket` (`ImplementsTicket`) shows that every step of `OidcFlow`
is a step of `LoginTicket` or a stutter under the mapping of `OidcFlow`.
`Exclusive` (a login is in at most one place) and `View` (the place determines
the stage and the user the mapping shows) follow from the invariant above; each
action is then shown to move one login from one place to the next, to end it, or
to leave all of them where they are.

### RuntimeProofs

* `RuntimeShared` (`OneRuntime`) is inductive with `RequestInv`, which ties where a
  request stands to the phase of its isolate. `OneRuntime` itself has to be
  carried, because an isolate that is gone no longer tells how it ended.
* `KidsUnambiguous`, `ClientsUsable` (`StaticClientsUsable`): from `LoadInv`, an
  isolate that is ready passed `from_input` and the import. The rest are lemmas
  about what `from_input` accepts, such as `ClientIdsUnique` (a list in which no
  element repeats an earlier one has no duplicates).
* `RolloverVerifiable`: `Staged => Verifiable`. `Staged` is the constant that says
  how deployments are made, TRUE in `runtime_rollover`; with FALSE the statement
  without it is refuted (`runtime_documented`). `RolloverInv`: the settings of
  the deployment and of every running isolate name the keys all the others sign
  with, and the key of every token that has not expired.

### WorkerProofs, AuthorizeRequestProofs, TokenRequestProofs

The four request modules are proved about through their composition `Worker`,
where their properties are checked. The handlers decide by the first failing
check of a list; `NoFailure` and `SomeFailure` say that the list passes exactly
if each check does. From there:

* `CallbackInv`: the program counter tells how many replies of Discord there are,
  which of them were complete, and that the query had no error. Gives
  `CallbackAdmits` and `CallbackDenies`.
* `AdminInv`: a body was read only where `needs_body` held. The lemmas show, for
  paths of any length, that `needs_body` on the raw path implies the route on the
  segments, and what `Route` and `validate_metadata` accept. Gives `AdminStops`,
  `AdminNames`, `AdminValidates` and `AdminReads`.
* `TokenInv`: between the two reads the client stays confidential (its type never
  changes), and past them it was authentic at a moment that was `seen`. Gives
  `CodesGuarded`, `StrangersLearnNothing` and `ClientsServed`.
* `AuthorizeInv`: a verdict is `Judge` of the query and the client that was found,
  or a page. `JudgeKinds` compares `Judge`, which depends on the order of the
  checks, with `Trusted` and `Servable`, which do not; `JudgeReads` says that it
  reads known parameters only. Gives `RedirectsTrusted`, `LoginsServable`
  and `VerdictsIgnore`.

### Assumptions

All are named, in the module that declares the constants, and TLC evaluates them
in the runs.

* Numbers are numbers: lifetimes, intervals, overlaps and attempts are positive
  naturals, lateness, bounds and key lengths naturals (`TtlAssumption`,
  `SweepAssumption`, `RegistryAssumption`, `ConfigurationAssumption`, ...).
* `NONE`, the Rust `None`, is none of the values of an `Option`
  (`NoneAssumption`, `NoRecordAssumption`, `NoRotationAssumption`,
  `NoStoredAssumption`), and the marks for repeated or oversized parameters are no
  parameter values (`CallerAssumption`).
* Inputs have the shape their Rust types give them: static clients and initial
  registry contents are well formed (`StaticAssumption`, `FlowAssumption`),
  parsed queries have every known parameter, present or not, callback queries,
  paths and URI lists are finite lists (`CallerAssumption`), a parsed environment
  holds lists, a client type is one of two (`EnvironmentAssumption`). Nothing is
  assumed about whether they are valid: that is what the code decides.
* Discord user ids are digits, so that `access_denied` is none
  (`CallerAssumption`; `callback.rs` refuses other ids).
* SHA-256 is injective and no hash is a preimage, by the constructor in `Domain`.

### Only model-checked

Liveness (`EventuallyRemoved` and the two `Answered`), which this prover cannot
do, and the four expected violations, which are counterexamples. The prover's SMT
backend has no empty string; an empty path segment is therefore the constant
`Empty`, as an empty setting already was.

## Not modelled

Cryptography, JWT and JSON encoding (signing and importing succeed or fail; a
token is its kid, key and expiry); URL parsing, percent and Basic decoding (given
as constants or decoded values); the discovery document, error pages and
responses; unknown routes and logging. `InMemoryStore` and
`InMemoryClientRegistry`, which the tests use, have no module of their own. Times
are judged as they are stored: `updated_at` is the arrival time of the mutation
applied last and may lie before `disabled_at`; no decision reads it.

## Plan

Done: all modules above, their runs, and proofs of every safety property that a
run checks and of the refinement.

Next: proofs that connect the modules. `OidcFlow` uses the storage of
`AuthorizationState` and the registry of `ClientRegistry` through their
operators; its `take`, `put` and `consume` can be shown to be steps of
`AuthorizationState`, and its registry changes steps of `ClientRegistry`. That
the clients a loaded configuration yields satisfy `StaticAssumption` can be
derived from `ClientsUsable`.
