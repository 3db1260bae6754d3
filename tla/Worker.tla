------------------------------- MODULE Worker -------------------------------
(***************************************************************************)
(* One HTTP request through the Worker (lib.rs, route): it is dispatched   *)
(* to one of the four handlers that judge what a caller sent, each with    *)
(* its own module, over one configuration and one dynamic registry.        *)
(* Runtime has what precedes the handlers, OidcFlow and ClientRegistry     *)
(* what follows their decisions.                                           *)
(***************************************************************************)
EXTENDS DynamicClient, Parameters

CONSTANTS
  Long, Queries, Registries,                                 \* AuthorizeRequest
  Empty, TokenForms, MaxChanges,                             \* TokenRequest
  Url, Unread, AdminRequests, AdminTokens, MAX_REDIRECT_URIS, \* AdminRequest
  Transport, CallbackQueries, Statuses, UserIds, Snowflakes  \* DiscordLogin

ASSUME WorkerAssumption ==
  /\ {NONE, Twice, TooLong, Malformed} \cap {Long, Empty, Unread, Transport} = {}
  /\ MaxChanges \in Nat
  /\ MAX_REDIRECT_URIS \in Nat \ {0}
  /\ {200, 404} \subseteq Statuses
  /\ Snowflakes \subseteq UserIds

VARIABLES
  handler,                  \* where the request is dispatched to
  registry,                 \* the dynamic registry
  query, request,           \* what the caller sent
  pc, answer,
  lookup, verdict,          \* AuthorizeRequest
  seen,                     \* TokenRequest
  admin_token, body, call,  \* AdminRequest
  said                      \* DiscordLogin

Authorize == INSTANCE AuthorizeRequest
Token == INSTANCE TokenRequest
Admin == INSTANCE AdminRequest
Callback == INSTANCE DiscordLogin

(* What the parsers hand to the handlers: no value is the absent one, a     *)
(* list is a list, and an id of digits is no error code.                    *)
Codes ==
  {"invalid_request", "unsupported_grant_type", "unsupported_response_type",
   "invalid_scope", "invalid_client", "unauthorized_client", "login_required",
   "account_selection_required", "static", "static_client_immutable", "client_not_found",
   "consume"}
IsList(s) == s \in Seq({s[i] : i \in DOMAIN s})

ASSUME CallerAssumption ==
  /\ NONE \notin Clients \cup Codes
  /\ {NONE, Twice, TooLong} \cap {"code", "authorization_code"} = {}
  /\ \A q \in Queries : Authorize!KNOWN_PARAMETERS \subseteq DOMAIN q
  /\ Registries \subseteq [DynamicIds -> DynamicClientRecord \cup {NONE}]
  /\ \A q \in CallbackQueries : IsList(q) /\ \A i \in DOMAIN q : q[i][2] # NONE
  /\ "access_denied" \notin Snowflakes
  /\ \A q \in AdminRequests :
       /\ q.path # Malformed => IsList(q.path) /\ \A i \in DOMAIN q.path : q.path[i] # NONE
       /\ q.body # Malformed => IsList(q.body.uris)

vars == <<handler, registry, query, request, pc, answer, lookup, verdict, seen,
          admin_token, body, call, said>>

-----------------------------------------------------------------------------
(* What a handler does not use has no value. *)
GetAuthorize ==
  /\ handler = "GET /authorize" /\ Authorize!Init
  /\ request = NONE /\ pc = NONE /\ answer = NONE /\ seen = NONE
  /\ admin_token = NONE /\ body = NONE /\ call = NONE /\ said = NONE

GetCallback ==
  /\ handler = "GET /oauth/discord/callback" /\ Callback!Init
  /\ registry = NONE /\ request = NONE /\ lookup = NONE /\ verdict = NONE
  /\ seen = NONE /\ admin_token = NONE /\ body = NONE /\ call = NONE

PostToken ==
  /\ handler = "POST /token" /\ Token!Init
  /\ query = NONE /\ lookup = NONE /\ verdict = NONE
  /\ admin_token = NONE /\ body = NONE /\ call = NONE /\ said = NONE

AnyAdmin ==
  /\ handler = "/admin" /\ Admin!Init
  /\ registry = NONE /\ query = NONE /\ lookup = NONE /\ verdict = NONE
  /\ seen = NONE /\ said = NONE

Init == GetAuthorize \/ GetCallback \/ PostToken \/ AnyAdmin

Next ==
  \/ /\ handler = "GET /authorize" /\ Authorize!Next
     /\ UNCHANGED <<handler, request, pc, answer, seen, admin_token, body, call, said>>
  \/ /\ handler = "GET /oauth/discord/callback" /\ Callback!Next
     /\ UNCHANGED <<handler, registry, request, lookup, verdict, seen, admin_token, body,
                    call>>
  \/ /\ handler = "POST /token" /\ Token!Next
     /\ UNCHANGED <<handler, query, lookup, verdict, admin_token, body, call, said>>
  \/ /\ handler = "/admin" /\ Admin!Next
     /\ UNCHANGED <<handler, registry, query, lookup, verdict, seen, said>>

Spec == Init /\ [][Next]_vars

-----------------------------------------------------------------------------
(* Properties, stated in the handlers' modules. *)

(* GET /authorize answers with a redirect only to a registered URI of a     *)
(* client that resolves, and always once it has both.                       *)
RedirectExactlyWhenTrusted ==
  handler = "GET /authorize" => Authorize!RedirectExactlyWhenTrusted

(* A login begins exactly for requests the provider can serve: silent or    *)
(* forced authentication, account selection and max_age fail closed.        *)
ProceedsExactly == handler = "GET /authorize" => Authorize!ProceedsExactly

(* Unknown parameters never change the verdict, and a disabled client is    *)
(* answered like one that does not exist.                                   *)
VerdictIgnores == handler = "GET /authorize" => Authorize!VerdictIgnores

(* The Discord callback issues a code only after three complete successes   *)
(* of Discord and for the user it named.                                    *)
AdmittedByDiscord ==
  handler = "GET /oauth/discord/callback" => Callback!AdmittedByDiscord

(* access_denied means that Discord said no, never that it was unavailable. *)
DeniedOnlyByDiscord ==
  handler = "GET /oauth/discord/callback" => Callback!DeniedOnlyByDiscord

(* POST /token touches a code only for a client that was authentic at some  *)
(* moment of the request, whatever operators did between its two reads.     *)
CodeTouchedByAuthentic == handler = "POST /token" => Token!CodeTouchedByAuthentic

(* A client that is not authentic learns nothing but that.                  *)
FailuresAlike == handler = "POST /token" => Token!FailuresAlike

(* A client that is authentic all along is served, also while its secret is *)
(* rotated between the two reads.                                           *)
AuthenticServed == handler = "POST /token" => Token!AuthenticServed

(* Without the deployed admin token nothing but the refusal happens.        *)
StrangersStopped == handler = "/admin" => Admin!StrangersStopped

(* No path, however many slashes it has, makes the admin API call the       *)
(* registry object for another id than the one it names.                    *)
CallsNameDynamicClients == handler = "/admin" => Admin!CallsNameDynamicClients

(* Metadata that reaches the registry object makes a usable client.         *)
MetadataSound == handler = "/admin" => Admin!MetadataSound

(* A body is read only on the two admin routes that consume one.            *)
BodyReadWhereConsumed == handler = "/admin" => Admin!BodyReadWhereConsumed
=============================================================================
