---------------------------- MODULE AdminRequest ----------------------------
(***************************************************************************)
(* How a request under /admin is authenticated, loaded, routed and         *)
(* validated before it calls the ClientRegistryState object (lib.rs,       *)
(* route_admin; admin.rs).  ClientRegistry has what the calls do.          *)
(*                                                                         *)
(* A path is the sequence of segments after "/admin/clients", an empty one *)
(* being Empty: no path is <<>>, "/" is <<Empty>>, "//x" <<Empty, "x">>;   *)
(* any other path is Malformed.  A body is Malformed (too large, no JSON,  *)
(* missing or unknown fields) or its fields, `type` being NONE where       *)
(* client_type is absent; a field that exceeds its limit is TooLong, a     *)
(* name of blanks is Empty.                                                *)
(***************************************************************************)
EXTENDS DynamicClient, ClientMetadata, FiniteSets

CONSTANTS
  TooLong, Unread,
  AdminRequests,      \* method, path, token and body
  AdminTokens,        \* OIDC_ADMIN_API_TOKEN as deployed
  MAX_REDIRECT_URIS   \* 16 in registry.rs

VARIABLES
  request, admin_token,
  pc,       \* what the handler does next
  body,     \* what handle_admin_request is given; Unread before
  call,     \* the call that goes to the object, NONE if none
  answer    \* error code, "static" for the view of a static client

vars == <<request, admin_token, pc, body, call, answer>>

Init ==
  /\ request \in AdminRequests
  /\ admin_token \in AdminTokens
  /\ pc = "authorize" /\ body = Unread
  /\ call = NONE /\ answer = NONE

-----------------------------------------------------------------------------
(* Mutant: the two options are compared, so that none equals none. *)
AuthorizesUnset(token, expected) ==
  token # Empty /\ token = expected

(* The bearer token (NONE without one) against the deployed one, which may  *)
(* be unset or empty.                                                       *)
authorize_admin(token, expected) ==
  expected # NONE /\ token \notin {NONE, Empty} /\ token = expected

(* Mutant: every POST and PUT has its body read. *)
EveryBody(q) == q.method \in {"POST", "PUT"}

(* Before any routing: whether the body is read at all. *)
needs_body(q) ==
  \/ q.method = "POST" /\ q.path = <<>>
  \/ q.method = "PUT" /\ q.path \notin {Malformed, <<Empty>>} /\ Len(q.path) = 1

(* trim_start_matches('/'), then split('/'). *)
Segments(path) ==
  LET named == {i \in DOMAIN path : path[i] # Empty} IN
  IF named = {} THEN <<Empty>>
  ELSE SubSeq(path, CHOOSE i \in named : \A j \in named : i <= j, Len(path))

Allowed(methods, method) ==
  IF method \in DOMAIN methods THEN methods[method] ELSE "method_not_allowed"

(* The operation a request is routed to, or the error. *)
Route(q) ==
  LET s == IF q.path = Malformed THEN <<Empty>> ELSE Segments(q.path) IN
  IF q.path = <<>> THEN Allowed([POST |-> "create", GET |-> "list"], q.method)
  ELSE IF Len(s) = 1 /\ s # <<Empty>> THEN Allowed([GET |-> "get", PUT |-> "update"], q.method)
  ELSE IF Len(s) = 2 /\ s[2] \in {"disable", "enable", "rotate-secret"}
       THEN Allowed([POST |-> s[2]], q.method)
  ELSE "not_found"

PathId(q) == Segments(q.path)[1]

(* Mutant: only redirect URIs next to each other are compared. *)
ValidatesNeighbours(b) ==
  /\ b.name \notin {Empty, TooLong}
  /\ is_snowflake(b.owner)
  /\ b.uris # <<>> /\ Len(b.uris) <= MAX_REDIRECT_URIS
  /\ \A i \in DOMAIN b.uris :
       is_valid_redirect_uri(b.uris[i]) /\ (i > 1 => b.uris[i - 1] # b.uris[i])

validate_metadata(b) ==
  /\ b.name \notin {Empty, TooLong}
  /\ is_snowflake(b.owner)
  /\ b.uris # <<>> /\ Len(b.uris) <= MAX_REDIRECT_URIS
  /\ \A i \in DOMAIN b.uris :
       is_valid_redirect_uri(b.uris[i]) /\ \A j \in 1 .. i - 1 : b.uris[j] # b.uris[i]

(* parse_body: client_type is required of a create, unknown to an update. *)
ParsesAs(op, b) ==
  b \notin {NONE, Malformed} /\ (op = "create" <=> b.type # NONE)

(* Mutant: get passes any id that is not static on to the object. *)
TurnedAwayUnlessGet(op, id) ==
  IF id \in StaticClients THEN IF op = "get" THEN "static" ELSE "static_client_immutable"
  ELSE IF op # "get" /\ ~is_dynamic_client_id(id) THEN "client_not_found"
  ELSE NONE

(* static_conflict, then dynamic_id_or_not_found. *)
TurnedAway(op, id) ==
  IF id \in StaticClients THEN IF op = "get" THEN "static" ELSE "static_client_immutable"
  ELSE IF ~is_dynamic_client_id(id) THEN "client_not_found"
  ELSE NONE

-----------------------------------------------------------------------------
Answer(code) == answer' = code /\ pc' = "done" /\ UNCHANGED call
Calls(op, id) == call' = [op |-> op, id |-> id] /\ pc' = "done" /\ UNCHANGED answer
Continue(at) == pc' = at /\ UNCHANGED <<call, answer>>

Authorize ==
  /\ pc = "authorize"
  /\ IF authorize_admin(request.token, admin_token) THEN Continue("load")
     ELSE Answer("unauthorized")
  /\ UNCHANGED <<request, admin_token, body>>

(* runtime(env).await *)
Load ==
  /\ pc = "load"
  /\ Continue("body") \/ Answer("server_error")
  /\ UNCHANGED <<request, admin_token, body>>

(* An unreadable body counts as empty, which is no JSON. *)
ReadBody ==
  /\ pc = "body"
  /\ body' \in IF needs_body(request) THEN {request.body, Malformed} ELSE {NONE}
  /\ Continue("dispatch")
  /\ UNCHANGED <<request, admin_token>>

(* handle_admin_request up to the call. *)
Dispatch ==
  LET op == Route(request)
      id == IF op = "create" \/ op = "list" THEN NONE ELSE PathId(request)
      early == IF id = NONE THEN NONE ELSE TurnedAway(op, id)
  IN
  /\ pc = "dispatch"
  /\ IF op \in {"not_found", "method_not_allowed"} THEN Answer(op)
     ELSE IF early # NONE THEN Answer(early)
     ELSE IF op \in {"create", "update"} /\ ~(ParsesAs(op, body) /\ validate_metadata(body))
          THEN Answer("invalid_request")
     ELSE Calls(op, id)
  /\ UNCHANGED <<request, admin_token, body>>

Next == Authorize \/ Load \/ ReadBody \/ Dispatch

Spec == Init /\ [][Next]_vars

-----------------------------------------------------------------------------
(* Properties. *)

Operator ==
  admin_token \notin {NONE, Empty} /\ request.token = admin_token

(* Whoever lacks the deployed token, which an unset or empty one never is,  *)
(* is told so and nothing else: no runtime, no body, no call.               *)
StrangersStopped ==
  ~Operator => pc \in {"authorize", "done"} /\ body = Unread /\ call = NONE
               /\ answer \in {NONE, "unauthorized"}

(* A call names the id that is the only non-empty first segment of the      *)
(* path, of the dynamic form and no static client's: no path, however many  *)
(* slashes it has, aliases another record.                                  *)
CallsNameDynamicClients ==
  call # NONE /\ call.op \notin {"create", "list"} =>
    /\ call.id \in DynamicIds \ StaticClients
    /\ \E i \in DOMAIN request.path :
         /\ request.path[i] = call.id
         /\ \A j \in 1 .. i - 1 : request.path[j] = Empty
         /\ Len(request.path) = IF call.op \in {"get", "update"} THEN i ELSE i + 1

(* Metadata that reaches the object makes a usable client: a name, an       *)
(* owner, and 1 to the limit of distinct, valid redirect URIs; and only a   *)
(* create carries a client type.                                            *)
MetadataSound ==
  call # NONE /\ call.op \in {"create", "update"} =>
    LET uris == {body.uris[i] : i \in DOMAIN body.uris} IN
    /\ body = request.body
    /\ body.name \notin {Empty, TooLong} /\ body.owner # Malformed
    /\ Cardinality(uris) = Len(body.uris) /\ Len(body.uris) \in 1 .. MAX_REDIRECT_URIS
    /\ \A u \in uris : is_valid_redirect_uri(u)
    /\ body.type # NONE <=> call.op = "create"

(* A body is read only for the two routes that consume one, and no other    *)
(* request's body can be waited for (lib.rs, route_admin): the test on the  *)
(* raw path holds only where the one on its segments does.                  *)
BodyReadWhereConsumed ==
  body \notin {Unread, NONE} => Route(request) \in {"create", "update"}
=============================================================================
