-------------------------- MODULE AuthorizeRequest --------------------------
(***************************************************************************)
(* How GET /authorize judges its query (authorize.rs,                      *)
(* validate_authorize_request): the parameters of one request, the client  *)
(* the resolver finds, and the verdict.                                    *)
(*                                                                         *)
(* A value over 2048 bytes is TooLong, a state or nonce over 1024 is Long; *)
(* scope and prompt are the sequences of words they split into.            *)
(***************************************************************************)
EXTENDS DynamicClient, Parameters

CONSTANTS
  Long,
  Queries,      \* raw queries, parsed
  Registries    \* contents of the dynamic registry

VARIABLES
  registry, query,
  lookup,       \* find_client: not called yet, a client, NONE, or failed
  verdict

vars == <<registry, query, lookup, verdict>>

KNOWN_PARAMETERS ==
  {"response_type", "client_id", "redirect_uri", "scope", "state", "nonce",
   "code_challenge", "code_challenge_method", "prompt", "max_age"}

Init ==
  /\ registry \in Registries
  /\ query \in Queries
  /\ lookup = "pending"
  /\ verdict = NONE

-----------------------------------------------------------------------------
Words(s) == {s[i] : i \in DOMAIN s}

(* The state to echo in a redirect. *)
rp_state(q) == single(q, "state")

render(code) == [kind |-> "render", code |-> code]

redirect_err(q, code) ==
  [kind |-> "redirect", code |-> code, redirect_uri |-> q["redirect_uri"],
   state |-> rp_state(q)]

(* Mutant: parameters the provider does not know are checked as well. *)
OversizedAny(q) == \E name \in DOMAIN q \ {"too_large"} : q[name] \in {Twice, TooLong}

(* Some known parameter is given twice or is too long. *)
Oversized(q) == \E name \in KNOWN_PARAMETERS : q[name] \in {Twice, TooLong}

(* Mutant: only the first word of prompt is looked at. *)
PromptChecksFirst(q) ==
  LET prompt == IF Given(q, "prompt") THEN q["prompt"] ELSE <<>> IN
  <<Check(prompt # <<>> /\ Head(prompt) \in {"none", "login"}, "login_required"),
    Check(prompt # <<>> /\ Head(prompt) = "select_account", "account_selection_required")>>

(* Words the provider cannot satisfy fail, others are ignored. *)
PromptChecks(q) ==
  LET prompt == IF Given(q, "prompt") THEN q["prompt"] ELSE <<>> IN
  <<Check("none" \in Words(prompt) /\ Len(prompt) > 1, "invalid_request"),
    Check(Words(prompt) \cap {"none", "login"} # {}, "login_required"),
    Check("select_account" \in Words(prompt), "account_selection_required")>>

(* Checks whose failure is sent to the registered redirect URI. *)
ProtocolChecks(q) ==
  <<Check(Oversized(q), "invalid_request"),
    Check(~Given(q, "response_type"), "invalid_request"),
    Check(q["response_type"] # "code", "unsupported_response_type"),
    Check(~Given(q, "scope"), "invalid_scope"),
    Check(Given(q, "scope") /\ "openid" \notin Words(q["scope"]), "invalid_scope"),
    Check(q["code_challenge_method"] # "S256", "invalid_request"),
    Check(~Given(q, "code_challenge") \/ q["code_challenge"] = Malformed,
          "invalid_request"),
    Check(q["nonce"] = Long, "invalid_request"),
    Check(q["state"] = Long, "invalid_request")>>
  \o PromptChecks(q) \o
  <<Check(q["max_age"] = Malformed, "invalid_request"),
    Check(Given(q, "max_age"), "login_required")>>

(* Checks made before anything may be redirected: the first two before the  *)
(* client is looked up, the others with the client found.                   *)
QueryChecks(q) ==
  <<Check(q["too_large"], "invalid_request"),
    Check(~Given(q, "client_id"), "invalid_request")>>

Registered(client, uri) == client # NONE /\ uri \in client.redirect_uris

ClientChecks(q, client) ==
  <<Check(client = NONE, "unauthorized_client"),
    Check(~Given(q, "redirect_uri"), "invalid_request"),
    Check(~Registered(client, q["redirect_uri"]), "invalid_request")>>

Proceed(q) ==
  [kind |-> "proceed", client_id |-> q["client_id"], redirect_uri |-> q["redirect_uri"],
   state |-> rp_state(q), nonce |-> single(q, "nonce"),
   consent |-> Given(q, "prompt") /\ "consent" \in Words(q["prompt"])]

(* Mutant: protocol errors are found before the redirect URI is checked. *)
JudgeProtocolFirst(q, client) ==
  LET page == FirstFailure(ClientChecks(q, client))
      error == FirstFailure(ProtocolChecks(q))
  IN
  IF client # NONE /\ error # NONE THEN redirect_err(q, error)
  ELSE IF page # NONE THEN render(page)
  ELSE Proceed(q)

Judge(q, client) ==
  LET page == FirstFailure(ClientChecks(q, client))
      error == FirstFailure(ProtocolChecks(q))
  IN
  IF page # NONE THEN render(page)
  ELSE IF error # NONE THEN redirect_err(q, error)
  ELSE Proceed(q)

-----------------------------------------------------------------------------
(* The request is turned away before the client is looked up. *)
Reject ==
  /\ lookup = "pending" /\ verdict = NONE
  /\ FirstFailure(QueryChecks(query)) # NONE
  /\ verdict' = render(FirstFailure(QueryChecks(query)))
  /\ UNCHANGED <<registry, query, lookup>>

(* find_client returns, or the registry cannot be reached. *)
Resolve ==
  /\ lookup = "pending" /\ verdict = NONE
  /\ FirstFailure(QueryChecks(query)) = NONE
  /\ \/ /\ lookup' = "found"
        /\ verdict' = Judge(query, find_client(registry, query["client_id"]))
     \/ /\ query["client_id"] \notin StaticClients
        /\ is_dynamic_client_id(query["client_id"])
        /\ lookup' = "failed"
        /\ verdict' = render("server_error")
  /\ UNCHANGED <<registry, query>>

Next == Reject \/ Resolve

Spec == Init /\ [][Next]_vars

-----------------------------------------------------------------------------
(* Properties. *)

Client == find_client(registry, query["client_id"])

(* The query names one client that resolves and one URI registered for it. *)
Trusted ==
  /\ ~query["too_large"]
  /\ Given(query, "client_id") /\ Given(query, "redirect_uri")
  /\ Registered(Client, query["redirect_uri"])

(* Until client and redirect URI are validated an error is a page, from     *)
(* then on it is a redirect to that very URI: no other parameter, however   *)
(* malformed or repeated, changes where the answer goes.                    *)
RedirectExactlyWhenTrusted ==
  verdict # NONE =>
    /\ verdict.kind # "render" <=> Trusted /\ lookup = "found"
    /\ verdict.kind # "render" => verdict.redirect_uri \in Client.redirect_uris

(* What the provider can serve: the code flow for openid with S256, no      *)
(* oversized parameter, no demand on how or when the user authenticated.    *)
Servable(q) ==
  /\ \A name \in KNOWN_PARAMETERS : q[name] \notin {Twice, TooLong}
  /\ q["response_type"] = "code"
  /\ q["scope"] # NONE /\ \E i \in DOMAIN q["scope"] : q["scope"][i] = "openid"
  /\ q["code_challenge_method"] = "S256"
  /\ q["code_challenge"] \notin {NONE, Malformed}
  /\ q["nonce"] # Long /\ q["state"] # Long
  /\ q["prompt"] # NONE =>
       \A i \in DOMAIN q["prompt"] : q["prompt"][i] \notin {"none", "login", "select_account"}
  /\ q["max_age"] = NONE

(* A login begins exactly for trusted and servable requests: silent or      *)
(* forced authentication, account selection and max_age fail closed in      *)
(* every combination.                                                       *)
ProceedsExactly ==
  verdict # NONE =>
    (verdict.kind = "proceed" <=> Trusted /\ lookup = "found" /\ Servable(query))

(* Unrecognised parameters never change the verdict, and a client that is   *)
(* disabled is answered like one that does not exist.                       *)
VerdictIgnores ==
  verdict # NONE /\ lookup = "found" =>
    /\ verdict = Judge([query EXCEPT !["login_hint"] = NONE], Client)
    /\ \A c \in DynamicIds \ StaticClients :
         query["client_id"] = c /\ registry[c] # NONE /\ registry[c].status = "disabled" =>
           verdict = Judge(query, find_client([registry EXCEPT ![c] = NONE], c))
=============================================================================
