---------------------------- MODULE TokenRequest ----------------------------
(***************************************************************************)
(* How POST /token judges a request before it touches a code (lib.rs,      *)
(* token.rs): content type, form, client authentication with its two       *)
(* awaits, and the parameters of the exchange.  Operators change the       *)
(* registry between the awaits.  OidcFlow has what follows.                *)
(*                                                                         *)
(* The Authorization header is absent (NONE), not a decodable Basic        *)
(* credential (Malformed; blank counts), or an id and a secret.            *)
(***************************************************************************)
EXTENDS DynamicClient, Parameters

CONSTANTS
  Empty,
  TokenForms,    \* requests
  Registries,    \* contents of the dynamic registry
  MaxChanges     \* bound on registry changes during the request

VARIABLES
  registry, request,
  pc,            \* what the handler does next
  answer,        \* error code, or "consume": the code goes to the object
  seen           \* history: the registry contents during the request

vars == <<registry, request, pc, answer, seen>>

FormParameters == {"grant_type", "client_id", "code", "redirect_uri", "code_verifier", "extra"}

Init ==
  /\ registry \in Registries
  /\ request \in TokenForms
  /\ pc = "parse"
  /\ answer = NONE
  /\ seen = <<registry>>

-----------------------------------------------------------------------------
(* The content type is checked first; then no parameter, known or not, may  *)
(* be repeated.                                                             *)
FormChecks(q) ==
  <<Check(q["content_type"] # "form", "invalid_request"),
    Check(q["too_large"], "invalid_request"),
    Check(\E name \in FormParameters : q[name] = Twice, "invalid_request"),
    Check(q["grant_type"] = NONE, "invalid_request"),
    Check(q["grant_type"] # "authorization_code", "unsupported_grant_type")>>

Basic(q) == q["authorization"] # NONE

(* Mutant: the client named in the body wins over the header. *)
ClaimedInBody(q) ==
  IF Basic(q) /\ q["authorization"] = Malformed THEN NONE
  ELSE IF single(q, "client_id") # NONE \/ ~Basic(q) THEN single(q, "client_id")
  ELSE q["authorization"].id

(* Mutant: with a header the body may not name the client at all. *)
ClaimedOnce(q) ==
  IF ~Basic(q) THEN single(q, "client_id")
  ELSE IF q["authorization"] = Malformed \/ single(q, "client_id") # NONE THEN NONE
  ELSE q["authorization"].id

(* The client a request speaks for, NONE if it names none or contradicts    *)
(* itself (authenticate_client up to the first await).                      *)
ClaimedId(q) ==
  IF ~Basic(q) THEN single(q, "client_id")
  ELSE IF q["authorization"] = Malformed THEN NONE
  ELSE IF single(q, "client_id") \notin {NONE, q["authorization"].id} THEN NONE
  ELSE q["authorization"].id

(* The type and method the client must have (fixed_policy ties the two). *)
RightMethod(q, client) ==
  client.client_type = IF Basic(q) THEN "confidential" ELSE "public"

Required(q, name) == Given(q, name) /\ q[name] # Empty

ExchangeChecks(q) ==
  <<Check(~Required(q, "code"), "invalid_request"),
    Check(~Required(q, "redirect_uri"), "invalid_request"),
    Check(~Required(q, "code_verifier"), "invalid_request")>>

-----------------------------------------------------------------------------
Answer(code) == answer' = code /\ pc' = "done"
Continue(at) == pc' = at /\ UNCHANGED answer

(* Mutant: the parameters of the exchange are checked with the form. *)
ParseChecksExchange ==
  LET error == FirstFailure(FormChecks(request) \o ExchangeChecks(request)) IN
  /\ pc = "parse"
  /\ IF error # NONE THEN Answer(error)
     ELSE IF ClaimedId(request) = NONE THEN Answer("invalid_client")
     ELSE Continue("find")
  /\ UNCHANGED <<registry, request, seen>>

(* Up to the first await. *)
Parse ==
  LET error == FirstFailure(FormChecks(request)) IN
  /\ pc = "parse"
  /\ IF error # NONE THEN Answer(error)
     ELSE IF ClaimedId(request) = NONE THEN Answer("invalid_client")
     ELSE Continue("find")
  /\ UNCHANGED <<registry, request, seen>>

(* RegistryStoreError; static clients and malformed ids need no call. *)
RegistryFails(id) ==
  id \notin StaticClients /\ is_dynamic_client_id(id) /\ Answer("server_error")

(* First await: the client must exist, be active and use this method. *)
Find ==
  LET id == ClaimedId(request)
      client == find_client(registry, id)
      ok == client # NONE /\ RightMethod(request, client)
  IN
  /\ pc = "find"
  /\ \/ RegistryFails(id)
     \/ ~ok /\ Answer("invalid_client")
     \/ ok /\ Continue(IF Basic(request) THEN "verify" ELSE "exchange")
  /\ UNCHANGED <<registry, request, seen>>

(* Second await: the record is read again. *)
Verify ==
  LET id == ClaimedId(request)
      ok == verify_client_secret(registry, id, request["authorization"].secret, 0)
  IN
  /\ pc = "verify"
  /\ \/ RegistryFails(id)
     \/ ~ok /\ Answer("invalid_client")
     \/ ok /\ Continue("exchange")
  /\ UNCHANGED <<registry, request, seen>>

Exchange ==
  LET error == FirstFailure(ExchangeChecks(request)) IN
  /\ pc = "exchange"
  /\ Answer(IF error # NONE THEN error ELSE "consume")
  /\ UNCHANGED <<registry, request, seen>>

(* An operator disables or enables the client, or rotates its secret. *)
Administer(c) ==
  /\ pc \in {"find", "verify"} /\ Len(seen) <= MaxChanges
  /\ registry[c] # NONE
  /\ \E r \in {disable(registry[c], 0), enable(registry[c], 0)} \cup
              {rotate_secret(registry[c], sha256_b64url(s), 0) : s \in Secrets} :
       /\ r # registry[c]
       /\ registry' = [registry EXCEPT ![c] = r]
       /\ seen' = Append(seen, registry')
  /\ UNCHANGED <<request, pc, answer>>

Next == Parse \/ Find \/ Verify \/ Exchange \/ \E c \in DynamicIds : Administer(c)

Spec == Init /\ [][Next]_vars

-----------------------------------------------------------------------------
(* Properties. *)

(* What the client claims is true of this registry: a confidential client   *)
(* presents its secret and names no other in the body, a public one names   *)
(* itself and sends no Authorization header.                                *)
Authentic(q, reg) ==
  \/ /\ q["authorization"] \notin {NONE, Malformed}
     /\ LET id == q["authorization"].id IN
        /\ q["client_id"] \in {NONE, id}
        /\ find_client(reg, id) # NONE
        /\ find_client(reg, id).client_type = "confidential"
        /\ verify_client_secret(reg, id, q["authorization"].secret, 0)
  \/ /\ q["authorization"] = NONE
     /\ q["client_id"] # NONE
     /\ find_client(reg, q["client_id"]) # NONE
     /\ find_client(reg, q["client_id"]).client_type = "public"

WellFormed(q) ==
  /\ q["content_type"] = "form" /\ ~q["too_large"]
  /\ q["grant_type"] = "authorization_code"
  /\ \A name \in FormParameters : q[name] # Twice

Complete(q) ==
  \A name \in {"code", "redirect_uri", "code_verifier"} : q[name] \notin {NONE, Empty, TooLong}

(* A code is touched only for a complete request of a client that was       *)
(* authentic at some moment of the request, however the registry changed    *)
(* between its two reads, and only in the name of that client.              *)
CodeTouchedByAuthentic ==
  answer = "consume" =>
    /\ WellFormed(request) /\ Complete(request)
    /\ \E i \in DOMAIN seen : Authentic(request, seen[i])
    /\ request["authorization"] # NONE => ClaimedId(request) = request["authorization"].id

(* Whoever is not authentic learns nothing but that: unknown, disabled,     *)
(* wrong secret and wrong method are told the same, whatever the code and   *)
(* its parameters look like.                                                *)
FailuresAlike ==
  /\ pc = "done" /\ WellFormed(request)
  /\ \A i \in DOMAIN seen : ~Authentic(request, seen[i])
  => answer \in {"invalid_client", "server_error"}

(* A client that is authentic all along is served: a rotation of its secret *)
(* between the two reads does not turn it away, nor does a client_id in the *)
(* body that agrees with the header.                                        *)
AuthenticServed ==
  /\ pc = "done" /\ WellFormed(request) /\ Complete(request)
  /\ \A i \in DOMAIN seen : Authentic(request, seen[i])
  => answer \in {"consume", "server_error"}
=============================================================================
