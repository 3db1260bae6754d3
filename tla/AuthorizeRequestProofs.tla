----------------------- MODULE AuthorizeRequestProofs -----------------------
(***************************************************************************)
(* What GET /authorize guarantees about its verdict, for every query and   *)
(* registry.                                                               *)
(***************************************************************************)
EXTENDS WorkerProofs

-----------------------------------------------------------------------------
(* The checks. *)

(* All checks of a sequence pass. *)
Pass(checks) == \A i \in DOMAIN checks : ~checks[i].fails

CheckRecord == [fails : BOOLEAN, code : Codes]

LEMMA PassConcat ==
  ASSUME NEW s \in Seq(CheckRecord), NEW t \in Seq(CheckRecord)
  PROVE  s \o t \in Seq(CheckRecord) /\ (Pass(s \o t) <=> Pass(s) /\ Pass(t))
<1>1. /\ s \o t \in Seq(CheckRecord) /\ Len(s \o t) = Len(s) + Len(t)
      /\ \A i \in 1 .. Len(s) + Len(t) :
           (s \o t)[i] = IF i <= Len(s) THEN s[i] ELSE t[i - Len(s)]
  BY ConcatProperties
<1>2. Len(s) \in Nat /\ Len(t) \in Nat
  OBVIOUS
<1>3. Pass(s \o t) => Pass(s)
  BY <1>1, <1>2 DEF Pass
<1>4. Pass(s \o t) => Pass(t)
  <2>. SUFFICES ASSUME Pass(s \o t), NEW j \in DOMAIN t PROVE ~t[j].fails
    BY DEF Pass
  <2>1. j + Len(s) \in 1 .. Len(s) + Len(t) /\ ~(j + Len(s) <= Len(s))
        /\ (j + Len(s)) - Len(s) = j
    BY <1>2
  <2>2. (s \o t)[j + Len(s)] = t[j]
    BY <1>1, <2>1
  <2>3. j + Len(s) \in DOMAIN (s \o t)
    BY <1>1, <2>1
  <2>. QED  BY <2>2, <2>3 DEF Pass
<1>5. Pass(s) /\ Pass(t) => Pass(s \o t)
  <2>. SUFFICES ASSUME Pass(s), Pass(t), NEW i \in DOMAIN (s \o t)
                PROVE  ~(s \o t)[i].fails
    BY DEF Pass
  <2>1. i \in 1 .. Len(s) + Len(t)
    BY <1>1
  <2>2. CASE i <= Len(s)
    BY <1>1, <1>2, <2>1, <2>2 DEF Pass
  <2>3. CASE ~(i <= Len(s))
    <3>1. i - Len(s) \in DOMAIN t
      BY <1>2, <2>1, <2>3
    <3>. QED  BY <1>1, <2>1, <2>3, <3>1 DEF Pass
  <2>. QED  BY <2>2, <2>3
<1>. QED  BY <1>1, <1>3, <1>4, <1>5

LEMMA PassIsNone ==
  ASSUME NEW s, DOMAIN s \subseteq Nat, \A i \in DOMAIN s : s[i].code \in Codes
  PROVE  Authorize!FirstFailure(s) = NONE <=> Pass(s)
<1>1. Authorize!FirstFailure(s) = FirstFailure(s)
  BY DEF Authorize!FirstFailure, FirstFailure
<1>. QED  BY <1>1, NoFailure DEF Pass

LEMMA QueryAccepted ==
  ASSUME NEW q
  PROVE  Authorize!FirstFailure(Authorize!QueryChecks(q)) = NONE <=>
           ~q["too_large"] /\ Authorize!Given(q, "client_id")
<1>. DEFINE s == Authorize!QueryChecks(q)
<1>1. s = <<[fails |-> q["too_large"], code |-> "invalid_request"],
            [fails |-> ~Authorize!Given(q, "client_id"), code |-> "invalid_request"]>>
  BY DEF Authorize!QueryChecks, Authorize!Check
<1>. HIDE DEF s
<1>2. DOMAIN s = 1 .. 2 /\ \A i \in 1 .. 2 : s[i].code \in Codes
  BY <1>1 DEF Codes
<1>3. /\ s[1].fails <=> q["too_large"]
      /\ s[2].fails <=> ~Authorize!Given(q, "client_id")
  BY <1>1
<1>4. Pass(s) <=> ~s[1].fails /\ ~s[2].fails
  BY <1>2 DEF Pass
<1>5. Authorize!FirstFailure(s) = NONE <=> Pass(s)
  BY <1>2, PassIsNone
<1>. QED  BY <1>3, <1>4, <1>5 DEF s

LEMMA ClientAccepted ==
  ASSUME NEW q, NEW client
  PROVE  Authorize!FirstFailure(Authorize!ClientChecks(q, client)) = NONE <=>
           /\ Authorize!Given(q, "redirect_uri")
           /\ Authorize!Registered(client, q["redirect_uri"])
<1>. DEFINE s == Authorize!ClientChecks(q, client)
<1>1. s = <<[fails |-> client = NONE, code |-> "unauthorized_client"],
            [fails |-> ~Authorize!Given(q, "redirect_uri"), code |-> "invalid_request"],
            [fails |-> ~Authorize!Registered(client, q["redirect_uri"]),
             code |-> "invalid_request"]>>
  BY DEF Authorize!ClientChecks, Authorize!Check
<1>. HIDE DEF s
<1>2. DOMAIN s = 1 .. 3 /\ \A i \in 1 .. 3 : s[i].code \in Codes
  BY <1>1 DEF Codes
<1>3. /\ s[1].fails <=> client = NONE
      /\ s[2].fails <=> ~Authorize!Given(q, "redirect_uri")
      /\ s[3].fails <=> ~Authorize!Registered(client, q["redirect_uri"])
  BY <1>1
<1>4. Pass(s) <=> ~s[1].fails /\ ~s[2].fails /\ ~s[3].fails
  BY <1>2 DEF Pass
<1>5. Authorize!FirstFailure(s) = NONE <=> Pass(s)
  BY <1>2, PassIsNone
<1>6. Authorize!Registered(client, q["redirect_uri"]) => client # NONE
  BY DEF Authorize!Registered
<1>. QED  BY <1>3, <1>4, <1>5, <1>6 DEF s

(* The checks of the parameters up to the state, of prompt and of max_age. *)
BasicChecks(q) ==
  <<[fails |-> Authorize!Oversized(q), code |-> "invalid_request"],
    [fails |-> ~Authorize!Given(q, "response_type"), code |-> "invalid_request"],
    [fails |-> q["response_type"] # "code", code |-> "unsupported_response_type"],
    [fails |-> ~Authorize!Given(q, "scope"), code |-> "invalid_scope"],
    [fails |-> /\ Authorize!Given(q, "scope")
               /\ "openid" \notin Authorize!Words(q["scope"]), code |-> "invalid_scope"],
    [fails |-> q["code_challenge_method"] # "S256", code |-> "invalid_request"],
    [fails |-> ~Authorize!Given(q, "code_challenge") \/ q["code_challenge"] = Malformed,
     code |-> "invalid_request"],
    [fails |-> q["nonce"] = Long, code |-> "invalid_request"],
    [fails |-> q["state"] = Long, code |-> "invalid_request"]>>
MaxAgeChecks(q) ==
  <<[fails |-> q["max_age"] = Malformed, code |-> "invalid_request"],
    [fails |-> Authorize!Given(q, "max_age"), code |-> "login_required"]>>

LEMMA BasicAccepted ==
  ASSUME NEW q
  PROVE  /\ BasicChecks(q) \in Seq(CheckRecord)
         /\ Pass(BasicChecks(q)) <=>
              /\ ~Authorize!Oversized(q)
              /\ Authorize!Given(q, "response_type") /\ q["response_type"] = "code"
              /\ Authorize!Given(q, "scope") /\ "openid" \in Authorize!Words(q["scope"])
              /\ q["code_challenge_method"] = "S256"
              /\ Authorize!Given(q, "code_challenge") /\ q["code_challenge"] # Malformed
              /\ q["nonce"] # Long /\ q["state"] # Long
<1>. DEFINE s == BasicChecks(q)
<1>1. s \in Seq(CheckRecord)
  <2>1. Authorize!Oversized(q) \in BOOLEAN
    BY DEF Authorize!Oversized
  <2>. QED  BY <2>1 DEF BasicChecks, CheckRecord, Codes
<1>2. DOMAIN s = 1 .. 9
  BY DEF BasicChecks
<1>3. /\ s[1].fails <=> Authorize!Oversized(q)
      /\ s[2].fails <=> ~Authorize!Given(q, "response_type")
      /\ s[3].fails <=> q["response_type"] # "code"
      /\ s[4].fails <=> ~Authorize!Given(q, "scope")
      /\ s[5].fails <=> /\ Authorize!Given(q, "scope")
                        /\ "openid" \notin Authorize!Words(q["scope"])
      /\ s[6].fails <=> q["code_challenge_method"] # "S256"
      /\ s[7].fails <=> \/ ~Authorize!Given(q, "code_challenge")
                        \/ q["code_challenge"] = Malformed
      /\ s[8].fails <=> q["nonce"] = Long
      /\ s[9].fails <=> q["state"] = Long
  BY DEF BasicChecks
<1>. HIDE DEF s
<1>4. Pass(s) <=>
        /\ ~s[1].fails /\ ~s[2].fails /\ ~s[3].fails /\ ~s[4].fails /\ ~s[5].fails
        /\ ~s[6].fails /\ ~s[7].fails /\ ~s[8].fails /\ ~s[9].fails
  BY <1>2 DEF Pass
<1>. QED  BY <1>1, <1>3, <1>4 DEF s

LEMMA MaxAgeAccepted ==
  ASSUME NEW q
  PROVE  /\ MaxAgeChecks(q) \in Seq(CheckRecord)
         /\ ~Authorize!Oversized(q) => (Pass(MaxAgeChecks(q)) <=> q["max_age"] = NONE)
<1>. DEFINE s == MaxAgeChecks(q)
<1>1. s \in Seq(CheckRecord)
  <2>1. Authorize!Given(q, "max_age") \in BOOLEAN
    BY DEF Authorize!Given
  <2>. QED  BY <2>1 DEF MaxAgeChecks, CheckRecord, Codes
<1>2. DOMAIN s = 1 .. 2
  BY DEF MaxAgeChecks
<1>3. /\ s[1].fails <=> q["max_age"] = Malformed
      /\ s[2].fails <=> Authorize!Given(q, "max_age")
  BY DEF MaxAgeChecks
<1>. HIDE DEF s
<1>4. Pass(s) <=> ~s[1].fails /\ ~s[2].fails
  BY <1>2 DEF Pass
<1>5. ~Authorize!Oversized(q) => (Authorize!Given(q, "max_age") <=> q["max_age"] # NONE)
  BY DEF Authorize!Oversized, Authorize!KNOWN_PARAMETERS, Authorize!Given
<1>. QED  BY <1>1, <1>3, <1>4, <1>5, ParametersAssumption DEF s

LEMMA PromptAccepted ==
  ASSUME NEW q
  PROVE  /\ Authorize!PromptChecks(q) \in Seq(CheckRecord)
         /\ ~Authorize!Oversized(q) =>
              (Pass(Authorize!PromptChecks(q)) <=>
                 (q["prompt"] # NONE => \A i \in DOMAIN q["prompt"] :
                    q["prompt"][i] \notin {"none", "login", "select_account"}))
<1>. DEFINE s == Authorize!PromptChecks(q)
            prompt == IF Authorize!Given(q, "prompt") THEN q["prompt"] ELSE <<>>
            words == Authorize!Words(prompt)
<1>1. s = <<[fails |-> "none" \in words /\ Len(prompt) > 1, code |-> "invalid_request"],
            [fails |-> words \cap {"none", "login"} # {}, code |-> "login_required"],
            [fails |-> "select_account" \in words, code |-> "account_selection_required"]>>
  BY DEF Authorize!PromptChecks, Authorize!Check
<1>2. ~Authorize!Oversized(q) => (Authorize!Given(q, "prompt") <=> q["prompt"] # NONE)
  BY DEF Authorize!Oversized, Authorize!KNOWN_PARAMETERS, Authorize!Given
<1>3. ASSUME ~Authorize!Oversized(q)
      PROVE  words \cap {"none", "login", "select_account"} = {} <=>
               (q["prompt"] # NONE => \A i \in DOMAIN q["prompt"] :
                  q["prompt"][i] \notin {"none", "login", "select_account"})
  <2>1. CASE q["prompt"] = NONE
    <3>1. prompt = <<>>
      BY <1>2, <1>3, <2>1
    <3>2. words = {}
      BY <3>1 DEF Authorize!Words
    <3>. QED  BY <2>1, <3>2
  <2>2. CASE q["prompt"] # NONE
    <3>1. prompt = q["prompt"]
      BY <1>2, <1>3, <2>2
    <3>. QED  BY <2>2, <3>1 DEF Authorize!Words
  <2>. QED  BY <2>1, <2>2
<1>. HIDE DEF s, words, prompt
<1>4. s \in Seq(CheckRecord)
  BY <1>1 DEF CheckRecord, Codes
<1>5. DOMAIN s = 1 .. 3
  BY <1>1
<1>6. /\ s[1].fails <=> "none" \in words /\ Len(prompt) > 1
      /\ s[2].fails <=> words \cap {"none", "login"} # {}
      /\ s[3].fails <=> "select_account" \in words
  BY <1>1
<1>7. Pass(s) <=> ~s[1].fails /\ ~s[2].fails /\ ~s[3].fails
  BY <1>5 DEF Pass
<1>8. Pass(s) <=> words \cap {"none", "login", "select_account"} = {}
  BY <1>6, <1>7
<1>. QED  BY <1>3, <1>4, <1>8 DEF s

(* All protocol checks pass exactly for what the provider can serve. *)
LEMMA ProtocolAccepted ==
  ASSUME NEW q
  PROVE  Authorize!FirstFailure(Authorize!ProtocolChecks(q)) = NONE <=>
           Authorize!Servable(q)
<1>. DEFINE s == Authorize!ProtocolChecks(q)
<1>1. s = (BasicChecks(q) \o Authorize!PromptChecks(q)) \o MaxAgeChecks(q)
  BY DEF Authorize!ProtocolChecks, BasicChecks, MaxAgeChecks, Authorize!Check
<1>. HIDE DEF s
<1>2. s \in Seq(CheckRecord) /\ (Pass(s) <=> /\ Pass(BasicChecks(q))
                                            /\ Pass(Authorize!PromptChecks(q))
                                            /\ Pass(MaxAgeChecks(q)))
  <2>1. /\ BasicChecks(q) \in Seq(CheckRecord)
        /\ Authorize!PromptChecks(q) \in Seq(CheckRecord)
        /\ MaxAgeChecks(q) \in Seq(CheckRecord)
    BY BasicAccepted, PromptAccepted, MaxAgeAccepted
  <2>2. /\ BasicChecks(q) \o Authorize!PromptChecks(q) \in Seq(CheckRecord)
        /\ Pass(BasicChecks(q) \o Authorize!PromptChecks(q)) <=>
             Pass(BasicChecks(q)) /\ Pass(Authorize!PromptChecks(q))
    BY <2>1, PassConcat
  <2>. DEFINE front == BasicChecks(q) \o Authorize!PromptChecks(q)
  <2>. HIDE DEF front
  <2>3. front \in Seq(CheckRecord) /\ MaxAgeChecks(q) \in Seq(CheckRecord)
    BY <2>1, <2>2 DEF front
  <2>4. /\ front \o MaxAgeChecks(q) \in Seq(CheckRecord)
        /\ Pass(front \o MaxAgeChecks(q)) <=> Pass(front) /\ Pass(MaxAgeChecks(q))
    BY <2>3, PassConcat
  <2>5. s = front \o MaxAgeChecks(q)
    BY <1>1 DEF front
  <2>6. Pass(front) <=> Pass(BasicChecks(q)) /\ Pass(Authorize!PromptChecks(q))
    BY <2>2 DEF front
  <2>. QED  BY <2>4, <2>5, <2>6
<1>3. Authorize!FirstFailure(s) = NONE <=> Pass(s)
  <2>1. s \in Seq(CheckRecord)
    BY <1>2
  <2>2. DOMAIN s \subseteq Nat /\ \A i \in DOMAIN s : s[i] \in CheckRecord
    BY <2>1
  <2>3. \A r \in CheckRecord : r.code \in Codes
    BY DEF CheckRecord
  <2>. QED  BY <2>2, <2>3, PassIsNone
<1>4. Pass(BasicChecks(q)) => ~Authorize!Oversized(q)
  BY BasicAccepted
<1>5. ~Authorize!Oversized(q) <=>
        \A name \in Authorize!KNOWN_PARAMETERS : q[name] \notin {Twice, TooLong}
  BY DEF Authorize!Oversized
<1>6. CASE Authorize!Oversized(q)
  BY <1>2, <1>3, <1>4, <1>5, <1>6 DEF s, Authorize!Servable
<1>7. CASE ~Authorize!Oversized(q)
  <2>1. \A name \in {"response_type", "scope", "code_challenge"} :
          Authorize!Given(q, name) <=> q[name] # NONE
    BY <1>7 DEF Authorize!Oversized, Authorize!KNOWN_PARAMETERS, Authorize!Given
  <2>2. "openid" \in Authorize!Words(q["scope"]) <=>
          \E i \in DOMAIN q["scope"] : q["scope"][i] = "openid"
    BY DEF Authorize!Words
  <2>3. q["response_type"] = "code" => q["response_type"] # NONE
    BY CallerAssumption
  <2>4. Pass(BasicChecks(q)) <=>
          /\ q["response_type"] = "code"
          /\ q["scope"] # NONE /\ \E i \in DOMAIN q["scope"] : q["scope"][i] = "openid"
          /\ q["code_challenge_method"] = "S256"
          /\ q["code_challenge"] \notin {NONE, Malformed}
          /\ q["nonce"] # Long /\ q["state"] # Long
    BY <1>7, <2>1, <2>2, <2>3, BasicAccepted
  <2>5. Pass(MaxAgeChecks(q)) <=> q["max_age"] = NONE
    BY <1>7, MaxAgeAccepted
  <2>6. Pass(Authorize!PromptChecks(q)) <=>
          (q["prompt"] # NONE => \A i \in DOMAIN q["prompt"] :
             q["prompt"][i] \notin {"none", "login", "select_account"})
    BY <1>7, PromptAccepted
  <2>. QED
    BY <1>2, <1>3, <1>5, <1>7, <2>4, <2>5, <2>6 DEF s, Authorize!Servable
<1>. QED  BY <1>6, <1>7

-----------------------------------------------------------------------------
(* The verdict. *)

(* Judge reads the known parameters only. *)
LEMMA JudgeReads ==
  ASSUME NEW p, NEW q, NEW client,
         \A name \in Authorize!KNOWN_PARAMETERS : p[name] = q[name]
  PROVE  Authorize!Judge(p, client) = Authorize!Judge(q, client)
<1>1. /\ p["response_type"] = q["response_type"] /\ p["client_id"] = q["client_id"]
      /\ p["redirect_uri"] = q["redirect_uri"] /\ p["scope"] = q["scope"]
      /\ p["state"] = q["state"] /\ p["nonce"] = q["nonce"]
      /\ p["code_challenge"] = q["code_challenge"]
      /\ p["code_challenge_method"] = q["code_challenge_method"]
      /\ p["prompt"] = q["prompt"] /\ p["max_age"] = q["max_age"]
  BY DEF Authorize!KNOWN_PARAMETERS
<1>2. Authorize!ClientChecks(p, client) = Authorize!ClientChecks(q, client)
  BY <1>1 DEF Authorize!ClientChecks, Authorize!Check, Authorize!Given
<1>3. Authorize!PromptChecks(p) = Authorize!PromptChecks(q)
  BY <1>1, Zenon DEF Authorize!PromptChecks, Authorize!Check, Authorize!Given
<1>4. Authorize!Oversized(p) = Authorize!Oversized(q)
  BY DEF Authorize!Oversized
<1>5. BasicChecks(p) = BasicChecks(q)
  <2>. DEFINE marks == {NONE, Twice, TooLong}
              checks(oversized, type, scope, method, challenge, nonce, state) ==
                <<[fails |-> oversized, code |-> "invalid_request"],
                  [fails |-> ~(type \notin marks), code |-> "invalid_request"],
                  [fails |-> type # "code", code |-> "unsupported_response_type"],
                  [fails |-> ~(scope \notin marks), code |-> "invalid_scope"],
                  [fails |-> scope \notin marks /\ "openid" \notin Authorize!Words(scope),
                   code |-> "invalid_scope"],
                  [fails |-> method # "S256", code |-> "invalid_request"],
                  [fails |-> ~(challenge \notin marks) \/ challenge = Malformed,
                   code |-> "invalid_request"],
                  [fails |-> nonce = Long, code |-> "invalid_request"],
                  [fails |-> state = Long, code |-> "invalid_request"]>>
  <2>1. \A x : BasicChecks(x) =
                 checks(Authorize!Oversized(x), x["response_type"], x["scope"],
                        x["code_challenge_method"], x["code_challenge"], x["nonce"],
                        x["state"])
    BY Zenon DEF BasicChecks, Authorize!Given
  <2>. HIDE DEF checks
  <2>. QED  BY <1>1, <1>4, <2>1
<1>6. MaxAgeChecks(p) = MaxAgeChecks(q)
  BY <1>1 DEF MaxAgeChecks, Authorize!Given
<1>7. Authorize!ProtocolChecks(p) = Authorize!ProtocolChecks(q)
  <2>1. \A x : Authorize!ProtocolChecks(x) =
                 (BasicChecks(x) \o Authorize!PromptChecks(x)) \o MaxAgeChecks(x)
    BY DEF Authorize!ProtocolChecks, BasicChecks, MaxAgeChecks, Authorize!Check
  <2>. QED  BY <1>3, <1>5, <1>6, <2>1
<1>8. Authorize!Proceed(p) = Authorize!Proceed(q)
  BY <1>1 DEF Authorize!Proceed, Authorize!rp_state, Authorize!single, Authorize!Given
<1>9. \A code : Authorize!redirect_err(p, code) = Authorize!redirect_err(q, code)
  BY <1>1 DEF Authorize!redirect_err, Authorize!rp_state, Authorize!single
<1>. QED  BY <1>2, <1>7, <1>8, <1>9 DEF Authorize!Judge

(* What kind of verdict Judge gives, and where it goes. *)
LEMMA JudgeKinds ==
  ASSUME NEW q, NEW client
  PROVE  LET v == Authorize!Judge(q, client)
             registered == /\ Authorize!Given(q, "redirect_uri")
                           /\ Authorize!Registered(client, q["redirect_uri"])
         IN
         /\ v.kind # "render" <=> registered
         /\ v.kind = "proceed" <=> registered /\ Authorize!Servable(q)
         /\ v.kind # "render" => v.redirect_uri = q["redirect_uri"]
<1>. DEFINE page == Authorize!FirstFailure(Authorize!ClientChecks(q, client))
            error == Authorize!FirstFailure(Authorize!ProtocolChecks(q))
<1>1. page = NONE <=> /\ Authorize!Given(q, "redirect_uri")
                      /\ Authorize!Registered(client, q["redirect_uri"])
  BY ClientAccepted
<1>2. error = NONE <=> Authorize!Servable(q)
  BY ProtocolAccepted
<1>3. Authorize!Judge(q, client) =
        IF page # NONE THEN Authorize!render(page)
        ELSE IF error # NONE THEN Authorize!redirect_err(q, error)
        ELSE Authorize!Proceed(q)
  BY DEF Authorize!Judge
<1>. HIDE DEF page, error
<1>4. CASE page # NONE
  BY <1>1, <1>3, <1>4 DEF Authorize!render
<1>5. CASE page = NONE /\ error # NONE
  BY <1>1, <1>2, <1>3, <1>5 DEF Authorize!redirect_err
<1>6. CASE page = NONE /\ error = NONE
  BY <1>1, <1>2, <1>3, <1>6 DEF Authorize!Proceed
<1>. QED  BY <1>4, <1>5, <1>6

(* A verdict was made before the client was looked up, with the client that *)
(* was found, or because the registry could not be reached.                 *)
AuthorizeInv ==
  /\ query \in Queries /\ registry \in Registries
  /\ \/ lookup = "pending" /\ verdict = NONE
     \/ lookup = "pending" /\ verdict.kind = "render"
     \/ /\ lookup = "found"
        /\ Authorize!FirstFailure(Authorize!QueryChecks(query)) = NONE
        /\ verdict = Authorize!Judge(query, Authorize!Client)
     \/ lookup = "failed" /\ verdict = Authorize!render("server_error")

AuthorizeCorrect == handler = "GET /authorize" => AuthorizeInv

LEMMA AuthorizeInvariance == Spec => []AuthorizeCorrect
<1>1. Init => AuthorizeCorrect
  BY DEF Init, GetAuthorize, GetCallback, PostToken, AnyAdmin, AuthorizeCorrect,
         AuthorizeInv, Authorize!Init
<1>2. AuthorizeCorrect /\ [Next]_vars => AuthorizeCorrect'
  <2>. SUFFICES ASSUME AuthorizeCorrect, [Next]_vars, handler' = "GET /authorize"
                PROVE  AuthorizeInv'
    BY DEF AuthorizeCorrect
  <2>1. handler = "GET /authorize" /\ (Authorize!Next \/ UNCHANGED vars)
    BY DEF Next, vars
  <2>2. AuthorizeInv
    BY <2>1 DEF AuthorizeCorrect
  <2>3. CASE Authorize!Reject
    BY <2>2, <2>3 DEF AuthorizeInv, Authorize!Reject, Authorize!render
  <2>4. CASE Authorize!Resolve
    BY <2>2, <2>4 DEF AuthorizeInv, Authorize!Resolve, Authorize!Client
  <2>5. CASE UNCHANGED vars
    BY <2>2, <2>5 DEF vars, AuthorizeInv, Authorize!Client
  <2>. QED  BY <2>1, <2>3, <2>4, <2>5 DEF Authorize!Next
<1>. QED  BY <1>1, <1>2, PTL DEF Spec

(* A page, and what is known of any other verdict. *)
LEMMA Verdicts ==
  ASSUME AuthorizeInv, verdict # NONE
  PROVE  \/ lookup # "found" /\ verdict.kind = "render"
         \/ /\ lookup = "found" /\ verdict = Authorize!Judge(query, Authorize!Client)
            /\ ~query["too_large"] /\ Authorize!Given(query, "client_id")
BY QueryAccepted DEF AuthorizeInv, Authorize!render

(* GET /authorize answers with a redirect exactly if the query names one    *)
(* client that resolves and one URI registered for it, and then to that URI *)
(* (validate_authorize_request).                                            *)
THEOREM RedirectsTrusted == Spec => []RedirectExactlyWhenTrusted
<1>1. AuthorizeCorrect => RedirectExactlyWhenTrusted
  <2>. SUFFICES ASSUME AuthorizeInv, verdict # NONE
                PROVE  /\ verdict.kind # "render" <=> Authorize!Trusted /\ lookup = "found"
                       /\ verdict.kind # "render" =>
                            verdict.redirect_uri \in Authorize!Client.redirect_uris
    BY DEF AuthorizeCorrect, RedirectExactlyWhenTrusted,
           Authorize!RedirectExactlyWhenTrusted
  <2>1. CASE lookup # "found" /\ verdict.kind = "render"
    BY <2>1
  <2>2. CASE /\ lookup = "found" /\ verdict = Authorize!Judge(query, Authorize!Client)
             /\ ~query["too_large"] /\ Authorize!Given(query, "client_id")
    BY <2>2, JudgeKinds DEF Authorize!Trusted, Authorize!Registered
  <2>. QED  BY <2>1, <2>2, Verdicts
<1>. QED  BY AuthorizeInvariance, <1>1, PTL

(* A login begins exactly for trusted requests the provider can serve:      *)
(* prompt and max_age fail closed for any list of words (ProtocolChecks).   *)
THEOREM LoginsServable == Spec => []ProceedsExactly
<1>1. AuthorizeCorrect => ProceedsExactly
  <2>. SUFFICES ASSUME AuthorizeInv, verdict # NONE
                PROVE  verdict.kind = "proceed" <=>
                         /\ Authorize!Trusted /\ lookup = "found"
                         /\ Authorize!Servable(query)
    BY DEF AuthorizeCorrect, ProceedsExactly, Authorize!ProceedsExactly
  <2>1. CASE lookup # "found" /\ verdict.kind = "render"
    BY <2>1
  <2>2. CASE /\ lookup = "found" /\ verdict = Authorize!Judge(query, Authorize!Client)
             /\ ~query["too_large"] /\ Authorize!Given(query, "client_id")
    BY <2>2, JudgeKinds DEF Authorize!Trusted
  <2>. QED  BY <2>1, <2>2, Verdicts
<1>. QED  BY AuthorizeInvariance, <1>1, PTL

(* Unknown parameters never change the verdict, and a disabled client is    *)
(* answered like one that does not exist (KNOWN_PARAMETERS, find_client).   *)
THEOREM VerdictsIgnore == Spec => []VerdictIgnores
<1>1. AuthorizeCorrect => VerdictIgnores
  <2>. SUFFICES ASSUME AuthorizeInv, verdict # NONE, lookup = "found"
                PROVE  /\ verdict = Authorize!Judge([query EXCEPT !["login_hint"] = NONE],
                                                    Authorize!Client)
                       /\ \A c \in DynamicIds \ StaticClients :
                            /\ query["client_id"] = c /\ registry[c] # NONE
                            /\ registry[c].status = "disabled"
                            => verdict = Authorize!Judge(query,
                                 Authorize!find_client([registry EXCEPT ![c] = NONE], c))
    BY DEF AuthorizeCorrect, VerdictIgnores, Authorize!VerdictIgnores
  <2>1. verdict = Authorize!Judge(query, Authorize!Client)
    BY DEF AuthorizeInv
  <2>2. \A name \in Authorize!KNOWN_PARAMETERS :
          [query EXCEPT !["login_hint"] = NONE][name] = query[name]
    <3>1. Authorize!KNOWN_PARAMETERS \subseteq DOMAIN query
      BY CallerAssumption DEF AuthorizeInv
    <3>2. "login_hint" \notin Authorize!KNOWN_PARAMETERS
      BY DEF Authorize!KNOWN_PARAMETERS
    <3>. QED  BY <3>1, <3>2
  <2>3. ASSUME NEW c \in DynamicIds \ StaticClients, query["client_id"] = c,
               registry[c] # NONE, registry[c].status = "disabled"
        PROVE  Authorize!find_client([registry EXCEPT ![c] = NONE], c) = Authorize!Client
    <3>1. registry \in [DynamicIds -> DynamicClientRecord \cup {NONE}]
      BY CallerAssumption DEF AuthorizeInv
    <3>2. Authorize!Client = NONE
      BY <2>3 DEF Authorize!Client, Authorize!find_client, Authorize!is_active
    <3>3. [registry EXCEPT ![c] = NONE][c] = NONE
      BY <3>1
    <3>. QED  BY <3>2, <3>3 DEF Authorize!find_client
  <2>. QED  BY <2>1, <2>2, <2>3, JudgeReads
<1>. QED  BY AuthorizeInvariance, <1>1, PTL
=============================================================================
