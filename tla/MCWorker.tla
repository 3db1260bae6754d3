------------------------------ MODULE MCWorker ------------------------------
(***************************************************************************)
(* Requests that differ from a good one in up to two parameters, for a     *)
(* public static client `pub` (its id has the form of a dynamic one), a    *)
(* confidential static one `conf`, and a confidential dynamic one `dyn`    *)
(* that is active, disabled or absent.                                     *)
(***************************************************************************)
EXTENDS Worker

CONSTANTS pub, conf, dyn, nobody, u1, u2, u3, u4, x1, x2, x3, t1, t2

MCStaticConfig ==
  [c \in {pub, conf} |->
     [redirect_uris |-> {u1}, client_type |-> IF c = pub THEN "public" ELSE "confidential"]]
MCStaticSecret == [c \in {pub, conf} |-> IF c = pub THEN NONE ELSE x1]

Active == NewRecord({u1}, "confidential", sha256_b64url(x2), 0)
MCRegistries ==
  {[c \in DynamicIds |-> IF c = dyn THEN r ELSE NONE] :
     r \in {NONE, Active, disable(Active, 0)}}

UpToTwoOff(good, variants) ==
  LET choices == UNION {{f} \X (variants[f] \cup {good[f]}) : f \in DOMAIN variants} IN
  {[good EXCEPT ![a[1]] = a[2], ![b[1]] = b[2]] : a, b \in choices}

-----------------------------------------------------------------------------
MCQueries == UpToTwoOff(
  [response_type |-> "code", client_id |-> pub, redirect_uri |-> u1,
   scope |-> <<"openid", "profile">>, state |-> "state", nonce |-> "nonce",
   code_challenge |-> "challenge", code_challenge_method |-> "S256", prompt |-> NONE,
   max_age |-> NONE, login_hint |-> NONE, too_large |-> FALSE],
  [response_type |-> {NONE, Twice, TooLong, "token"},
   client_id |-> {NONE, Twice, TooLong, nobody, dyn},
   redirect_uri |-> {NONE, Twice, TooLong, u2},
   scope |-> {NONE, Twice, TooLong, <<>>, <<"profile">>, <<"email", "openid">>},
   state |-> {NONE, Twice, Long, TooLong}, nonce |-> {NONE, Twice, Long, TooLong},
   code_challenge |-> {NONE, Twice, TooLong, Malformed},
   code_challenge_method |-> {NONE, Twice, TooLong, "plain"},
   prompt |-> {Twice, TooLong, <<>>, <<"none">>, <<"none", "none">>, <<"login">>,
               <<"consent">>, <<"consent", "login">>, <<"select_account", "none">>,
               <<"consent", "select_account">>, <<"unheard-of">>},
   max_age |-> {Twice, TooLong, Malformed, "60"},
   login_hint |-> {"hint", Twice, TooLong},
   too_large |-> {TRUE}])

MCForms == UpToTwoOff(
  [content_type |-> "form", too_large |-> FALSE, grant_type |-> "authorization_code",
   client_id |-> NONE, code |-> "code", redirect_uri |-> u1, code_verifier |-> "verifier",
   extra |-> NONE, authorization |-> [id |-> dyn, secret |-> x2]],
  [content_type |-> {"json"}, too_large |-> {TRUE},
   grant_type |-> {NONE, Twice, "refresh_token"},
   client_id |-> {Twice, Empty, nobody, pub, conf, dyn},
   code |-> {NONE, Twice, Empty, TooLong}, redirect_uri |-> {NONE, Twice, Empty, TooLong},
   code_verifier |-> {NONE, Twice, Empty, TooLong}, extra |-> {"x", Twice},
   authorization |-> {NONE, Malformed} \cup
                     [id : {pub, conf, dyn, nobody}, secret : {x1, x2, x3}]])

-----------------------------------------------------------------------------
(* Admin requests: every method on paths of up to four segments. *)
MCUrl == [u \in {u1, u2, u3, u4} |->
  [scheme |-> IF u = u1 THEN "https" ELSE "http", fragment |-> FALSE, wildcard |-> FALSE,
   host |-> IF u \in {u2, u4} THEN "loopback" ELSE "public"]]

Ids == {pub, dyn, nobody}
Actions == {"disable", "enable", "rotate-secret", "other", Empty}
Paths ==
  {Malformed, <<>>, <<Empty>>, <<Empty, Empty>>}
    \cup {<<id>> : id \in Ids} \cup {<<Empty, id>> : id \in Ids}
    \cup (Ids \X Actions) \cup ({Empty} \X Ids \X Actions)
    \cup (Ids \X Actions \X {Empty, "disable"}) \cup ({Empty} \X {Empty} \X Ids \X Actions)
Methods == {"GET", "POST", "PUT", "DELETE"}

GoodBody == [name |-> "name", owner |-> "digits", uris |-> <<u1, u2>>, type |-> "public"]
Bodies == {Malformed} \cup UpToTwoOff(GoodBody,
  [name |-> {Empty, TooLong}, owner |-> {Malformed}, type |-> {NONE, "confidential"},
   uris |-> {<<>>, <<u1>>, <<u3>>, <<u1, u3>>, <<u1, u1>>, <<u1, u2, u1>>, <<u1, u2, u4>>,
             <<u1, u2, u3>>, <<u1, u2, u4, u1>>}])

MCAdminRequests ==
  [method : Methods, path : Paths, token : {t1},
   body : {GoodBody, [GoodBody EXCEPT !.type = NONE]}]
  \cup [method : {"POST", "PUT"}, path : {<<>>, <<dyn>>}, token : {t1}, body : Bodies]
  \cup [method : Methods, path : {<<>>, <<dyn>>, <<dyn, "disable">>},
        token : {NONE, Empty, t2}, body : {GoodBody}]

-----------------------------------------------------------------------------
(* Callback queries of up to three pairs, repeated and in any order. *)
Pairs ==
  ({"state"} \X {"s1", TooLong}) \cup ({"code"} \X {"c1"}) \cup
  ({"error"} \X {"access_denied", "server_error", "unheard-of"}) \cup ({"other"} \X {"x"})
MCCallbackQueries == UNION {[1 .. n -> Pairs] : n \in 0 .. 3}
=============================================================================
