------------------------------ MODULE MCRuntime ------------------------------
(***************************************************************************)
(* Small instances of Runtime: a roll-over from key A to key B, and        *)
(* environments that differ from a good one in up to two settings.         *)
(***************************************************************************)
EXTENDS Runtime, TLC

CONSTANTS c1, c2, u1, u2, u3, origin, other, k1, k2, keyA, keyB, weak

HttpsUrl == [scheme |-> "https", host |-> "public", userinfo |-> FALSE, query |-> FALSE,
             fragment |-> FALSE, path |-> FALSE, wildcard |-> FALSE]
MCUrl == [u \in {u1, u2, u3, origin, other} |->
  CASE u = u1 -> [HttpsUrl EXCEPT !.path = TRUE]
    [] u = u2 -> [HttpsUrl EXCEPT !.scheme = "http", !.path = TRUE]
    [] u = u3 -> [HttpsUrl EXCEPT !.scheme = "http", !.host = "loopback"]
    [] u = origin -> HttpsUrl
    [] u = other -> [HttpsUrl EXCEPT !.path = TRUE]]
MCKeyBits == [k \in {keyA, keyB, weak} |-> IF k = weak THEN 1024 ELSE 2048]

Public(id) ==
  [client_id |-> id, redirect_uris |-> <<u1>>, allowed_scopes |-> {"openid"},
   client_type |-> "public", token_endpoint_auth_method |-> "none"]
Confidential(id) ==
  [Public(id) EXCEPT !.client_type = "confidential",
                     !.token_endpoint_auth_method = "client_secret_basic"]

Jwk(kid, key) ==
  [private |-> FALSE, kty |-> "RSA", n |-> key, e |-> "AQAB", alg |-> "RS256",
   use |-> NONE, kid |-> kid]

Good ==
  [issuer |-> origin, discord_client_id |-> "digits", required_guild_id |-> "digits",
   discord_client_secret |-> "text", signing_key_id |-> k1, signing_private_key |-> keyA,
   clients |-> <<Public(c1)>>, client_secrets |-> NONE, additional |-> NONE, ttl |-> NONE,
   store_bound |-> TRUE]

Env(kid, key, additional) ==
  [Good EXCEPT !.signing_key_id = kid, !.signing_private_key = key,
               !.additional = additional]

(* Old key alone, new key published ahead, new key in use, old key dropped. *)
(* Then the kid kept for the new key, and a malformed kid.                  *)
Old == Env(k1, keyA, NONE)
Ahead == Env(k1, keyA, <<Jwk(k2, keyB)>>)
Switched == Env(k2, keyB, <<Jwk(k1, keyA)>>)
Dropped == Env(k2, keyB, NONE)
KidReused == Env(k1, keyB, NONE)
KidMistyped == Env(Malformed, keyB, <<Jwk(k1, keyA)>>)
Rollover == {Old, Ahead, Switched, Dropped, KidReused, KidMistyped}
RolloverStart == {Old}
DocumentedRollover == {Old, Switched, Dropped}

(* Other values of each setting. *)
Variants ==
  [issuer |-> {NONE, Empty, other, u3}, discord_client_id |-> {Empty, Malformed},
   required_guild_id |-> {NONE, Malformed}, discord_client_secret |-> {Empty},
   signing_key_id |-> {NONE, Malformed, k2},
   signing_private_key |-> {Empty, Malformed, weak},
   clients |->
     {NONE, Malformed, <<>>, <<Confidential(c1)>>, <<Public(c1), Confidential(c2)>>,
      <<Public(c1), Public(c1)>>, <<Confidential(c1), Public(c1)>>,
      <<Public(Empty)>>, <<Public(c2), [Public(c1) EXCEPT !.redirect_uris = <<u3, u2>>]>>,
      <<[Public(c1) EXCEPT !.redirect_uris = <<u3, u1>>]>>,
      <<[Public(c1) EXCEPT !.redirect_uris = <<>>]>>,
      <<[Public(c1) EXCEPT !.allowed_scopes = {}]>>,
      <<[Public(c1) EXCEPT !.allowed_scopes = {"openid", "profile"}]>>,
      <<[Public(c1) EXCEPT !.token_endpoint_auth_method = "client_secret_basic"]>>},
   client_secrets |->
     {Malformed} \cup [{c1} -> {"secret", Malformed}] \cup [{c2} -> {"secret", Malformed}]
       \cup [{c1, c2} -> {"secret"}],
   additional |->
     {Malformed, <<>>} \cup {<<j>> : j \in
        {Jwk(k1, keyB), Jwk(k2, keyB), Jwk(k2, weak), Jwk(Malformed, keyB),
         Jwk(k2, Malformed), Malformed, [Jwk(k2, keyB) EXCEPT !.private = TRUE],
         [Jwk(k2, keyB) EXCEPT !.kty = "EC"], [Jwk(k2, keyB) EXCEPT !.e = NONE],
         [Jwk(k2, keyB) EXCEPT !.alg = "ES256"], [Jwk(k2, keyB) EXCEPT !.use = "enc"]}}
     \cup {<<Jwk(k2, keyB), j>> : j \in {Jwk(k1, keyB), Jwk(k2, keyB), Jwk(k2, keyA)}},
   ttl |-> {Malformed, 0, 1, 3, 4}, store_bound |-> {FALSE}]

Choices == UNION {{s} \X (Variants[s] \cup {Good[s]}) : s \in DOMAIN Variants}
MCEnvironments == {[Good EXCEPT ![a[1]] = a[2], ![b[1]] = b[2]] : a, b \in Choices}

RuntimeSymmetry == Permutations(Isolates) \cup Permutations(Requests)
=============================================================================
