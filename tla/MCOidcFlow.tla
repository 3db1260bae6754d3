----------------------------- MODULE MCOidcFlow -----------------------------
(***************************************************************************)
(* Small instances of OidcFlow: a dynamic confidential client `dyn`, which *)
(* sends a `state` and a nonce, and a static public client `stat`, which   *)
(* sends neither and has the other redirect_uri.                           *)
(***************************************************************************)
EXTENDS OidcFlow, TLC

CONSTANTS dyn, stat, u1, u2, r1, n1, v1, v2, k0, k1

MCStaticConfig == [c \in {stat} |-> [redirect_uris |-> {u2}, client_type |-> "public"]]
MCStaticSecret == [c \in {stat} |-> NONE]
MCRegistry == [c \in {dyn} |-> NewRecord({u1}, "confidential", sha256_b64url(k0), 0)]
MCUpdateUris == {{u1}, {u2}}

Ask(c, u, r, n, v) ==
  [client_id |-> c, redirect_uri |-> u, rp_state |-> r, nonce |-> n,
   code_challenge |-> sha256_b64url(v)]
Present(c, u, v, s) ==
  [client_id |-> c, redirect_uri |-> u, code_verifier |-> v, secret |-> s]

(* One login of the dynamic client, exchanged with the old or the new secret. *)
DynInputs == {Ask(dyn, u1, r1, n1, v1)}
DynPresentations == {Present(dyn, u1, v1, k0), Present(dyn, u1, v1, k1)}

RightPresentation == {Present(dyn, u1, v1, k0)}

(* Logins of both clients, exchanged rightly, by the other client, with the *)
(* other URI or with the other verifier.                                    *)
MixInputs == {Ask(dyn, u1, r1, n1, v1), Ask(stat, u2, NONE, NONE, v2)}
MixPresentations ==
  {Present(dyn, u1, v1, k0), Present(stat, u2, v2, NONE), Present(stat, u1, v1, NONE),
   Present(dyn, u2, v1, k0), Present(dyn, u1, v2, k0), Present(dyn, u1, v1, NONE)}

FlowSymmetry ==
  Permutations(AuthorizeReqs) \cup Permutations(CallbackReqs) \cup Permutations(TokenReqs)
=============================================================================
