-------------------------- MODULE MCClientRegistry --------------------------
(***************************************************************************)
(* Small instances of ClientRegistry.  One of the ids of the dynamic form  *)
(* belongs to a static client, so that generated ids collide both with it  *)
(* and with each other.                                                    *)
(***************************************************************************)
EXTENDS ClientRegistry, TLC

CONSTANTS d1, d2, u1, u2

MCStaticConfig == [c \in {d2} |-> [redirect_uris |-> {u1}, client_type |-> "public"]]
MCStaticSecret == [c \in {d2} |-> NONE]
RequestSymmetry ==
  Permutations(Requests) \cup Permutations(DynamicIds \ StaticClients)
=============================================================================
