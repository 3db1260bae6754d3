------------------------------- MODULE Domain -------------------------------
(***************************************************************************)
(* Values shared by the modules: the absent option, client identifiers,    *)
(* redirect URIs and SHA-256 (util.rs), which is an injective constructor: *)
(* a hash tells its preimages apart and is never equal to one of them.     *)
(***************************************************************************)
EXTENDS Naturals

CONSTANTS
  NONE,          \* Rust's None
  Clients,       \* client_id values
  RedirectUris

sha256_b64url(x) == <<"sha256", x>>
=============================================================================
