--------------------------- MODULE ClientMetadata ---------------------------
(***************************************************************************)
(* Text an operator supplies, in the environment or to the admin API, and  *)
(* the checks both use (config.rs, client.rs).                             *)
(*                                                                         *)
(* A value is absent (NONE), the empty string (Empty), text that does not  *)
(* parse or has a forbidden form (Malformed), or what it parses to.        *)
(***************************************************************************)
EXTENDS Domain, Sequences

CONSTANTS
  Empty, Malformed,
  Url            \* what Url::parse makes of a redirect URI or issuer

(* A digit string of plausible length parses to itself. *)
is_snowflake(value) == value \notin {Empty, Malformed}

is_valid_redirect_uri(uri) ==
  LET url == Url[uri] IN
  /\ url # Malformed
  /\ ~url.fragment /\ ~url.wildcard
  /\ \/ url.scheme = "https"
     \/ url.scheme = "http" /\ url.host = "loopback"
=============================================================================
