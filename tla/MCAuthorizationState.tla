------------------------ MODULE MCAuthorizationState ------------------------
(***************************************************************************)
(* Small instance of AuthorizationState: see the .cfg for the values.      *)
(***************************************************************************)
EXTENDS AuthorizationState
=============================================================================
