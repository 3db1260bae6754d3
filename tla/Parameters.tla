----------------------------- MODULE Parameters -----------------------------
(***************************************************************************)
(* Parsed query strings and form bodies (authorize.rs, token.rs): each     *)
(* parameter has no value (NONE), several (Twice), or one.  A value over   *)
(* its limit is TooLong, one that lacks the form its check wants is        *)
(* Malformed.  A handler makes its checks in order and answers the first   *)
(* that fails.                                                             *)
(***************************************************************************)
EXTENDS Domain, Sequences

CONSTANTS Twice, TooLong, Malformed

ASSUME ParametersAssumption == NONE \notin {Twice, TooLong, Malformed}

(* The value, if there is exactly one. *)
single(q, name) == IF q[name] = Twice THEN NONE ELSE q[name]

(* There is exactly one value and it is within its limit. *)
Given(q, name) == q[name] \notin {NONE, Twice, TooLong}

Check(fails, code) == [fails |-> fails, code |-> code]

(* The code of the first check that fails, NONE if all pass. *)
FirstFailure(checks) ==
  LET failed == {i \in DOMAIN checks : checks[i].fails} IN
  IF failed = {} THEN NONE
  ELSE checks[CHOOSE i \in failed : \A j \in failed : i <= j].code
=============================================================================
