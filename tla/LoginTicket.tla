----------------------------- MODULE LoginTicket -----------------------------
(***************************************************************************)
(* What the provider promises about one login, as one ticket: it begins    *)
(* once, is granted at most once and to one guild member, is redeemed for  *)
(* an ID token at most once and for that member, and may be closed at any  *)
(* time before, after which nothing happens to it.  Logins are independent *)
(* of each other.                                                          *)
(***************************************************************************)
CONSTANTS Logins, Users

VARIABLES
  stage,   \* where each login stands
  who      \* the users each login stands for: nobody, or exactly one

Stages == {"new", "pending", "granted", "redeemed", "closed"}

Init ==
  /\ stage = [l \in Logins |-> "new"]
  /\ who = [l \in Logins |-> {}]

(* How one login may change in a step. *)
Begin(l) == stage[l] = "new" /\ stage'[l] = "pending" /\ who'[l] = {}
Grant(l) ==
  stage[l] = "pending" /\ stage'[l] = "granted" /\ \E u \in Users : who'[l] = {u}
Redeem(l) == stage[l] = "granted" /\ stage'[l] = "redeemed" /\ who'[l] = who[l]
Close(l) ==
  stage[l] \in {"new", "pending", "granted"} /\ stage'[l] = "closed" /\ who'[l] = {}
Keep(l) == stage'[l] = stage[l] /\ who'[l] = who[l]

Next ==
  \A l \in Logins : Begin(l) \/ Grant(l) \/ Redeem(l) \/ Close(l) \/ Keep(l)

Spec == Init /\ [][Next]_<<stage, who>>
=============================================================================
