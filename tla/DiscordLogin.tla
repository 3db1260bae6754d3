---------------------------- MODULE DiscordLogin ----------------------------
(***************************************************************************)
(* How the Discord callback reads its query and Discord's HTTP replies     *)
(* (callback.rs, discord_http.rs).  OidcFlow has the transaction, the      *)
(* client and the code around it; taking the transaction and resolving the *)
(* client is one step here, which goes on or answers.                      *)
(*                                                                         *)
(* A query is a sequence of pairs.  A reply is Transport (nothing came     *)
(* back) or a status with a body, Malformed if it lacks the fields read.   *)
(***************************************************************************)
EXTENDS Sequences, Naturals

CONSTANTS
  NONE, Transport, Malformed, TooLong,
  CallbackQueries, Statuses,
  UserIds, Snowflakes    \* ids Discord may name, those made of digits

VARIABLES
  query,
  pc,       \* what the handler does next
  said,     \* Discord's replies so far
  answer    \* NONE, an error, or the user a code is issued for

vars == <<query, pc, said, answer>>

Init == query \in CallbackQueries /\ pc = "parse" /\ said = <<>> /\ answer = NONE

-----------------------------------------------------------------------------
(* The value of the first pair of that name. *)
first(q, name) ==
  LET hits == {i \in DOMAIN q : q[i][1] = name} IN
  IF hits = {} THEN NONE ELSE q[CHOOSE i \in hits : \A j \in hits : i <= j][2]

sanitize_upstream_error(error) ==
  IF error \in {"server_error", "temporarily_unavailable", "invalid_request"}
  THEN error ELSE "access_denied"

Replies(bodies) == {Transport} \cup [status : Statuses, body : bodies \cup {Malformed}]

(* exchange_code and fetch_user: anything but a usable 200 is an error. *)
Success(reply) ==
  reply # Transport /\ reply.status = 200 /\ reply.body # Malformed

(* Mutant: any other status than 200 means that the user is no member. *)
MemberOr(reply) ==
  IF reply = Transport THEN "error"
  ELSE IF reply.status = 200 THEN IF reply.body = Malformed THEN "error" ELSE "member"
  ELSE "none"

(* fetch_guild_member: 404 is an answer, other failures are errors. *)
fetch_guild_member(reply) ==
  IF Success(reply) THEN "member"
  ELSE IF reply # Transport /\ reply.status = 404 THEN "none"
  ELSE "error"

Answer(kind, value) == answer' = [kind |-> kind, value |-> value] /\ pc' = "done"
Continue(at) == pc' = at /\ UNCHANGED answer

Parse ==
  /\ pc = "parse"
  /\ IF first(query, "state") \in {NONE, TooLong} THEN Answer("page", "invalid_request")
     ELSE Continue("take")
  /\ UNCHANGED <<query, said>>

(* take_transaction and find_client: a page, or the session has expired. *)
NotTaken ==
  /\ pc = "take"
  /\ \/ \E error \in {"invalid_request", "unauthorized_client", "server_error"} :
          Answer("page", error)
     \/ Answer("redirect", "temporarily_unavailable")
  /\ UNCHANGED <<query, said>>

(* Mutant: a code is used even if there is an error next to it. *)
TakenPrefersCode ==
  /\ pc = "take"
  /\ IF first(query, "code") # NONE THEN Continue("exchange")
     ELSE IF first(query, "error") # NONE
     THEN Answer("redirect", sanitize_upstream_error(first(query, "error")))
     ELSE Answer("redirect", "invalid_request")
  /\ UNCHANGED <<query, said>>

(* The client is validated: an upstream error comes before a code. *)
Taken ==
  /\ pc = "take"
  /\ IF first(query, "error") # NONE
     THEN Answer("redirect", sanitize_upstream_error(first(query, "error")))
     ELSE IF first(query, "code") = NONE THEN Answer("redirect", "invalid_request")
     ELSE Continue("exchange")
  /\ UNCHANGED <<query, said>>

Exchange ==
  /\ pc = "exchange"
  /\ \E reply \in Replies({"token"}) :
       /\ said' = Append(said, reply)
       /\ IF Success(reply) THEN Continue("user") ELSE Answer("redirect", "server_error")
  /\ UNCHANGED query

FetchUser ==
  /\ pc = "user"
  /\ \E reply \in Replies(UserIds) :
       /\ said' = Append(said, reply)
       /\ IF Success(reply) /\ reply.body \in Snowflakes THEN Continue("member")
          ELSE Answer("redirect", "server_error")
  /\ UNCHANGED query

(* put_authorization_code follows; OidcFlow has its failures. *)
FetchMember ==
  /\ pc = "member"
  /\ \E reply \in Replies({"member"}) :
       /\ said' = Append(said, reply)
       /\ \/ fetch_guild_member(reply) = "member" /\ Answer("code", said[2].body)
          \/ fetch_guild_member(reply) = "none" /\ Answer("redirect", "access_denied")
          \/ fetch_guild_member(reply) = "error" /\ Answer("redirect", "server_error")
  /\ UNCHANGED query

Next == Parse \/ NotTaken \/ Taken \/ Exchange \/ FetchUser \/ FetchMember

Spec == Init /\ [][Next]_vars

-----------------------------------------------------------------------------
(* Properties. *)

(* A login succeeds only for a query that reports no error, anywhere in it, *)
(* and after three complete successes of Discord, the second of which names *)
(* the user by digits.                                                      *)
AdmittedByDiscord ==
  answer # NONE /\ answer.kind = "code" =>
    /\ \A i \in DOMAIN query : query[i][1] # "error"
    /\ Len(said) = 3
    /\ \A i \in 1 .. 3 : said[i] # Transport /\ said[i].status = 200 /\ said[i].body # Malformed
    /\ answer.value = said[2].body /\ answer.value \in Snowflakes

(* The RP is told access_denied only if Discord said no: it sent the user   *)
(* back with an error, or answered 404 for the member.  An outage, a rate   *)
(* limit or a garbled reply is never reported as a refusal.                 *)
DeniedOnlyByDiscord ==
  answer # NONE /\ answer.value = "access_denied" =>
    \/ said = <<>> /\ \E i \in DOMAIN query : query[i][1] = "error"
    \/ Len(said) = 3 /\ said[3] # Transport /\ said[3].status = 404
=============================================================================
