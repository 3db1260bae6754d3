---------------------------- MODULE WorkerProofs ----------------------------
(***************************************************************************)
(* What the handlers of the Worker guarantee, for every request, registry  *)
(* and reply: the Discord callback and the admin API.  Each handler has an *)
(* inductive invariant of its own, which the requests of the others leave  *)
(* alone.                                                                  *)
(***************************************************************************)
EXTENDS Worker, NaturalsInduction, WellFoundedInduction, SequenceTheorems,
        FunctionTheorems, FiniteSetTheorems, TLAPS

(* A non-empty set of indices has a least one, which is what the first pair *)
(* of a name, or the first check that fails, is chosen by.                  *)
LEMMA LeastIndex ==
  ASSUME NEW S \in SUBSET Nat, S # {}
  PROVE  \E i \in S : \A j \in S : i <= j
<1>. DEFINE R == {p \in Nat \X Nat : p[1] < p[2]}
<1>1. OpToRel(<, Nat) = R
  BY Zenon DEF OpToRel
<1>2. IsWellFoundedOn(R, Nat)
  BY <1>1, NatLessThanWellFounded, Zenon
<1>. HIDE DEF R
<1>3. PICK i \in S : \A j \in S : ~(<<j, i>> \in R)
  BY <1>2, WFMin
<1>4. ASSUME NEW j \in S PROVE i <= j
  <2>1. j \in Nat /\ i \in Nat /\ <<j, i>> \in Nat \X Nat
    OBVIOUS
  <2>2. ~(j < i)
    BY <1>3, <2>1 DEF R
  <2>. QED  BY <2>1, <2>2
<1>. QED  BY <1>4

(* What a list is. *)
LEMMA ListProperties ==
  ASSUME NEW s, IsList(s)
  PROVE  Len(s) \in Nat /\ DOMAIN s = 1 .. Len(s) /\ \E S : s \in Seq(S)
<1>. DEFINE S == {s[i] : i \in DOMAIN s}
<1>1. s \in Seq(S)
  BY DEF IsList
<1>. HIDE DEF S
<1>. QED  BY <1>1

(* FirstFailure: NONE means that every check passes. *)
LEMMA NoFailure ==
  ASSUME NEW checks, DOMAIN checks \subseteq Nat,
         \A i \in DOMAIN checks : checks[i].code \in Codes
  PROVE  FirstFailure(checks) = NONE <=> \A i \in DOMAIN checks : ~checks[i].fails
<1>. DEFINE failed == {i \in DOMAIN checks : checks[i].fails}
<1>1. CASE failed = {}
  BY <1>1 DEF FirstFailure
<1>2. CASE failed # {}
  <2>1. \E i \in failed : \A j \in failed : i <= j
    <3>1. failed \in SUBSET Nat
      OBVIOUS
    <3>. QED  BY <1>2, <3>1, LeastIndex
  <2>2. (CHOOSE i \in failed : \A j \in failed : i <= j) \in failed
    BY <2>1
  <2>3. FirstFailure(checks) \in Codes
    BY <1>2, <2>2 DEF FirstFailure
  <2>. QED  BY <1>2, <2>3, CallerAssumption
<1>. QED  BY <1>1, <1>2

(* ... and otherwise the code of one of them. *)
LEMMA SomeFailure ==
  ASSUME NEW checks, DOMAIN checks \subseteq Nat, NEW S,
         \A i \in DOMAIN checks : checks[i].code \in S,
         FirstFailure(checks) # NONE
  PROVE  FirstFailure(checks) \in S
<1>. DEFINE failed == {i \in DOMAIN checks : checks[i].fails}
<1>1. failed # {} /\ failed \in SUBSET Nat
  BY DEF FirstFailure
<1>2. \E i \in failed : \A j \in failed : i <= j
  BY <1>1, LeastIndex
<1>3. (CHOOSE i \in failed : \A j \in failed : i <= j) \in failed
  BY <1>2
<1>. QED  BY <1>1, <1>3 DEF FirstFailure

(* One more reply of Discord. *)
LEMMA NextReply ==
  ASSUME NEW S, NEW s \in Seq(S), NEW e \in S, NEW t, t = Append(s, e),
         NEW n \in Nat, Len(s) = n
  PROVE  /\ t \in Seq(S) /\ Len(t) = n + 1 /\ t[n + 1] = e
         /\ \A i \in 1 .. n : t[i] = s[i]
BY AppendProperties, Zenon

-----------------------------------------------------------------------------
(* The Discord callback. *)

Reply == Callback!Replies(UserIds \cup {"token", "member"})

(* How far the handler has come tells what Discord has said so far, and     *)
(* past the upstream error that there was none.                             *)
CallbackInv ==
  /\ query \in CallbackQueries
  /\ said \in Seq(Reply)
  /\ pc \in {"parse", "take", "exchange", "user", "member", "done"}
  /\ pc # "done" => answer = NONE
  /\ pc \in {"parse", "take", "exchange"} => said = <<>>
  /\ pc \in {"exchange", "user", "member"} => Callback!first(query, "error") = NONE
  /\ pc \in {"user", "member"} => Callback!Success(said[1])
  /\ pc = "user" => Len(said) = 1
  /\ pc = "member" => /\ Len(said) = 2 /\ Callback!Success(said[2])
                      /\ said[2].body \in Snowflakes

(* first: NONE means that no pair has that name. *)
LEMMA FirstIsNone ==
  ASSUME NEW q \in CallbackQueries, NEW name
  PROVE  Callback!first(q, name) = NONE <=> \A i \in DOMAIN q : q[i][1] # name
<1>. DEFINE hits == {i \in DOMAIN q : q[i][1] = name}
<1>1. hits \in SUBSET Nat
  <2>1. IsList(q)
    BY CallerAssumption
  <2>. QED  BY <2>1, ListProperties
<1>2. CASE hits = {}
  BY <1>2 DEF Callback!first
<1>3. CASE hits # {}
  <2>1. (CHOOSE i \in hits : \A j \in hits : i <= j) \in hits
    BY <1>1, <1>3, LeastIndex
  <2>. QED  BY <1>3, <2>1, CallerAssumption DEF Callback!first
<1>. QED  BY <1>2, <1>3

CallbackCorrect ==
  handler = "GET /oauth/discord/callback" =>
    CallbackInv /\ Callback!AdmittedByDiscord /\ Callback!DeniedOnlyByDiscord

LEMMA CallbackInit ==
  ASSUME Callback!Init
  PROVE  CallbackInv /\ Callback!AdmittedByDiscord /\ Callback!DeniedOnlyByDiscord
<1>1. CallbackInv
  BY DEF Callback!Init, CallbackInv
<1>2. answer = NONE
  BY DEF Callback!Init
<1>. QED  BY <1>1, <1>2 DEF Callback!AdmittedByDiscord, Callback!DeniedOnlyByDiscord

(* An answer that is no code and no refusal satisfies both properties. *)
LEMMA OtherAnswer ==
  ASSUME NEW kind \in {"page", "redirect"}, NEW value, value # "access_denied",
         Callback!Answer(kind, value)
  PROVE  pc' = "done" /\ (Callback!AdmittedByDiscord /\ Callback!DeniedOnlyByDiscord)'
BY DEF Callback!Answer, Callback!AdmittedByDiscord, Callback!DeniedOnlyByDiscord

LEMMA CallbackStep ==
  ASSUME CallbackInv, Callback!Next
  PROVE  (CallbackInv /\ Callback!AdmittedByDiscord /\ Callback!DeniedOnlyByDiscord)'
<1>. DEFINE Props == Callback!AdmittedByDiscord /\ Callback!DeniedOnlyByDiscord
<1>1. ASSUME NEW at, Callback!Continue(at), at # "done", pc # "done"
      PROVE  pc' = at /\ answer' = NONE /\ Props'
  BY <1>1 DEF CallbackInv, Callback!Continue, Callback!AdmittedByDiscord,
              Callback!DeniedOnlyByDiscord
<1>2. CASE Callback!Parse
  <2>1. CASE Callback!Continue("take")
    BY <1>1, <1>2, <2>1 DEF CallbackInv, Callback!Parse
  <2>2. CASE Callback!Answer("page", "invalid_request")
    BY <1>2, <2>2, OtherAnswer DEF CallbackInv, Callback!Parse
  <2>. QED  BY <1>2, <2>1, <2>2 DEF Callback!Parse
<1>3. CASE Callback!NotTaken
  <2>1. PICK kind \in {"page", "redirect"}, value \in {"invalid_request",
               "unauthorized_client", "server_error", "temporarily_unavailable"} :
          Callback!Answer(kind, value)
    BY <1>3 DEF Callback!NotTaken
  <2>. QED  BY <1>3, <2>1, OtherAnswer DEF CallbackInv, Callback!NotTaken
<1>4. CASE Callback!Taken
  <2>. DEFINE error == Callback!first(query, "error")
  <2>1. CASE error # NONE
    <3>1. \E i \in DOMAIN query : query[i][1] = "error"
      BY <2>1, FirstIsNone DEF CallbackInv
    <3>2. Callback!Answer("redirect", Callback!sanitize_upstream_error(error))
      BY <1>4, <2>1 DEF Callback!Taken
    <3>3. Props'
      BY <1>4, <3>1, <3>2 DEF CallbackInv, Callback!Taken, Callback!Answer,
                              Callback!AdmittedByDiscord, Callback!DeniedOnlyByDiscord
    <3>. QED  BY <1>4, <3>2, <3>3 DEF CallbackInv, Callback!Taken, Callback!Answer
  <2>2. CASE error = NONE /\ Callback!Answer("redirect", "invalid_request")
    BY <1>4, <2>2, OtherAnswer DEF CallbackInv, Callback!Taken
  <2>3. CASE error = NONE /\ Callback!Continue("exchange")
    BY <1>1, <1>4, <2>3 DEF CallbackInv, Callback!Taken
  <2>. QED  BY <1>4, <2>1, <2>2, <2>3 DEF Callback!Taken
<1>5. CASE Callback!Exchange
  <2>1. PICK reply \in Callback!Replies({"token"}) :
          /\ said' = Append(said, reply)
          /\ IF Callback!Success(reply) THEN Callback!Continue("user")
             ELSE Callback!Answer("redirect", "server_error")
    BY <1>5 DEF Callback!Exchange
  <2>2. reply \in Reply
    BY DEF Reply, Callback!Replies
  <2>3. said' \in Seq(Reply) /\ Len(said') = 1 /\ said'[1] = reply
    BY <1>5, <2>1, <2>2 DEF CallbackInv, Callback!Exchange
  <2>4. CASE Callback!Success(reply)
    BY <1>1, <1>5, <2>1, <2>3, <2>4 DEF CallbackInv, Callback!Exchange
  <2>5. CASE ~Callback!Success(reply)
    BY <1>5, <2>1, <2>3, <2>5, OtherAnswer DEF CallbackInv, Callback!Exchange
  <2>. QED  BY <2>4, <2>5
<1>6. CASE Callback!FetchUser
  <2>1. PICK reply \in Callback!Replies(UserIds) :
          /\ said' = Append(said, reply)
          /\ IF Callback!Success(reply) /\ reply.body \in Snowflakes
             THEN Callback!Continue("member")
             ELSE Callback!Answer("redirect", "server_error")
    BY <1>6 DEF Callback!FetchUser
  <2>2. reply \in Reply
    BY DEF Reply, Callback!Replies
  <2>3. said' \in Seq(Reply) /\ Len(said') = 2 /\ said'[1] = said[1] /\ said'[2] = reply
    <3>1. said \in Seq(Reply) /\ Len(said) = 1
      BY <1>6 DEF CallbackInv, Callback!FetchUser
    <3>2. said' = Append(said, reply)
      BY <2>1
    <3>. QED  BY <2>2, <3>1, <3>2, NextReply
  <2>4. CASE Callback!Success(reply) /\ reply.body \in Snowflakes
    BY <1>1, <1>6, <2>1, <2>3, <2>4 DEF CallbackInv, Callback!FetchUser
  <2>5. CASE ~(Callback!Success(reply) /\ reply.body \in Snowflakes)
    BY <1>6, <2>1, <2>3, <2>5, OtherAnswer DEF CallbackInv, Callback!FetchUser
  <2>. QED  BY <2>4, <2>5
<1>7. CASE Callback!FetchMember
  <2>1. PICK reply \in Callback!Replies({"member"}) :
          /\ said' = Append(said, reply)
          /\ \/ /\ Callback!fetch_guild_member(reply) = "member"
                /\ Callback!Answer("code", said[2].body)
             \/ /\ Callback!fetch_guild_member(reply) = "none"
                /\ Callback!Answer("redirect", "access_denied")
             \/ /\ Callback!fetch_guild_member(reply) = "error"
                /\ Callback!Answer("redirect", "server_error")
    BY <1>7 DEF Callback!FetchMember
  <2>2. reply \in Reply
    BY DEF Reply, Callback!Replies
  <2>3. /\ said' \in Seq(Reply) /\ Len(said') = 3
        /\ said'[1] = said[1] /\ said'[2] = said[2] /\ said'[3] = reply
    <3>1. said \in Seq(Reply) /\ Len(said) = 2
      BY <1>7 DEF CallbackInv, Callback!FetchMember
    <3>2. said' = Append(said, reply)
      BY <2>1
    <3>. QED  BY <2>2, <3>1, <3>2, NextReply
  <2>4. CASE /\ Callback!fetch_guild_member(reply) = "member"
             /\ Callback!Answer("code", said[2].body)
    <3>1. Callback!Success(reply)
      BY <2>4 DEF Callback!fetch_guild_member
    <3>2. /\ answer' = [kind |-> "code", value |-> said[2].body] /\ pc' = "done"
          /\ query' = query
      BY <1>7, <2>4 DEF Callback!Answer, Callback!FetchMember
    <3>3. \A i \in DOMAIN query : query[i][1] # "error"
      BY <1>7, FirstIsNone DEF CallbackInv, Callback!FetchMember
    <3>4. /\ said[2].body \in Snowflakes
          /\ Callback!Success(said[1]) /\ Callback!Success(said[2])
      BY <1>7 DEF CallbackInv, Callback!FetchMember
    <3>5. \A i \in 1 .. 3 : Callback!Success(said'[i])
      BY <2>3, <3>1, <3>4
    <3>6. Callback!AdmittedByDiscord'
      BY <2>3, <3>2, <3>3, <3>4, <3>5 DEF Callback!AdmittedByDiscord, Callback!Success
    <3>7. Callback!DeniedOnlyByDiscord'
      BY <3>2, <3>4, CallerAssumption DEF Callback!DeniedOnlyByDiscord
    <3>. QED  BY <2>3, <3>2, <3>6, <3>7 DEF CallbackInv
  <2>5. CASE /\ Callback!fetch_guild_member(reply) = "none"
             /\ Callback!Answer("redirect", "access_denied")
    <3>1. reply # Transport /\ reply.status = 404
      BY <2>5 DEF Callback!fetch_guild_member
    <3>. QED
      BY <1>7, <2>3, <2>5, <3>1 DEF CallbackInv, Callback!FetchMember, Callback!Answer,
         Callback!AdmittedByDiscord, Callback!DeniedOnlyByDiscord
  <2>6. CASE Callback!Answer("redirect", "server_error")
    BY <1>7, <2>3, <2>6, OtherAnswer DEF CallbackInv, Callback!FetchMember
  <2>. QED  BY <2>1, <2>4, <2>5, <2>6
<1>. QED  BY <1>2, <1>3, <1>4, <1>5, <1>6, <1>7 DEF Callback!Next

(* The requests of the other handlers leave a handler's invariant alone. *)
LEMMA CallbackInvariance == Spec => []CallbackCorrect
<1>1. Init => CallbackCorrect
  BY CallbackInit DEF Init, GetAuthorize, GetCallback, PostToken, AnyAdmin, CallbackCorrect
<1>2. CallbackCorrect /\ [Next]_vars => CallbackCorrect'
  <2>. SUFFICES ASSUME CallbackCorrect, [Next]_vars,
                       handler' = "GET /oauth/discord/callback"
                PROVE  (CallbackInv /\ Callback!AdmittedByDiscord
                          /\ Callback!DeniedOnlyByDiscord)'
    BY DEF CallbackCorrect
  <2>1. handler = "GET /oauth/discord/callback" /\ (Callback!Next \/ UNCHANGED vars)
    BY DEF Next, vars
  <2>2. CASE Callback!Next
    BY <2>1, <2>2, CallbackStep DEF CallbackCorrect
  <2>3. CASE UNCHANGED vars
    BY <2>1, <2>3 DEF vars, CallbackCorrect, CallbackInv, Callback!AdmittedByDiscord,
       Callback!DeniedOnlyByDiscord
  <2>. QED  BY <2>1, <2>2, <2>3
<1>. QED  BY <1>1, <1>2, PTL DEF Spec

(* The Discord callback issues a code only for a query that reports no      *)
(* error anywhere, after three complete successes of Discord, and for the   *)
(* user the second of them named (callback.rs, discord_http.rs).            *)
THEOREM CallbackAdmits == Spec => []AdmittedByDiscord
<1>1. CallbackCorrect => AdmittedByDiscord
  BY DEF CallbackCorrect, AdmittedByDiscord
<1>. QED  BY CallbackInvariance, <1>1, PTL

(* access_denied goes to the RP only if Discord sent the user back with an  *)
(* error or answered 404 for the member (sanitize_upstream_error,           *)
(* fetch_guild_member).                                                     *)
THEOREM CallbackDenies == Spec => []DeniedOnlyByDiscord
<1>1. CallbackCorrect => DeniedOnlyByDiscord
  BY DEF CallbackCorrect, DeniedOnlyByDiscord
<1>. QED  BY CallbackInvariance, <1>1, PTL

-----------------------------------------------------------------------------
(* The admin API: paths and routes. *)

(* trim_start_matches and split: unless nothing is left, the segments start *)
(* at the first one that is not empty.                                      *)
LEMMA SegmentsOf ==
  ASSUME NEW path, IsList(path), Admin!Segments(path) # <<Empty>>
  PROVE  \E i \in DOMAIN path :
           /\ path[i] # Empty /\ \A j \in 1 .. i - 1 : path[j] = Empty
           /\ Len(Admin!Segments(path)) = Len(path) - i + 1
           /\ Admin!Segments(path)[1] = path[i]
<1>. DEFINE named == {i \in DOMAIN path : path[i] # Empty}
            m == CHOOSE i \in named : \A j \in named : i <= j
<1>1. DOMAIN path = 1 .. Len(path) /\ Len(path) \in Nat
  BY ListProperties
<1>2. named # {}
  BY DEF Admin!Segments
<1>3. m \in named /\ \A j \in named : m <= j
  <2>1. named \in SUBSET Nat
    BY <1>1
  <2>2. \E i \in named : \A j \in named : i <= j
    BY <1>2, <2>1, LeastIndex
  <2>. QED  BY <2>2
<1>4. Admin!Segments(path) = SubSeq(path, m, Len(path))
  BY <1>2 DEF Admin!Segments
<1>. HIDE DEF m
<1>5. m \in 1 .. Len(path) /\ path[m] # Empty
  BY <1>1, <1>3
<1>6. /\ Len(SubSeq(path, m, Len(path))) = Len(path) - m + 1
      /\ SubSeq(path, m, Len(path))[1] = path[m]
  <2>1. PICK S : path \in Seq(S)
    BY ListProperties
  <2>2. \A i \in m .. Len(path) : path[i] \in S
    BY <1>1, <1>5, <2>1
  <2>3. /\ Len(SubSeq(path, m, Len(path))) =
             IF m <= Len(path) THEN Len(path) - m + 1 ELSE 0
        /\ \A i \in 1 .. Len(path) - m + 1 :
             SubSeq(path, m, Len(path))[i] = path[m + i - 1]
    BY <1>1, <1>5, <2>2, SubSeqProperties
  <2>4. 1 \in 1 .. Len(path) - m + 1 /\ m + 1 - 1 = m /\ m <= Len(path)
    BY <1>1, <1>5
  <2>. QED  BY <2>3, <2>4
<1>7. ASSUME NEW j \in 1 .. m - 1 PROVE path[j] = Empty
  <2>1. j \in DOMAIN path /\ ~(m <= j)
    BY <1>1, <1>5
  <2>. QED  BY <1>3, <2>1
<1>. QED  BY <1>1, <1>4, <1>5, <1>6, <1>7

LEMMA AllowedRoutes ==
  ASSUME NEW method, NEW action
  PROVE  /\ Admin!Allowed([POST |-> "create", GET |-> "list"], method)
              \in {"create", "list", "method_not_allowed"}
         /\ Admin!Allowed([GET |-> "get", PUT |-> "update"], method)
              \in {"get", "update", "method_not_allowed"}
         /\ Admin!Allowed([POST |-> action], method) \in {action, "method_not_allowed"}
BY DEF Admin!Allowed

(* Route: an operation on one client names it in the only non-empty first   *)
(* segment, and an action in the segment after it.                          *)
LEMMA RouteNames ==
  ASSUME NEW q \in AdminRequests,
         Admin!Route(q) \notin {"create", "list", "not_found", "method_not_allowed"}
  PROVE  /\ Admin!PathId(q) # NONE
         /\ \E i \in DOMAIN q.path :
              /\ q.path[i] = Admin!PathId(q)
              /\ \A j \in 1 .. i - 1 : q.path[j] = Empty
              /\ Len(q.path) = IF Admin!Route(q) \in {"get", "update"} THEN i ELSE i + 1
<1>. DEFINE s == IF q.path = Malformed THEN <<Empty>> ELSE Admin!Segments(q.path)
<1>1. \/ /\ Len(s) = 1 /\ s # <<Empty>>
         /\ Admin!Route(q) \in {"get", "update"}
      \/ Len(s) = 2 /\ Admin!Route(q) \in {"disable", "enable", "rotate-secret"}
  BY AllowedRoutes DEF Admin!Route
<1>2. q.path # Malformed /\ s = Admin!Segments(q.path) /\ s # <<Empty>>
  BY <1>1
<1>3. IsList(q.path) /\ \A i \in DOMAIN q.path : q.path[i] # NONE
  BY <1>2, CallerAssumption
<1>. HIDE DEF s
<1>4. PICK i \in DOMAIN q.path :
         /\ \A j \in 1 .. i - 1 : q.path[j] = Empty
         /\ Len(s) = Len(q.path) - i + 1 /\ s[1] = q.path[i]
  BY <1>2, <1>3, SegmentsOf
<1>5. Len(q.path) \in Nat /\ i \in Nat
  BY <1>3 DEF IsList
<1>6. Admin!PathId(q) = q.path[i]
  BY <1>2, <1>4 DEF Admin!PathId
<1>7. Len(q.path) = IF Admin!Route(q) \in {"get", "update"} THEN i ELSE i + 1
  BY <1>1, <1>4, <1>5
<1>. QED  BY <1>3, <1>4, <1>6, <1>7

(* needs_body looks at the raw path, Route at its segments: where one reads *)
(* a body, the other consumes it.                                           *)
LEMMA BodyRoutes ==
  ASSUME NEW q \in AdminRequests, Admin!needs_body(q)
  PROVE  Admin!Route(q) \in {"create", "update"}
<1>1. CASE q.method = "POST" /\ q.path = <<>>
  BY <1>1 DEF Admin!Route, Admin!Allowed
<1>2. CASE q.method = "PUT" /\ q.path \notin {Malformed, <<Empty>>} /\ Len(q.path) = 1
  <2>1. IsList(q.path)
    BY <1>2, CallerAssumption
  <2>2. q.path = <<q.path[1]>> /\ DOMAIN q.path = {1} /\ q.path # <<>>
    BY <1>2, <2>1 DEF IsList
  <2>3. q.path[1] # Empty
    BY <1>2, <2>2
  <2>4. Admin!Segments(q.path) # <<Empty>> /\ Len(Admin!Segments(q.path)) = 1
    <3>1. {i \in DOMAIN q.path : q.path[i] # Empty} = {1}
      BY <2>2, <2>3
    <3>2. (CHOOSE i \in {1} : \A j \in {1} : i <= j) = 1
      OBVIOUS
    <3>3. Admin!Segments(q.path) = SubSeq(q.path, 1, 1)
      BY <1>2, <3>1, <3>2 DEF Admin!Segments
    <3>4. SubSeq(q.path, 1, 1)[1] = q.path[1] /\ Len(SubSeq(q.path, 1, 1)) = 1
      BY <1>2, <2>1, <2>2, SubSeqProperties DEF IsList
    <3>5. <<Empty>>[1] = Empty
      OBVIOUS
    <3>6. SubSeq(q.path, 1, 1) # <<Empty>>
      BY <2>3, <3>4, <3>5, Zenon
    <3>. QED  BY <3>3, <3>4, <3>6
  <2>. QED  BY <1>2, <2>2, <2>4 DEF Admin!Route, Admin!Allowed
<1>. QED  BY <1>1, <1>2 DEF Admin!needs_body

(* validate_metadata compares every URI with those before it, so that none  *)
(* is listed twice.                                                         *)
LEMMA UrisDistinct ==
  ASSUME NEW uris, IsList(uris),
         \A i \in DOMAIN uris : \A j \in 1 .. i - 1 : uris[j] # uris[i]
  PROVE  Admin!Cardinality({uris[i] : i \in DOMAIN uris}) = Len(uris)
<1>. DEFINE S == {uris[i] : i \in DOMAIN uris}
<1>1. Len(uris) \in Nat /\ DOMAIN uris = 1 .. Len(uris)
  BY ListProperties
<1>2. uris \in [1 .. Len(uris) -> S]
  <2>1. PICK T : uris \in Seq(T)
    BY ListProperties
  <2>. QED  BY <1>1, <2>1
<1>3. \A i, j \in 1 .. Len(uris) : uris[i] = uris[j] => i = j
  <2>. SUFFICES ASSUME NEW i \in 1 .. Len(uris), NEW j \in 1 .. Len(uris), uris[i] = uris[j]
                PROVE  i = j
    OBVIOUS
  <2>1. i < j => i \in 1 .. j - 1
    BY <1>1
  <2>2. j < i => j \in 1 .. i - 1
    BY <1>1
  <2>3. ~(i < j) /\ ~(j < i)
    BY <1>1, <2>1, <2>2
  <2>. QED  BY <1>1, <2>3
<1>4. \A x \in S : \E i \in 1 .. Len(uris) : uris[i] = x
  BY <1>1
<1>. HIDE DEF S
<1>5. uris \in Bijection(1 .. Len(uris), S)
  BY <1>2, <1>3, <1>4, Fun_IsBij
<1>6. Cardinality(S) = Len(uris)
  BY <1>1, <1>5, FS_CountingElements DEF ExistsBijection
<1>7. Admin!Cardinality(S) = Cardinality(S)
  BY Zenon DEF Admin!Cardinality, Cardinality
<1>. QED  BY <1>6, <1>7 DEF S

-----------------------------------------------------------------------------
(* The admin API: the handler. *)

(* Past the token check the caller is an operator, and a body was read only *)
(* where one is needed; nothing is called before the dispatch.              *)
AdminInv ==
  /\ request \in AdminRequests
  /\ pc \in {"authorize", "load", "body", "dispatch", "done"}
  /\ pc # "done" => call = NONE /\ answer = NONE
  /\ pc \in {"authorize", "load", "body"} => body = Unread
  /\ pc = "dispatch" => body \in {request.body, Malformed, NONE}
  /\ body \notin {Unread, NONE} => Admin!needs_body(request)

AdminProps ==
  /\ Admin!StrangersStopped /\ Admin!CallsNameDynamicClients
  /\ Admin!MetadataSound /\ Admin!BodyReadWhereConsumed

AdminCorrect == handler = "/admin" => AdminInv /\ AdminProps

LEMMA AdminInit == Admin!Init => AdminInv /\ AdminProps
BY DEF Admin!Init, AdminInv, AdminProps, Admin!StrangersStopped,
       Admin!CallsNameDynamicClients, Admin!MetadataSound, Admin!BodyReadWhereConsumed

LEMMA AdminInvStep ==
  ASSUME AdminInv, Admin!Next
  PROVE  AdminInv'
<1>1. CASE Admin!Authorize
  BY <1>1 DEF AdminInv, Admin!Authorize, Admin!Answer, Admin!Continue
<1>2. CASE Admin!Load
  BY <1>2 DEF AdminInv, Admin!Load, Admin!Answer, Admin!Continue
<1>3. CASE Admin!ReadBody
  <2>1. /\ body' \in {request.body, Malformed, NONE}
        /\ body' # NONE => Admin!needs_body(request)
    BY <1>3 DEF Admin!ReadBody
  <2>. QED  BY <1>3, <2>1 DEF AdminInv, Admin!ReadBody, Admin!Continue
<1>4. CASE Admin!Dispatch
  <2>1. UNCHANGED <<request, body>> /\ pc' = "done"
    BY <1>4 DEF Admin!Dispatch, Admin!Answer, Admin!Calls
  <2>. QED  BY <2>1 DEF AdminInv
<1>. QED  BY <1>1, <1>2, <1>3, <1>4 DEF Admin!Next

(* Dispatch: what is known of a call it makes. *)
LEMMA DispatchCalls ==
  ASSUME AdminInv, Admin!Dispatch, call' # NONE
  PROVE  /\ call'.op = Admin!Route(request)
         /\ call'.op \notin {"not_found", "method_not_allowed"}
         /\ call'.op \notin {"create", "list"} =>
              /\ call'.id = Admin!PathId(request)
              /\ call'.id \in DynamicIds \ StaticClients
         /\ call'.op \in {"create", "update"} =>
              Admin!ParsesAs(call'.op, body) /\ Admin!validate_metadata(body)
<1>. DEFINE op == Admin!Route(request)
            id == IF op = "create" \/ op = "list" THEN NONE ELSE Admin!PathId(request)
            early == IF id = NONE THEN NONE ELSE Admin!TurnedAway(op, id)
<1>1. call = NONE
  BY DEF AdminInv, Admin!Dispatch
<1>2. /\ op \notin {"not_found", "method_not_allowed"} /\ early = NONE
      /\ op \in {"create", "update"} =>
           Admin!ParsesAs(op, body) /\ Admin!validate_metadata(body)
      /\ call' = [op |-> op, id |-> id]
  BY <1>1 DEF Admin!Dispatch, Admin!Answer, Admin!Calls
<1>3. ASSUME op \notin {"create", "list"}
      PROVE  id = Admin!PathId(request) /\ id \in DynamicIds \ StaticClients
  <2>1. id = Admin!PathId(request) /\ id # NONE
    BY <1>2, <1>3, RouteNames DEF AdminInv
  <2>2. Admin!TurnedAway(op, id) = NONE
    BY <1>2, <2>1
  <2>. QED
    BY <2>1, <2>2, CallerAssumption DEF Admin!TurnedAway, Codes, Admin!is_dynamic_client_id
<1>. QED  BY <1>2, <1>3

LEMMA AdminStep ==
  ASSUME AdminInv, AdminProps, Admin!Next
  PROVE  AdminProps'
<1>1. AdminInv'
  BY AdminInvStep
<1>2. request' = request /\ admin_token' = admin_token
  BY DEF Admin!Next, Admin!Authorize, Admin!Load, Admin!ReadBody, Admin!Dispatch
<1>3. Admin!StrangersStopped'
  <2>. SUFFICES ASSUME ~Admin!Operator PROVE Admin!StrangersStopped'
    BY <1>2 DEF Admin!StrangersStopped, Admin!Operator
  <2>1. pc = "authorize" /\ body = Unread /\ call = NONE
    BY DEF AdminProps, Admin!StrangersStopped, AdminInv, Admin!Next, Admin!Authorize,
           Admin!Load, Admin!ReadBody, Admin!Dispatch
  <2>2. Admin!Answer("unauthorized") /\ body' = body
    BY <2>1 DEF Admin!Operator, Admin!Next, Admin!Authorize, Admin!authorize_admin,
                Admin!Load, Admin!ReadBody, Admin!Dispatch
  <2>. QED  BY <2>1, <2>2 DEF Admin!StrangersStopped, Admin!Answer
<1>4. Admin!BodyReadWhereConsumed'
  BY <1>1, BodyRoutes DEF AdminInv, Admin!BodyReadWhereConsumed
<1>5. CASE Admin!Dispatch
  <2>1. body' = body
    BY <1>5 DEF Admin!Dispatch
  <2>2. Admin!CallsNameDynamicClients'
    <3>. SUFFICES ASSUME call' # NONE, call'.op \notin {"create", "list"}
                  PROVE  /\ call'.id \in DynamicIds \ StaticClients
                         /\ \E i \in DOMAIN request.path :
                              /\ request.path[i] = call'.id
                              /\ \A j \in 1 .. i - 1 : request.path[j] = Empty
                              /\ Len(request.path) =
                                   IF call'.op \in {"get", "update"} THEN i ELSE i + 1
      BY <1>2 DEF Admin!CallsNameDynamicClients
    <3>1. /\ call'.op = Admin!Route(request) /\ call'.id = Admin!PathId(request)
          /\ call'.op \notin {"not_found", "method_not_allowed"}
          /\ call'.id \in DynamicIds \ StaticClients
      BY <1>5, DispatchCalls
    <3>. QED  BY <3>1, RouteNames DEF AdminInv
  <2>3. Admin!MetadataSound'
    <3>. SUFFICES ASSUME call' # NONE, call'.op \in {"create", "update"}
                  PROVE  LET uris == {body.uris[i] : i \in DOMAIN body.uris} IN
                         /\ body = request.body
                         /\ body.name \notin {Empty, TooLong} /\ body.owner # Malformed
                         /\ Admin!Cardinality(uris) = Len(body.uris)
                         /\ Len(body.uris) \in 1 .. MAX_REDIRECT_URIS
                         /\ \A u \in uris : Admin!is_valid_redirect_uri(u)
                         /\ body.type # NONE <=> call'.op = "create"
      BY <1>2, <2>1 DEF Admin!MetadataSound
    <3>1. Admin!ParsesAs(call'.op, body) /\ Admin!validate_metadata(body)
      BY <1>5, DispatchCalls
    <3>2. body = request.body /\ body # Malformed
      BY <1>5, <3>1 DEF AdminInv, Admin!Dispatch, Admin!ParsesAs
    <3>3. IsList(body.uris)
      BY <3>2, CallerAssumption DEF AdminInv
    <3>4. Admin!Cardinality({body.uris[i] : i \in DOMAIN body.uris}) = Len(body.uris)
      BY <3>1, <3>3, UrisDistinct DEF Admin!validate_metadata
    <3>5. Len(body.uris) \in 1 .. MAX_REDIRECT_URIS
      <4>1. Len(body.uris) \in Nat /\ \E S : body.uris \in Seq(S)
        BY <3>3, ListProperties
      <4>2. body.uris # <<>> /\ Len(body.uris) <= MAX_REDIRECT_URIS
        BY <3>1 DEF Admin!validate_metadata
      <4>3. Len(body.uris) # 0
        BY <4>1, <4>2
      <4>. QED  BY <4>1, <4>2, <4>3, WorkerAssumption
    <3>6. \A u \in {body.uris[i] : i \in DOMAIN body.uris} : Admin!is_valid_redirect_uri(u)
      BY <3>1 DEF Admin!validate_metadata
    <3>7. body.name \notin {Empty, TooLong} /\ body.owner # Malformed
      BY <3>1 DEF Admin!validate_metadata, Admin!is_snowflake
    <3>8. body.type # NONE <=> call'.op = "create"
      BY <3>1 DEF Admin!ParsesAs
    <3>. QED  BY <3>2, <3>4, <3>5, <3>6, <3>7, <3>8
  <2>. QED  BY <1>3, <1>4, <2>2, <2>3 DEF AdminProps
<1>6. CASE Admin!Authorize \/ Admin!Load \/ Admin!ReadBody
  <2>1. call' = NONE
    BY <1>6 DEF AdminInv, Admin!Authorize, Admin!Load, Admin!ReadBody, Admin!Answer,
                Admin!Continue
  <2>. QED
    BY <1>3, <1>4, <2>1 DEF AdminProps, Admin!CallsNameDynamicClients, Admin!MetadataSound
<1>. QED  BY <1>5, <1>6 DEF Admin!Next

LEMMA AdminInvariance == Spec => []AdminCorrect
<1>1. Init => AdminCorrect
  BY AdminInit DEF Init, GetAuthorize, GetCallback, PostToken, AnyAdmin, AdminCorrect
<1>2. AdminCorrect /\ [Next]_vars => AdminCorrect'
  <2>. SUFFICES ASSUME AdminCorrect, [Next]_vars, handler' = "/admin"
                PROVE  (AdminInv /\ AdminProps)'
    BY DEF AdminCorrect
  <2>1. handler = "/admin" /\ (Admin!Next \/ UNCHANGED vars)
    BY DEF Next, vars
  <2>2. CASE Admin!Next
    BY <2>1, <2>2, AdminInvStep, AdminStep DEF AdminCorrect
  <2>3. CASE UNCHANGED vars
    BY <2>1, <2>3 DEF vars, AdminCorrect, AdminInv, AdminProps, Admin!StrangersStopped,
       Admin!Operator, Admin!CallsNameDynamicClients, Admin!MetadataSound,
       Admin!BodyReadWhereConsumed
  <2>. QED  BY <2>1, <2>2, <2>3
<1>. QED  BY <1>1, <1>2, PTL DEF Spec

(* Whoever lacks the deployed admin token is told so and nothing else: no   *)
(* runtime, no body, no call (authorize_admin, route_admin).                *)
THEOREM AdminStops == Spec => []StrangersStopped
<1>1. AdminCorrect => StrangersStopped
  BY DEF AdminCorrect, AdminProps, StrangersStopped
<1>. QED  BY AdminInvariance, <1>1, PTL

(* No path, however many segments it has, makes the admin API call the      *)
(* object for another record than the one it names (handle_admin_request).  *)
THEOREM AdminNames == Spec => []CallsNameDynamicClients
<1>1. AdminCorrect => CallsNameDynamicClients
  BY DEF AdminCorrect, AdminProps, CallsNameDynamicClients
<1>. QED  BY AdminInvariance, <1>1, PTL

(* Metadata that reaches the object has distinct, valid redirect URIs       *)
(* within the limit, whatever the limit is (validate_metadata, parse_body). *)
THEOREM AdminValidates == Spec => []MetadataSound
<1>1. AdminCorrect => MetadataSound
  BY DEF AdminCorrect, AdminProps, MetadataSound
<1>. QED  BY AdminInvariance, <1>1, PTL

(* A body is read only on the routes that consume one: the test on the raw  *)
(* path holds only where the one on its segments does (needs_body, Route).  *)
THEOREM AdminReads == Spec => []BodyReadWhereConsumed
<1>1. AdminCorrect => BodyReadWhereConsumed
  BY DEF AdminCorrect, AdminProps, BodyReadWhereConsumed
<1>. QED  BY AdminInvariance, <1>1, PTL

=============================================================================
