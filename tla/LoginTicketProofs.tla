-------------------------- MODULE LoginTicketProofs --------------------------
(***************************************************************************)
(* The handlers of OidcFlow implement the login ticket of LoginTicket.     *)
(*                                                                         *)
(* A login lives in at most one place at a time: in its stored transaction,*)
(* in the callback that took it, in its stored code, or in the token       *)
(* request that consumed it.  Where it lives determines the stage of the   *)
(* ticket, and every step moves it from one place to the next or ends it.  *)
(***************************************************************************)
EXTENDS OidcFlowProofs

(* The four places. *)
InStore(a) == transactions[a] # NONE
InCallback(b, a) == callback[b].pc \in Holding /\ callback[b].state = a
InCode(b, a) == codes[sha256_b64url(b)] # NONE /\ callback[b].state = a
InToken(t, a) == token[t].pc \in {"sign", "token"} /\ Login(t) = a

Nowhere(a) ==
  /\ ~InStore(a)
  /\ \A b \in CallbackReqs : ~InCallback(b, a) /\ ~InCode(b, a)
  /\ \A t \in TokenReqs : ~InToken(t, a)

(* The ticket shows stage s and users U. *)
Stands(a, s, U) == LoginStage(a) = s /\ LoginUsers(a) = U

(* A login lives in at most one place. *)
Exclusive(a) ==
  /\ InStore(a) =>
       /\ \A b \in CallbackReqs : ~InCallback(b, a) /\ ~InCode(b, a)
       /\ \A t \in TokenReqs : ~InToken(t, a)
  /\ \A b \in CallbackReqs : InCallback(b, a) =>
       /\ \A x \in CallbackReqs : (InCallback(x, a) => x = b) /\ ~InCode(x, a)
       /\ \A t \in TokenReqs : ~InToken(t, a)
  /\ \A b \in CallbackReqs : InCode(b, a) =>
       /\ \A x \in CallbackReqs : InCode(x, a) => x = b
       /\ \A t \in TokenReqs : ~InToken(t, a)
  /\ \A t1, t2 \in TokenReqs : InToken(t1, a) /\ InToken(t2, a) => t1 = t2

(* Where it lives determines what the ticket shows. *)
View(a) ==
  /\ InStore(a) => Stands(a, "pending", {})
  /\ \A b \in CallbackReqs : InCallback(b, a) => Stands(a, "pending", {})
  /\ \A b \in CallbackReqs : InCode(b, a) => Stands(a, "granted", {callback[b].user})
  /\ \A t \in TokenReqs : InToken(t, a) =>
       Stands(a, IF token[t].pc = "token" THEN "redeemed" ELSE "granted",
                 {callback[token[t].code].user})
  /\ Nowhere(a) =>
       Stands(a, IF authz[a].pc \in {"idle", "resolve", "put"} THEN "new" ELSE "closed", {})

(* A callback that took a transaction is the only one with that state, and  *)
(* a token request that consumed a code is the only one with that code.     *)
LEMMA OnePlace == Inv => \A a \in AuthorizeReqs : Exclusive(a)
<1> SUFFICES ASSUME Inv, NEW a \in AuthorizeReqs PROVE Exclusive(a)
  OBVIOUS
<1>1. \A b \in CallbackReqs : InCallback(b, a) => callback[b].pc \in Took /\ callback[b].state = a
  BY DEF InCallback, Took
<1>2. \A b \in CallbackReqs : InCode(b, a) =>
        /\ callback[b].pc \in Took /\ callback[b].state = a
        /\ callback[b].pc \notin Holding
  BY DEF InCode, Inv, CodeInv, Took, CallbackRedirects, Holding
<1>3. \A t \in TokenReqs : InToken(t, a) =>
        /\ token[t].code \in CallbackReqs /\ callback[token[t].code].pc \in Took
        /\ callback[token[t].code].pc \notin Holding
        /\ callback[token[t].code].state = a
        /\ codes[sha256_b64url(token[t].code)] = NONE
  BY DEF InToken, Login, Inv, StartedInv, CodeInv, Took, CallbackRedirects, Holding
<1>4. /\ \A x, y \in CallbackReqs :
           callback[x].pc \in Took /\ callback[y].pc \in Took
             /\ callback[x].state = callback[y].state => x = y
      /\ \A b \in CallbackReqs : callback[b].pc \in Took =>
           transactions[callback[b].state] = NONE
  BY DEF Inv, TransactionInv
<1>5. \A t1, t2 \in TokenReqs :
        InToken(t1, a) /\ InToken(t2, a) /\ token[t1].code = token[t2].code => t1 = t2
  BY DEF InToken, Inv, CodeInv
<1>6. InStore(a) =>
       /\ \A b \in CallbackReqs : ~InCallback(b, a) /\ ~InCode(b, a)
       /\ \A t \in TokenReqs : ~InToken(t, a)
  BY <1>1, <1>2, <1>3, <1>4 DEF InStore
<1>7. ASSUME NEW b \in CallbackReqs, InCallback(b, a)
      PROVE  /\ \A x \in CallbackReqs : (InCallback(x, a) => x = b) /\ ~InCode(x, a)
             /\ \A t \in TokenReqs : ~InToken(t, a)
  <2>1. callback[b].pc \in Holding
    BY <1>7 DEF InCallback
  <2> QED BY <1>1, <1>2, <1>3, <1>4, <1>7, <2>1
<1>8. ASSUME NEW b \in CallbackReqs, InCode(b, a)
      PROVE  /\ \A x \in CallbackReqs : InCode(x, a) => x = b
             /\ \A t \in TokenReqs : ~InToken(t, a)
  <2>1. codes[sha256_b64url(b)] # NONE
    BY <1>8 DEF InCode
  <2> QED BY <1>2, <1>3, <1>4, <1>8, <2>1
<1>9. \A t1, t2 \in TokenReqs : InToken(t1, a) /\ InToken(t2, a) => t1 = t2
  BY <1>3, <1>4, <1>5
<1> QED BY <1>6, <1>7, <1>8, <1>9 DEF Exclusive

(* The refinement mapping, read place by place. *)
LEMMA Views == Inv => \A a \in AuthorizeReqs : View(a)
<1> SUFFICES ASSUME Inv, NEW a \in AuthorizeReqs PROVE View(a)
  OBVIOUS
<1>a. Exclusive(a)
  BY OnePlace
<1>b. \A h : h \in CodesOf(a) <=> \E b \in CallbackReqs : InCode(b, a) /\ h = sha256_b64url(b)
  BY CodeHashes DEF CodesOf, InCode
<1>c. /\ \A t : t \in TokensOf(a, "token") <=> t \in TokenReqs /\ InToken(t, a) /\ token[t].pc = "token"
      /\ \A t : t \in TokensOf(a, "sign") <=> t \in TokenReqs /\ InToken(t, a) /\ token[t].pc = "sign"
  BY DEF TokensOf, InToken
<1>d. \A b : b \in HoldersOf(a) <=> b \in CallbackReqs /\ InCallback(b, a)
  BY DEF HoldersOf, InCallback, Holding
<1>e. \A b \in CallbackReqs : InCode(b, a) => codes[sha256_b64url(b)].subject = callback[b].user
  <2>1. \A b : CodeOf(b).subject = callback[b].user
    BY DEF CodeOf, issue_code
  <2> QED BY <2>1 DEF InCode, Inv, CodeInv
<1>f. \A t \in TokenReqs : InToken(t, a) =>
        token[t].record.subject = callback[token[t].code].user
  <2>1. \A b : CodeOf(b).subject = callback[b].user
    BY DEF CodeOf, issue_code
  <2> QED BY <2>1 DEF InToken, Inv, CodeInv
<1>1. ASSUME \A b \in CallbackReqs : ~InCode(b, a), \A t \in TokenReqs : ~InToken(t, a)
      PROVE  /\ CodesOf(a) = {} /\ TokensOf(a, "token") = {} /\ TokensOf(a, "sign") = {}
             /\ LoginUsers(a) = {}
  <2>1. CodesOf(a) = {} /\ TokensOf(a, "token") = {} /\ TokensOf(a, "sign") = {}
    BY <1>1, <1>b, <1>c
  <2> QED BY <2>1 DEF LoginUsers
<1>2. InStore(a) => Stands(a, "pending", {})
  BY <1>1, <1>a DEF Exclusive, Stands, LoginStage, InStore
<1>3. ASSUME NEW b \in CallbackReqs, InCallback(b, a) PROVE Stands(a, "pending", {})
  <2>1. HoldersOf(a) # {}
    BY <1>d, <1>3
  <2> QED BY <1>1, <1>3, <1>a, <2>1 DEF Exclusive, Stands, LoginStage
<1>4. ASSUME NEW b \in CallbackReqs, InCode(b, a)
      PROVE  Stands(a, "granted", {callback[b].user})
  <2>1. TokensOf(a, "token") = {} /\ TokensOf(a, "sign") = {}
    BY <1>4, <1>a, <1>c DEF Exclusive
  <2>2. CodesOf(a) = {sha256_b64url(b)}
    BY <1>4, <1>a, <1>b DEF Exclusive
  <2>3. LoginUsers(a) = {callback[b].user}
    BY <1>4, <1>e, <2>1, <2>2 DEF LoginUsers
  <2> QED BY <2>1, <2>2, <2>3 DEF Stands, LoginStage
<1>5. ASSUME NEW t \in TokenReqs, InToken(t, a)
      PROVE  Stands(a, IF token[t].pc = "token" THEN "redeemed" ELSE "granted",
                       {callback[token[t].code].user})
  <2>1. CodesOf(a) = {}
    BY <1>5, <1>a, <1>b DEF Exclusive
  <2>2. TokensOf(a, "sign") \cup TokensOf(a, "token") = {t}
    BY <1>5, <1>a, <1>c DEF Exclusive, InToken
  <2>3. LoginUsers(a) = {callback[token[t].code].user}
    BY <1>5, <1>f, <2>1, <2>2 DEF LoginUsers
  <2>4. CASE token[t].pc = "token"
    <3>1. TokensOf(a, "token") # {}
      BY <1>5, <1>c, <2>4
    <3> QED BY <2>3, <2>4, <3>1 DEF Stands, LoginStage
  <2>5. CASE token[t].pc # "token"
    <3>1. TokensOf(a, "sign") # {} /\ TokensOf(a, "token") = {}
      BY <1>5, <1>c, <1>a, <2>5 DEF Exclusive, InToken
    <3> QED BY <2>3, <2>5, <3>1 DEF Stands, LoginStage
  <2> QED BY <2>4, <2>5
<1>6. ASSUME Nowhere(a)
      PROVE  Stands(a, IF authz[a].pc \in {"idle", "resolve", "put"} THEN "new" ELSE "closed", {})
  <2>1. HoldersOf(a) = {} /\ transactions[a] = NONE
    BY <1>6, <1>d DEF Nowhere, InStore
  <2> QED BY <1>1, <1>6, <2>1 DEF Nowhere, Stands, LoginStage
<1> QED BY <1>2, <1>3, <1>4, <1>5, <1>6 DEF View

-----------------------------------------------------------------------------
(* How a step moves a login. *)

(* Where a login lives after a step, it lived there before, or in the place *)
(* before that.                                                             *)
Moves(a) ==
  /\ InStore(a)' => InStore(a) \/ authz[a].pc = "put"
  /\ \A b \in CallbackReqs : InCallback(b, a)' => InCallback(b, a) \/ InStore(a)
  /\ \A b \in CallbackReqs : InCode(b, a)' =>
       InCode(b, a) \/ (InCallback(b, a) /\ callback[b].pc = "store")
  /\ \A t \in TokenReqs : InToken(t, a)' =>
       InToken(t, a) \/ (InCode(token[t].code, a) /\ token'[t].pc = "sign")
  /\ \A t \in TokenReqs : InToken(t, a) /\ token[t].pc = "token" =>
       InToken(t, a)' /\ token'[t].pc = "token"

(* What a request has answered, and what it began with, is final. *)
Finals ==
  /\ \A a \in AuthorizeReqs : authz[a].pc \notin {"idle", "resolve", "put"} =>
       authz'[a].pc \notin {"idle", "resolve", "put"}
  /\ \A b \in CallbackReqs : callback[b].pc # "idle" =>
       /\ callback'[b].state = callback[b].state
       /\ callback'[b].user = callback[b].user
       /\ callback'[b].pc # "idle"
  /\ \A t \in TokenReqs : token[t].pc # "idle" => token'[t].code = token[t].code

(* Every step keeps them. *)
LEMMA StepFinals == Inv /\ [Next]_vars => Finals
<1> SUFFICES ASSUME Inv, [Next]_vars PROVE Finals
  OBVIOUS
<1>a. TypeOK /\ StartedInv
  BY DEF Inv
<1>1. ASSUME NEW a \in AuthorizeReqs, AuthorizeStep(a) PROVE Finals
  BY <1>1, <1>a, AuthorizeEffect DEF Finals
<1>2. ASSUME NEW a \in AuthorizeReqs, NEW in \in AuthorizeInputs, AuthorizeStart(a, in)
      PROVE  Finals
  BY <1>2, <1>a, AuthorizeStartEffect DEF Finals
<1>3. ASSUME NEW b \in CallbackReqs, CallbackStep(b) PROVE Finals
  BY <1>3, <1>a, CallbackStepEffect DEF Finals, CallbackEffect, CallbackMoved
<1>4. ASSUME NEW b \in CallbackReqs, NEW a \in AuthorizeReqs,
             NEW reply \in {"code", "error", "none"}, NEW u \in Subjects,
             CallbackStart(b, a, reply, u)
      PROVE  Finals
  BY <1>4, <1>a, CallbackStartEffect DEF Finals
<1>5. ASSUME NEW t \in TokenReqs, TokenStep(t) PROVE Finals
  BY <1>5, <1>a, TokenStepEffect DEF Finals, TokenEffect, TokenMoved
<1>6. ASSUME NEW t \in TokenReqs, NEW b \in CallbackReqs, NEW p \in Presentations,
             TokenStart(t, b, p)
      PROVE  Finals
  BY <1>6, <1>a, TokenStartEffect DEF Finals
<1>7. ASSUME \/ \E c \in DynamicIds, now \in 0..clock : Admin(c, now)
             \/ Sweep \/ Tick \/ UNCHANGED vars
      PROVE  Finals
  BY <1>7, <1>a, AdminEffect, SweepEffect DEF Finals, Tick, vars, StartedInv
<1> QED BY <1>1, <1>2, <1>3, <1>4, <1>5, <1>6, <1>7 DEF Next

(* Every step moves a login along its places, or ends it. *)
LEMMA StepMoves == Inv /\ [Next]_vars => \A a \in AuthorizeReqs : Moves(a)
<1> SUFFICES ASSUME Inv, [Next]_vars, NEW a \in AuthorizeReqs PROVE Moves(a)
  OBVIOUS
<1>a. TypeOK /\ StartedInv
  BY DEF Inv
<1>b. \A t \in TokenReqs : token[t].pc # "idle" =>
        token[t].code \in CallbackReqs /\ callback[token[t].code].pc = "redirect_code"
  BY DEF Inv, StartedInv
<1>c. \A b \in CallbackReqs : codes[sha256_b64url(b)] # NONE =>
        callback[b].pc \in {"redirect_code", "redirect_error"}
  BY DEF Inv, CodeInv
<1>d. ASSUME UNCHANGED <<callback, token>>,
             \A x \in AuthorizeReqs : transactions'[x] # NONE =>
               transactions[x] # NONE \/ authz[x].pc = "put",
             \A h \in Hashes : codes'[h] \in {codes[h], NONE}
      PROVE  Moves(a)
  BY <1>d, CodeHashes DEF Moves, InStore, InCallback, InCode, InToken, Login
<1>1. ASSUME NEW x \in AuthorizeReqs, AuthorizeStep(x) PROVE Moves(a)
  <2>1. \A y \in AuthorizeReqs : transactions'[y] # NONE =>
          transactions[y] # NONE \/ authz[y].pc = "put"
    BY <1>1, <1>a, AuthorizeEffect DEF TypeOK
  <2> QED BY <1>1, <1>a, <1>d, <2>1, AuthorizeEffect
<1>2. ASSUME NEW x \in AuthorizeReqs, NEW in \in AuthorizeInputs, AuthorizeStart(x, in)
      PROVE  Moves(a)
  BY <1>2, <1>a, <1>d, AuthorizeStartEffect
<1>3. ASSUME NEW b \in CallbackReqs, CallbackStep(b) PROVE Moves(a)
  <2>1. CallbackEffect(b)
    BY <1>3, <1>a, CallbackStepEffect
  <2>2. /\ UNCHANGED token
        /\ \A x \in CallbackReqs : x # b => callback'[x] = callback[x]
        /\ callback'[b].state = callback[b].state
        /\ callback[b].pc \in {"take"} \cup Holding
    BY <2>1 DEF CallbackEffect, CallbackMoved, Holding
  <2>3. callback[b].state \in AuthorizeReqs
    BY <1>a, <2>2 DEF StartedInv, Holding
  <2>4. transactions'[a] # NONE => transactions[a] # NONE
    BY <1>a, <2>1, <2>3 DEF CallbackEffect, TypeOK
  <2>5. callback'[b].pc \in Holding =>
          callback[b].pc \in Holding \/ transactions[callback[b].state] # NONE
    BY <2>1 DEF CallbackEffect, CallbackMoved, Holding
  <2>6. \A x \in CallbackReqs : codes'[sha256_b64url(x)] # NONE =>
          codes[sha256_b64url(x)] # NONE \/ (x = b /\ callback[b].pc = "store")
    BY <1>a, <2>1, CodeHashes DEF CallbackEffect, TypeOK
  <2>7. \A t \in TokenReqs : token[t].pc # "idle" => Login(t)' = Login(t)
    BY <1>b, <2>2 DEF Login, Holding
  <2>8. "store" \in Holding
    BY DEF Holding
  <2> QED BY <2>2, <2>4, <2>5, <2>6, <2>7, <2>8
          DEF Moves, InStore, InCallback, InCode, InToken
<1>4. ASSUME NEW b \in CallbackReqs, NEW x \in AuthorizeReqs,
             NEW reply \in {"code", "error", "none"}, NEW u \in Subjects,
             CallbackStart(b, x, reply, u)
      PROVE  Moves(a)
  <2>1. /\ UNCHANGED <<transactions, codes, token>>
        /\ \A y \in CallbackReqs : y # b => callback'[y] = callback[y]
        /\ callback[b].pc = "idle" /\ callback'[b].pc = "take"
    BY <1>4, <1>a, CallbackStartEffect
  <2>2. codes[sha256_b64url(b)] = NONE
    BY <1>c, <2>1
  <2>3. \A t \in TokenReqs : token[t].pc # "idle" => Login(t)' = Login(t)
    BY <1>b, <2>1 DEF Login
  <2>4. "take" \notin Holding
    BY DEF Holding
  <2> QED BY <2>1, <2>2, <2>3, <2>4 DEF Moves, InStore, InCallback, InCode, InToken
<1>5. ASSUME NEW t \in TokenReqs, TokenStep(t) PROVE Moves(a)
  <2>1. TokenEffect(t)
    BY <1>5, <1>a, TokenStepEffect
  <2>2. /\ UNCHANGED <<transactions, callback>>
        /\ \A x \in TokenReqs : x # t => token'[x] = token[x]
        /\ token'[t].code = token[t].code
        /\ token[t].pc \notin {"idle", "token"}
    BY <2>1 DEF TokenEffect, TokenMoved
  <2>3. token[t].code \in CallbackReqs
    BY <1>b, <2>2
  <2>4. \A x \in CallbackReqs : codes'[sha256_b64url(x)] # NONE => codes[sha256_b64url(x)] # NONE
    BY <1>a, <2>1, <2>3, CodeHashes DEF TokenEffect, TypeOK
  <2>5. token'[t].pc \in {"sign", "token"} =>
          \/ token[t].pc = "sign"
          \/ token'[t].pc = "sign" /\ codes[sha256_b64url(token[t].code)] # NONE
    BY <2>1 DEF TokenEffect, TokenMoved
  <2>6. \A x \in TokenReqs : Login(x)' = Login(x)
    BY <2>2 DEF Login
  <2>7. Login(t) = callback[token[t].code].state
    BY DEF Login
  <2> QED BY <2>2, <2>4, <2>5, <2>6, <2>7 DEF Moves, InStore, InCallback, InCode, InToken
<1>6. ASSUME NEW t \in TokenReqs, NEW b \in CallbackReqs, NEW p \in Presentations,
             TokenStart(t, b, p)
      PROVE  Moves(a)
  <2>1. /\ UNCHANGED <<transactions, codes, callback>>
        /\ \A x \in TokenReqs : x # t => token'[x] = token[x]
        /\ token[t].pc = "idle" /\ token'[t].pc = "find"
    BY <1>6, <1>a, TokenStartEffect
  <2>2. \A x \in TokenReqs : x # t => Login(x)' = Login(x)
    BY <2>1 DEF Login
  <2> QED BY <2>1, <2>2 DEF Moves, InStore, InCallback, InCode, InToken
<1>7. ASSUME NEW c \in DynamicIds, NEW now \in 0..clock, Admin(c, now) PROVE Moves(a)
  BY <1>7, <1>a, <1>d, AdminEffect DEF StartedInv
<1>8. ASSUME Sweep PROVE Moves(a)
  BY <1>8, <1>a, <1>d, SweepEffect
<1>9. ASSUME Tick \/ UNCHANGED vars PROVE Moves(a)
  BY <1>9, <1>d DEF Tick, vars, store
<1> QED BY <1>1, <1>2, <1>3, <1>4, <1>5, <1>6, <1>7, <1>8, <1>9 DEF Next

-----------------------------------------------------------------------------
(* The refinement. *)

(* Exclusive and View also hold after a step, because Inv does. *)
LEMMA AfterStep ==
  Inv' => \A a \in AuthorizeReqs : Exclusive(a)' /\ View(a)'
<1>1. Inv' => (\A a \in AuthorizeReqs : Exclusive(a))'
  BY OnePlace, PTL
<1>2. Inv' => (\A a \in AuthorizeReqs : View(a))'
  BY Views, PTL
<1> QED BY <1>1, <1>2

(* What one step of the handlers does to the ticket of one login. *)
TicketStep(a) ==
  LET old == LoginStage(a)
      new == LoginStage(a)'
  IN
  \/ old = "new" /\ new = "pending" /\ LoginUsers(a)' = {}
  \/ old = "pending" /\ new = "granted" /\ \E u \in Members : LoginUsers(a)' = {u}
  \/ old = "granted" /\ new = "redeemed" /\ LoginUsers(a)' = LoginUsers(a)
  \/ old \in {"new", "pending", "granted"} /\ new = "closed" /\ LoginUsers(a)' = {}
  \/ new = old /\ LoginUsers(a)' = LoginUsers(a)

(* Each step of the handlers is a step, or no step, of every ticket: by     *)
(* where the login lives before, and where it lives after.                  *)
LEMMA Simulation == Inv /\ Inv' /\ [Next]_vars => \A a \in AuthorizeReqs : TicketStep(a)
<1> SUFFICES ASSUME Inv, Inv', [Next]_vars, NEW a \in AuthorizeReqs PROVE TicketStep(a)
  OBVIOUS
<1> DEFINE Early == {"idle", "resolve", "put"}
<1>a. Exclusive(a) /\ View(a) /\ Exclusive(a)' /\ View(a)' /\ Moves(a) /\ Finals
  BY OnePlace, Views, AfterStep, StepMoves, StepFinals
<1>b. \/ Nowhere(a)' \/ InStore(a)'
      \/ \E b \in CallbackReqs : InCallback(b, a)' \/ InCode(b, a)'
      \/ \E t \in TokenReqs : InToken(t, a)'
  BY DEF Nowhere
<1>c. \A t \in TokenReqs : token[t].pc # "idle" => token[t].code \in CallbackReqs
  BY DEF Inv, StartedInv
<1>d. \A t \in TokenReqs : InToken(t, a)' /\ ~InToken(t, a) =>
        token[t].code \in CallbackReqs /\ InCode(token[t].code, a) /\ token'[t].code = token[t].code
  <2> SUFFICES ASSUME NEW t \in TokenReqs, InToken(t, a)', ~InToken(t, a)
               PROVE  token[t].code \in CallbackReqs /\ InCode(token[t].code, a)
                        /\ token'[t].code = token[t].code
    OBVIOUS
  <2>1. InCode(token[t].code, a) /\ token'[t].pc = "sign"
    BY <1>a DEF Moves
  <2>2. token[t].pc # "idle"
    <3> SUFFICES ASSUME token[t].pc = "idle" PROVE FALSE
      OBVIOUS
    <3>1. \/ token'[t] = token[t] \/ token'[t].pc = "find"
      BY AuthorizeEffect, AuthorizeStartEffect, CallbackStepEffect, CallbackStartEffect,
         TokenStepEffect, TokenStartEffect, AdminEffect, SweepEffect
         DEF Next, CallbackEffect, TokenEffect, TokenMoved, Tick, vars, StartedInv, Inv
    <3> QED BY <2>1, <3>1
  <2> QED BY <1>a, <1>c, <2>1, <2>2 DEF Finals
<1>e. ASSUME Nowhere(a)', authz[a].pc \notin Early PROVE Stands(a, "closed", {})'
  BY <1>e, <1>a DEF View, Finals
<1>1. CASE Nowhere(a)
  <2>1. Stands(a, IF authz[a].pc \in Early THEN "new" ELSE "closed", {})
    BY <1>1, <1>a DEF View
  <2>2. Nowhere(a)' \/ (InStore(a)' /\ authz[a].pc = "put")
    BY <1>1, <1>a, <1>b, <1>d DEF Nowhere, Moves
  <2>3. CASE InStore(a)' /\ authz[a].pc = "put"
    BY <1>a, <2>1, <2>3 DEF View, Stands, TicketStep
  <2>4. CASE Nowhere(a)'
    <3>1. Stands(a, IF authz[a].pc \in Early THEN "new" ELSE "closed", {})'
      BY <1>a, <2>4 DEF View
    <3>2. authz[a].pc \notin Early => authz'[a].pc \notin Early
      BY <1>a DEF Finals
    <3> QED BY <2>1, <3>1, <3>2 DEF Stands, TicketStep
  <2> QED BY <2>2, <2>3, <2>4
<1>2. CASE InStore(a)
  <2>1. Stands(a, "pending", {}) /\ authz[a].pc \notin Early
    BY <1>2, <1>a DEF View, InStore, Inv, TransactionInv
  <2>2. Nowhere(a)' \/ InStore(a)' \/ \E b \in CallbackReqs : InCallback(b, a)'
    BY <1>2, <1>a, <1>b, <1>d DEF Exclusive, Moves
  <2>3. Stands(a, "closed", {})' \/ Stands(a, "pending", {})'
    BY <1>a, <1>e, <2>1, <2>2 DEF View
  <2> QED BY <2>1, <2>3 DEF Stands, TicketStep
<1>f. ASSUME NEW b \in CallbackReqs, callback[b].state = a, callback[b].pc # "idle"
      PROVE  authz[a].pc \notin Early /\ authz[a].pc # "put"
  BY <1>f DEF Inv, StartedInv
<1>3. ASSUME NEW b \in CallbackReqs, InCallback(b, a) PROVE TicketStep(a)
  <2>1. /\ Stands(a, "pending", {})
        /\ callback[b].state = a /\ callback[b].pc # "idle"
    BY <1>3, <1>a DEF View, InCallback, Holding
  <2>2. authz[a].pc \notin Early /\ authz[a].pc # "put"
    BY <1>f, <2>1
  <2>3. \/ Nowhere(a)'
        \/ \E x \in CallbackReqs : InCallback(x, a)'
        \/ InCode(b, a)' /\ callback[b].pc = "store"
    BY <1>3, <1>a, <1>b, <1>d, <2>2 DEF Exclusive, Moves
  <2>4. CASE InCode(b, a)' /\ callback[b].pc = "store"
    <3>1. callback'[b].user \in Members
      BY <1>a, <2>1, <2>4 DEF Finals, Inv, TransactionInv
    <3>2. Stands(a, "granted", {callback[b].user})'
      BY <1>a, <2>4 DEF View
    <3> QED BY <2>1, <3>1, <3>2 DEF Stands, TicketStep
  <2>5. CASE Nowhere(a)' \/ \E x \in CallbackReqs : InCallback(x, a)'
    <3>1. Stands(a, "closed", {})' \/ Stands(a, "pending", {})'
      BY <1>a, <1>e, <2>2, <2>5 DEF View
    <3> QED BY <2>1, <3>1 DEF Stands, TicketStep
  <2> QED BY <2>3, <2>4, <2>5
<1>4. ASSUME NEW b \in CallbackReqs, InCode(b, a) PROVE TicketStep(a)
  <2>1. /\ Stands(a, "granted", {callback[b].user})
        /\ callback[b].state = a /\ callback[b].pc # "idle"
    BY <1>4, <1>a DEF View, InCode, Inv, CodeInv
  <2>2. authz[a].pc \notin Early /\ authz[a].pc # "put"
    BY <1>f, <2>1
  <2>3. \/ Nowhere(a)'
        \/ InCode(b, a)'
        \/ \E t \in TokenReqs : /\ InToken(t, a)' /\ token'[t].pc = "sign"
                                /\ token'[t].code = b
    BY <1>4, <1>a, <1>b, <1>d, <2>2 DEF Exclusive, Moves
  <2>4. callback'[b].user = callback[b].user
    BY <1>a, <2>1 DEF Finals
  <2>5. CASE Nowhere(a)'
    BY <1>e, <2>1, <2>2, <2>5 DEF Stands, TicketStep
  <2>6. CASE InCode(b, a)'
    BY <1>a, <2>1, <2>4, <2>6 DEF View, Stands, TicketStep
  <2>7. ASSUME NEW t \in TokenReqs, InToken(t, a)', token'[t].pc = "sign", token'[t].code = b
        PROVE  TicketStep(a)
    <3>1. Stands(a, "granted", {callback[b].user})'
      BY <1>a, <2>7 DEF View
    <3> QED BY <2>1, <2>4, <3>1 DEF Stands, TicketStep
  <2> QED BY <2>3, <2>5, <2>6, <2>7
<1>5. ASSUME NEW t \in TokenReqs, InToken(t, a) PROVE TicketStep(a)
  <2> DEFINE b == token[t].code
  <2>1. /\ token[t].pc \in {"sign", "token"} /\ b \in CallbackReqs
        /\ callback[b].state = a /\ callback[b].pc # "idle"
    BY <1>5 DEF InToken, Login, Inv, StartedInv
  <2>2. Stands(a, IF token[t].pc = "token" THEN "redeemed" ELSE "granted", {callback[b].user})
    BY <1>5, <1>a DEF View
  <2>3. authz[a].pc \notin Early /\ authz[a].pc # "put"
    BY <1>f, <2>1
  <2>4. Nowhere(a)' \/ InToken(t, a)'
    BY <1>5, <1>a, <1>b, <1>d, <2>3 DEF Exclusive, Moves
  <2>5. CASE InToken(t, a)'
    <3>1. token'[t].code = b /\ callback'[b].user = callback[b].user
      BY <1>a, <2>1 DEF Finals
    <3>2. Stands(a, IF token[t].pc = "token" THEN "redeemed" ELSE "granted",
                    {callback[token[t].code].user})'
      BY <1>a, <2>5 DEF View
    <3>3. token[t].pc = "token" => token'[t].pc = "token"
      BY <1>5, <1>a DEF Moves
    <3> QED BY <2>2, <3>1, <3>2, <3>3 DEF Stands, TicketStep
  <2>6. CASE Nowhere(a)' /\ ~InToken(t, a)'
    <3>1. token[t].pc # "token"
      BY <1>5, <1>a, <2>6 DEF Moves
    <3> QED BY <1>e, <2>2, <2>3, <2>6, <3>1 DEF Stands, TicketStep
  <2> QED BY <2>4, <2>5, <2>6
<1> QED BY <1>1, <1>2, <1>3, <1>4, <1>5 DEF Nowhere

(* At the start every ticket is new. *)
LEMMA TicketInit == Init => Ticket!Init
<1> SUFFICES ASSUME Init, NEW a \in AuthorizeReqs PROVE Stands(a, "new", {})
  BY DEF Ticket!Init, Stands
<1>1. Inv
  BY InvInit
<1>2. Nowhere(a) /\ authz[a].pc = "idle"
  BY CodeHashes DEF Init, Nowhere, InStore, InCallback, InCode, InToken, Holding
<1> QED BY <1>1, <1>2, Views DEF View

(* The data plane implements the login ticket: whatever interleaves, fails  *)
(* or is repeated, a login is granted at most once, to a guild member, and  *)
(* redeemed at most once, for that member.                                  *)
THEOREM FlowImplementsTicket == Spec => ImplementsTicket
<1>1. Inv /\ Inv' /\ [Next]_vars => Ticket!Next
  BY Simulation DEF TicketStep, Ticket!Next, Ticket!Begin, Ticket!Grant, Ticket!Redeem,
                    Ticket!Close, Ticket!Keep
<1> QED BY <1>1, TicketInit, Invariance, PTL DEF Spec, ImplementsTicket, Ticket!Spec
=============================================================================
