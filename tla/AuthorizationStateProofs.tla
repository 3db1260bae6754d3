---------------------- MODULE AuthorizationStateProofs ----------------------
(***************************************************************************)
(* Proofs about AuthorizationState, for every set of states, codes and     *)
(* clients, every lifetime and sweep interval, and every bound.            *)
(***************************************************************************)
EXTENDS AuthorizationState, TLAPS

(* A key that is in storage, or was never put, has had no verdict. *)
VerdictInv ==
  /\ \A k \in Keys : Present(k) => used[k] = 0 /\ refused[k] = 0
  /\ \A k \in Keys \ created : ~Present(k) /\ used[k] = 0 /\ refused[k] = 0
  /\ OneVerdict

(* Unless an alarm was lost and none armed since, an alarm is pending       *)
(* whenever anything is stored, and it comes at most one interval after the *)
(* expiry of everything stored, its arrival or the last arming.             *)
AlarmCovers ==
  ~disturbed =>
    \A k \in Keys : Present(k) =>
      /\ alarm # NONE
      /\ alarm <= Later(storage[k].expires_at, Later(storedAt[k], armedAt))
                    + SWEEP_INTERVAL

AlarmInv ==
  /\ alarm # NONE => /\ alarm <= clock + SWEEP_INTERVAL
                     /\ clock <= alarm + AlarmLateness
  /\ armedAt <= clock
  /\ \A k \in Keys : storedAt[k] <= clock
  /\ AlarmCovers

-----------------------------------------------------------------------------

(* The record a put stores is well formed and expires at a natural time. *)
LEMMA NewTransactionType ==
  ASSUME NEW v \in ValidatedAuthorize, NEW s \in States, NEW now \in Nat
  PROVE  NewTransaction(v, s, now) \in AuthorizationTransaction(States)
BY TtlAssumption DEF NewTransaction, AuthorizationTransaction, ValidatedAuthorize

(* The code issued from a transaction is well formed: only its hash is kept. *)
LEMMA IssueCodeType ==
  ASSUME NEW tx \in AuthorizationTransaction(States), NEW c \in Codes,
         NEW u \in Subjects, NEW now \in Nat
  PROVE  issue_code(tx, u, c, now) \in StoredAuthorizationCode(Hashes)
BY TtlAssumption
   DEF issue_code, AuthorizationTransaction, StoredAuthorizationCode, Hashes

(* Both kinds of record carry an expiry, which is what the sweep reads. *)
LEMMA RecordExpiry ==
  ASSUME NEW r \in Record
  PROVE  r.expires_at \in Nat
BY DEF Record, AuthorizationTransaction, StoredAuthorizationCode

(* Every upstream state and the hash of every code name a storage key. *)
LEMMA KeysOf ==
  /\ \A s \in States : tx_key(s) \in Keys
  /\ \A c \in Codes : code_key(sha256_b64url(c)) \in Keys
BY DEF Keys, TxKeys, CodeKeys, Hashes

-----------------------------------------------------------------------------

(* Every step of the object keeps its state well typed. *)
LEMMA TypeStep == TypeOK /\ [Next]_vars => TypeOK'
<1> SUFFICES ASSUME TypeOK, [Next]_vars PROVE TypeOK'
  OBVIOUS
<1> USE DEF TypeOK
<1>a. ASSUME NEW k \in Keys, NEW r \in Record, Put(k, r), ensure_alarm
      PROVE  TypeOK'
  <2>1. disturbed' \in BOOLEAN
    BY <1>a, Zenon DEF ensure_alarm
  <2>2. alarm' \in Nat \cup {NONE} /\ armedAt' \in Nat /\ faults' \in Nat
    BY <1>a, SweepAssumption DEF ensure_alarm
  <2> QED BY <1>a, <2>1, <2>2 DEF Put
<1>1. ASSUME NEW now \in 0..clock, NEW s \in States, NEW v \in ValidatedAuthorize,
             PutTransaction(s, v, now)
      PROVE  TypeOK'
  <2>1. NewTransaction(v, s, now) \in Record
    BY NewTransactionType DEF Record
  <2> QED BY <1>1, <1>a, <2>1, KeysOf DEF PutTransaction
<1>2. ASSUME NEW now \in 0..clock, NEW s \in States, TakeTransaction(s, now)
      PROVE  TypeOK'
  BY <1>2, KeysOf DEF TakeTransaction
<1>3. ASSUME NEW now \in 0..clock, NEW c \in Codes, NEW s \in States,
             NEW v \in ValidatedAuthorize, NEW u \in Subjects,
             PutCode(c, NewTransaction(v, s, now), u, now)
      PROVE  TypeOK'
  <2>1. issue_code(NewTransaction(v, s, now), u, c, now) \in Record
    BY NewTransactionType, IssueCodeType DEF Record
  <2> QED BY <1>3, <1>a, <2>1, KeysOf DEF PutCode
<1>4. ASSUME NEW now \in 0..clock, NEW c \in Codes, NEW check \in ExchangeCheck,
             ConsumeCode(c, check, now)
      PROVE  TypeOK'
  BY <1>4, KeysOf DEF ConsumeCode
<1>b. ASSUME NEW now \in Nat, NEW pending \in Nat \cup {NONE}, sweep(now, pending),
             armedAt' \in Nat, disturbed' \in BOOLEAN
      PROVE  TypeOK'
  BY <1>b, SweepAssumption DEF sweep
<1>5. ASSUME NEW now \in 0..clock, SweepRequest(now) PROVE TypeOK'
  <2>1. disturbed' \in BOOLEAN
    BY <1>5, Zenon DEF SweepRequest
  <2>2. armedAt' \in Nat
    BY <1>5 DEF SweepRequest
  <2> QED BY <1>5, <1>b, <2>1, <2>2 DEF SweepRequest
<1>6. ASSUME NEW k \in Keys, NotFound(k) PROVE TypeOK'
  BY <1>6 DEF NotFound, vars
<1>7. ASSUME Alarm PROVE TypeOK'
  <2>1. disturbed' \in BOOLEAN
    BY <1>7, Zenon DEF Alarm
  <2> QED BY <1>7, <1>b, <2>1 DEF Alarm
<1>8. ASSUME AlarmGivenUp PROVE TypeOK'
  <2>1. disturbed' \in BOOLEAN
    BY <1>8, Zenon DEF AlarmGivenUp
  <2> QED BY <1>8, <2>1 DEF AlarmGivenUp
<1>9. ASSUME Tick PROVE TypeOK'
  BY <1>9 DEF Tick
<1>10. ASSUME UNCHANGED vars PROVE TypeOK'
  BY <1>10 DEF vars
<1> QED BY <1>1, <1>2, <1>3, <1>4, <1>5, <1>6, <1>7, <1>8, <1>9, <1>10 DEF Next

(* The object's state is always well typed; in particular only the hash of  *)
(* a code is ever stored (durable.rs, code.rs).                             *)
THEOREM TypeCorrect == Spec => []TypeOK
<1>1. Init => TypeOK
  <2>1. Init => disturbed \in BOOLEAN
    BY Zenon DEF Init
  <2> QED BY <2>1 DEF Init, TypeOK
<1> QED BY <1>1, TypeStep, PTL DEF Spec

-----------------------------------------------------------------------------

(* Only a put makes a key present, and it is a key never put before; every  *)
(* verdict removes the record it is about.                                  *)
LEMMA VerdictStep == TypeOK /\ VerdictInv /\ [Next]_vars => VerdictInv'
<1> SUFFICES ASSUME TypeOK, VerdictInv, [Next]_vars PROVE VerdictInv'
  OBVIOUS
<1> USE DEF TypeOK, VerdictInv, OneVerdict, Present
<1>a. ASSUME NEW k \in Keys, NEW r, Put(k, r) PROVE VerdictInv'
  <2>1. used[k] = 0 /\ refused[k] = 0
    BY <1>a DEF Put
  <2>2. \A j \in Keys : j # k => storage'[j] = storage[j]
    BY <1>a DEF Put
  <2> QED BY <1>a, <2>1, <2>2 DEF Put
<1>1. ASSUME NEW now, NEW s \in States, NEW v, PutTransaction(s, v, now)
      PROVE  VerdictInv'
  BY <1>1, <1>a, KeysOf DEF PutTransaction
<1>2. ASSUME NEW now \in 0..clock, NEW s \in States, TakeTransaction(s, now)
      PROVE  VerdictInv'
  <2> DEFINE k == tx_key(s)
  <2>1. k \in Keys /\ k \in created /\ used[k] = 0 /\ refused[k] = 0
    BY <1>2, KeysOf DEF TakeTransaction
  <2>2. /\ storage' = [storage EXCEPT ![k] = NONE]
        /\ created' = created
        /\ \/ used' = [used EXCEPT ![k] = @ + 1] /\ refused' = refused
           \/ refused' = [refused EXCEPT ![k] = @ + 1] /\ used' = used
    BY <1>2 DEF TakeTransaction
  <2> HIDE DEF k
  <2>3. \A j \in Keys : j # k => /\ storage'[j] = storage[j]
                                 /\ used'[j] = used[j] /\ refused'[j] = refused[j]
    BY <2>2
  <2>4. ~Present(k)' /\ used'[k] + refused'[k] = 1
    BY <2>1, <2>2
  <2> QED BY <2>1, <2>2, <2>3, <2>4
<1>3. ASSUME NEW now, NEW c \in Codes, NEW tx, NEW u, PutCode(c, tx, u, now)
      PROVE  VerdictInv'
  BY <1>3, <1>a, KeysOf DEF PutCode
<1>4. ASSUME NEW now, NEW c \in Codes, NEW check, ConsumeCode(c, check, now)
      PROVE  VerdictInv'
  BY <1>4, KeysOf DEF ConsumeCode
<1>b. ASSUME NEW now, NEW pending, sweep(now, pending) PROVE VerdictInv'
  BY <1>b DEF sweep
<1>5. ASSUME NEW now, SweepRequest(now) PROVE VerdictInv'
  BY <1>5, <1>b DEF SweepRequest
<1>6. ASSUME NEW k, NotFound(k) PROVE VerdictInv'
  BY <1>6 DEF NotFound, vars
<1>7. ASSUME Alarm PROVE VerdictInv'
  BY <1>7, <1>b DEF Alarm
<1>8. ASSUME AlarmGivenUp \/ Tick PROVE VerdictInv'
  BY <1>8 DEF AlarmGivenUp, Tick
<1>9. ASSUME UNCHANGED vars PROVE VerdictInv'
  BY <1>9 DEF vars
<1> QED BY <1>1, <1>2, <1>3, <1>4, <1>5, <1>6, <1>7, <1>8, <1>9 DEF Next

(* take_transaction and consume_authorization_code are single-use: whatever *)
(* requests race for a record and however stale their `now`, at most one    *)
(* gets it or is told it expired (store.rs, durable.rs).                    *)
THEOREM SingleUse == Spec => []OneVerdict
<1>1. Init => VerdictInv
  BY DEF Init, VerdictInv, OneVerdict, Present
<1>2. VerdictInv => OneVerdict
  BY DEF VerdictInv
<1> QED BY <1>1, <1>2, TypeCorrect, VerdictStep, PTL DEF Spec

-----------------------------------------------------------------------------

(* The pending alarm covers everything stored, unless one was lost: a put   *)
(* finds a pending alarm at most one interval away or arms one, which also  *)
(* covers what had lost its alarm, and a sweep leaves only records that     *)
(* expire after it.                                                         *)
LEMMA AlarmStep == TypeOK /\ TypeOK' /\ AlarmInv /\ [Next]_vars => AlarmInv'
<1> SUFFICES ASSUME TypeOK, TypeOK', AlarmInv, [Next]_vars PROVE AlarmInv'
  OBVIOUS
<1> USE SweepAssumption, NoneAssumption
<1> USE DEF AlarmInv, AlarmCovers, Present, Later
<1>t. /\ clock \in Nat /\ alarm \in Nat \cup {NONE} /\ alarm' \in Nat \cup {NONE}
      /\ armedAt \in Nat
      /\ \A k \in Keys : storedAt[k] \in Nat
      /\ storage \in [Keys -> Record \cup {NONE}]
      /\ storedAt \in [Keys -> Nat]
      /\ \A k \in Keys : Present(k) => storage[k].expires_at \in Nat
  BY RecordExpiry DEF TypeOK
<1>a. ASSUME NEW k \in Keys, NEW r \in Record, Put(k, r), ensure_alarm
      PROVE  AlarmInv'
  <2>1. r.expires_at \in Nat
    BY RecordExpiry
  <2>2. CASE alarm # NONE /\ UNCHANGED <<alarm, armedAt, disturbed>>
    BY <1>a, <1>t, <2>1, <2>2 DEF Put
  <2>3. CASE alarm = NONE /\ alarm' = clock + SWEEP_INTERVAL /\ armedAt' = clock
    BY <1>a, <1>t, <2>1, <2>3 DEF Put
  <2>4. CASE alarm = NONE /\ UNCHANGED <<alarm, armedAt>> /\ disturbed'
    BY <1>a, <1>t, <2>1, <2>4 DEF Put
  <2> QED BY <1>a, <2>2, <2>3, <2>4 DEF ensure_alarm
<1>1. ASSUME NEW now \in 0..clock, NEW s \in States, NEW v \in ValidatedAuthorize,
             PutTransaction(s, v, now)
      PROVE  AlarmInv'
  <2>1. NewTransaction(v, s, now) \in Record
    BY <1>t, NewTransactionType DEF Record
  <2> QED BY <1>1, <1>a, <2>1, KeysOf DEF PutTransaction
<1>2. ASSUME NEW now, NEW s \in States, TakeTransaction(s, now)
      PROVE  AlarmInv'
  BY <1>2, <1>t, KeysOf DEF TakeTransaction
<1>3. ASSUME NEW now \in 0..clock, NEW c \in Codes, NEW s \in States,
             NEW v \in ValidatedAuthorize, NEW u \in Subjects,
             PutCode(c, NewTransaction(v, s, now), u, now)
      PROVE  AlarmInv'
  <2>1. issue_code(NewTransaction(v, s, now), u, c, now) \in Record
    BY <1>t, NewTransactionType, IssueCodeType DEF Record
  <2> QED BY <1>3, <1>a, <2>1, KeysOf DEF PutCode
<1>4. ASSUME NEW now, NEW c \in Codes, NEW check, ConsumeCode(c, check, now)
      PROVE  AlarmInv'
  BY <1>4, <1>t, KeysOf DEF ConsumeCode
<1>5. ASSUME NEW now, SweepRequest(now) PROVE AlarmInv'
  <2>1. /\ storage' = [k \in Keys |-> IF k \in Expired(now) THEN NONE ELSE storage[k]]
        /\ UNCHANGED <<clock, storedAt>>
    BY <1>5 DEF SweepRequest, sweep
  <2>2. CASE Remaining(now) # {}
    <3>1. alarm' = clock + SWEEP_INTERVAL /\ armedAt' = clock
      BY <1>5, <2>2 DEF SweepRequest, sweep
    <3> QED BY <1>t, <2>1, <3>1
  <2>3. CASE Remaining(now) = {}
    <3>1. alarm' = alarm /\ armedAt' = armedAt
      BY <1>5, <2>3 DEF SweepRequest, sweep
    <3>2. \A k \in Keys : ~Present(k)'
      BY <2>1, <2>3 DEF Remaining
    <3> QED BY <1>t, <2>1, <3>1, <3>2
  <2> QED BY <2>2, <2>3
<1>6. ASSUME NEW k, NotFound(k) PROVE AlarmInv'
  BY <1>6 DEF NotFound, vars
<1>7. ASSUME Alarm PROVE AlarmInv'
  <2>1. ASSUME NEW k \in Keys, Present(k)'
        PROVE  /\ storage'[k] = storage[k] /\ storage[k].expires_at > clock
               /\ alarm' = clock + SWEEP_INTERVAL
    <3>1. storage'[k] = IF k \in Expired(clock) THEN NONE ELSE storage[k]
      BY <1>7 DEF Alarm, sweep
    <3>2. k \notin Expired(clock) /\ storage'[k] = storage[k] /\ Present(k)
      BY <2>1, <3>1
    <3>3. storage[k].expires_at \in Nat /\ ~(storage[k].expires_at <= clock)
      BY <1>t, <3>2 DEF Expired
    <3>4. Remaining(clock) # {}
      BY <3>2 DEF Remaining
    <3>5. alarm' = clock + SWEEP_INTERVAL
      BY <1>7, <3>4 DEF Alarm, sweep
    <3> QED BY <1>t, <3>2, <3>3, <3>5
  <2>2. alarm' # NONE => alarm' = clock + SWEEP_INTERVAL
    BY <1>7 DEF Alarm, sweep
  <2>3. clock' = clock /\ storedAt' = storedAt /\ armedAt' = armedAt
    BY <1>7 DEF Alarm, sweep
  <2>4. ASSUME NEW k \in Keys, Present(k)'
        PROVE  /\ alarm' # NONE
               /\ alarm' <= Later(storage'[k].expires_at, Later(storedAt'[k], armedAt'))
                              + SWEEP_INTERVAL
    BY <1>t, <2>1, <2>3, <2>4
  <2>5. (alarm' # NONE => alarm' <= clock' + SWEEP_INTERVAL /\ clock' <= alarm' + AlarmLateness)
        /\ armedAt' <= clock'
        /\ \A k \in Keys : storedAt'[k] <= clock'
    BY <1>t, <2>2, <2>3
  <2> QED BY <2>4, <2>5
<1>8. ASSUME AlarmGivenUp PROVE AlarmInv'
  BY <1>8, <1>t DEF AlarmGivenUp
<1>9. ASSUME Tick PROVE AlarmInv'
  BY <1>9, <1>t DEF Tick
<1>10. ASSUME UNCHANGED vars PROVE AlarmInv'
  BY <1>10 DEF vars
<1> QED BY <1>1, <1>2, <1>3, <1>4, <1>5, <1>6, <1>7, <1>8, <1>9, <1>10 DEF Next

(* The alarm sweeps everything within one interval (and its lateness) of    *)
(* its expiry; what lost its alarm is swept within one interval of the next *)
(* put that arms one (durable.rs sweep, ensure_alarm).                      *)
THEOREM BoundedRetention == Spec => []RetentionBound
<1>1. Init => AlarmInv
  BY DEF Init, AlarmInv, AlarmCovers, Present
<1>2. TypeOK /\ AlarmInv => RetentionBound
  <2> SUFFICES ASSUME TypeOK, AlarmInv, ~disturbed, NEW k \in Keys, Present(k)
               PROVE  clock <= Later(storage[k].expires_at, Later(storedAt[k], armedAt))
                                 + SWEEP_INTERVAL + AlarmLateness
    BY DEF RetentionBound
  <2>1. storage[k].expires_at \in Nat /\ storedAt[k] \in Nat
    BY RecordExpiry DEF TypeOK, Present
  <2> QED BY <2>1, SweepAssumption DEF TypeOK, AlarmInv, AlarmCovers, Later
<1> QED BY <1>1, <1>2, TypeCorrect, AlarmStep, PTL DEF Spec

-----------------------------------------------------------------------------

(* A record that is removed was handed out, or had expired at the `now` of  *)
(* the request or sweep that removed it, which is never ahead of the clock. *)
LEMMA LeavesStep ==
  ASSUME TypeOK, VerdictInv, [Next]_vars,
         NEW k \in Keys, Present(k), storage'[k] = NONE
  PROVE  used'[k] = used[k] + 1 \/ storage[k].expires_at <= clock
<1> USE DEF Present
<1>t. /\ clock \in Nat /\ storage \in [Keys -> Record \cup {NONE}]
      /\ used \in [Keys -> Nat]
      /\ storage[k] # NONE /\ storage[k].expires_at \in Nat
  BY RecordExpiry DEF TypeOK
<1>a. ASSUME NEW j \in Keys, NEW r, Put(j, r) PROVE FALSE
  <2>1. k # j
    BY <1>a DEF Put, VerdictInv
  <2> QED BY <1>a, <1>t, <2>1 DEF Put
<1>1. ASSUME NEW now, NEW s \in States, NEW v, PutTransaction(s, v, now) PROVE FALSE
  BY <1>1, <1>a, KeysOf DEF PutTransaction
<1>2. ASSUME NEW now \in 0..clock, NEW s \in States, TakeTransaction(s, now)
      PROVE  used'[k] = used[k] + 1 \/ storage[k].expires_at <= clock
  <2>1. tx_key(s) = k
    BY <1>2, <1>t, KeysOf DEF TakeTransaction
  <2>2. CASE is_expired(storage[k], now)
    BY <1>t, <2>2 DEF is_expired
  <2>3. CASE ~is_expired(storage[k], now)
    BY <1>2, <1>t, <2>1, <2>3 DEF TakeTransaction
  <2> QED BY <2>2, <2>3
<1>3. ASSUME NEW now, NEW c \in Codes, NEW tx, NEW u, PutCode(c, tx, u, now) PROVE FALSE
  BY <1>3, <1>a, KeysOf DEF PutCode
<1>4. ASSUME NEW now \in 0..clock, NEW c \in Codes, NEW check, ConsumeCode(c, check, now)
      PROVE  used'[k] = used[k] + 1 \/ storage[k].expires_at <= clock
  <2> DEFINE deny == evaluate_code_exchange(storage[k], check, now)
  <2>1. code_key(sha256_b64url(c)) = k
    BY <1>4, <1>t, KeysOf DEF ConsumeCode
  <2>2. deny \in {"Ok", "Expired"}
    BY <1>4, <1>t, <2>1 DEF ConsumeCode
  <2>3. deny = "Expired" => storage[k].expires_at <= now
    BY DEF evaluate_code_exchange
  <2>4. deny = "Ok" => used'[k] = used[k] + 1
    BY <1>4, <1>t, <2>1 DEF ConsumeCode
  <2> QED BY <1>t, <2>2, <2>3, <2>4
<1>b. ASSUME NEW now \in 0..clock, NEW pending, sweep(now, pending)
      PROVE  storage[k].expires_at <= clock
  <2>1. k \in Expired(now)
    BY <1>b, <1>t DEF sweep
  <2> QED BY <1>t, <2>1 DEF Expired
<1>5. ASSUME NEW now \in 0..clock, SweepRequest(now) PROVE storage[k].expires_at <= clock
  BY <1>5, <1>b DEF SweepRequest
<1>6. ASSUME NEW j, NotFound(j) PROVE FALSE
  BY <1>6, <1>t DEF NotFound, vars
<1>7. ASSUME Alarm PROVE storage[k].expires_at <= clock
  BY <1>7, <1>b, <1>t DEF Alarm
<1>8. ASSUME AlarmGivenUp \/ Tick \/ UNCHANGED vars PROVE FALSE
  BY <1>8, <1>t DEF AlarmGivenUp, Tick, vars
<1> QED BY <1>1, <1>2, <1>3, <1>4, <1>5, <1>6, <1>7, <1>8 DEF Next

(* A code is not burnt by an exchange with the wrong client, URI or         *)
(* verifier, and nothing is swept early however stale the request's `now`   *)
(* (durable.rs consume-code, sweep; code.rs evaluate_code_exchange).        *)
THEOREM NoEarlyRemoval == Spec => LeavesByUseOrExpiry
<1>1. Init => VerdictInv
  BY DEF Init, VerdictInv, OneVerdict, Present
<1>2. TypeOK /\ VerdictInv /\ [Next]_vars =>
        [\A k \in Keys :
           Present(k) /\ storage'[k] = NONE =>
             used'[k] = used[k] + 1 \/ storage[k].expires_at <= clock]_vars
  BY LeavesStep
<1> QED BY <1>1, <1>2, TypeCorrect, VerdictStep, PTL DEF Spec, LeavesByUseOrExpiry
=============================================================================
