-------------------------- MODULE AuthorizationState --------------------------
(***************************************************************************)
(* The AuthorizationState Durable Object (durable.rs) behind DoStore       *)
(* (do_store.rs): one key-value storage holding `tx:` and `code:` records, *)
(* and one alarm that sweeps the expired ones.                             *)
(*                                                                         *)
(* The runtime runs one event of the object at a time, so every endpoint   *)
(* is one action.  A request carries the `now` its Worker read when the    *)
(* HTTP request came in; any amount of time may pass before the object     *)
(* sees it, so every action takes a `now` in 0..clock.  Whether the reply  *)
(* reaches the Worker makes no difference to the object.                   *)
(*                                                                         *)
(* Faults of the runtime: set_alarm may fail after the record was put      *)
(* (the `?` leaves the record behind), and the runtime gives an alarm up   *)
(* after its handler failed too often.                                     *)
(***************************************************************************)
EXTENDS AuthorizationRecords

CONSTANTS
  States,            \* random upstream states (discord_oauth_state)
  Codes,             \* random plaintext codes
  SWEEP_INTERVAL,    \* 120 seconds
  AlarmLateness,     \* how late the runtime may run a due alarm
  Horizon,           \* bound: no put and no /sweep arrives at or after this time
  MaxFaults          \* bound on alarm faults

ASSUME SweepAssumption ==
  /\ SWEEP_INTERVAL \in Nat \ {0}
  /\ AlarmLateness \in Nat
  /\ Horizon \in Nat
  /\ MaxFaults \in Nat

ASSUME NoneAssumption == NONE \notin Nat

VARIABLES
  clock,       \* wall clock, unix seconds
  storage,     \* the object's key-value storage, NONE for an absent key
  alarm,       \* time of the pending alarm, or NONE
  created,     \* history: keys ever put
  storedAt,    \* history: when a key was put
  used,        \* history: replies Active / Consumed per key
  refused,     \* history: replies Expired per key
  armedAt,     \* history: when a put or /sweep last armed the alarm
  disturbed,   \* history: an alarm was lost and none has been armed since
  faults       \* history: number of alarm faults so far

vars == <<clock, storage, alarm, created, storedAt, used, refused, armedAt, disturbed,
          faults>>

tx_key(state) == <<"tx:", state>>
code_key(code_hash) == <<"code:", code_hash>>
Hashes == {sha256_b64url(c) : c \in Codes}
TxKeys == {tx_key(s) : s \in States}
CodeKeys == {code_key(h) : h \in Hashes}
Keys == TxKeys \cup CodeKeys

Record == AuthorizationTransaction(States) \cup StoredAuthorizationCode(Hashes)

Present(k) == storage[k] # NONE
Expired(now) == {k \in Keys : Present(k) /\ storage[k].expires_at <= now}
Remaining(now) == {k \in Keys : Present(k)} \ Expired(now)

Init ==
  /\ clock = 0
  /\ storage = [k \in Keys |-> NONE]
  /\ alarm = NONE
  /\ created = {}
  /\ storedAt = [k \in Keys |-> 0]
  /\ used = [k \in Keys |-> 0]
  /\ refused = [k \in Keys |-> 0]
  /\ armedAt = 0
  /\ disturbed = FALSE
  /\ faults = 0

-----------------------------------------------------------------------------
(* Requests. *)

(* storage.put of a record; keys are random and so never put twice. *)
Put(k, record) ==
  /\ clock < Horizon
  /\ k \notin created
  /\ storage' = [storage EXCEPT ![k] = record]
  /\ created' = created \cup {k}
  /\ storedAt' = [storedAt EXCEPT ![k] = clock]
  /\ UNCHANGED <<clock, used, refused>>

(* Mutant: every put postpones the alarm. *)
EnsureAlarmPostpones ==
  /\ alarm' = clock + SWEEP_INTERVAL
  /\ UNCHANGED <<armedAt, disturbed, faults>>

(* An alarm is set only if none is pending; setting it may fail, and the    *)
(* record that was just put stays all the same.                             *)
ensure_alarm ==
  \/ /\ alarm # NONE
     /\ UNCHANGED <<alarm, armedAt, disturbed, faults>>
  \/ /\ alarm = NONE
     /\ alarm' = clock + SWEEP_INTERVAL
     /\ armedAt' = clock
     /\ disturbed' = FALSE
     /\ UNCHANGED faults
  \/ /\ alarm = NONE
     /\ faults < MaxFaults
     /\ disturbed' = TRUE
     /\ faults' = faults + 1
     /\ UNCHANGED <<alarm, armedAt>>

PutTransaction(s, v, now) ==
  /\ Put(tx_key(s), NewTransaction(v, s, now))
  /\ ensure_alarm

PutCode(c, tx, subject, now) ==
  /\ Put(code_key(sha256_b64url(c)), issue_code(tx, subject, c, now))
  /\ ensure_alarm

(* The record is deleted whether the reply is Active or Expired. *)
TakeTransaction(s, now) ==
  LET k == tx_key(s) IN
  /\ Present(k)
  /\ storage' = [storage EXCEPT ![k] = NONE]
  /\ IF is_expired(storage[k], now)
     THEN refused' = [refused EXCEPT ![k] = @ + 1] /\ UNCHANGED used
     ELSE used' = [used EXCEPT ![k] = @ + 1] /\ UNCHANGED refused
  /\ UNCHANGED <<clock, alarm, created, storedAt, armedAt, disturbed, faults>>

(* Reply Missing, or Denied(Unknown) for a code: nothing changes. *)
NotFound(k) ==
  /\ ~Present(k)
  /\ UNCHANGED vars

(* Mutant: an expired code is refused but not deleted. *)
ConsumeKeepsExpired(c, check, now) ==
  LET k == code_key(sha256_b64url(c))
      deny == evaluate_code_exchange(storage[k], check, now)
  IN
  /\ Present(k)
  /\ storage' = [storage EXCEPT ![k] = IF deny = "Ok" THEN NONE ELSE @]
  /\ used' = [used EXCEPT ![k] = IF deny = "Ok" THEN @ + 1 ELSE @]
  /\ refused' = [refused EXCEPT ![k] = IF deny = "Expired" THEN @ + 1 ELSE @]
  /\ UNCHANGED <<clock, alarm, created, storedAt, armedAt, disturbed, faults>>

(* Mutant: any exchange attempt burns the code. *)
ConsumeBurnsAlways(c, check, now) ==
  LET k == code_key(sha256_b64url(c))
      deny == evaluate_code_exchange(storage[k], check, now)
  IN
  /\ Present(k)
  /\ storage' = [storage EXCEPT ![k] = NONE]
  /\ used' = [used EXCEPT ![k] = IF deny = "Ok" THEN @ + 1 ELSE @]
  /\ refused' = [refused EXCEPT ![k] = IF deny = "Expired" THEN @ + 1 ELSE @]
  /\ UNCHANGED <<clock, alarm, created, storedAt, armedAt, disturbed, faults>>

(* Consumed and Expired delete the record, a mismatch leaves it. *)
ConsumeCode(c, check, now) ==
  LET k == code_key(sha256_b64url(c))
      deny == evaluate_code_exchange(storage[k], check, now)
  IN
  /\ Present(k)
  /\ storage' = [storage EXCEPT ![k] = IF deny \in {"Ok", "Expired"} THEN NONE ELSE @]
  /\ used' = [used EXCEPT ![k] = IF deny = "Ok" THEN @ + 1 ELSE @]
  /\ refused' = [refused EXCEPT ![k] = IF deny = "Expired" THEN @ + 1 ELSE @]
  /\ UNCHANGED <<clock, alarm, created, storedAt, armedAt, disturbed, faults>>

-----------------------------------------------------------------------------
(* Sweeping. *)

(* Mutant: the alarm is not set again. *)
SweepOnce(now, pending) ==
  /\ storage' = [k \in Keys |-> IF k \in Expired(now) THEN NONE ELSE storage[k]]
  /\ alarm' = pending
  /\ UNCHANGED <<clock, created, storedAt, used, refused, faults>>

(* Deletes what has expired at `now`; re-arms the alarm, measured from the  *)
(* wall clock, if anything remains, and otherwise leaves it as it is.       *)
sweep(now, pending) ==
  /\ storage' = [k \in Keys |-> IF k \in Expired(now) THEN NONE ELSE storage[k]]
  /\ alarm' = IF Remaining(now) # {} THEN clock + SWEEP_INTERVAL ELSE pending
  /\ UNCHANGED <<clock, created, storedAt, used, refused, faults>>

(* The alarm handler reads the clock itself; no alarm is pending in it. *)
Alarm ==
  /\ alarm # NONE
  /\ alarm <= clock
  /\ sweep(clock, NONE)
  /\ disturbed' = FALSE
  /\ UNCHANGED armedAt

(* POST /sweep, an endpoint no handler calls. *)
SweepRequest(now) ==
  /\ clock < Horizon
  /\ sweep(now, alarm)
  /\ \/ Remaining(now) # {} /\ armedAt' = clock /\ disturbed' = FALSE
     \/ Remaining(now) = {} /\ UNCHANGED <<armedAt, disturbed>>

(* External: the runtime drops an alarm whose handler keeps failing. *)
AlarmGivenUp ==
  /\ alarm # NONE
  /\ alarm <= clock
  /\ faults < MaxFaults
  /\ alarm' = NONE
  /\ faults' = faults + 1
  /\ disturbed' = TRUE
  /\ UNCHANGED <<clock, storage, created, storedAt, used, refused, armedAt>>

(* Time passes, but not past a due alarm by more than the lateness. *)
Tick ==
  /\ clock < Horizon \/ alarm # NONE
  /\ alarm # NONE => clock < alarm + AlarmLateness
  /\ clock' = clock + 1
  /\ UNCHANGED <<storage, alarm, created, storedAt, used, refused, armedAt, disturbed,
                 faults>>

Next ==
  \/ \E now \in 0..clock :
       \/ \E s \in States, v \in ValidatedAuthorize : PutTransaction(s, v, now)
       \/ \E s \in States : TakeTransaction(s, now)
       \/ \E c \in Codes, s \in States, v \in ValidatedAuthorize, u \in Subjects :
            PutCode(c, NewTransaction(v, s, now), u, now)
       \/ \E c \in Codes, check \in ExchangeCheck : ConsumeCode(c, check, now)
       \/ SweepRequest(now)
  \/ \E k \in Keys : NotFound(k)
  \/ Alarm
  \/ AlarmGivenUp
  \/ Tick

(* The runtime runs due alarms and time goes on; nothing else is promised. *)
Fairness == WF_vars(Alarm) /\ WF_vars(Tick)

Spec == Init /\ [][Next]_vars /\ Fairness

-----------------------------------------------------------------------------
(* Properties. *)

TypeOK ==
  /\ clock \in Nat
  /\ storage \in [Keys -> Record \cup {NONE}]
  /\ alarm \in Nat \cup {NONE}
  /\ created \subseteq Keys
  /\ storedAt \in [Keys -> Nat]
  /\ used \in [Keys -> Nat]
  /\ refused \in [Keys -> Nat]
  /\ armedAt \in Nat
  /\ disturbed \in BOOLEAN
  /\ faults \in Nat

(* However many callbacks or token requests race for one record, however    *)
(* late they arrive and whatever `now` they carry, at most one of them is   *)
(* told something final about it: it is handed out once, or reported        *)
(* expired once, and what was reported expired is never handed out after.   *)
OneVerdict == \A k \in Keys : used[k] + refused[k] <= 1

(* A record leaves storage only by being handed out or once it has expired; *)
(* a request with the wrong client, URI or verifier does not burn a code.   *)
LeavesByUseOrExpiry ==
  [][\A k \in Keys :
       Present(k) /\ storage'[k] = NONE =>
         used'[k] = used[k] + 1 \/ storage[k].expires_at <= clock]_vars

Later(a, b) == IF a >= b THEN a ELSE b

(* No record outlives its expiry (or its late arrival) by more than one     *)
(* sweep interval plus the lateness of the alarm.  A record whose put could *)
(* not set the alarm, or whose alarm was given up, is caught up with: the   *)
(* next put arms an alarm again, and from then on the bound holds for it.   *)
RetentionBound ==
  ~disturbed =>
    \A k \in Keys : Present(k) =>
      clock <= Later(storage[k].expires_at, Later(storedAt[k], armedAt))
                 + SWEEP_INTERVAL + AlarmLateness

(* Every record leaves storage in the end, also one that lost its alarm, as *)
(* soon as a put has armed one again.                                       *)
EventuallyRemoved ==
  \A k \in Keys :
    (Present(k) /\ ~disturbed) ~> (~Present(k) \/ disturbed)
=============================================================================
