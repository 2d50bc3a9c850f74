---------------------------- MODULE LoginAttempts ----------------------------
(***************************************************************************)
(* The brute-force protection of logins: LoginAttemptService, as AuthService  *)
(* .login calls it.  The counters live in the memory of the process and are    *)
(* consulted before, and updated after, the credentials are checked, so logins *)
(* in flight together are counted after all of them were let in.               *)
(***************************************************************************)
EXTENDS Integers, Sequences, FiniteSets

CONSTANTS
  Key,         \* usernames and client addresses
  KeyLists,    \* the keys of a login, in the order of attemptKeys
  Login,       \* logins in flight
  MaxAttempts, \* LOGIN_MAX_ATTEMPTS
  Window,      \* LOGIN_WINDOW_SECONDS
  Lockout,     \* LOGIN_LOCKOUT_SECONDS
  MaxTime,     \* bound: the clock
  NoRecord

Record == [failures: Nat \ {0}, started: 0 .. MaxTime, lockedUntil: 0 .. MaxTime + Lockout]

ASSUME NoRecordAssumption == NoRecord \notin Record
ASSUME LoginAssumption == IsFiniteSet(Login)
ASSUME KeyListsAssumption == \A ks \in KeyLists : ks \in Seq(Key)
ASSUME LimitsAssumption ==
  MaxAttempts \in Nat \ {0} /\ Window \in Nat \ {0} /\ Lockout \in Nat \ {0} /\ MaxTime \in Nat

VARIABLES
  clock,   \* Date.now()
  record,  \* attempts, by key
  attempt  \* keys of the logins whose credentials are being checked, or none

attemptVars == <<clock, record, attempt>>

-----------------------------------------------------------------------------
AttemptsTypeOK ==
  /\ clock \in 0 .. MaxTime
  /\ record \in [Key -> Record \cup {NoRecord}]
  /\ attempt \in [Login -> KeyLists \cup {<<>>}]

AttemptsInit ==
  /\ clock = 0
  /\ record = [k \in Key |-> NoRecord]
  /\ attempt = [l \in Login |-> <<>>]

KeysOf(ks) == {ks[i] : i \in DOMAIN ks}

Locked(k) == record[k] # NoRecord /\ clock < record[k].lockedUntil
PastWindow(k) == clock - record[k].started > Window
Expired(k) ==
  /\ record[k] # NoRecord
  /\ ~Locked(k)
  /\ record[k].lockedUntil > 0 \/ PastWindow(k)

(* Mutant: only the first key is looked at. *)
AnyLockedFirst(ks) == Locked(ks[1])

AnyLocked(ks) == \E k \in KeysOf(ks) : Locked(k)

(* "some" stops at the first locked key: the expired ones before it are deleted. *)
LookedAt(ks) == {ks[i] : i \in {j \in DOMAIN ks : \A h \in 1 .. j - 1 : ~Locked(ks[h])}}

(* isLocked; a login that is let in goes on to check its credentials. *)
BeginLogin(l, ks) ==
  /\ attempt[l] = <<>>
  /\ record' = [k \in Key |-> IF k \in LookedAt(ks) /\ Expired(k) THEN NoRecord ELSE record[k]]
  /\ attempt' = IF AnyLocked(ks) THEN attempt ELSE [attempt EXCEPT ![l] = ks]
  /\ UNCHANGED clock

(* A failure counts in the window that runs; a window that is over starts again,    *)
(* even under a lock.                                                              *)
Counted(k) ==
  IF record[k] = NoRecord \/ PastWindow(k)
  THEN [failures |-> 1, started |-> clock, lockedUntil |-> 0]
  ELSE [record[k] EXCEPT
          !.failures = @ + 1,
          !.lockedUntil = IF record[k].failures + 1 >= MaxAttempts THEN clock + Lockout ELSE @]

(* recordFailure, or the failed await that counts as one. *)
FailLogin(l) ==
  /\ attempt[l] # <<>>
  /\ record' = [k \in Key |-> IF k \in KeysOf(attempt[l]) THEN Counted(k) ELSE record[k]]
  /\ attempt' = [attempt EXCEPT ![l] = <<>>]
  /\ UNCHANGED clock

(* reset: the address is forgiven along with the name. *)
PassLogin(l) ==
  /\ attempt[l] # <<>>
  /\ record' = [k \in Key |-> IF k \in KeysOf(attempt[l]) THEN NoRecord ELSE record[k]]
  /\ attempt' = [attempt EXCEPT ![l] = <<>>]
  /\ UNCHANGED clock

(* The process is restarted: the map is in its memory only. *)
RestartProcess ==
  /\ record' = [k \in Key |-> NoRecord]
  /\ attempt' = [l \in Login |-> <<>>]
  /\ UNCHANGED clock

Tick ==
  /\ clock < MaxTime
  /\ clock' = clock + 1
  /\ UNCHANGED <<record, attempt>>

AttemptsNext ==
  \/ \E l \in Login :
       \/ \E ks \in KeyLists : BeginLogin(l, ks)
       \/ FailLogin(l)
       \/ PassLogin(l)
  \/ RestartProcess
  \/ Tick

AttemptsSpec == AttemptsInit /\ [][AttemptsNext]_attemptVars

-----------------------------------------------------------------------------
(* The passwords tried on a name or from an address are bounded.  The logins let in  *)
(* together before a lock exceed LOGIN_MAX_ATTEMPTS by as many as were in flight and *)
(* no more: what is counted and what may still be counted stays within that, through *)
(* locks that run out, windows that start again and restarts.                       *)
AttemptsBounded ==
  \A k \in Key :
    record[k] # NoRecord =>
      record[k].failures + Cardinality({l \in Login : k \in KeysOf(attempt[l])})
        <= MaxAttempts + Cardinality(Login)
=============================================================================
