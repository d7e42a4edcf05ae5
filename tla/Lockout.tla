------------------------------ MODULE Lockout -------------------------------
(***************************************************************************)
(* The lock of one account after too many failed logins.                   *)
(*                                                                         *)
(* A login reads the row, and decides from what it read; the reset of an   *)
(* expired lock, the counter's increment, the lock and the reset after a   *)
(* success are updates of their own, with other logins in between (bcrypt  *)
(* alone takes a quarter of a second).                                     *)
(***************************************************************************)
EXTENDS Naturals, FiniteSets

CONSTANTS
  Requests,             \* request slots
  MAX_FAILED_ATTEMPTS,
  MaxAttempts,          \* bound: value of the counter
  Crashes               \* may a request stop between two of its writes?

ASSUME LockoutConstants ==
  /\ MAX_FAILED_ATTEMPTS \in Nat \ {0}
  /\ MaxAttempts \in Nat
  /\ Crashes \in BOOLEAN
  /\ IsFiniteSet(Requests)

VARIABLES
  attempts,  \* failedLoginAttempts
  lock,      \* lockedUntil: null, in the future, or past
  pc,        \* requests in flight
  gap        \* history: the last failure that should have locked crashed
             \* before it did

vars == <<attempts, lock, pc, gap>>

TypeOK ==
  /\ attempts \in Nat
  /\ lock \in {"none", "active", "expired"}
  /\ pc \in [Requests -> {"idle", "reset", "check", "lock", "verify"}]
  /\ gap \in BOOLEAN

-----------------------------------------------------------------------------

(* Mutant: any lock counts as expired. *)
LoginReadAnyLock(r) ==
  /\ pc[r] = "idle"
  /\ pc' = [pc EXCEPT ![r] = IF lock # "none" THEN "reset" ELSE "check"]
  /\ UNCHANGED <<attempts, lock, gap>>

(* The first read.  A locked account is refused without a write. *)
LoginRead(r) ==
  /\ pc[r] = "idle" /\ lock # "active"
  /\ pc' = [pc EXCEPT ![r] = IF lock = "expired" THEN "reset" ELSE "check"]
  /\ UNCHANGED <<attempts, lock, gap>>

(* Mutant: the counter keeps its value. *)
ResetLockOnly(r) ==
  /\ pc[r] = "reset"
  /\ lock' = "none"
  /\ pc' = [pc EXCEPT ![r] = "check"]
  /\ UNCHANGED <<attempts, gap>>

(* The lock that was read has expired. *)
ResetExpiredLock(r) ==
  /\ pc[r] = "reset"
  /\ attempts' = 0 /\ lock' = "none"
  /\ pc' = [pc EXCEPT ![r] = "check"]
  /\ UNCHANGED gap

(* Mutants: the account is locked one failure too early or too late.       *)
LocksEarly(n) == n + 1 >= MAX_FAILED_ATTEMPTS
LocksLate(n) == n > MAX_FAILED_ATTEMPTS
Locks(n) == n >= MAX_FAILED_ATTEMPTS

(* Mutant: the counter goes down. *)
WrongPasswordDown(r) ==
  /\ pc[r] = "check" /\ attempts < MaxAttempts
  /\ attempts' = attempts - 1
  /\ pc' = [pc EXCEPT ![r] = IF Locks(attempts - 1) THEN "lock" ELSE "idle"]
  /\ gap' = FALSE
  /\ UNCHANGED lock

(* { increment: 1 }, and the value after it.  An account without a         *)
(* password gets here too, after the dummy compare.                        *)
WrongPassword(r) ==
  /\ pc[r] = "check" /\ attempts < MaxAttempts
  /\ attempts' = attempts + 1
  /\ pc' = [pc EXCEPT ![r] = IF Locks(attempts + 1) THEN "lock" ELSE "idle"]
  /\ gap' = FALSE
  /\ UNCHANGED lock

LockAccount(r) ==
  /\ pc[r] = "lock"
  /\ lock' = "active"
  /\ pc' = [pc EXCEPT ![r] = "idle"]
  /\ UNCHANGED <<attempts, gap>>

(* The password was right and there is no second factor; or it is          *)
(* verifyChallenge that succeeds.                                          *)
LoginSucceeds(r) ==
  /\ pc[r] \in {"check", "verify"}
  /\ attempts' = 0 /\ lock' = "none"
  /\ pc' = [pc EXCEPT ![r] = "idle"]
  /\ UNCHANGED gap

(* The password was right; the counter waits for the second factor.        *)
LoginChallenged(r) ==
  /\ pc[r] = "check"
  /\ pc' = [pc EXCEPT ![r] = "verify"]
  /\ UNCHANGED <<attempts, lock, gap>>

(* Banned or suspended, a second factor that never comes, or a crash.      *)
Stop(r) ==
  /\ pc[r] \in {"check", "verify"} \/ (Crashes /\ pc[r] # "idle")
  /\ pc' = [pc EXCEPT ![r] = "idle"]
  /\ gap' = (gap \/ pc[r] = "lock")
  /\ UNCHANGED <<attempts, lock>>

(* LOCK_DURATION_MS have passed. *)
LockExpires ==
  /\ lock = "active"
  /\ lock' = "expired"
  /\ UNCHANGED <<attempts, pc, gap>>

Init ==
  /\ attempts = 0 /\ lock = "none" /\ gap = FALSE
  /\ pc = [r \in Requests |-> "idle"]

LoginStep(r) ==
  \/ LoginRead(r) \/ ResetExpiredLock(r) \/ WrongPassword(r) \/ LockAccount(r)
  \/ LoginSucceeds(r) \/ LoginChallenged(r) \/ Stop(r)

Next == LockExpires \/ \E r \in Requests : LoginStep(r)

Spec == Init /\ [][Next]_vars

-----------------------------------------------------------------------------
(* Properties *)

(* A counter at its maximum locks: an account with that many failures is   *)
(* locked, about to be, or a crash came between the increment and the      *)
(* lock; and then the next failure locks it.                               *)
CapLocks ==
  attempts >= MAX_FAILED_ATTEMPTS =>
    lock # "none" \/ gap \/ \E r \in Requests : pc[r] = "lock"
=============================================================================
