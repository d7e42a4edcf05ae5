--------------------------- MODULE LockoutProofs ----------------------------
(***************************************************************************)
(* Proofs about module Lockout and the histories of MCLockout, for any     *)
(* number of concurrent logins and any maximum.  TypeOK and CapLocks are   *)
(* inductive together; what holds as long as logins do not overlap, or     *)
(* none crashes, has invariants of its own over them.                      *)
(***************************************************************************)
EXTENDS MCLockout, FiniteSetTheorems, TLAPS

Inv == TypeOK /\ CapLocks

LEMMA InitInv == Init => Inv
<1> SUFFICES ASSUME Init PROVE Inv
  OBVIOUS
<1>1. TypeOK
  BY DEF Init, TypeOK
<1>2. CapLocks
  <2>1. ~(0 >= MAX_FAILED_ATTEMPTS)
    BY LockoutConstants
  <2> QED BY <2>1 DEF Init, CapLocks
<1> QED BY <1>1, <1>2 DEF Inv

(* One step per operation.  Only LockExpires and the two resets change the *)
(* lock; only Stop takes a request away from "lock" without writing it.    *)
LEMMA StepInv == Inv /\ [Next]_vars => Inv'
<1> SUFFICES ASSUME Inv, [Next]_vars PROVE Inv'
  OBVIOUS
<1> USE DEF Inv
<1>1. CASE LockExpires
  BY <1>1 DEF LockExpires, TypeOK, CapLocks
<1>2. ASSUME NEW r \in Requests, LoginRead(r) PROVE Inv'
  BY <1>2 DEF LoginRead, TypeOK, CapLocks
<1>3. ASSUME NEW r \in Requests, ResetExpiredLock(r) PROVE Inv'
  <2>1. TypeOK'
    BY <1>3 DEF ResetExpiredLock, TypeOK
  <2>2. attempts' = 0 /\ ~(0 >= MAX_FAILED_ATTEMPTS)
    BY <1>3, LockoutConstants DEF ResetExpiredLock
  <2> QED BY <2>1, <2>2 DEF CapLocks
<1>4. ASSUME NEW r \in Requests, WrongPassword(r) PROVE Inv'
  <2>1. TypeOK'
    <3>1. attempts' \in Nat /\ lock' \in {"none", "active", "expired"}
      BY <1>4 DEF WrongPassword, TypeOK
    <3>2. pc' \in [Requests -> {"idle", "reset", "check", "lock", "verify"}]
      BY <1>4 DEF WrongPassword, TypeOK
    <3>3. gap' \in BOOLEAN
      BY <1>4 DEF WrongPassword
    <3> QED BY <3>1, <3>2, <3>3 DEF TypeOK
  <2>2. CASE Locks(attempts + 1)
    <3>1. pc'[r] = "lock"
      BY <1>4, <2>2 DEF WrongPassword, TypeOK
    <3> QED BY <2>1, <3>1 DEF CapLocks
  <2>3. CASE ~Locks(attempts + 1)
    BY <1>4, <2>1, <2>3, LockoutConstants DEF WrongPassword, Locks, CapLocks, TypeOK
  <2> QED BY <2>2, <2>3
<1>5. ASSUME NEW r \in Requests, LockAccount(r) PROVE Inv'
  BY <1>5 DEF LockAccount, TypeOK, CapLocks
<1>6. ASSUME NEW r \in Requests, LoginSucceeds(r) PROVE Inv'
  <2>1. TypeOK'
    BY <1>6 DEF LoginSucceeds, TypeOK
  <2>2. attempts' = 0 /\ ~(0 >= MAX_FAILED_ATTEMPTS)
    BY <1>6, LockoutConstants DEF LoginSucceeds
  <2> QED BY <2>1, <2>2 DEF CapLocks
<1>7. ASSUME NEW r \in Requests, LoginChallenged(r) PROVE Inv'
  BY <1>7 DEF LoginChallenged, TypeOK, CapLocks
<1>8. ASSUME NEW r \in Requests, Stop(r) PROVE Inv'
  <2>1. CASE pc[r] = "lock"
    BY <1>8, <2>1 DEF Stop, TypeOK, CapLocks
  <2>2. CASE pc[r] # "lock"
    <3>1. \A q \in Requests : pc[q] = "lock" => pc'[q] = "lock"
      BY <1>8, <2>2 DEF Stop, TypeOK
    <3>2. gap' = gap /\ attempts' = attempts /\ lock' = lock
      BY <1>8, <2>2 DEF Stop, TypeOK
    <3>3. pc' \in [Requests -> {"idle", "reset", "check", "lock", "verify"}]
      BY <1>8 DEF Stop, TypeOK
    <3> QED BY <3>1, <3>2, <3>3 DEF TypeOK, CapLocks
  <2> QED BY <2>1, <2>2
<1>9. CASE UNCHANGED vars
  BY <1>9 DEF vars, TypeOK, CapLocks
<1> QED
  BY <1>1, <1>2, <1>3, <1>4, <1>5, <1>6, <1>7, <1>8, <1>9 DEF Next, LoginStep

(* The types of the counter, the lock and the requests are kept.           *)
THEOREM TypeCorrect == Spec => []TypeOK
<1>1. Inv => TypeOK
  BY DEF Inv
<1> QED BY <1>1, InitInv, StepInv, PTL DEF Spec

(* A login that brings failedLoginAttempts to the maximum locks the        *)
(* account, or crashed before it could, whatever else runs.                *)
THEOREM CapLocksTheorem == Spec => []CapLocks
<1>1. Inv => CapLocks
  BY DEF Inv
<1> QED BY <1>1, InitInv, StepInv, PTL DEF Spec

-----------------------------------------------------------------------------
(* The overshoot.  A failure at or beyond the maximum leaves its request   *)
(* at "lock", and a lock stops further logins; so, unless a crash lost     *)
(* one, the requests at "lock" pay for what the counter has beyond the     *)
(* maximum as long as there is no lock.                                    *)

Place == {"idle", "reset", "check", "lock", "verify"}
At(pcs, v) == {r \in Requests : pcs[r] = v}
Checking == Cardinality(At(pc, "check"))
Locking == Cardinality(At(pc, "lock"))

Late ==
  ~crashed =>
    /\ ~gap
    /\ lock = "none" => attempts < MAX_FAILED_ATTEMPTS + Locking
    /\ attempts + Checking < MAX_FAILED_ATTEMPTS + Cardinality(Requests)

(* As long as logins did not overlap there is at most one, and it is not   *)
(* past its password check while the account is locked.                    *)
Alone ==
  ~overlap =>
    /\ \A q, r \in Requests : q # r => pc[q] = "idle" \/ pc[r] = "idle"
    /\ \A r \in Requests :
         /\ pc[r] = "reset" => lock = "expired"
         /\ pc[r] \in {"check", "verify", "lock"} => lock = "none"
         /\ pc[r] = "lock" => attempts >= MAX_FAILED_ATTEMPTS
    /\ lock # "none" => attempts >= MAX_FAILED_ATTEMPTS

LEMMA AtFinite ==
  ASSUME NEW pcs, NEW v
  PROVE  /\ IsFiniteSet(At(pcs, v))
         /\ Cardinality(At(pcs, v)) \in Nat
         /\ Cardinality(At(pcs, v)) <= Cardinality(Requests)
<1>1. At(pcs, v) \in SUBSET Requests
  BY DEF At
<1> QED BY <1>1, FS_Subset, FS_CardinalityType, LockoutConstants

(* Two places of the code share the requests there are. *)
LEMMA AtDisjoint ==
  ASSUME NEW pcs, NEW u, NEW v, u # v
  PROVE  Cardinality(At(pcs, u)) + Cardinality(At(pcs, v)) <= Cardinality(Requests)
<1> DEFINE A == At(pcs, u)
           B == At(pcs, v)
<1>1. IsFiniteSet(A) /\ IsFiniteSet(B) /\ Cardinality(A) \in Nat /\ Cardinality(B) \in Nat
  BY AtFinite
<1>2. A \cap B = {}
  BY DEF At
<1>3. A \cup B \in SUBSET Requests
  BY DEF At
<1> HIDE DEF A, B
<1>4. Cardinality(A \cup B) = Cardinality(A) + Cardinality(B)
  BY <1>1, <1>2, FS_Union, FS_EmptySet
<1>5. Cardinality(A \cup B) <= Cardinality(Requests)
  BY <1>3, FS_Subset, LockoutConstants
<1> QED BY <1>4, <1>5 DEF A, B

(* A request that moves from u to w leaves one place and enters the other. *)
LEMMA Moved ==
  ASSUME NEW pcs \in [Requests -> Place], NEW new \in [Requests -> Place],
         NEW r \in Requests, NEW w \in Place, NEW v \in Place,
         new[r] = w, \A q \in Requests : q # r => new[q] = pcs[q]
  PROVE  Cardinality(At(new, v)) =
           IF pcs[r] = w THEN Cardinality(At(pcs, v))
           ELSE IF v = w THEN Cardinality(At(pcs, v)) + 1
           ELSE IF v = pcs[r] THEN Cardinality(At(pcs, v)) - 1
           ELSE Cardinality(At(pcs, v))
<1>1. CASE pcs[r] = w
  <2>1. At(new, v) = At(pcs, v)
    BY <1>1 DEF At
  <2> QED BY <1>1, <2>1
<1>2. CASE pcs[r] # w /\ v = w
  <2>1. At(new, v) = At(pcs, v) \cup {r} /\ r \notin At(pcs, v)
    BY <1>2 DEF At
  <2>2. Cardinality(At(pcs, v) \cup {r}) = Cardinality(At(pcs, v)) + 1
    BY <2>1, AtFinite, FS_AddElement
  <2> QED BY <1>2, <2>1, <2>2
<1>3. CASE pcs[r] # w /\ v = pcs[r] /\ v # w
  <2>1. At(new, v) = At(pcs, v) \ {r} /\ r \in At(pcs, v)
    BY <1>3 DEF At
  <2>2. Cardinality(At(pcs, v) \ {r}) = Cardinality(At(pcs, v)) - 1
    BY <2>1, AtFinite, FS_RemoveElement
  <2> QED BY <1>3, <2>1, <2>2
<1>4. CASE pcs[r] # w /\ v # pcs[r] /\ v # w
  <2>1. At(new, v) = At(pcs, v)
    BY <1>4 DEF At
  <2> QED BY <1>4, <2>1
<1> QED BY <1>1, <1>2, <1>3, <1>4

(* The actions on the counter, told by what they do to the counts: n and   *)
(* m are the requests and the maximum, a, c and k the counter and the two  *)
(* counts after the step.                                                  *)
LEMMA LateStep ==
  ASSUME TypeOK, TypeOK', Late, MCNext
  PROVE  Late'
<1> SUFFICES ASSUME ~crashed'
             PROVE  /\ ~gap'
                    /\ lock' = "none" => attempts' < MAX_FAILED_ATTEMPTS + Locking'
                    /\ attempts' + Checking' < MAX_FAILED_ATTEMPTS + Cardinality(Requests)
  BY DEF Late
<1>1. ~crashed /\ ~gap'
  BY DEF MCNext
<1>2. PICK n \in Nat, m \in Nat : n = Cardinality(Requests) /\ m = MAX_FAILED_ATTEMPTS /\ m >= 1
  BY FS_CardinalityType, LockoutConstants
<1>3. PICK c0 \in Nat, k0 \in Nat : c0 = Checking /\ k0 = Locking /\ c0 + k0 <= n
  BY <1>2, AtFinite, AtDisjoint DEF Checking, Locking
<1>4. PICK c \in Nat, k \in Nat : c = Checking' /\ k = Locking' /\ c + k <= n
  BY <1>2, AtFinite, AtDisjoint DEF Checking, Locking
<1>b. c + k <= n /\ c0 + k0 <= n /\ m >= 1
  BY <1>2, <1>3, <1>4
<1>5. PICK a0 \in Nat, a \in Nat : a0 = attempts /\ a = attempts'
  BY DEF TypeOK
<1>6. (lock = "none" => a0 < m + k0) /\ a0 + c0 < m + n
  BY <1>1, <1>2, <1>3, <1>5 DEF Late
<1>7. pc \in [Requests -> Place]
  BY DEF TypeOK, Place
<1>8. ASSUME NEW r \in Requests, NEW w \in Place, pc' = [pc EXCEPT ![r] = w]
      PROVE  /\ c = IF pc[r] = w THEN c0
                    ELSE IF w = "check" THEN c0 + 1
                    ELSE IF pc[r] = "check" THEN c0 - 1
                    ELSE c0
             /\ k = IF pc[r] = w THEN k0
                    ELSE IF w = "lock" THEN k0 + 1
                    ELSE IF pc[r] = "lock" THEN k0 - 1
                    ELSE k0
  <2>1. "check" \in Place /\ "lock" \in Place
    BY DEF Place
  <2>2. PICK old, new : old = pc /\ new = pc'
    OBVIOUS
  <2>3. /\ old \in [Requests -> Place] /\ new \in [Requests -> Place] /\ new[r] = w
        /\ \A q \in Requests : q # r => new[q] = old[q]
    BY <1>7, <1>8, <2>2
  <2>4. /\ c0 = Cardinality(At(old, "check")) /\ k0 = Cardinality(At(old, "lock"))
        /\ c = Cardinality(At(new, "check")) /\ k = Cardinality(At(new, "lock"))
    BY <1>3, <1>4, <2>2 DEF Checking, Locking
  <2>m. ASSUME NEW v \in Place
        PROVE  Cardinality(At(new, v)) =
                 IF old[r] = w THEN Cardinality(At(old, v))
                 ELSE IF v = w THEN Cardinality(At(old, v)) + 1
                 ELSE IF v = old[r] THEN Cardinality(At(old, v)) - 1
                 ELSE Cardinality(At(old, v))
    BY <2>3, Moved
  <2>5. c = IF old[r] = w THEN c0
            ELSE IF "check" = w THEN c0 + 1
            ELSE IF "check" = old[r] THEN c0 - 1
            ELSE c0
    BY <2>1, <2>4, <2>m
  <2>6. k = IF old[r] = w THEN k0
            ELSE IF "lock" = w THEN k0 + 1
            ELSE IF "lock" = old[r] THEN k0 - 1
            ELSE k0
    BY <2>1, <2>4, <2>m
  <2> QED BY <2>2, <2>5, <2>6
<1>9. (lock' = "none" => a < m + k) /\ a + c < m + n
  <2>1. CASE LockExpires
    <3>1. a = a0 /\ c = c0 /\ lock' # "none"
      BY <1>3, <1>4, <1>5, <2>1 DEF LockExpires, Checking
    <3> QED BY <1>6, <3>1
  <2>2. ASSUME NEW r \in Requests, LoginStep(r)
        PROVE  (lock' = "none" => a < m + k) /\ a + c < m + n
    <3>1. CASE LoginRead(r) /\ lock = "none"
      <4>1. c = c0 + 1 /\ k = k0
        BY <1>8, <3>1 DEF LoginRead, Place
      <4>2. a = a0
        BY <1>5, <3>1 DEF LoginRead
      <4> QED BY <1>b, <1>6, <3>1, <4>1, <4>2
    <3>2. CASE LoginRead(r) /\ lock # "none"
      <4>1. pc' = [pc EXCEPT ![r] = "reset"] /\ pc[r] = "idle"
        BY <3>2 DEF LoginRead, TypeOK
      <4>2. c = c0
        BY <1>8, <4>1 DEF Place
      <4>3. a = a0 /\ lock' # "none"
        BY <1>5, <3>2 DEF LoginRead
      <4> QED BY <1>6, <4>2, <4>3
    <3>3. CASE ResetExpiredLock(r) \/ LoginSucceeds(r)
      <4>1. a = 0
        BY <1>5, <3>3 DEF ResetExpiredLock, LoginSucceeds
      <4>2. a < m + k /\ a + c < m + n
        BY <1>b, <4>1
      <4> QED BY <4>2
    <3>4. CASE WrongPassword(r)
      <4>1. a = a0 + 1 /\ lock' = lock /\ pc[r] = "check"
        BY <1>5, <3>4 DEF WrongPassword
      <4>2. CASE Locks(attempts + 1)
        <5>1. c = c0 - 1 /\ k = k0 + 1
          BY <1>8, <3>4, <4>2 DEF WrongPassword, Place
        <5> QED BY <1>6, <4>1, <5>1
      <4>3. CASE ~Locks(attempts + 1)
        <5>1. c = c0 - 1 /\ k = k0
          BY <1>8, <3>4, <4>3 DEF WrongPassword, Place
        <5>2. a < m
          BY <1>2, <1>5, <4>1, <4>3 DEF Locks
        <5> QED BY <1>6, <4>1, <5>1, <5>2
      <4> QED BY <4>2, <4>3
    <3>5. CASE LockAccount(r)
      <4>1. c = c0
        BY <1>8, <3>5 DEF LockAccount, Place
      <4>2. a = a0 /\ lock' # "none"
        BY <1>5, <3>5 DEF LockAccount
      <4> QED BY <1>6, <4>1, <4>2
    <3>6. CASE LoginChallenged(r)
      <4>1. c = c0 - 1 /\ k = k0
        BY <1>8, <3>6 DEF LoginChallenged, Place
      <4>2. a = a0 /\ lock' = lock
        BY <1>5, <3>6 DEF LoginChallenged
      <4> QED BY <1>6, <4>1, <4>2
    <3>7. CASE Stop(r)
      <4>1. pc[r] # "lock" /\ pc[r] # "idle" /\ pc' = [pc EXCEPT ![r] = "idle"]
        BY <1>1, <3>7 DEF Stop
      <4>2. (c = c0 \/ c = c0 - 1) /\ k = k0
        BY <1>8, <4>1 DEF Place
      <4>3. a = a0 /\ lock' = lock
        BY <1>5, <3>7 DEF Stop
      <4> QED BY <1>6, <4>2, <4>3
    <3> QED BY <2>2, <3>1, <3>2, <3>3, <3>4, <3>5, <3>6, <3>7 DEF LoginStep
  <2> QED BY <2>1, <2>2 DEF MCNext, Next
<1> QED BY <1>1, <1>2, <1>4, <1>5, <1>9

(* Without an overlap, the request of a step is the only one. *)
LEMMA AloneStep ==
  ASSUME TypeOK, Alone, MCNext
  PROVE  Alone'
<1> SUFFICES ASSUME ~overlap' PROVE Alone'
  BY DEF Alone
<1>1. ~overlap /\ \A q, r \in Requests : q # r => pc'[q] = "idle" \/ pc'[r] = "idle"
  BY DEF MCNext
<1>2. /\ \A q, r \in Requests : q # r => pc[q] = "idle" \/ pc[r] = "idle"
      /\ \A r \in Requests :
           /\ pc[r] = "reset" => lock = "expired"
           /\ pc[r] \in {"check", "verify", "lock"} => lock = "none"
           /\ pc[r] = "lock" => attempts >= MAX_FAILED_ATTEMPTS
      /\ lock # "none" => attempts >= MAX_FAILED_ATTEMPTS
  BY <1>1 DEF Alone
<1>3. CASE LockExpires
  BY <1>1, <1>2, <1>3 DEF LockExpires, Alone
<1>4. ASSUME NEW r \in Requests, LoginStep(r) PROVE Alone'
  <2>1. \A q \in Requests : q # r => pc'[q] = pc[q]
    BY <1>4 DEF LoginStep, LoginRead, ResetExpiredLock, WrongPassword, LockAccount,
       LoginSucceeds, LoginChallenged, Stop, TypeOK
  <2>2. CASE pc[r] = "idle"
    <3>1. LoginRead(r)
      BY <1>4, <2>2 DEF LoginStep, LoginRead, ResetExpiredLock, WrongPassword, LockAccount,
         LoginSucceeds, LoginChallenged, Stop
    <3>2. pc'[r] = IF lock = "expired" THEN "reset" ELSE "check"
      BY <3>1 DEF LoginRead, TypeOK
    <3>3. lock' = lock /\ attempts' = attempts /\ lock # "active"
      BY <3>1 DEF LoginRead
    <3>4. \A q \in Requests : q # r => pc'[q] = "idle"
      BY <1>1, <3>2
    <3> QED BY <1>1, <1>2, <3>2, <3>3, <3>4 DEF Alone, TypeOK
  <2>3. CASE pc[r] # "idle"
    <3>1. \A q \in Requests : q # r => pc'[q] = "idle"
      BY <1>2, <2>1, <2>3
    <3>2. ASSUME /\ pc'[r] = "reset" => lock' = "expired"
                 /\ pc'[r] \in {"check", "verify", "lock"} => lock' = "none"
                 /\ pc'[r] = "lock" => attempts' >= MAX_FAILED_ATTEMPTS
                 /\ lock' # "none" => attempts' >= MAX_FAILED_ATTEMPTS
          PROVE  Alone'
      BY <1>1, <3>1, <3>2 DEF Alone
    <3>3. CASE ResetExpiredLock(r)
      BY <3>2, <3>3 DEF ResetExpiredLock, TypeOK
    <3>4. CASE WrongPassword(r)
      <4>1. lock = "none" /\ lock' = "none" /\ attempts' = attempts + 1
        BY <1>2, <3>4 DEF WrongPassword
      <4>2. pc'[r] = IF Locks(attempts + 1) THEN "lock" ELSE "idle"
        BY <3>4 DEF WrongPassword, TypeOK
      <4> QED BY <3>2, <4>1, <4>2 DEF Locks
    <3>5. CASE LockAccount(r)
      <4>1. attempts' >= MAX_FAILED_ATTEMPTS /\ pc'[r] = "idle"
        BY <1>2, <3>5 DEF LockAccount, TypeOK
      <4> QED BY <3>2, <4>1
    <3>6. CASE LoginSucceeds(r)
      BY <3>2, <3>6 DEF LoginSucceeds, TypeOK
    <3>7. CASE LoginChallenged(r)
      <4>1. lock' = "none" /\ pc'[r] = "verify"
        BY <1>2, <3>7 DEF LoginChallenged, TypeOK
      <4> QED BY <3>2, <4>1
    <3>8. CASE Stop(r)
      <4>1. lock' = lock /\ attempts' = attempts /\ pc'[r] = "idle"
        BY <3>8 DEF Stop, TypeOK
      <4> QED BY <1>2, <3>2, <4>1
    <3> QED BY <1>4, <2>3, <3>3, <3>4, <3>5, <3>6, <3>7, <3>8 DEF LoginStep, LoginRead
  <2> QED BY <2>2, <2>3
<1> QED BY <1>3, <1>4 DEF MCNext, Next

-----------------------------------------------------------------------------

MCInv == Inv /\ Late /\ Alone

LEMMA MCInitInv == MCInit => MCInv
<1> SUFFICES ASSUME MCInit PROVE MCInv
  OBVIOUS
<1>1. Inv /\ \A r \in Requests : pc[r] = "idle"
  BY InitInv DEF MCInit, Init
<1>2. attempts = 0 /\ lock = "none" /\ ~gap /\ 0 < MAX_FAILED_ATTEMPTS
  BY LockoutConstants DEF MCInit, Init
<1>3. Late
  <2>1. PICK n \in Nat, c \in Nat, k \in Nat, m \in Nat :
          /\ n = Cardinality(Requests) /\ c = Checking /\ k = Locking
          /\ m = MAX_FAILED_ATTEMPTS /\ c <= n /\ m >= 1
    BY AtFinite, FS_CardinalityType, LockoutConstants DEF Checking, Locking
  <2>2. 0 < m + k /\ 0 + c < m + n
    BY <2>1
  <2> QED BY <1>2, <2>1, <2>2 DEF Late
<1>4. Alone
  BY <1>1, <1>2 DEF Alone
<1> QED BY <1>1, <1>3, <1>4 DEF MCInv

LEMMA MCStepInv == MCInv /\ [MCNext]_<<vars, overlap, crashed>> => MCInv'
<1> SUFFICES ASSUME MCInv, [MCNext]_<<vars, overlap, crashed>> PROVE MCInv'
  OBVIOUS
<1>1. CASE MCNext
  <2>1. Inv'
    BY <1>1, StepInv DEF MCInv, MCNext
  <2>2. Late'
    BY <1>1, <2>1, LateStep DEF MCInv, Inv
  <2>3. Alone'
    BY <1>1, AloneStep DEF MCInv, Inv
  <2> QED BY <2>1, <2>2, <2>3 DEF MCInv
<1>2. CASE UNCHANGED <<vars, overlap, crashed>>
  <2>1. Inv'
    BY <1>2, StepInv DEF MCInv
  <2>2. Late' /\ Alone'
    BY <1>2 DEF MCInv, Late, Alone, vars, Checking, Locking
  <2> QED BY <2>1, <2>2 DEF MCInv
<1> QED BY <1>1, <1>2

LEMMA MCInvariance == MCSpec => []MCInv
BY MCInitInv, MCStepInv, PTL DEF MCSpec

(* However many logins check their passwords at once, the counter passes   *)
(* the maximum by less than their number, unless a crash lost a lock.      *)
THEOREM OvershootTheorem == MCSpec => []Overshoot
<1>1. MCInv => Overshoot
  BY DEF MCInv, Late, Overshoot, Checking, At
<1> QED BY <1>1, MCInvariance, PTL

(* Logins that do not overlap lock an account only after as many failures  *)
(* as the maximum, and none of them while it is locked.                    *)
THEOREM LockJustifiedTheorem == MCSpec => []LockJustified
<1>1. MCInv => LockJustified
  BY DEF MCInv, Alone, LockJustified
<1> QED BY <1>1, MCInvariance, PTL

(* Logins that do not overlap do not lift a lock that has not expired.     *)
THEOREM LockHoldsTheorem == MCSpec => LockHolds
<1>1. ASSUME MCInv, MCNext, lock = "active", ~overlap
      PROVE  lock' # "none"
  <2>1. \A r \in Requests : pc[r] = "idle"
    BY <1>1 DEF MCInv, Inv, TypeOK, Alone
  <2>2. CASE LockExpires
    BY <2>2 DEF LockExpires
  <2>3. ASSUME NEW r \in Requests, LoginStep(r) PROVE lock' # "none"
    BY <1>1, <2>1, <2>3 DEF LoginStep, LoginRead, ResetExpiredLock, WrongPassword,
       LockAccount, LoginSucceeds, LoginChallenged, Stop
  <2> QED BY <1>1, <2>2, <2>3 DEF MCNext, Next
<1>2. MCInv /\ [MCNext]_<<vars, overlap, crashed>>
        => [lock = "active" /\ ~overlap => lock' # "none"]_<<vars, overlap, crashed>>
  BY <1>1
<1> QED BY <1>2, MCInvariance, PTL DEF MCSpec, LockHolds
=============================================================================
