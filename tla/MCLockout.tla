----------------------------- MODULE MCLockout ------------------------------
(* Instances of Lockout for TLC, with histories of overlap and crashes.    *)
EXTENDS Lockout, TLC

VARIABLES
  overlap,  \* two logins were between their reads and their last writes
  crashed   \* a login stopped between the increment and the lock

Symmetry == Permutations(Requests)

MCInit == Init /\ overlap = FALSE /\ crashed = FALSE
MCNext ==
  /\ Next
  /\ overlap' = (overlap \/ \E q, r \in Requests : q # r /\ pc'[q] # "idle" /\ pc'[r] # "idle")
  /\ crashed' = (crashed \/ gap')
MCSpec == MCInit /\ [][MCNext]_<<vars, overlap, crashed>>

(* Concurrent logins get past the maximum by one failure per further       *)
(* request in flight at most, unless a crash lost a lock.                  *)
Overshoot ==
  ~crashed =>
    attempts + Cardinality({r \in Requests : pc[r] = "check"})
      < MAX_FAILED_ATTEMPTS + Cardinality(Requests)

(* A locked account has failed MAX_FAILED_ATTEMPTS times since its last    *)
(* successful login, as long as logins did not overlap.                    *)
LockJustified == lock # "none" /\ ~overlap => attempts >= MAX_FAILED_ATTEMPTS

(* As long as logins did not overlap, a lock that has not expired stays:   *)
(* not even the login that set it, or one that comes later, lifts it.      *)
LockHolds == [][lock = "active" /\ ~overlap => lock' # "none"]_<<vars, overlap, crashed>>
=============================================================================
