-------------------------- MODULE LoginChallenge ---------------------------
(***************************************************************************)
(* What the second step of a login promises: a challenge is created once,  *)
(* is claimed at most once, by a right code, and the claim is exchanged    *)
(* for one session or for none.  The codes it is tried with, right and     *)
(* wrong, are bounded, and nothing opens it again.                         *)
(***************************************************************************)
EXTENDS Naturals

CONSTANTS Challenges, MaxGuesses

VARIABLES
  phase,     \* where each challenge is
  guesses,   \* codes it was tried with, the right one included
  sessions   \* sessions it was exchanged for

vars == <<phase, guesses, sessions>>

Init ==
  /\ phase = [c \in Challenges |-> "none"]
  /\ guesses = [c \in Challenges |-> 0]
  /\ sessions = [c \in Challenges |-> 0]

Moves(c, from, to) ==
  /\ phase[c] = from
  /\ phase' = [phase EXCEPT ![c] = to]

Tries(c) ==
  /\ guesses[c] < MaxGuesses
  /\ guesses' = [guesses EXCEPT ![c] = @ + 1]

Create(c) == Moves(c, "none", "open") /\ UNCHANGED <<guesses, sessions>>

(* A wrong code may be counted late, after the right one was accepted.     *)
Wrong(c) == phase[c] \notin {"none", "void"} /\ Tries(c) /\ UNCHANGED <<phase, sessions>>

Claim(c) == Moves(c, "open", "claimed") /\ Tries(c) /\ UNCHANGED sessions

Grant(c) ==
  /\ Moves(c, "claimed", "granted")
  /\ sessions' = [sessions EXCEPT ![c] = @ + 1]
  /\ UNCHANGED guesses

(* The claim is lost with the request that held it. *)
Abandon(c) == Moves(c, "claimed", "spent") /\ UNCHANGED <<guesses, sessions>>

(* A sweep takes several open challenges at once. *)
Void ==
  /\ \E S \in SUBSET {c \in Challenges : phase[c] = "open"} :
       phase' = [c \in Challenges |-> IF c \in S THEN "void" ELSE phase[c]]
  /\ UNCHANGED <<guesses, sessions>>

Next ==
  \/ Void
  \/ \E c \in Challenges : Create(c) \/ Wrong(c) \/ Claim(c) \/ Grant(c) \/ Abandon(c)

Spec == Init /\ [][Next]_vars
=============================================================================
