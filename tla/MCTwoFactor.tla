---------------------------- MODULE MCTwoFactor -----------------------------
(* Instances of TwoFactor for TLC, with a history of overlapping requests. *)
EXTENDS TwoFactor, TLC

VARIABLE overlap  \* what requests have done at the same time

Symmetry == Permutations(Challenges) \cup Permutations(Requests) \cup Permutations(Codes)

(* Request r has read the account and has yet to write what it decided. *)
Deciding(r) == req[r].pc \in {"setup", "enable", "disable", "claim", "consume", "stamp"}
Counting(r) == req[r].pc = "count"

Overlapping ==
  {w \in {"account", "challenge"} :
     \E q, r \in Requests :
       /\ q # r
       /\ \/ w = "account" /\ Deciding(q) /\ Deciding(r)
          \/ w = "challenge" /\ Counting(q) /\ Counting(r) /\ req[q].ch = req[r].ch}

MCInit == Init /\ overlap = {}
MCNext == Next /\ overlap' = overlap \cup Overlapping'
MCSpec == MCInit /\ [][MCNext]_<<vars, overlap>>

(* Wrong codes get past the cap by one per further request in flight at    *)
(* most, and the cap is exact as long as no two of them were compared with *)
(* one challenge at the same time.                                         *)
AttemptsCapped ==
  /\ AttemptsOvershoot
  /\ "challenge" \notin overlap =>
       \A c \in Challenges : ch[c].attempts <= MAX_CHALLENGE_ATTEMPTS

(* Backup codes, over disabling and enabling the factor again too, and the *)
(* code of a time step open one session each, as long as no two requests   *)
(* were between the read and the write of the account.                     *)
CodesSpentOnce ==
  "account" \notin overlap => BackupCodeSingleUse /\ spent.twice \cap Totp = {}

(* Under the same condition, while the factor is on, the stored secret is  *)
(* the one whose code enable has checked.                                  *)
EnabledSecretVerified ==
  "account" \notin overlap /\ acct.enabled =>
    acct.secret = acct.verified /\ acct.secret # 0
=============================================================================
