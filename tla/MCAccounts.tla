----------------------------- MODULE MCAccounts -----------------------------
(* Instances of Accounts for TLC, with a history of overlapping requests.  *)
EXTENDS Accounts, TLC

CONSTANT Families  \* the sets of endpoints that are called together

VARIABLES
  overlap,  \* what requests have done at the same time
  family    \* the endpoints called in this behaviour

Symmetry == Permutations(Users) \cup Permutations(Emails) \cup Permutations(Requests)

Administers(r) == req[r].pc \in {"count", "write"}

Linking(r) == req[r].pc = "link"

Overlapping ==
  {w \in {"admin", "link"} :
     \E q, r \in Requests :
       /\ q # r
       /\ w = "admin" => Administers(q) /\ Administers(r)
       /\ w = "link" => Linking(q) /\ Linking(r) /\ req[q].user = req[r].user}

(* Accounts with its history, whatever the endpoints called. *)
HistoryInit == Init /\ overlap = {}
HistoryNext == Next /\ overlap' = overlap \cup Overlapping'
HistorySpec == HistoryInit /\ [][HistoryNext]_<<vars, overlap>>

MCInit == HistoryInit /\ family \in Families
MCNext ==
  /\ HistoryNext
  /\ \A r \in Requests : req'[r].op \in family \cup {"none"}
  /\ UNCHANGED family
MCSpec == MCInit /\ [][MCNext]_<<vars, overlap, family>>

(* The last administrator stays, as long as no two demotions and deletions *)
(* overlapped: over demotion, deletion, restoration and erasure nothing    *)
(* takes the number of live administrators from one to none.               *)
LastAdminStays ==
  [][Admins # {} /\ "admin" \notin overlap' => Admins' # {}]_<<vars, overlap, family>>

(* The Google identity of an account is never replaced by another while    *)
(* the account lives, whatever else overlaps, as long as no two logins     *)
(* came to link the same account at once.                                  *)
GoogleKept ==
  [][\A u \in Users : acct[u].google # NoEmail /\ "link" \notin overlap =>
       acct'[u].google = acct[u].google \/ acct'[u].status = "gone"]_<<vars, overlap, family>>
=============================================================================
