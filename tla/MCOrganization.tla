--------------------------- MODULE MCOrganization ---------------------------
(* Instances of Organization for TLC, with a history of overlapping        *)
(* requests.                                                               *)
EXTENDS Organization, TLC

VARIABLES
  overlap,  \* what requests have done at the same time
  family    \* the endpoints called in this behaviour

Symmetry == Permutations(Users) \cup Permutations(Invites) \cup Permutations(Requests)

Transfers(r) == req[r].pc \in {"transfer", "transferWrite"}
ChangesMembers(r) == Transfers(r) \/ req[r].pc \in {"role", "roleWrite", "remove", "removeWrite"}
Erases(r) == req[r].pc = "eraseWrite"

(* A transfer that is about to promote u. *)
Promotes(r, u) == req[r].pc = "transferWrite" /\ req[r].target = u

(* What one request may have checked and another be about to change: two   *)
(* transfers; a transfer and a role change or removal of the member it     *)
(* promotes; an erasure and somebody's joining, or a transfer to the       *)
(* account it erases; two answers to one invitation.                       *)
MembersCross(q, r) ==
  \/ Transfers(q) /\ Transfers(r)
  \/ req[q].pc \in {"roleWrite", "removeWrite"} /\ Promotes(r, req[q].target)
ErasureCrosses(q, r) ==
  Erases(q) /\ (req[r].pc = "acceptWrite" \/ Promotes(r, req[q].by))
InvitationShared(q, r) == req[q].inv # NoInvite /\ req[q].inv = req[r].inv

Overlapping ==
  {w \in {"members", "erasure", "invitation"} :
     \E q, r \in Requests :
       /\ q # r
       /\ \/ w = "members" /\ MembersCross(q, r)
          \/ w = "erasure" /\ ErasureCrosses(q, r)
          \/ w = "invitation" /\ InvitationShared(q, r)}

(* Members come, change roles and go, by one invitation that is accepted. *)
MembersStep ==
  /\ \A r \in Requests : req'[r].pc \notin {"cancel", "cancelWrite", "declineWrite", "expireWrite"}
  /\ Cardinality({i \in Invites : inv'[i].status # "unused"}) <= 1
  /\ inv' # inv => req' # req

(* A member leaves and is invited again while the change of a role or a    *)
(* removal waits to write.                                                 *)
RejoinStep ==
  /\ \A r \in Requests : req'[r].pc \notin {"deleteOrg", "restoreOrg", "transfer", "cancel",
                                            "declineWrite", "expireWrite", "eraseWrite"}
  /\ \A i \in Invites : inv'[i].role = "MEMBER"
  /\ UNCHANGED user /\ inv' # inv => req' # req

(* Invitations are sent, answered, canceled, expire and are swept. *)
InvitesStep ==
  /\ \A r \in Requests : req'[r].pc \notin {"role", "remove", "transfer", "eraseWrite"}
  /\ UNCHANGED user

(* Organization with its history, whatever the endpoints called. *)
HistoryInit == Init /\ overlap = {}
HistoryNext == Next /\ overlap' = overlap \cup Overlapping'
HistorySpec == HistoryInit /\ [][HistoryNext]_<<vars, overlap>>

MCInit == HistoryInit /\ family \in {"members", "rejoin", "invites"}
MCNext ==
  /\ HistoryNext
  /\ UNCHANGED family
  /\ family = "members" => MembersStep
  /\ family = "rejoin" => RejoinStep
  /\ family = "invites" => InvitesStep
MCSpec == MCInit /\ [][MCNext]_<<vars, overlap, family>>

(* An organization has exactly one OWNER, the user of its ownerId, as long *)
(* as no transfer crossed another one, nor the role change or removal of   *)
(* the member it promotes.                                                 *)
OneOwnerSerial == "members" \notin overlap => OneOwner

(* Erasing an account takes no organization away from its other members,   *)
(* as long as nobody was joining and nothing was being handed to the       *)
(* account meanwhile, and no changes of members crossed before (they may   *)
(* leave an ownerId without a membership).                                 *)
OthersKeepOrg == overlap \cap {"members", "erasure"} = {} => ~lost

(* An answered invitation keeps its answer, as long as no two requests     *)
(* held one invitation at the same time.                                   *)
TerminalStays ==
  [][\A i \in Invites : inv[i].status \in Terminal /\ "invitation" \notin overlap =>
       inv'[i].status \in {inv[i].status, "gone"}]_<<vars, overlap, family>>
=============================================================================
