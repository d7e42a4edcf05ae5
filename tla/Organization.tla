---------------------------- MODULE Organization ----------------------------
(***************************************************************************)
(* One organization: its owner, members and invitations, and the deletion  *)
(* of the accounts behind them.                                            *)
(*                                                                         *)
(* A request is authorized (authenticate, requireTenant, requireOrgRole),  *)
(* reads the rows its checks need, and writes.  Each is an await of its    *)
(* own, and a write is keyed by id: it looks at nothing that was checked   *)
(* before.  A user stands for an email address too.                        *)
(***************************************************************************)
EXTENDS Naturals, FiniteSets

CONSTANTS
  Users, NoUser,
  Invites, NoInvite,  \* organization_invitations rows that can be created
  Requests,           \* request slots
  Ops                 \* endpoints called in this instance

(* The roles requireOrgRole lets through, by endpoint. *)
Allowed == [role |-> {"OWNER", "ADMIN"}, remove |-> {"OWNER", "ADMIN"},
            invite |-> {"OWNER", "ADMIN"}, cancel |-> {"OWNER", "ADMIN"},
            transfer |-> {"OWNER"}, deleteOrg |-> {"OWNER"}, restoreOrg |-> {"OWNER"}]

AllOps == DOMAIN Allowed \cup {"accept", "decline", "expire", "erase", "admin", "cleanup"}

ASSUME OrganizationConstants ==
  /\ NoUser \notin Users /\ NoInvite \notin Invites
  /\ Ops \subseteq AllOps
  /\ IsFiniteSet(Users)

VARIABLES
  user,     \* users: live, soft deleted, or gone
  org,      \* the organizations row
  member,   \* organization_members rows
  inv,      \* organization_invitations rows
  req,      \* requests in flight
  lost      \* history: an erased account took an organization of others along

vars == <<user, org, member, inv, req, lost>>

-----------------------------------------------------------------------------
(* Types *)

Role == {"OWNER", "ADMIN", "MEMBER"}
NotMember == [role |-> "none", id |-> 0]
Member == {NotMember} \cup [role : Role, id : Nat \ {0}]

Terminal == {"ACCEPTED", "DECLINED", "EXPIRED", "CANCELED"}
Invitation == [status : {"unused", "PENDING", "gone"} \cup Terminal,
               invitee : Users \cup {NoUser}, by : Users \cup {NoUser},
               role : {"ADMIN", "MEMBER"}, expired : BOOLEAN]

(* as: the role requireTenant saw; id: the membership row that was read. *)
Request == [pc : DOMAIN Allowed \cup
                 {"idle", "roleWrite", "removeWrite", "transferWrite", "inviteRead",
                  "inviteWrite", "cancelWrite", "expireWrite", "acceptRead",
                  "acceptNote", "acceptWrite", "declineWrite", "eraseWrite"},
            by : Users \cup {NoUser}, as : Role \cup {"none"},
            target : Users \cup {NoUser}, id : Nat,
            inv : Invites \cup {NoInvite}, role : {"ADMIN", "MEMBER"}]
Idle == [pc |-> "idle", by |-> NoUser, as |-> "none", target |-> NoUser, id |-> 0,
         inv |-> NoInvite, role |-> "MEMBER"]

(* seq numbers the membership rows. *)
TypeOK ==
  /\ user \in [Users -> {"live", "deleted", "gone"}]
  /\ org \in [status : {"none", "live", "deleted", "gone"},
              owner : Users \cup {NoUser}, seq : Nat]
  /\ member \in [Users -> Member]
  /\ inv \in [Invites -> Invitation]
  /\ req \in [Requests -> Request]
  /\ lost \in BOOLEAN

OrgExists == org.status \in {"live", "deleted"}
IsMember(u) == member[u].role # "none"
InvExists(i) == inv[i].status \notin {"unused", "gone"}
NoRow(status) == [status |-> status, invitee |-> NoUser, by |-> NoUser,
                  role |-> "MEMBER", expired |-> FALSE]
Idled(r) == [req EXCEPT ![r] = Idle]

-----------------------------------------------------------------------------
(* The organization *)

CreateOrganization(u) ==
  /\ org.status = "none" /\ user[u] = "live"
  /\ org' = [status |-> "live", owner |-> u, seq |-> 1]
  /\ member' = [member EXCEPT ![u] = [role |-> "OWNER", id |-> 1]]
  /\ UNCHANGED <<user, inv, req, lost>>

(* authenticate, requireTenant or requireTenantIncludeDeleted, and         *)
(* requireOrgRole.                                                         *)
Authorize(r, u, op) ==
  /\ op \in Ops /\ req[r] = Idle /\ user[u] = "live"
  /\ IF op = "restoreOrg" THEN OrgExists ELSE org.status = "live"
  /\ member[u].role \in Allowed[op]
  /\ req' = [req EXCEPT ![r] = [Idle EXCEPT !.pc = op, !.by = u, !.as = member[u].role]]
  /\ UNCHANGED <<user, org, member, inv, lost>>

DeleteOrganization(r) ==
  /\ req[r].pc = "deleteOrg"
  /\ org' = [org EXCEPT !.status = IF OrgExists THEN "deleted" ELSE @]
  /\ req' = Idled(r)
  /\ UNCHANGED <<user, member, inv, lost>>

RestoreOrganization(r) ==
  /\ req[r].pc = "restoreOrg"
  /\ org' = [org EXCEPT !.status = IF @ = "deleted" THEN "live" ELSE @]
  /\ req' = Idled(r)
  /\ UNCHANGED <<user, member, inv, lost>>

-----------------------------------------------------------------------------
(* Members *)

(* updateMemberRole and removeMember: the member exists and is no OWNER.   *)
MemberRead(r, t, role) ==
  /\ req[r].pc \in {"role", "remove"}
  /\ member[t].role \in {"ADMIN", "MEMBER"}
  /\ req[r].pc = "remove" => role = "MEMBER"
  /\ req' = [req EXCEPT ![r].pc = IF req[r].pc = "role" THEN "roleWrite" ELSE "removeWrite",
                        ![r].target = t, ![r].id = member[t].id, ![r].role = role]
  /\ UNCHANGED <<user, org, member, inv, lost>>

(* Mutant: the write goes by organization and user, not by the row's id. *)
SameRowByUser(r) == IsMember(req[r].target)

(* The row that was read, if it is still there. *)
SameRow(r) == IsMember(req[r].target) /\ member[req[r].target].id = req[r].id

UpdateMemberRole(r) ==
  /\ req[r].pc = "roleWrite"
  /\ member' = IF SameRow(r) THEN [member EXCEPT ![req[r].target].role = req[r].role]
                             ELSE member
  /\ req' = Idled(r)
  /\ UNCHANGED <<user, org, inv, lost>>

(* Mutant: the role is taken away and the row is left. *)
RemoveMemberHalf(r) ==
  /\ req[r].pc = "removeWrite"
  /\ member' = IF SameRow(r) THEN [member EXCEPT ![req[r].target].role = "none"] ELSE member
  /\ req' = Idled(r)
  /\ UNCHANGED <<user, org, inv, lost>>

RemoveMember(r) ==
  /\ req[r].pc = "removeWrite"
  /\ member' = IF SameRow(r) THEN [member EXCEPT ![req[r].target] = NotMember] ELSE member
  /\ req' = Idled(r)
  /\ UNCHANGED <<user, org, inv, lost>>

TransferRead(r, t) ==
  /\ req[r].pc = "transfer"
  /\ t # req[r].by /\ IsMember(t)
  /\ req' = [req EXCEPT ![r].pc = "transferWrite", ![r].target = t]
  /\ UNCHANGED <<user, org, member, inv, lost>>

(* Mutant: the former owner keeps the role. *)
TransferWithoutDemotion(r) ==
  LET t == req[r].target IN
  /\ req[r].pc = "transferWrite"
  /\ IF OrgExists /\ IsMember(t)
       THEN org' = [org EXCEPT !.owner = t] /\ member' = [member EXCEPT ![t].role = "OWNER"]
       ELSE UNCHANGED <<org, member>>
  /\ req' = Idled(r)
  /\ UNCHANGED <<user, inv, lost>>

(* One transaction: it rolls back when a row is missing. *)
TransferOwnership(r) ==
  LET t == req[r].target  u == req[r].by IN
  /\ req[r].pc = "transferWrite"
  /\ IF OrgExists /\ IsMember(t) /\ IsMember(u)
       THEN /\ org' = [org EXCEPT !.owner = t]
            /\ member' = [member EXCEPT ![t].role = "OWNER", ![u].role = "ADMIN"]
       ELSE UNCHANGED <<org, member>>
  /\ req' = Idled(r)
  /\ UNCHANGED <<user, inv, lost>>

-----------------------------------------------------------------------------
(* Invitations *)

Pending(u) == {i \in Invites : inv[i].status = "PENDING" /\ inv[i].invitee = u}

(* createInvitation: not a member, then no pending invitation, then insert.*)
InviteRead(r, u, role) ==
  /\ req[r].pc = "invite"
  /\ ~(user[u] = "live" /\ IsMember(u))
  /\ req' = [req EXCEPT ![r].pc = "inviteRead", ![r].target = u, ![r].role = role]
  /\ UNCHANGED <<user, org, member, inv, lost>>

InvitePending(r) ==
  /\ req[r].pc = "inviteRead" /\ Pending(req[r].target) = {}
  /\ req' = [req EXCEPT ![r].pc = "inviteWrite"]
  /\ UNCHANGED <<user, org, member, inv, lost>>

(* The partial unique index on pending invitations, and the foreign keys.  *)
(* Mutant: there is no index.                                              *)
InsertableAlways(r) == OrgExists /\ user[req[r].by] # "gone"
Insertable(r) ==
  /\ Pending(req[r].target) = {}
  /\ OrgExists /\ user[req[r].by] # "gone"

CreateInvitation(r) ==
  /\ req[r].pc = "inviteWrite" /\ Insertable(r)
  /\ \E i \in Invites :
       /\ inv[i].status = "unused"
       /\ inv' = [inv EXCEPT ![i] = [status |-> "PENDING", invitee |-> req[r].target,
                    by |-> req[r].by, role |-> req[r].role, expired |-> FALSE]]
  /\ req' = Idled(r)
  /\ UNCHANGED <<user, org, member, lost>>

(* The unconditional update of the invitation that was read.               *)
Marked(r, status) ==
  IF InvExists(req[r].inv) THEN [inv EXCEPT ![req[r].inv].status = status] ELSE inv

MarkInvitation(r, pc, status) ==
  /\ req[r].pc = pc
  /\ inv' = Marked(r, status)
  /\ req' = Idled(r)
  /\ UNCHANGED <<user, org, member, lost>>

(* Mutant: cancelInvitation does not look at the status. *)
CancelReadAny(r, i) ==
  /\ req[r].pc = "cancel" /\ InvExists(i)
  /\ req' = [req EXCEPT ![r].pc = "cancelWrite", ![r].inv = i]
  /\ UNCHANGED <<user, org, member, inv, lost>>

CancelRead(r, i) ==
  /\ req[r].pc = "cancel" /\ inv[i].status = "PENDING"
  /\ req' = [req EXCEPT ![r].pc = "cancelWrite", ![r].inv = i]
  /\ UNCHANGED <<user, org, member, inv, lost>>

CancelInvitation(r) == MarkInvitation(r, "cancelWrite", "CANCELED")

(* acceptInvitation and declineInvitation: pending, not expired, and       *)
(* addressed to the caller.                                                *)
Respond(r, u, i, op) ==
  /\ op \in Ops \cap {"accept", "decline"}
  /\ req[r] = Idle /\ user[u] = "live" /\ inv[i].status = "PENDING"
  /\ \/ inv[i].expired
     \/ inv[i].invitee = u
  /\ req' = [req EXCEPT ![r] =
       [Idle EXCEPT !.pc = IF inv[i].expired THEN "expireWrite"
                           ELSE IF op = "accept" THEN "acceptRead" ELSE "declineWrite",
                    !.by = u, !.inv = i]]
  /\ UNCHANGED <<user, org, member, inv, lost>>

ExpireInvitation(r) == MarkInvitation(r, "expireWrite", "EXPIRED")
DeclineInvitation(r) == MarkInvitation(r, "declineWrite", "DECLINED")

AcceptRead(r) ==
  /\ req[r].pc = "acceptRead"
  /\ req' = [req EXCEPT ![r].pc = IF IsMember(req[r].by) THEN "acceptNote" ELSE "acceptWrite"]
  /\ UNCHANGED <<user, org, member, inv, lost>>

(* Already a member: the invitation is marked, and the request refused.    *)
AcceptNote(r) == MarkInvitation(r, "acceptNote", "ACCEPTED")

(* One transaction; the membership is unique, and its foreign keys hold.   *)
AcceptInvitation(r) ==
  LET u == req[r].by  i == req[r].inv IN
  /\ req[r].pc = "acceptWrite"
  /\ IF InvExists(i) /\ ~IsMember(u) /\ user[u] # "gone" /\ OrgExists
       THEN /\ inv' = Marked(r, "ACCEPTED")
            /\ member' = [member EXCEPT ![u] = [role |-> inv[i].role, id |-> org.seq + 1]]
            /\ org' = [org EXCEPT !.seq = @ + 1]
       ELSE UNCHANGED <<inv, member, org>>
  /\ req' = Idled(r)
  /\ UNCHANGED <<user, lost>>

-----------------------------------------------------------------------------
(* Accounts *)

Members == {u \in Users : IsMember(u)}

(* Mutant: soft-deleted organizations do not block the deletion. *)
EraseReadLiveOnly(r, u) ==
  /\ "erase" \in Ops /\ req[r] = Idle /\ user[u] = "live"
  /\ org.status = "live" /\ org.owner = u => Cardinality(Members) <= 1
  /\ req' = [req EXCEPT ![r] = [Idle EXCEPT !.pc = "eraseWrite", !.by = u]]
  /\ UNCHANGED <<user, org, member, inv, lost>>

(* deleteAccount: refused to the owner of an organization with others. *)
EraseRead(r, u) ==
  /\ "erase" \in Ops /\ req[r] = Idle /\ user[u] = "live"
  /\ OrgExists /\ org.owner = u => Cardinality(Members) <= 1
  /\ req' = [req EXCEPT ![r] = [Idle EXCEPT !.pc = "eraseWrite", !.by = u]]
  /\ UNCHANGED <<user, org, member, inv, lost>>

(* The row is deleted, and what refers to it: the membership, the          *)
(* invitations sent, an owned organization with all that is its own.       *)
EraseAccount(r) ==
  LET u == req[r].by
      owned == OrgExists /\ org.owner = u IN
  /\ req[r].pc = "eraseWrite" /\ user[u] # "gone"
  /\ user' = [user EXCEPT ![u] = "gone"]
  /\ org' = IF owned THEN [org EXCEPT !.status = "gone"] ELSE org
  /\ member' = [x \in Users |-> IF owned \/ x = u THEN NotMember ELSE member[x]]
  /\ inv' = [i \in Invites |-> IF InvExists(i) /\ (owned \/ inv[i].by = u)
                                 THEN NoRow("gone") ELSE inv[i]]
  /\ lost' = (lost \/ (owned /\ \E x \in Users \ {u} : IsMember(x)))
  /\ req' = Idled(r)

(* deleteUser and restoreUser of the administrators. *)
DeleteOrRestoreUser(u) ==
  /\ "admin" \in Ops /\ user[u] # "gone"
  /\ user' = [user EXCEPT ![u] = IF @ = "live" THEN "deleted" ELSE "live"]
  /\ UNCHANGED <<org, member, inv, req, lost>>

-----------------------------------------------------------------------------

InvitationExpires(i) ==
  /\ "expire" \in Ops /\ inv[i].status = "PENDING" /\ ~inv[i].expired
  /\ inv' = [inv EXCEPT ![i].expired = TRUE]
  /\ UNCHANGED <<user, org, member, req, lost>>

(* The retention is far longer than a request. *)
CleanupTerminalInvitations(i) ==
  /\ "cleanup" \in Ops /\ inv[i].status \in Terminal
  /\ \A r \in Requests : req[r].inv # i
  /\ inv' = [inv EXCEPT ![i] = NoRow("gone")]
  /\ UNCHANGED <<user, org, member, req, lost>>

(* A check refuses, a constraint is violated, or the process stops. *)
Fail(r) ==
  /\ req[r] # Idle
  /\ req' = Idled(r)
  /\ UNCHANGED <<user, org, member, inv, lost>>

Init ==
  /\ user = [u \in Users |-> "live"]
  /\ org = [status |-> "none", owner |-> NoUser, seq |-> 0]
  /\ member = [u \in Users |-> NotMember]
  /\ inv = [i \in Invites |-> NoRow("unused")]
  /\ req = [r \in Requests |-> Idle]
  /\ lost = FALSE

WriteStep(r) ==
  \/ DeleteOrganization(r) \/ RestoreOrganization(r) \/ UpdateMemberRole(r)
  \/ RemoveMember(r) \/ TransferOwnership(r) \/ InvitePending(r) \/ CreateInvitation(r)
  \/ CancelInvitation(r) \/ ExpireInvitation(r) \/ DeclineInvitation(r) \/ AcceptRead(r)
  \/ AcceptNote(r) \/ AcceptInvitation(r) \/ EraseAccount(r) \/ Fail(r)

ReadStep(r) ==
  \/ \E u \in Users, op \in DOMAIN Allowed : Authorize(r, u, op)
  \/ \E t \in Users, role \in {"ADMIN", "MEMBER"} : MemberRead(r, t, role)
  \/ \E t \in Users : TransferRead(r, t)
  \/ \E u \in Users, role \in {"ADMIN", "MEMBER"} : InviteRead(r, u, role)
  \/ \E i \in Invites : CancelRead(r, i)
  \/ \E u \in Users, i \in Invites, op \in {"accept", "decline"} : Respond(r, u, i, op)
  \/ \E u \in Users : EraseRead(r, u)

Next ==
  \/ \E u \in Users : CreateOrganization(u) \/ DeleteOrRestoreUser(u)
  \/ \E r \in Requests : ReadStep(r) \/ WriteStep(r)
  \/ \E i \in Invites : InvitationExpires(i) \/ CleanupTerminalInvitations(i)

Spec == Init /\ [][Next]_vars

-----------------------------------------------------------------------------
(* Properties *)

(* An organization has exactly one OWNER, the user of its ownerId: the     *)
(* transfer promotes and demotes together.  Holds when requests do not     *)
(* overlap.                                                                *)
OneOwner == OrgExists => {u \in Users : member[u].role = "OWNER"} = {org.owner}

(* An address has at most one pending invitation, however many are being   *)
(* created at once.                                                        *)
OnePending == \A u \in Users : Cardinality(Pending(u)) <= 1

(* Whatever overlaps, a change of members whose check was overtaken misses: *)
(* a role change or a removal spares a member who left and came back since, *)
(* and a transfer to somebody who left since moves nothing.                 *)
StaleChangeMisses ==
  [][\A r \in Requests : LET t == req[r].target IN req'[r] # req[r] =>
       /\ req[r].pc \in {"roleWrite", "removeWrite"} /\ member[t].id # req[r].id =>
            member' = member
       /\ req[r].pc = "transferWrite" /\ ~IsMember(t) => UNCHANGED <<org, member>>]_vars
=============================================================================
