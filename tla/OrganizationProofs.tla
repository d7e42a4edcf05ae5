------------------------- MODULE OrganizationProofs -------------------------
(***************************************************************************)
(* Theorems about Organization: types, OnePending and StaleChangeMisses,   *)
(* for any users, invitations, requests and endpoints.                     *)
(*                                                                         *)
(* The invariant has two halves.  Rows speaks of the tables; only writes   *)
(* touch it.  Reqs says that what a request holds when it comes to its     *)
(* write was set: a write goes by the ids that the request remembers.      *)
(*                                                                         *)
(* With the history of overlapping requests of MCOrganization: one owner,  *)
(* no organization lost by the erasure of another account, final answers.  *)
(***************************************************************************)
EXTENDS MCOrganization, FiniteSetTheorems, TLAPS

rows == <<user, org, member, inv>>

RowTypes ==
  /\ user \in [Users -> {"live", "deleted", "gone"}]
  /\ org \in [status : {"none", "live", "deleted", "gone"},
              owner : Users \cup {NoUser}, seq : Nat]
  /\ member \in [Users -> Member]
  /\ inv \in [Invites -> Invitation]

(* The rows that exist name the user they belong to. *)
Owned ==
  /\ OrgExists => org.owner \in Users
  /\ \A i \in Invites : InvExists(i) => inv[i].by \in Users

(* Two pending invitations of one address are the same. *)
Unique ==
  \A i, j \in Invites :
    inv[i].status = "PENDING" /\ inv[j].status = "PENDING" /\ inv[i].invitee = inv[j].invitee
      => i = j

(* Nothing refers to an account or an organization that is gone: the       *)
(* foreign keys, which cascade.                                            *)
Referential ==
  /\ OrgExists => user[org.owner] # "gone"
  /\ \A u \in Users : IsMember(u) => OrgExists /\ user[u] # "gone"
  /\ \A i \in Invites : InvExists(i) => OrgExists /\ user[inv[i].by] # "gone"

Rows == RowTypes /\ Owned /\ Referential /\ Unique

Targeted == {"roleWrite", "removeWrite", "transferWrite", "inviteRead", "inviteWrite"}
Holding == {"cancelWrite", "expireWrite", "acceptRead", "acceptNote", "acceptWrite",
            "declineWrite"}

Remembers(q) ==
  /\ q.pc # "idle" => q.by \in Users
  /\ q.pc \in Targeted => q.target \in Users
  /\ q.pc \in Holding => q.inv \in Invites

Reqs == \A r \in Requests : req[r] \in Request /\ Remembers(req[r])

IInv == Rows /\ Reqs /\ req \in [Requests -> Request] /\ lost \in BOOLEAN

-----------------------------------------------------------------------------
(* Requests *)

LEMMA Endpoints ==
  DOMAIN Allowed = {"role", "remove", "invite", "cancel", "transfer", "deleteOrg", "restoreOrg"}
BY DEF Allowed

LEMMA IdleOK == Idle \in Request /\ Remembers(Idle) /\ Idle.pc = "idle"
BY Endpoints DEF Idle, Request, Remembers, Targeted, Holding

(* A request that becomes q leaves the others as they are. *)
LEMMA OneRequest ==
  ASSUME IInv, NEW r \in Requests, NEW q \in Request, Remembers(q),
         req' = [req EXCEPT ![r] = q]
  PROVE  Reqs' /\ req' \in [Requests -> Request]
<1>1. \A x \in Requests : req'[x] = IF x = r THEN q ELSE req[x]
  BY DEF IInv
<1>2. \A x \in Requests : req'[x] \in Request /\ Remembers(req'[x])
  BY <1>1 DEF IInv, Reqs
<1> QED BY <1>2 DEF IInv, Reqs

LEMMA Idling ==
  ASSUME IInv, NEW r \in Requests, req' = Idled(r)
  PROVE  Reqs' /\ req' \in [Requests -> Request]
BY OneRequest, IdleOK DEF Idled

LEMMA RowsKept == Rows /\ UNCHANGED rows => Rows'
BY DEF rows, Rows, RowTypes, Owned, Referential, Unique, OrgExists, IsMember, InvExists

LEMMA ReadStepKeeps ==
  ASSUME IInv, NEW r \in Requests, ReadStep(r)
  PROVE  IInv'
<1>1. /\ UNCHANGED <<user, org, member, inv, lost>>
      /\ \E q \in Request : Remembers(q) /\ req' = [req EXCEPT ![r] = q]
  <2> USE DEF IInv, Reqs, Rows, RowTypes
  <2>0. req[r] \in Request /\ Remembers(req[r]) /\ req \in [Requests -> Request]
    OBVIOUS
  <2>1. CASE \E u \in Users, op \in DOMAIN Allowed : Authorize(r, u, op)
    <3> PICK u \in Users, op \in DOMAIN Allowed : Authorize(r, u, op) BY <2>1
    <3> DEFINE q == [Idle EXCEPT !.pc = op, !.by = u, !.as = member[u].role]
    <3>1. member[u].role \in Role \cup {"none"}
      BY DEF Member, NotMember
    <3>2. q \in Request /\ Remembers(q)
      BY <3>1, Endpoints DEF Idle, Request, Remembers, Targeted, Holding
    <3> QED BY <3>2 DEF Authorize
  <2>2. CASE \E t \in Users, role \in {"ADMIN", "MEMBER"} : MemberRead(r, t, role)
    <3> PICK t \in Users, role \in {"ADMIN", "MEMBER"} : MemberRead(r, t, role) BY <2>2
    <3>1. PICK pc \in {"roleWrite", "removeWrite"}, n \in Nat :
            req' = [req EXCEPT ![r] = [req[r] EXCEPT !.pc = pc, !.target = t, !.id = n, !.role = role]]
      <4>1. member[t].id \in Nat
        BY DEF Member, NotMember
      <4> QED BY <2>0, <4>1 DEF MemberRead
    <3> DEFINE q == [req[r] EXCEPT !.pc = pc, !.target = t, !.id = n, !.role = role]
    <3>2. req[r].by \in Users
      BY <2>0 DEF MemberRead, Remembers
    <3>3. q \in Request /\ Remembers(q)
      BY <2>0, <3>2 DEF Request, Remembers, Targeted, Holding
    <3> QED BY <3>1, <3>3 DEF MemberRead
  <2>3. CASE \E t \in Users : TransferRead(r, t)
    <3> PICK t \in Users : TransferRead(r, t) BY <2>3
    <3> DEFINE q == [req[r] EXCEPT !.pc = "transferWrite", !.target = t]
    <3>1. req[r].by \in Users
      BY <2>0 DEF TransferRead, Remembers
    <3>2. q \in Request /\ Remembers(q)
      BY <2>0, <3>1 DEF Request, Remembers, Targeted, Holding
    <3>3. req' = [req EXCEPT ![r] = q]
      BY <2>0 DEF TransferRead
    <3> QED BY <3>2, <3>3 DEF TransferRead
  <2>4. CASE \E u \in Users, role \in {"ADMIN", "MEMBER"} : InviteRead(r, u, role)
    <3> PICK u \in Users, role \in {"ADMIN", "MEMBER"} : InviteRead(r, u, role) BY <2>4
    <3> DEFINE q == [req[r] EXCEPT !.pc = "inviteRead", !.target = u, !.role = role]
    <3>1. req[r].by \in Users
      BY <2>0 DEF InviteRead, Remembers
    <3>2. q \in Request /\ Remembers(q)
      BY <2>0, <3>1 DEF Request, Remembers, Targeted, Holding
    <3>3. req' = [req EXCEPT ![r] = q]
      BY <2>0 DEF InviteRead
    <3> QED BY <3>2, <3>3 DEF InviteRead
  <2>5. CASE \E i \in Invites : CancelRead(r, i)
    <3> PICK i \in Invites : CancelRead(r, i) BY <2>5
    <3> DEFINE q == [req[r] EXCEPT !.pc = "cancelWrite", !.inv = i]
    <3>1. req[r].by \in Users
      BY <2>0 DEF CancelRead, Remembers
    <3>2. q \in Request /\ Remembers(q)
      BY <2>0, <3>1 DEF Request, Remembers, Targeted, Holding
    <3>3. req' = [req EXCEPT ![r] = q]
      BY <2>0 DEF CancelRead
    <3> QED BY <3>2, <3>3 DEF CancelRead
  <2>6. CASE \E u \in Users, i \in Invites, op \in {"accept", "decline"} : Respond(r, u, i, op)
    <3> PICK u \in Users, i \in Invites, op \in {"accept", "decline"} : Respond(r, u, i, op) BY <2>6
    <3> DEFINE q == [Idle EXCEPT !.pc = IF inv[i].expired THEN "expireWrite"
                                        ELSE IF op = "accept" THEN "acceptRead" ELSE "declineWrite",
                                 !.by = u, !.inv = i]
    <3>1. q \in Request /\ Remembers(q)
      BY Endpoints DEF Idle, Request, Remembers, Targeted, Holding
    <3> QED BY <3>1 DEF Respond
  <2>7. CASE \E u \in Users : EraseRead(r, u)
    <3> PICK u \in Users : EraseRead(r, u) BY <2>7
    <3> DEFINE q == [Idle EXCEPT !.pc = "eraseWrite", !.by = u]
    <3>1. q \in Request /\ Remembers(q)
      BY Endpoints DEF Idle, Request, Remembers, Targeted, Holding
    <3> QED BY <3>1 DEF EraseRead
  <2> QED BY <2>1, <2>2, <2>3, <2>4, <2>5, <2>6, <2>7 DEF ReadStep
<1>2. Rows'
  BY <1>1, RowsKept DEF IInv, rows
<1>3. Reqs' /\ req' \in [Requests -> Request]
  BY <1>1, OneRequest
<1> QED BY <1>1, <1>2, <1>3 DEF IInv

-----------------------------------------------------------------------------
(* Writes to the tables *)

(* The organization stays, or comes back; its owner is the same. *)
LEMMA StatusKeeps ==
  ASSUME Rows, UNCHANGED <<user, member, inv>>,
         NEW s \in {"live", "deleted"},
         org' = [org EXCEPT !.status = IF OrgExists THEN s ELSE @]
  PROVE  Rows'
<1>1. org'.owner = org.owner /\ org'.seq = org.seq /\ (OrgExists' <=> OrgExists)
  BY DEF Rows, RowTypes, OrgExists
<1>2. RowTypes'
  BY DEF Rows, RowTypes
<1> QED
  BY <1>1, <1>2 DEF Rows, Owned, Referential, Unique, IsMember, InvExists

(* One membership row changes or goes, of somebody who has one. *)
LEMMA MemberKeeps ==
  ASSUME Rows, UNCHANGED <<user, org, inv>>, NEW t \in Users, NEW m \in Member, IsMember(t),
         member' = [member EXCEPT ![t] = m]
  PROVE  Rows'
<1>1. \A x \in Users : IsMember(x)' => IsMember(x)
  BY DEF Rows, RowTypes, IsMember
<1>2. RowTypes'
  BY DEF Rows, RowTypes
<1> QED
  BY <1>1, <1>2 DEF Rows, Owned, Referential, Unique, OrgExists, InvExists

(* An invitation is answered, or its row goes. *)
LEMMA InvKeeps ==
  ASSUME Rows, UNCHANGED <<user, org, member>>, NEW i \in Invites, NEW v \in Invitation,
         InvExists(i), inv' = [inv EXCEPT ![i] = v],
         v.status # "PENDING" \/ (inv[i].status = "PENDING" /\ v.invitee = inv[i].invitee),
         v.status # "gone" => v.by = inv[i].by
  PROVE  Rows'
<1>1. \A x \in Invites : inv'[x] = IF x = i THEN v ELSE inv[x]
  BY DEF Rows, RowTypes
<1>2. RowTypes'
  BY DEF Rows, RowTypes
<1>3. Owned' /\ Referential'
  BY <1>1 DEF Rows, Owned, Referential, OrgExists, IsMember, InvExists
<1>4. Unique'
  BY <1>1 DEF Rows, Unique
<1> QED BY <1>2, <1>3, <1>4 DEF Rows

LEMMA MarkKeeps ==
  ASSUME Rows, UNCHANGED <<user, org, member>>, NEW r \in Requests, req[r].inv \in Invites,
         NEW status \in Terminal, inv' = Marked(r, status)
  PROVE  Rows'
<1> DEFINE i == req[r].inv  v == [inv[i] EXCEPT !.status = status]
<1>1. CASE InvExists(i)
  <2>1. inv[i] \in Invitation
    BY DEF Rows, RowTypes
  <2>2. v \in Invitation /\ v.status = status /\ v.by = inv[i].by
    BY <2>1 DEF Invitation
  <2>3. inv' = [inv EXCEPT ![i] = v]
    BY <1>1 DEF Marked
  <2>4. v.status \notin {"PENDING", "gone"}
    BY <2>2 DEF Terminal
  <2> QED BY <1>1, <2>2, <2>3, <2>4, InvKeeps
<1>2. CASE ~InvExists(i)
  BY <1>2, RowsKept DEF Marked, rows
<1> QED BY <1>1, <1>2

LEMMA CreateKeeps ==
  ASSUME IInv, NEW u \in Users, CreateOrganization(u)
  PROVE  Rows'
<1>1. org' = [status |-> "live", owner |-> u, seq |-> 1] /\ OrgExists' /\ org'.owner = u
  BY DEF CreateOrganization, OrgExists
<1>2. \A x \in Users : IsMember(x)' => x = u
  BY DEF CreateOrganization, IInv, Rows, RowTypes, Referential, IsMember, OrgExists
<1>3. RowTypes'
  <2>1. [role |-> "OWNER", id |-> 1] \in Member
    BY DEF Member, Role
  <2> QED BY <1>1, <2>1 DEF CreateOrganization, IInv, Rows, RowTypes
<1> QED
  BY <1>1, <1>2, <1>3 DEF CreateOrganization, IInv, Rows, Owned, Referential, Unique, InvExists

LEMMA RoleKeeps ==
  ASSUME IInv, NEW r \in Requests, UpdateMemberRole(r)
  PROVE  Rows'
<1> DEFINE t == req[r].target  m == [member[t] EXCEPT !.role = req[r].role]
<1>1. t \in Users /\ req[r].role \in {"ADMIN", "MEMBER"}
  BY DEF UpdateMemberRole, IInv, Reqs, Remembers, Request, Targeted
<1>2. CASE SameRow(r)
  <2>1. IsMember(t) /\ member[t] \in [role : Role, id : Nat \ {0}]
    BY <1>1, <1>2 DEF SameRow, IsMember, IInv, Rows, RowTypes, Member, NotMember
  <2>2. m \in Member
    BY <1>1, <2>1 DEF Member, Role
  <2>3. member' = [member EXCEPT ![t] = m]
    BY <1>2 DEF UpdateMemberRole
  <2> QED BY <1>1, <2>1, <2>2, <2>3, MemberKeeps DEF UpdateMemberRole, IInv
<1>3. CASE ~SameRow(r)
  BY <1>3, RowsKept DEF UpdateMemberRole, rows, IInv
<1> QED BY <1>2, <1>3

LEMMA RemoveKeeps ==
  ASSUME IInv, NEW r \in Requests, RemoveMember(r)
  PROVE  Rows'
<1> DEFINE t == req[r].target
<1>1. t \in Users
  BY DEF RemoveMember, IInv, Reqs, Remembers, Targeted
<1>2. CASE SameRow(r)
  <2>1. IsMember(t) /\ NotMember \in Member
    BY <1>2 DEF SameRow, Member
  <2>2. member' = [member EXCEPT ![t] = NotMember]
    BY <1>2 DEF RemoveMember
  <2> QED BY <1>1, <2>1, <2>2, MemberKeeps DEF RemoveMember, IInv
<1>3. CASE ~SameRow(r)
  BY <1>3, RowsKept DEF RemoveMember, rows, IInv
<1> QED BY <1>2, <1>3

(* The transaction promotes a member, who is therefore not gone. *)
LEMMA TransferKeeps ==
  ASSUME IInv, NEW r \in Requests, TransferOwnership(r)
  PROVE  Rows'
<1> DEFINE t == req[r].target  u == req[r].by
<1>1. t \in Users /\ u \in Users
  BY DEF TransferOwnership, IInv, Reqs, Remembers, Targeted
<1>2. CASE OrgExists /\ IsMember(t) /\ IsMember(u)
  <2>1. /\ org' = [org EXCEPT !.owner = t]
        /\ member' = [member EXCEPT ![t].role = "OWNER", ![u].role = "ADMIN"]
        /\ UNCHANGED <<user, inv>>
    BY <1>2 DEF TransferOwnership
  <2>2. org'.owner = t /\ OrgExists' /\ org' \in [status : {"none", "live", "deleted", "gone"},
                                                 owner : Users \cup {NoUser}, seq : Nat]
    BY <1>1, <1>2, <2>1 DEF IInv, Rows, RowTypes, OrgExists
  <2>3. \A x \in Users : member'[x] \in Member /\ (x \notin {t, u} => member'[x] = member[x])
    <3>1. \A x \in {t, u} : member[x] \in [role : Role, id : Nat \ {0}]
      BY <1>1, <1>2 DEF IsMember, IInv, Rows, RowTypes, Member, NotMember
    <3> QED BY <1>1, <2>1, <3>1 DEF IInv, Rows, RowTypes, Member, Role
  <2>4. member' \in [Users -> Member]
    BY <2>1, <2>3 DEF IInv, Rows, RowTypes
  <2>5. \A x \in Users : IsMember(x)' => IsMember(x)
    BY <1>2, <2>3 DEF IsMember
  <2>6. user[t] # "gone"
    BY <1>1, <1>2 DEF IInv, Rows, Referential
  <2>7. RowTypes'
    BY <2>1, <2>2, <2>4 DEF IInv, Rows, RowTypes
  <2> QED
    BY <1>1, <1>2, <2>1, <2>2, <2>5, <2>6, <2>7 DEF IInv, Rows, Owned, Referential, Unique, InvExists
<1>3. CASE ~(OrgExists /\ IsMember(t) /\ IsMember(u))
  BY <1>3, RowsKept DEF TransferOwnership, rows, IInv
<1> QED BY <1>2, <1>3

(* The partial unique index is what keeps two inserts apart. *)
LEMMA InsertKeeps ==
  ASSUME IInv, NEW r \in Requests, CreateInvitation(r)
  PROVE  Rows'
<1>1. PICK i \in Invites :
        /\ inv[i].status = "unused"
        /\ inv' = [inv EXCEPT ![i] = [status |-> "PENDING", invitee |-> req[r].target,
                     by |-> req[r].by, role |-> req[r].role, expired |-> FALSE]]
  BY DEF CreateInvitation
<1> DEFINE v == [status |-> "PENDING", invitee |-> req[r].target, by |-> req[r].by,
                 role |-> req[r].role, expired |-> FALSE]
<1>2. /\ req[r].target \in Users /\ req[r].by \in Users
      /\ req[r].role \in {"ADMIN", "MEMBER"}
  BY DEF CreateInvitation, IInv, Reqs, Remembers, Request, Targeted
<1>3. v \in Invitation
  BY <1>2 DEF Invitation
<1>4. \A x \in Invites : inv'[x] = IF x = i THEN v ELSE inv[x]
  BY <1>1 DEF IInv, Rows, RowTypes
<1>5. RowTypes'
  BY <1>1, <1>3 DEF CreateInvitation, IInv, Rows, RowTypes
<1>6. Owned' /\ Referential'
  BY <1>2, <1>4 DEF CreateInvitation, Insertable, IInv, Rows, Owned, Referential, OrgExists,
                    IsMember, InvExists
<1>7. \A x \in Invites : ~(inv[x].status = "PENDING" /\ inv[x].invitee = req[r].target)
  BY DEF CreateInvitation, Insertable, Pending
<1>8. Unique'
  BY <1>4, <1>7 DEF IInv, Rows, Unique
<1> QED BY <1>5, <1>6, <1>8 DEF Rows

LEMMA AcceptKeeps ==
  ASSUME IInv, NEW r \in Requests, AcceptInvitation(r)
  PROVE  Rows'
<1> DEFINE u == req[r].by  i == req[r].inv
<1>1. u \in Users /\ i \in Invites
  BY DEF AcceptInvitation, IInv, Reqs, Remembers, Holding
<1>2. CASE InvExists(i) /\ ~IsMember(u) /\ user[u] # "gone" /\ OrgExists
  <2> DEFINE m == [role |-> inv[i].role, id |-> org.seq + 1]
             v == [inv[i] EXCEPT !.status = "ACCEPTED"]
  <2>1. inv[i] \in Invitation /\ org.seq \in Nat
    BY <1>1 DEF IInv, Rows, RowTypes
  <2>2. m \in Member /\ v \in Invitation /\ v.status = "ACCEPTED" /\ v.by = inv[i].by
    BY <2>1 DEF Member, Role, Invitation, Terminal
  <2>3. /\ inv' = [inv EXCEPT ![i] = v] /\ member' = [member EXCEPT ![u] = m]
        /\ org' = [org EXCEPT !.seq = @ + 1] /\ user' = user
    BY <1>2 DEF AcceptInvitation, Marked
  <2>4. /\ org'.owner = org.owner /\ org'.status = org.status
        /\ org' \in [status : {"none", "live", "deleted", "gone"},
                     owner : Users \cup {NoUser}, seq : Nat]
    BY <2>3 DEF IInv, Rows, RowTypes
  <2>5. \A x \in Invites : inv'[x] = IF x = i THEN v ELSE inv[x]
    BY <2>3 DEF IInv, Rows, RowTypes
  <2>6. \A x \in Users : member'[x] = IF x = u THEN m ELSE member[x]
    BY <2>3 DEF IInv, Rows, RowTypes
  <2>7. RowTypes'
    BY <2>2, <2>3, <2>4 DEF IInv, Rows, RowTypes
  <2>8. Owned' /\ Referential'
    BY <1>1, <1>2, <2>2, <2>3, <2>4, <2>5, <2>6 DEF IInv, Rows, Owned, Referential, OrgExists,
                                                    IsMember, InvExists
  <2>9. Unique'
    <3>1. v.status # "PENDING"
      BY <2>2
    <3>2. \A x \in Invites : inv'[x].status = "PENDING" => inv'[x] = inv[x]
      BY <2>5, <3>1
    <3> QED BY <3>2 DEF IInv, Rows, Unique
  <2> QED BY <2>7, <2>8, <2>9 DEF Rows
<1>3. CASE ~(InvExists(i) /\ ~IsMember(u) /\ user[u] # "gone" /\ OrgExists)
  BY <1>3, RowsKept DEF AcceptInvitation, rows, IInv
<1> QED BY <1>2, <1>3

(* The deletion of an account takes along what refers to it. *)
LEMMA EraseKeeps ==
  ASSUME IInv, NEW r \in Requests, EraseAccount(r)
  PROVE  Rows' /\ lost' \in BOOLEAN
<1> DEFINE u == req[r].by
           owned == OrgExists /\ org.owner = u
<1>1. u \in Users
  BY DEF EraseAccount, IInv, Reqs, Remembers
<1>2. /\ user' = [user EXCEPT ![u] = "gone"]
      /\ org' = IF owned THEN [org EXCEPT !.status = "gone"] ELSE org
      /\ member' = [x \in Users |-> IF owned \/ x = u THEN NotMember ELSE member[x]]
      /\ inv' = [i \in Invites |-> IF InvExists(i) /\ (owned \/ inv[i].by = u)
                                     THEN NoRow("gone") ELSE inv[i]]
  BY DEF EraseAccount
<1>3. NoRow("gone") \in Invitation /\ NoRow("gone").status = "gone"
  BY DEF NoRow, Invitation
<1>4. RowTypes'
  <2>1. user' \in [Users -> {"live", "deleted", "gone"}]
    BY <1>1, <1>2 DEF IInv, Rows, RowTypes
  <2>2. org' \in [status : {"none", "live", "deleted", "gone"},
                  owner : Users \cup {NoUser}, seq : Nat]
    BY <1>2 DEF IInv, Rows, RowTypes
  <2>3. member' \in [Users -> Member]
    BY <1>2 DEF IInv, Rows, RowTypes, Member
  <2>4. inv' \in [Invites -> Invitation]
    BY <1>2, <1>3 DEF IInv, Rows, RowTypes
  <2> QED BY <2>1, <2>2, <2>3, <2>4 DEF RowTypes
<1>5. OrgExists' => OrgExists /\ ~owned /\ org' = org
  BY <1>2 DEF OrgExists, IInv, Rows, RowTypes
<1>6. \A x \in Users : IsMember(x)' => IsMember(x) /\ ~owned /\ x # u
  BY <1>2 DEF IsMember, NotMember
<1>7. \A i \in Invites : InvExists(i)' =>
        inv'[i] = inv[i] /\ InvExists(i) /\ ~owned /\ inv[i].by # u
  BY <1>2, <1>3 DEF InvExists
<1>8. ~owned => org' = org
  BY <1>2
<1>9. \A x \in Users : x # u => user'[x] = user[x]
  BY <1>1, <1>2 DEF IInv, Rows, RowTypes
<1>10. Owned'
  BY <1>5, <1>7 DEF IInv, Rows, Owned
<1>11. Referential'
  BY <1>5, <1>6, <1>7, <1>8, <1>9 DEF IInv, Rows, Owned, Referential, OrgExists
<1>12. Unique'
  <2>1. \A i \in Invites : inv'[i].status = "PENDING" => inv'[i] = inv[i]
    BY <1>2, <1>3
  <2> QED BY <2>1 DEF IInv, Rows, Unique
<1>13. lost' \in BOOLEAN
  BY DEF EraseAccount
<1> QED BY <1>4, <1>10, <1>11, <1>12, <1>13 DEF Rows

-----------------------------------------------------------------------------
(* Steps *)

LEMMA WriteStepKeeps ==
  ASSUME IInv, NEW r \in Requests, WriteStep(r)
  PROVE  IInv'
<1>1. CASE \/ DeleteOrganization(r) \/ RestoreOrganization(r)
  <2>1. \E s \in {"live", "deleted"} : org' = [org EXCEPT !.status = IF OrgExists THEN s ELSE @]
    <3>1. CASE DeleteOrganization(r)
      BY <3>1 DEF DeleteOrganization
    <3>2. CASE RestoreOrganization(r)
      <4>1. org' = [org EXCEPT !.status = IF @ = "deleted" THEN "live" ELSE @]
        BY <3>2 DEF RestoreOrganization
      <4>2. org' = [org EXCEPT !.status = IF OrgExists THEN "live" ELSE @]
        BY <4>1 DEF OrgExists, IInv, Rows, RowTypes
      <4> QED BY <4>2
    <3> QED BY <1>1, <3>1, <3>2
  <2>2. req' = Idled(r) /\ UNCHANGED <<user, member, inv, lost>>
    BY <1>1 DEF DeleteOrganization, RestoreOrganization
  <2> QED BY <2>1, <2>2, StatusKeeps, Idling DEF IInv
<1>2. CASE UpdateMemberRole(r)
  BY <1>2, RoleKeeps, Idling DEF IInv, UpdateMemberRole
<1>3. CASE RemoveMember(r)
  BY <1>3, RemoveKeeps, Idling DEF IInv, RemoveMember
<1>4. CASE TransferOwnership(r)
  BY <1>4, TransferKeeps, Idling DEF IInv, TransferOwnership
<1>5. CASE InvitePending(r)
  <2> DEFINE q == [req[r] EXCEPT !.pc = "inviteWrite"]
  <2>1. q \in Request /\ Remembers(q)
    BY <1>5 DEF InvitePending, IInv, Reqs, Request, Remembers, Targeted, Holding
  <2>2. req' = [req EXCEPT ![r] = q] /\ UNCHANGED <<user, org, member, inv, lost>>
    BY <1>5 DEF InvitePending
  <2> QED BY <2>1, <2>2, OneRequest, RowsKept DEF IInv, rows
<1>6. CASE CreateInvitation(r)
  BY <1>6, InsertKeeps, Idling DEF IInv, CreateInvitation
<1>7. CASE CancelInvitation(r) \/ ExpireInvitation(r) \/ DeclineInvitation(r) \/ AcceptNote(r)
  <2>1. PICK pc \in Holding, s \in Terminal : MarkInvitation(r, pc, s)
    BY <1>7 DEF CancelInvitation, ExpireInvitation, DeclineInvitation, AcceptNote, Holding, Terminal
  <2>2. req[r].inv \in Invites
    BY <2>1 DEF MarkInvitation, IInv, Reqs, Remembers
  <2>3. Rows'
    BY <2>1, <2>2, MarkKeeps DEF MarkInvitation, IInv
  <2> QED BY <2>1, <2>3, Idling DEF MarkInvitation, IInv
<1>8. CASE AcceptRead(r)
  <2> DEFINE q == [req[r] EXCEPT !.pc = IF IsMember(req[r].by) THEN "acceptNote" ELSE "acceptWrite"]
  <2>1. q \in Request /\ Remembers(q)
    BY <1>8 DEF AcceptRead, IInv, Reqs, Request, Remembers, Targeted, Holding
  <2>2. req' = [req EXCEPT ![r] = q] /\ UNCHANGED <<user, org, member, inv, lost>>
    BY <1>8 DEF AcceptRead
  <2> QED BY <2>1, <2>2, OneRequest, RowsKept DEF IInv, rows
<1>9. CASE AcceptInvitation(r)
  BY <1>9, AcceptKeeps, Idling DEF IInv, AcceptInvitation
<1>10. CASE EraseAccount(r)
  BY <1>10, EraseKeeps, Idling DEF IInv, EraseAccount
<1>11. CASE Fail(r)
  BY <1>11, RowsKept, Idling DEF IInv, Fail, rows
<1> QED
  BY <1>1, <1>2, <1>3, <1>4, <1>5, <1>6, <1>7, <1>8, <1>9, <1>10, <1>11 DEF WriteStep

LEMMA OtherStepKeeps ==
  ASSUME IInv,
         \/ \E u \in Users : CreateOrganization(u) \/ DeleteOrRestoreUser(u)
         \/ \E i \in Invites : InvitationExpires(i) \/ CleanupTerminalInvitations(i)
  PROVE  IInv'
<1>1. UNCHANGED <<req, lost>>
  BY DEF CreateOrganization, DeleteOrRestoreUser, InvitationExpires, CleanupTerminalInvitations
<1>2. ASSUME NEW u \in Users, CreateOrganization(u) PROVE Rows'
  BY <1>2, CreateKeeps
<1>3. ASSUME NEW u \in Users, DeleteOrRestoreUser(u) PROVE Rows'
  <2>1. \A x \in Users : user'[x] = "gone" <=> user[x] = "gone"
    BY <1>3 DEF DeleteOrRestoreUser, IInv, Rows, RowTypes
  <2>2. RowTypes'
    BY <1>3 DEF DeleteOrRestoreUser, IInv, Rows, RowTypes
  <2> QED
    BY <1>3, <2>1, <2>2 DEF DeleteOrRestoreUser, IInv, Rows, Owned, Referential, Unique, OrgExists,
                            IsMember, InvExists
<1>4. ASSUME NEW i \in Invites, InvitationExpires(i) PROVE Rows'
  <2> DEFINE v == [inv[i] EXCEPT !.expired = TRUE]
  <2>1. inv[i] \in Invitation
    BY DEF IInv, Rows, RowTypes
  <2>2. v \in Invitation /\ v.status = inv[i].status /\ v.by = inv[i].by /\ v.invitee = inv[i].invitee
    BY <2>1 DEF Invitation
  <2>3. InvExists(i) /\ inv[i].status = "PENDING" /\ inv' = [inv EXCEPT ![i] = v]
    BY <1>4 DEF InvitationExpires, InvExists
  <2> QED BY <1>4, <2>2, <2>3, InvKeeps DEF InvitationExpires, IInv
<1>5. ASSUME NEW i \in Invites, CleanupTerminalInvitations(i) PROVE Rows'
  <2>1. NoRow("gone") \in Invitation /\ NoRow("gone").status = "gone"
    BY DEF NoRow, Invitation
  <2>2. InvExists(i)
    BY <1>5 DEF CleanupTerminalInvitations, InvExists, Terminal
  <2> QED BY <1>5, <2>1, <2>2, InvKeeps DEF CleanupTerminalInvitations, IInv
<1>6. Reqs'
  BY <1>1 DEF IInv, Reqs
<1> QED BY <1>1, <1>2, <1>3, <1>4, <1>5, <1>6 DEF IInv

-----------------------------------------------------------------------------
(* The invariant and what follows from it *)

LEMMA InitHolds == Init => IInv
<1> SUFFICES ASSUME Init PROVE IInv
  OBVIOUS
<1>1. NoRow("unused") \in Invitation /\ NotMember \in Member /\ NotMember.role = "none"
  BY DEF NoRow, Invitation, Member, NotMember
<1>2. \A i \in Invites : inv[i].status = "unused"
  BY DEF Init, NoRow
<1>3. \A x \in Users : ~IsMember(x)
  BY DEF Init, IsMember, NotMember
<1>4. ~OrgExists
  BY DEF Init, OrgExists
<1>5. RowTypes
  BY <1>1 DEF Init, RowTypes
<1>6. Rows
  BY <1>2, <1>3, <1>4, <1>5 DEF Rows, Owned, Referential, Unique, InvExists
<1>7. Reqs /\ req \in [Requests -> Request] /\ lost \in BOOLEAN
  BY IdleOK DEF Init, Reqs
<1> QED BY <1>6, <1>7 DEF IInv

LEMMA NextKeeps == IInv /\ [Next]_vars => IInv'
<1> SUFFICES ASSUME IInv, [Next]_vars PROVE IInv'
  OBVIOUS
<1>1. CASE \E r \in Requests : ReadStep(r) \/ WriteStep(r)
  BY <1>1, ReadStepKeeps, WriteStepKeeps
<1>2. CASE \/ \E u \in Users : CreateOrganization(u) \/ DeleteOrRestoreUser(u)
           \/ \E i \in Invites : InvitationExpires(i) \/ CleanupTerminalInvitations(i)
  BY <1>2, OtherStepKeeps
<1>3. CASE UNCHANGED vars
  <2>1. Rows'
    BY <1>3, RowsKept DEF vars, rows, IInv
  <2>2. Reqs' /\ req' \in [Requests -> Request] /\ lost' \in BOOLEAN
    BY <1>3 DEF vars, IInv, Reqs
  <2> QED BY <2>1, <2>2 DEF IInv
<1> QED BY <1>1, <1>2, <1>3 DEF Next

LEMMA Invariance == Spec => []IInv
BY InitHolds, NextKeeps, PTL DEF Spec

(* The rows of the organization, its members and invitations, and the      *)
(* requests keep their types.                                              *)
THEOREM TypeCorrect == Spec => []TypeOK
<1>1. IInv => TypeOK
  BY DEF IInv, Rows, RowTypes, TypeOK
<1> QED BY <1>1, Invariance, PTL

(* A step of one request leaves the others as they are. *)
LEMMA OthersWait ==
  ASSUME IInv, NEW q \in Requests, NEW r \in Requests, q # r, ReadStep(q) \/ WriteStep(q)
  PROVE  req'[r] = req[r]
<1>1. \E s : req' = [req EXCEPT ![q] = s]
  <2>1. CASE ReadStep(q)
    BY <2>1 DEF ReadStep, Authorize, MemberRead, TransferRead, InviteRead, CancelRead, Respond,
                EraseRead
  <2>2. CASE WriteStep(q)
    BY <2>2 DEF WriteStep, DeleteOrganization, RestoreOrganization, UpdateMemberRole, RemoveMember,
                TransferOwnership, InvitePending, CreateInvitation, CancelInvitation,
                ExpireInvitation, DeclineInvitation, AcceptRead, AcceptNote, AcceptInvitation,
                EraseAccount, Fail, MarkInvitation, Idled
  <2> QED BY <2>1, <2>2
<1> QED BY <1>1 DEF IInv

(* What a change of members may do once it has read: write, or fail.       *)
LEMMA ChangeWrites ==
  ASSUME NEW r \in Requests, ReadStep(r) \/ WriteStep(r),
         req[r].pc \in {"roleWrite", "removeWrite", "transferWrite"}
  PROVE  UpdateMemberRole(r) \/ RemoveMember(r) \/ TransferOwnership(r) \/ Fail(r)
<1>1. Idle.pc = "idle"
  BY IdleOK
<1>2. CASE ReadStep(r)
  BY <1>1, <1>2 DEF ReadStep, Authorize, MemberRead, TransferRead, InviteRead, CancelRead, Respond,
                    EraseRead
<1>3. CASE WriteStep(r)
  BY <1>3 DEF WriteStep, DeleteOrganization, RestoreOrganization, InvitePending, CreateInvitation,
              CancelInvitation, ExpireInvitation, DeclineInvitation, AcceptRead, AcceptNote,
              AcceptInvitation, EraseAccount, MarkInvitation
<1> QED BY <1>2, <1>3

(* A role change or removal spares whoever left and came back after it     *)
(* read, and a transfer to somebody who left rolls back (org.service.js,   *)
(* updateMemberRole, removeMember, transferOwnership).                     *)
THEOREM StaleChangeMissesTheorem == Spec => StaleChangeMisses
<1> DEFINE Misses(r) ==
      LET t == req[r].target IN req'[r] # req[r] =>
        /\ req[r].pc \in {"roleWrite", "removeWrite"} /\ member[t].id # req[r].id =>
             member' = member
        /\ req[r].pc = "transferWrite" /\ ~IsMember(t) => UNCHANGED <<org, member>>
<1>1. ASSUME IInv, [Next]_vars, NEW r \in Requests PROVE Misses(r)
  <2> SUFFICES ASSUME req'[r] # req[r],
                      req[r].pc \in {"roleWrite", "removeWrite", "transferWrite"}
               PROVE  Misses(r)
    OBVIOUS
  <2>1. PICK q \in Requests : ReadStep(q) \/ WriteStep(q)
    BY <1>1 DEF Next, vars, CreateOrganization, DeleteOrRestoreUser, InvitationExpires,
                CleanupTerminalInvitations
  <2>2. q = r
    BY <1>1, <2>1, OthersWait
  <2>3. UpdateMemberRole(r) \/ RemoveMember(r) \/ TransferOwnership(r) \/ Fail(r)
    BY <2>1, <2>2, ChangeWrites
  <2> QED BY <2>3 DEF UpdateMemberRole, RemoveMember, TransferOwnership, Fail, SameRow
<1>2. IInv /\ [Next]_vars => [\A r \in Requests : Misses(r)]_vars
  BY <1>1
<1> QED BY <1>2, Invariance, PTL DEF Spec, StaleChangeMisses

(* However many invitations of one address are created at once, the index  *)
(* leaves one of them pending (invitation.service.js, createInvitation).   *)
THEOREM OnePendingHolds == Spec => []OnePending
<1>1. IInv => OnePending
  <2> SUFFICES ASSUME IInv, NEW u \in Users PROVE Cardinality(Pending(u)) <= 1
    BY DEF OnePending
  <2>1. CASE Pending(u) = {}
    BY <2>1, FS_EmptySet
  <2>2. CASE Pending(u) # {}
    <3>1. PICK i : i \in Pending(u)
      BY <2>2
    <3>2. Pending(u) = {i}
      BY <3>1 DEF Pending, IInv, Rows, Unique
    <3> QED BY <3>2, FS_Singleton
  <2> QED BY <2>1, <2>2
<1> QED BY <1>1, Invariance, PTL

-----------------------------------------------------------------------------
(* Requests that do not overlap: OneOwnerSerial, OthersKeepOrg and         *)
(* TerminalStays, over the history of overlapping requests.                *)

(* What a change of members knows when it comes to write, as long as none  *)
(* crossed a transfer: the row it read is not the owner's, and a transfer  *)
(* is the owner's.                                                         *)
Knows(r) ==
  /\ ChangesMembers(r) => org.status # "none"
  /\ req[r].pc = "transferWrite" => req[r].target # req[r].by
  /\ "members" \notin overlap =>
       /\ req[r].pc \in {"roleWrite", "removeWrite"} /\ SameRow(r) =>
            member[req[r].target].role # "OWNER"
       /\ req[r].pc \in {"transfer", "transferWrite"} /\ OrgExists => req[r].by = org.owner

(* An erasure that nothing crossed takes nobody else's organization.       *)
Alone(r) ==
  overlap \cap {"members", "erasure"} = {} /\ Erases(r) /\ OrgExists /\ org.owner = req[r].by
    => \A x \in Users : IsMember(x) => x = req[r].by

(* The invitation of a request, if no other held it, waits for the answer. *)
Waits(r) ==
  "invitation" \notin overlap /\ req[r].inv \in Invites =>
    inv[req[r].inv].status \in {"PENDING", "gone"}

Serial ==
  /\ Overlapping \subseteq overlap
  /\ "members" \notin overlap => OneOwner
  /\ overlap \cap {"members", "erasure"} = {} => ~lost
  /\ \A r \in Requests : Knows(r) /\ Alone(r) /\ Waits(r)

(* The organization and its members stay as they are. *)
Calm ==
  /\ member' = member /\ lost' = lost /\ org'.owner = org.owner
  /\ OrgExists' = OrgExists
  /\ org.status # "none" => org'.status # "none"

(* What a step may do to a request that changes members or erases: leave   *)
(* it, end it, authorize it, or let it read.                               *)
Authorized(q) ==
  /\ req'[q].pc \in {"role", "remove", "transfer"} /\ org.status = "live"
  /\ req'[q].by \in Users
  /\ req'[q].pc = "transfer" => member[req'[q].by].role = "OWNER"

ReadMember(q) ==
  /\ ChangesMembers(q) /\ req'[q].pc \in {"roleWrite", "removeWrite"}
  /\ member[req'[q].target].role \in {"ADMIN", "MEMBER"}

ReadTarget(q) ==
  /\ req[q].pc = "transfer" /\ req'[q].pc = "transferWrite"
  /\ req'[q].by = req[q].by /\ req'[q].target # req[q].by

ReadErased(q) ==
  /\ req'[q].pc = "eraseWrite" /\ req'[q].by \in Users
  /\ OrgExists /\ org.owner = req'[q].by => Cardinality(Members) <= 1

Goes(q) ==
  \/ req'[q] = req[q]
  \/ ~ChangesMembers(q)' /\ ~Erases(q)'
  \/ /\ UNCHANGED <<org, member>>
     /\ Authorized(q) \/ ReadMember(q) \/ ReadTarget(q) \/ ReadErased(q)

(* A set of at most one element. *)
LEMMA AtMostOne ==
  ASSUME NEW S, IsFiniteSet(S), Cardinality(S) <= 1, NEW x \in S, NEW y \in S
  PROVE  x = y
<1>1. SUFFICES ASSUME x # y PROVE FALSE
  OBVIOUS
<1>2. {x, y} \subseteq S
  OBVIOUS
<1>3. IsFiniteSet({x}) /\ Cardinality({x}) = 1
  BY FS_Singleton
<1>4. Cardinality({x} \cup {y}) = 2
  BY <1>1, <1>3, FS_AddElement
<1>5. {x} \cup {y} = {x, y}
  OBVIOUS
<1>6. Cardinality({x, y}) <= Cardinality(S)
  BY <1>2, FS_Subset
<1>7. Cardinality(S) \in Nat /\ Cardinality({x, y}) = 2
  BY <1>4, <1>5, FS_CardinalityType
<1> QED BY <1>6, <1>7

(* A history without overlap knows of no second request. *)
LEMMA NoSecond ==
  ASSUME Serial, overlap' = overlap \cup Overlapping',
         NEW q \in Requests, NEW r \in Requests, q # r
  PROVE  /\ "members" \notin overlap' => /\ "members" \notin overlap
                                         /\ ~MembersCross(q, r) /\ ~MembersCross(r, q)
         /\ "erasure" \notin overlap' => "erasure" \notin overlap /\ ~ErasureCrosses(q, r)
         /\ "invitation" \notin overlap' =>
              "invitation" \notin overlap /\ ~InvitationShared(q, r) /\ ~InvitationShared(q, r)'
BY DEF Serial, Overlapping

(* While the organization and its members stay as they are, so does what   *)
(* the requests know of them, and a request that reads learns it.          *)
LEMMA CalmSerial ==
  ASSUME IInv, IInv', Serial, overlap' = overlap \cup Overlapping',
         Calm, \A q \in Requests : Goes(q)
  PROVE  /\ ("members" \notin overlap => OneOwner)'
         /\ (overlap \cap {"members", "erasure"} = {} => ~lost)'
         /\ \A r \in Requests : Knows(r)' /\ Alone(r)'
<1>1. ("members" \notin overlap => OneOwner)'
  BY DEF Calm, Serial, OneOwner
<1>2. (overlap \cap {"members", "erasure"} = {} => ~lost)'
  BY DEF Calm, Serial
<1>3. ASSUME NEW r \in Requests PROVE Knows(r)' /\ Alone(r)'
  <2>1. CASE req'[r] = req[r]
    <3>1. Knows(r) /\ Alone(r)
      BY DEF Serial
    <3>2. Knows(r)'
      BY <2>1, <3>1 DEF Knows, Calm, ChangesMembers, Transfers, SameRow, IsMember
    <3>3. Alone(r)'
      BY <2>1, <3>1 DEF Alone, Calm, Erases, IsMember
    <3> QED BY <3>2, <3>3
  <2>2. CASE ~ChangesMembers(r)' /\ ~Erases(r)'
    BY <2>2 DEF Knows, Alone, ChangesMembers, Transfers, Erases
  <2>3. CASE UNCHANGED <<org, member>> /\ Authorized(r)
    <3>1. "members" \notin overlap' /\ OrgExists /\ req'[r].pc = "transfer" => req'[r].by = org.owner
      BY <2>3 DEF Authorized, Serial, OneOwner
    <3> QED BY <2>3, <3>1 DEF Authorized, Knows, Alone, ChangesMembers, Transfers, Erases, OrgExists
  <2>4. CASE UNCHANGED <<org, member>> /\ ReadMember(r)
    BY <2>4 DEF ReadMember, Knows, Alone, Serial, ChangesMembers, Transfers, Erases, SameRow
  <2>5. CASE UNCHANGED <<org, member>> /\ ReadTarget(r)
    <3>1. Knows(r)
      BY DEF Serial
    <3> QED BY <2>5, <3>1 DEF ReadTarget, Knows, Alone, ChangesMembers, Transfers, Erases, OrgExists
  <2>6. CASE UNCHANGED <<org, member>> /\ ReadErased(r)
    <3>1. ASSUME overlap' \cap {"members", "erasure"} = {}, OrgExists, org.owner = req'[r].by,
                 NEW x \in Users, IsMember(x)
          PROVE  x = req'[r].by
      <4>1. member[req'[r].by].role = "OWNER"
        BY <2>6, <3>1 DEF Serial, OneOwner, ReadErased
      <4>2. req'[r].by \in Members /\ x \in Members
        BY <2>6, <3>1, <4>1 DEF ReadErased, Members, IsMember
      <4>3. IsFiniteSet(Members)
        BY OrganizationConstants, FS_Subset DEF Members
      <4>4. Cardinality(Members) <= 1
        BY <2>6, <3>1 DEF ReadErased
      <4> QED BY <4>2, <4>3, <4>4, AtMostOne
    <3>2. Alone(r)'
      BY <2>6, <3>1 DEF Alone, OrgExists, IsMember
    <3> QED BY <2>6, <3>2 DEF ReadErased, Knows, ChangesMembers, Transfers
  <2> QED BY <2>1, <2>2, <2>3, <2>4, <2>5, <2>6 DEF Goes
<1> QED BY <1>1, <1>2, <1>3

(* A write of r ends r and leaves the other requests as they are. *)
LEMMA IdledFacts ==
  ASSUME IInv, NEW r \in Requests, req' = Idled(r)
  PROVE  /\ \A q \in Requests : req'[q] = IF q = r THEN Idle ELSE req[q]
         /\ ~ChangesMembers(r)' /\ ~Erases(r)'
         /\ \A q \in Requests : Goes(q)
<1>1. \A q \in Requests : req'[q] = IF q = r THEN Idle ELSE req[q]
  BY DEF IInv, Idled
<1>2. ~ChangesMembers(r)' /\ ~Erases(r)'
  BY <1>1, IdleOK DEF ChangesMembers, Transfers, Erases
<1> QED BY <1>1, <1>2 DEF Goes

(* A request that becomes s, and how it goes. *)
LEMMA BecomesGoes ==
  ASSUME IInv, NEW r \in Requests, NEW s, req' = [req EXCEPT ![r] = s],
         UNCHANGED <<org, member>>,
         \/ s.pc \notin {"role", "remove", "transfer", "roleWrite", "removeWrite",
                         "transferWrite", "eraseWrite"}
         \/ /\ s.pc \in {"role", "remove", "transfer"} /\ org.status = "live"
            /\ s.by \in Users
            /\ s.pc = "transfer" => member[s.by].role = "OWNER"
         \/ /\ ChangesMembers(r) /\ s.pc \in {"roleWrite", "removeWrite"}
            /\ member[s.target].role \in {"ADMIN", "MEMBER"}
         \/ /\ req[r].pc = "transfer" /\ s.pc = "transferWrite"
            /\ s.by = req[r].by /\ s.target # req[r].by
         \/ /\ s.pc = "eraseWrite" /\ s.by \in Users
            /\ OrgExists /\ org.owner = s.by => Cardinality(Members) <= 1
  PROVE  \A q \in Requests : Goes(q)
<1>1. \A q \in Requests : req'[q] = IF q = r THEN s ELSE req[q]
  BY DEF IInv
<1>2. Goes(r)
  BY <1>1 DEF Goes, Authorized, ReadMember, ReadTarget, ReadErased, ChangesMembers, Transfers, Erases
<1> QED BY <1>1, <1>2 DEF Goes

LEMMA ReadCalm ==
  ASSUME IInv, NEW r \in Requests, ReadStep(r)
  PROVE  Calm /\ \A q \in Requests : Goes(q)
<1> USE DEF IInv, Reqs, Rows, RowTypes
<1>0. req[r] \in Request /\ Remembers(req[r]) /\ req \in [Requests -> Request]
  OBVIOUS
<1>1. UNCHANGED <<user, org, member, inv, lost>>
  BY DEF ReadStep, Authorize, MemberRead, TransferRead, InviteRead, CancelRead, Respond, EraseRead
<1>2. Calm
  BY <1>1 DEF Calm, OrgExists
<1>3. CASE \E u \in Users, op \in DOMAIN Allowed : Authorize(r, u, op)
  <2> PICK u \in Users, op \in DOMAIN Allowed : Authorize(r, u, op) BY <1>3
  <2> DEFINE s == [Idle EXCEPT !.pc = op, !.by = u, !.as = member[u].role]
  <2>1. s.pc = op /\ s.by = u /\ req' = [req EXCEPT ![r] = s]
    BY DEF Authorize, Idle
  <2>2. op \in {"role", "remove", "transfer"} =>
          org.status = "live" /\ (op = "transfer" => member[u].role = "OWNER")
    BY DEF Authorize, Allowed
  <2>3. op \in {"role", "remove", "transfer", "invite", "cancel", "deleteOrg", "restoreOrg"}
    BY Endpoints
  <2> HIDE DEF s
  <2> QED BY <1>1, <1>2, <2>1, <2>2, <2>3, BecomesGoes
<1>4. CASE \E t \in Users, role \in {"ADMIN", "MEMBER"} : MemberRead(r, t, role)
  <2> PICK t \in Users, role \in {"ADMIN", "MEMBER"} : MemberRead(r, t, role) BY <1>4
  <2>1. PICK pc \in {"roleWrite", "removeWrite"}, n \in Nat :
          req' = [req EXCEPT ![r] = [req[r] EXCEPT !.pc = pc, !.target = t, !.id = n, !.role = role]]
    <3>1. member[t].id \in Nat
      BY DEF Member, NotMember
    <3> QED BY <1>0, <3>1 DEF MemberRead
  <2> DEFINE s == [req[r] EXCEPT !.pc = pc, !.target = t, !.id = n, !.role = role]
  <2>2. s.pc = pc /\ s.target = t /\ req' = [req EXCEPT ![r] = s]
    BY <1>0, <2>1 DEF Request
  <2>3. ChangesMembers(r) /\ member[t].role \in {"ADMIN", "MEMBER"}
    BY DEF MemberRead, ChangesMembers, Transfers
  <2> HIDE DEF s
  <2> QED BY <1>1, <1>2, <2>2, <2>3, BecomesGoes
<1>5. CASE \E t \in Users : TransferRead(r, t)
  <2> PICK t \in Users : TransferRead(r, t) BY <1>5
  <2> DEFINE s == [req[r] EXCEPT !.pc = "transferWrite", !.target = t]
  <2>1. s.pc = "transferWrite" /\ s.target = t /\ s.by = req[r].by /\ req' = [req EXCEPT ![r] = s]
    BY <1>0 DEF TransferRead, Request
  <2>2. req[r].pc = "transfer" /\ t # req[r].by
    BY DEF TransferRead
  <2> HIDE DEF s
  <2> QED BY <1>1, <1>2, <2>1, <2>2, BecomesGoes
<1>6. CASE \E u \in Users, role \in {"ADMIN", "MEMBER"} : InviteRead(r, u, role)
  <2> PICK u \in Users, role \in {"ADMIN", "MEMBER"} : InviteRead(r, u, role) BY <1>6
  <2> DEFINE s == [req[r] EXCEPT !.pc = "inviteRead", !.target = u, !.role = role]
  <2>1. s.pc = "inviteRead" /\ req' = [req EXCEPT ![r] = s]
    BY <1>0 DEF InviteRead, Request
  <2> HIDE DEF s
  <2> QED BY <1>1, <1>2, <2>1, BecomesGoes
<1>7. CASE \E i \in Invites : CancelRead(r, i)
  <2> PICK i \in Invites : CancelRead(r, i) BY <1>7
  <2> DEFINE s == [req[r] EXCEPT !.pc = "cancelWrite", !.inv = i]
  <2>1. s.pc = "cancelWrite" /\ req' = [req EXCEPT ![r] = s]
    BY <1>0 DEF CancelRead, Request
  <2> HIDE DEF s
  <2> QED BY <1>1, <1>2, <2>1, BecomesGoes
<1>8. CASE \E u \in Users, i \in Invites, op \in {"accept", "decline"} : Respond(r, u, i, op)
  <2> PICK u \in Users, i \in Invites, op \in {"accept", "decline"} : Respond(r, u, i, op) BY <1>8
  <2> DEFINE s == [Idle EXCEPT !.pc = IF inv[i].expired THEN "expireWrite"
                                      ELSE IF op = "accept" THEN "acceptRead" ELSE "declineWrite",
                               !.by = u, !.inv = i]
  <2>1. s.pc \in {"expireWrite", "acceptRead", "declineWrite"} /\ req' = [req EXCEPT ![r] = s]
    BY DEF Respond, Idle
  <2> HIDE DEF s
  <2> QED BY <1>1, <1>2, <2>1, BecomesGoes
<1>9. CASE \E u \in Users : EraseRead(r, u)
  <2> PICK u \in Users : EraseRead(r, u) BY <1>9
  <2> DEFINE s == [Idle EXCEPT !.pc = "eraseWrite", !.by = u]
  <2>1. s.pc = "eraseWrite" /\ s.by = u /\ req' = [req EXCEPT ![r] = s]
    BY DEF EraseRead, Idle
  <2>2. OrgExists /\ org.owner = u => Cardinality(Members) <= 1
    BY DEF EraseRead
  <2> HIDE DEF s
  <2> QED BY <1>1, <1>2, <2>1, <2>2, BecomesGoes
<1> QED BY <1>3, <1>4, <1>5, <1>6, <1>7, <1>8, <1>9 DEF ReadStep

LEMMA WriteCalm ==
  ASSUME IInv, NEW r \in Requests, WriteStep(r),
         ~UpdateMemberRole(r), ~RemoveMember(r), ~TransferOwnership(r),
         ~AcceptInvitation(r), ~EraseAccount(r)
  PROVE  Calm /\ \A q \in Requests : Goes(q)
<1>1. CASE DeleteOrganization(r) \/ RestoreOrganization(r)
  <2>1. org \in [status : {"none", "live", "deleted", "gone"},
                 owner : Users \cup {NoUser}, seq : Nat]
    BY DEF IInv, Rows, RowTypes
  <2>2. \E s \in {"none", "live", "deleted", "gone"} :
          /\ org' = [org EXCEPT !.status = s]
          /\ s \in {"live", "deleted"} <=> OrgExists
          /\ s = "none" => org.status = "none"
    BY <1>1, <2>1 DEF DeleteOrganization, RestoreOrganization, OrgExists
  <2>3. Calm
    BY <1>1, <2>1, <2>2 DEF Calm, OrgExists, DeleteOrganization, RestoreOrganization
  <2> QED BY <1>1, <2>3, IdledFacts DEF DeleteOrganization, RestoreOrganization
<1>2. CASE \/ CreateInvitation(r) \/ CancelInvitation(r) \/ ExpireInvitation(r)
           \/ DeclineInvitation(r) \/ AcceptNote(r) \/ Fail(r)
  <2>1. UNCHANGED <<org, member, lost>> /\ req' = Idled(r)
    BY <1>2 DEF CreateInvitation, CancelInvitation, ExpireInvitation, DeclineInvitation,
                AcceptNote, Fail, MarkInvitation
  <2> QED BY <2>1, IdledFacts DEF Calm, OrgExists
<1>3. CASE InvitePending(r) \/ AcceptRead(r)
  <2>1. PICK pc \in {"inviteWrite", "acceptNote", "acceptWrite"} :
          req' = [req EXCEPT ![r] = [req[r] EXCEPT !.pc = pc]]
    BY <1>3 DEF InvitePending, AcceptRead, IInv
  <2>2. [req[r] EXCEPT !.pc = pc].pc = pc
    BY DEF IInv, Request
  <2>3. UNCHANGED <<org, member, lost>>
    BY <1>3 DEF InvitePending, AcceptRead
  <2> QED BY <2>1, <2>2, <2>3, BecomesGoes DEF Calm, OrgExists
<1> QED BY <1>1, <1>2, <1>3 DEF WriteStep

(* The writes that are not calm: each says what it does to the owner, and  *)
(* leaves the other requests with what they know.                          *)
MembersOK ==
  /\ "members" \notin overlap => OneOwner
  /\ overlap \cap {"members", "erasure"} = {} => ~lost
  /\ \A r \in Requests : Knows(r) /\ Alone(r)

(* A role is changed or taken away that was not the owner's. *)
LEMMA MemberWriteSerial ==
  ASSUME IInv, IInv', Serial, overlap' = overlap \cup Overlapping',
         NEW r \in Requests, UpdateMemberRole(r) \/ RemoveMember(r)
  PROVE  MembersOK'
<1> DEFINE t == req[r].target
<1>0. /\ t \in Users /\ ChangesMembers(r) /\ req[r].role \in {"ADMIN", "MEMBER"}
      /\ req[r].pc \in {"roleWrite", "removeWrite"} /\ req[r] # Idle
  BY IdleOK DEF UpdateMemberRole, RemoveMember, IInv, Reqs, Remembers, Targeted, Request, ChangesMembers, Transfers
<1>1. UNCHANGED <<user, org, lost>> /\ req' = Idled(r)
  BY DEF UpdateMemberRole, RemoveMember
<1>2. \A q \in Requests : req'[q] = IF q = r THEN Idle ELSE req[q]
  BY <1>1, IdledFacts
<1>3. /\ \A x \in Users : x # t => member'[x] = member[x]
      /\ SameRow(r) => member'[t].role # "OWNER"
      /\ ~SameRow(r) => member'[t] = member[t]
      /\ member'[t].role # "none" => IsMember(t)
  <2>1. member \in [Users -> Member]
    BY DEF IInv, Rows, RowTypes
  <2>2. CASE SameRow(r)
    <3>1. member[t] \in [role : Role, id : Nat \ {0}]
      BY <1>0, <2>1, <2>2 DEF SameRow, IsMember, Member, NotMember
    <3> QED BY <1>0, <2>1, <2>2, <3>1 DEF UpdateMemberRole, RemoveMember, NotMember, SameRow, IsMember
  <2>3. CASE ~SameRow(r)
    BY <2>3 DEF UpdateMemberRole, RemoveMember, IsMember
  <2> QED BY <2>2, <2>3
<1>4. ("members" \notin overlap => OneOwner)'
  <2> SUFFICES ASSUME "members" \notin overlap', OrgExists
               PROVE  {u \in Users : member'[u].role = "OWNER"} = {org.owner}
    BY <1>1 DEF OneOwner, OrgExists
  <2>1. "members" \notin overlap /\ {u \in Users : member[u].role = "OWNER"} = {org.owner} /\ Knows(r)
    BY DEF Serial, OneOwner
  <2>2. SameRow(r) => member[t].role # "OWNER"
    BY <1>0, <2>1 DEF Knows
  <2>3. \A u \in Users : member'[u].role = "OWNER" <=> member[u].role = "OWNER"
    BY <1>3, <2>2
  <2> QED BY <2>1, <2>3
<1>5. ASSUME NEW q \in Requests PROVE Knows(q)' /\ Alone(q)'
  <2>1. CASE q = r
    BY <1>2, <2>1, IdleOK DEF Knows, Alone, ChangesMembers, Transfers, Erases
  <2>2. CASE q # r
    <3>1. Knows(q) /\ Alone(q) /\ req'[q] = req[q]
      BY <1>2, <2>2 DEF Serial
    <3>2. req[q].pc \in {"roleWrite", "removeWrite"} => req[q].target \in Users
      BY DEF IInv, Reqs, Remembers, Targeted
    <3>3. Knows(q)'
      <4>1. ASSUME "members" \notin overlap', req[q].pc \in {"roleWrite", "removeWrite"}, SameRow(q)'
            PROVE  member'[req[q].target].role # "OWNER"
        <5>1. "members" \notin overlap
          BY <4>1
        <5>2. IsMember(req[q].target)' /\ member'[req[q].target].id = req[q].id
          BY <3>1, <4>1 DEF SameRow, IsMember
        <5>3. CASE req[q].target = t /\ SameRow(r)
          BY <1>3, <5>3
        <5>4. CASE req[q].target # t \/ ~SameRow(r)
          <6>1. member'[req[q].target] = member[req[q].target]
            BY <1>3, <3>2, <4>1, <5>4
          <6>2. SameRow(q)
            BY <3>1, <5>2, <6>1 DEF SameRow, IsMember
          <6> QED BY <3>1, <4>1, <5>1, <6>1, <6>2 DEF Knows
        <5> QED BY <5>3, <5>4
      <4>2. "members" \notin overlap' => "members" \notin overlap
        OBVIOUS
      <4> QED BY <1>1, <3>1, <4>1, <4>2 DEF Knows, ChangesMembers, Transfers, OrgExists
    <3>4. Alone(q)'
      BY <1>1, <1>3, <3>1 DEF Alone, Erases, IsMember, OrgExists
    <3> QED BY <3>3, <3>4
  <2> QED BY <2>1, <2>2
<1> QED BY <1>1, <1>4, <1>5 DEF MembersOK, Serial

(* The owner hands over: promoted and demoted together. *)
LEMMA TransferSerial ==
  ASSUME IInv, IInv', Serial, overlap' = overlap \cup Overlapping',
         NEW r \in Requests, TransferOwnership(r)
  PROVE  MembersOK'
<1>1. PICK t \in Users, u \in Users : t = req[r].target /\ u = req[r].by
  BY DEF TransferOwnership, IInv, Reqs, Remembers, Targeted
<1>2. /\ ChangesMembers(r) /\ req[r].pc = "transferWrite" /\ Knows(r) /\ t # u
      /\ req[r] # Idle
  BY <1>1, IdleOK DEF TransferOwnership, ChangesMembers, Transfers, Serial, Knows
<1>3. /\ req' = Idled(r) /\ UNCHANGED <<user, lost>>
      /\ \A q \in Requests : req'[q] = IF q = r THEN Idle ELSE req[q]
  BY IdledFacts DEF TransferOwnership
<1>4. CASE OrgExists /\ IsMember(t) /\ IsMember(u)
  <2>1. /\ org' = [org EXCEPT !.owner = t]
        /\ member' = [member EXCEPT ![t].role = "OWNER", ![u].role = "ADMIN"]
    BY <1>1, <1>4 DEF TransferOwnership
  <2>2. /\ org'.owner = t /\ OrgExists' /\ org'.status = org.status
    BY <1>4, <2>1 DEF OrgExists, IInv, Rows, RowTypes
  <2>3. /\ member'[t].role = "OWNER" /\ member'[u].role = "ADMIN"
        /\ \A x \in Users : x \notin {t, u} => member'[x] = member[x]
    <3>1. \A x \in {t, u} : member[x] \in [role : Role, id : Nat \ {0}]
      BY <1>1, <1>4 DEF IsMember, IInv, Rows, RowTypes, Member, NotMember
    <3> QED BY <1>2, <2>1, <3>1 DEF IInv, Rows, RowTypes
  <2>4. \A x \in Users : member'[x].role # "none" => IsMember(x)
    BY <1>4, <2>3 DEF IsMember
  <2>5. ("members" \notin overlap => OneOwner)'
    <3> SUFFICES ASSUME "members" \notin overlap'
                 PROVE  \A x \in Users : member'[x].role = "OWNER" <=> x = t
      BY <2>2 DEF OneOwner
    <3>1. "members" \notin overlap /\ u = org.owner
      BY <1>1, <1>2, <1>4 DEF Knows
    <3>2. \A x \in Users : member[x].role = "OWNER" => x = u
      BY <1>4, <3>1 DEF Serial, OneOwner
    <3> QED BY <2>3, <3>2
  <2>6. ASSUME NEW q \in Requests PROVE Knows(q)' /\ Alone(q)'
    <3>1. CASE q = r
      BY <1>3, <3>1, IdleOK DEF Knows, Alone, ChangesMembers, Transfers, Erases
    <3>2. CASE q # r
      <4>1. Knows(q) /\ req'[q] = req[q]
        BY <1>3, <3>2 DEF Serial
      <4>2. "members" \notin overlap' =>
              /\ "members" \notin overlap /\ ~Transfers(q)
              /\ req[q].pc \in {"roleWrite", "removeWrite"} => req[q].target # t
        BY <1>1, <1>2, <3>2, NoSecond DEF MembersCross, Transfers, Promotes
      <4>3. "erasure" \notin overlap' /\ Erases(q) => req[q].by # t
        BY <1>1, <1>2, <3>2, NoSecond DEF ErasureCrosses, Promotes
      <4>4. Alone(q)'
        BY <2>2, <4>1, <4>3 DEF Alone, Erases
      <4>5. req[q].pc \in {"roleWrite", "removeWrite"} => req[q].target \in Users
        BY DEF IInv, Reqs, Remembers, Targeted
      <4>6. Knows(q)'
        <5>1. org'.status # "none" /\ (req[q].pc = "transferWrite" => req[q].target # req[q].by)
          BY <2>2, <4>1 DEF Knows, OrgExists
        <5>2. ASSUME "members" \notin overlap', req[q].pc \in {"roleWrite", "removeWrite"}, SameRow(q)'
              PROVE  member'[req[q].target].role # "OWNER"
          BY <1>4, <2>3, <4>1, <4>2, <4>5, <5>2 DEF Knows, SameRow, IsMember
        <5> QED BY <4>1, <4>2, <5>1, <5>2 DEF Knows, Transfers
      <4> QED BY <4>4, <4>6
    <3> QED BY <3>1, <3>2
  <2> QED BY <1>3, <2>5, <2>6 DEF MembersOK, Serial
<1>5. CASE ~(OrgExists /\ IsMember(t) /\ IsMember(u))
  <2>1. UNCHANGED <<org, member>>
    BY <1>1, <1>5 DEF TransferOwnership
  <2>2. Calm
    BY <1>3, <2>1 DEF Calm, OrgExists
  <2> QED BY <1>3, <2>2, IdledFacts, CalmSerial DEF MembersOK
<1> QED BY <1>4, <1>5

(* The new member is no owner. *)
LEMMA AcceptSerial ==
  ASSUME IInv, IInv', Serial, overlap' = overlap \cup Overlapping',
         NEW r \in Requests, AcceptInvitation(r)
  PROVE  MembersOK'
<1>1. PICK u \in Users, i \in Invites : u = req[r].by /\ i = req[r].inv
  BY DEF AcceptInvitation, IInv, Reqs, Remembers, Holding
<1>2. /\ req' = Idled(r) /\ UNCHANGED <<user, lost>> /\ req[r] # Idle
      /\ \A q \in Requests : req'[q] = IF q = r THEN Idle ELSE req[q]
  BY IdledFacts, IdleOK DEF AcceptInvitation
<1>3. CASE InvExists(i) /\ ~IsMember(u) /\ user[u] # "gone" /\ OrgExists
  <2>1. inv[i].role \in {"ADMIN", "MEMBER"} /\ member \in [Users -> Member]
    BY DEF IInv, Rows, RowTypes, Invitation
  <2>2. /\ org' = [org EXCEPT !.seq = @ + 1]
        /\ member' = [member EXCEPT ![u] = [role |-> inv[i].role, id |-> org.seq + 1]]
    BY <1>1, <1>3 DEF AcceptInvitation
  <2>3. org'.owner = org.owner /\ org'.status = org.status /\ OrgExists'
    BY <1>3, <2>2 DEF OrgExists, IInv, Rows, RowTypes
  <2>4. /\ member'[u].role \in {"ADMIN", "MEMBER"}
        /\ \A x \in Users : x # u => member'[x] = member[x]
    BY <2>1, <2>2
  <2>5. member[u].role = "none"
    BY <1>3 DEF IsMember
  <2>6. ("members" \notin overlap => OneOwner)'
    <3>1. \A x \in Users : member'[x].role = "OWNER" <=> member[x].role = "OWNER"
      BY <2>4, <2>5
    <3> QED BY <1>3, <2>3, <3>1 DEF Serial, OneOwner
  <2>7. ASSUME NEW q \in Requests PROVE Knows(q)' /\ Alone(q)'
    <3>1. CASE q = r
      BY <1>2, <3>1, IdleOK DEF Knows, Alone, ChangesMembers, Transfers, Erases
    <3>2. CASE q # r
      <4>1. Knows(q) /\ req'[q] = req[q]
        BY <1>2, <3>2 DEF Serial
      <4>2. "erasure" \notin overlap' => ~Erases(q)
        BY <3>2, NoSecond DEF AcceptInvitation, ErasureCrosses
      <4>3. Alone(q)'
        BY <4>1, <4>2 DEF Alone, Erases
      <4>4. req[q].pc \in {"roleWrite", "removeWrite"} => req[q].target \in Users
        BY DEF IInv, Reqs, Remembers, Targeted
      <4>5. Knows(q)'
        BY <1>3, <2>3, <2>4, <4>1, <4>4 DEF Knows, ChangesMembers, Transfers, SameRow, IsMember
      <4> QED BY <4>3, <4>5
    <3> QED BY <3>1, <3>2
  <2> QED BY <1>2, <2>6, <2>7 DEF MembersOK, Serial
<1>4. CASE ~(InvExists(i) /\ ~IsMember(u) /\ user[u] # "gone" /\ OrgExists)
  <2>1. UNCHANGED <<org, member>>
    BY <1>1, <1>4 DEF AcceptInvitation
  <2>2. Calm
    BY <1>2, <2>1 DEF Calm, OrgExists
  <2> QED BY <1>2, <2>2, IdledFacts, CalmSerial DEF MembersOK
<1> QED BY <1>3, <1>4

(* The account goes with its membership, or with an organization that has  *)
(* nobody else.                                                            *)
LEMMA EraseSerial ==
  ASSUME IInv, IInv', Serial, overlap' = overlap \cup Overlapping',
         NEW r \in Requests, EraseAccount(r)
  PROVE  MembersOK'
<1>1. PICK u \in Users : u = req[r].by
  BY DEF EraseAccount, IInv, Reqs, Remembers
<1> DEFINE owned == OrgExists /\ org.owner = u
<1>2. /\ org' = IF owned THEN [org EXCEPT !.status = "gone"] ELSE org
      /\ member' = [x \in Users |-> IF owned \/ x = u THEN NotMember ELSE member[x]]
      /\ lost' = (lost \/ (owned /\ \E x \in Users \ {u} : IsMember(x)))
      /\ req' = Idled(r) /\ Erases(r) /\ req[r] # Idle
  BY <1>1, IdleOK DEF EraseAccount, Erases
<1>3. \A q \in Requests : req'[q] = IF q = r THEN Idle ELSE req[q]
  BY <1>2, IdledFacts
<1>4. OrgExists' => OrgExists /\ ~owned /\ org' = org
  BY <1>2 DEF OrgExists, IInv, Rows, RowTypes
<1>5. org.status # "none" => org'.status # "none"
  BY <1>2 DEF IInv, Rows, RowTypes
<1>6. \A x \in Users : \/ member'[x].role = "none"
                       \/ member'[x] = member[x] /\ ~owned /\ x # u
  BY <1>2 DEF NotMember
<1>7. \A x \in Users : x # u /\ ~owned => member'[x] = member[x]
  BY <1>2
<1>8. ("members" \notin overlap => OneOwner)'
  <2> SUFFICES ASSUME "members" \notin overlap', OrgExists'
               PROVE  {x \in Users : member'[x].role = "OWNER"} = {org'.owner}
    BY DEF OneOwner
  <2>1. OrgExists /\ ~owned /\ org' = org /\ org.owner # u
    BY <1>4
  <2>2. \A x \in Users : member[x].role = "OWNER" <=> x = org.owner
    BY <2>1 DEF Serial, OneOwner
  <2>3. org.owner \in Users
    BY <2>1 DEF IInv, Rows, Owned
  <2> QED BY <1>6, <1>7, <2>1, <2>2, <2>3
<1>9. (overlap \cap {"members", "erasure"} = {} => ~lost)'
  <2> SUFFICES ASSUME overlap' \cap {"members", "erasure"} = {} PROVE ~lost'
    OBVIOUS
  <2>1. overlap \cap {"members", "erasure"} = {}
    OBVIOUS
  <2>2. Alone(r) /\ ~lost
    BY <2>1 DEF Serial
  <2>3. owned => \A x \in Users : IsMember(x) => x = u
    BY <1>1, <1>2, <2>1, <2>2 DEF Alone
  <2> QED BY <1>2, <2>2, <2>3
<1>10. ASSUME NEW q \in Requests PROVE Knows(q)' /\ Alone(q)'
  <2>1. CASE q = r
    BY <1>3, <2>1, IdleOK DEF Knows, Alone, ChangesMembers, Transfers, Erases
  <2>2. CASE q # r
    <3>1. Knows(q) /\ req'[q] = req[q]
      BY <1>3, <2>2 DEF Serial
    <3>2. Alone(q)
      BY DEF Serial
    <3>3. Alone(q)'
      BY <1>4, <1>6, <3>1, <3>2 DEF Alone, Erases, IsMember
    <3>4. req[q].pc \in {"roleWrite", "removeWrite"} => req[q].target \in Users
      BY DEF IInv, Reqs, Remembers, Targeted
    <3>5. Knows(q)'
      BY <1>4, <1>5, <1>6, <3>1, <3>4 DEF Knows, ChangesMembers, Transfers, SameRow, IsMember
    <3> QED BY <3>3, <3>5
  <2> QED BY <2>1, <2>2
<1> QED BY <1>8, <1>9, <1>10 DEF MembersOK

(* A new organization has its owner and nobody else. *)
LEMMA CreateSerial ==
  ASSUME IInv, IInv', Serial, overlap' = overlap \cup Overlapping',
         NEW u \in Users, CreateOrganization(u)
  PROVE  MembersOK'
<1>1. /\ UNCHANGED <<req, lost>> /\ org.status = "none" /\ ~OrgExists
      /\ org' = [status |-> "live", owner |-> u, seq |-> 1]
      /\ member' = [member EXCEPT ![u] = [role |-> "OWNER", id |-> 1]]
  BY DEF CreateOrganization, OrgExists
<1>2. \A x \in Users : member[x].role = "none"
  BY <1>1 DEF IInv, Rows, Referential, IsMember
<1>3. \A x \in Users : member'[x].role = IF x = u THEN "OWNER" ELSE "none"
  BY <1>1, <1>2 DEF IInv, Rows, RowTypes
<1>4. org'.owner = u /\ org'.status = "live"
  BY <1>1
<1>5. OneOwner'
  BY <1>3, <1>4 DEF OneOwner
<1>6. ASSUME NEW q \in Requests PROVE Knows(q)' /\ Alone(q)'
  <2>1. ~ChangesMembers(q) /\ req'[q] = req[q]
    BY <1>1 DEF Serial, Knows
  <2>2. Knows(q)'
    BY <2>1 DEF Knows, ChangesMembers, Transfers
  <2>3. Alone(q)'
    BY <1>3, <1>4 DEF Alone, IsMember
  <2> QED BY <2>2, <2>3
<1> QED BY <1>1, <1>5, <1>6 DEF MembersOK, Serial

LEMMA MembersInv ==
  ASSUME IInv, IInv', Serial, [Next]_vars, overlap' = overlap \cup Overlapping'
  PROVE  MembersOK'
<1>1. ASSUME NEW u \in Users, CreateOrganization(u) PROVE MembersOK'
  BY <1>1, CreateSerial
<1>2. CASE \/ \E u \in Users : DeleteOrRestoreUser(u)
           \/ \E i \in Invites : InvitationExpires(i) \/ CleanupTerminalInvitations(i)
           \/ UNCHANGED vars
  <2>1. UNCHANGED <<org, member, lost, req>>
    BY <1>2 DEF DeleteOrRestoreUser, InvitationExpires, CleanupTerminalInvitations, vars
  <2>2. Calm /\ \A q \in Requests : Goes(q)
    BY <2>1 DEF Calm, OrgExists, Goes
  <2> QED BY <2>2, CalmSerial DEF MembersOK
<1>3. ASSUME NEW r \in Requests, ReadStep(r) PROVE MembersOK'
  BY <1>3, ReadCalm, CalmSerial DEF MembersOK
<1>4. ASSUME NEW r \in Requests, WriteStep(r) PROVE MembersOK'
  <2>1. CASE UpdateMemberRole(r) \/ RemoveMember(r)
    BY <2>1, MemberWriteSerial
  <2>2. CASE TransferOwnership(r)
    BY <2>2, TransferSerial
  <2>3. CASE AcceptInvitation(r)
    BY <2>3, AcceptSerial
  <2>4. CASE EraseAccount(r)
    BY <2>4, EraseSerial
  <2> QED BY <1>4, <2>1, <2>2, <2>3, <2>4, WriteCalm, CalmSerial DEF MembersOK
<1> QED BY <1>1, <1>2, <1>3, <1>4 DEF Next

(* What a step may do to an invitation: leave its status, take the row     *)
(* away, create it, or have the request that holds it answer.              *)
Answered(i) ==
  \/ inv'[i].status = inv[i].status \/ inv'[i].status = "gone"
  \/ inv[i].status = "unused" /\ inv'[i].status = "PENDING"
  \/ \E r \in Requests : req[r].inv = i /\ req'[r] = Idle

(* And to the invitation of a request. *)
Holds(r) ==
  \/ req'[r].inv = req[r].inv \/ req'[r] = Idle
  \/ req'[r].inv \notin Invites
  \/ inv' = inv /\ inv[req'[r].inv].status = "PENDING"

LEMMA MarkAnswers ==
  ASSUME IInv, NEW r \in Requests, req' = Idled(r), req[r].inv \in Invites,
         NEW status \in Terminal, inv' = Marked(r, status), NEW i \in Invites
  PROVE  Answered(i)
<1>1. req'[r] = Idle
  BY IdledFacts
<1>2. CASE req[r].inv = i
  BY <1>1, <1>2 DEF Answered
<1>3. CASE req[r].inv # i
  BY <1>3 DEF Answered, Marked, IInv, Rows, RowTypes
<1> QED BY <1>2, <1>3

LEMMA IdledHolds ==
  ASSUME IInv, NEW r \in Requests, req' = Idled(r), NEW q \in Requests
  PROVE  Holds(q)
BY IdledFacts DEF Holds

(* One step per action. *)
LEMMA WriteAnswers ==
  ASSUME IInv, NEW r \in Requests, WriteStep(r)
  PROVE  /\ \A i \in Invites : Answered(i)
         /\ \A q \in Requests : Holds(q)
<1> USE DEF IInv, Rows, RowTypes
<1>1. CASE \/ DeleteOrganization(r) \/ RestoreOrganization(r) \/ UpdateMemberRole(r)
           \/ RemoveMember(r) \/ TransferOwnership(r) \/ Fail(r)
  <2>1. UNCHANGED inv /\ req' = Idled(r)
    BY <1>1 DEF DeleteOrganization, RestoreOrganization, UpdateMemberRole, RemoveMember,
                TransferOwnership, Fail
  <2> QED BY <2>1, IdledHolds DEF Answered
<1>2. CASE InvitePending(r) \/ AcceptRead(r)
  <2>1. PICK pc \in {"inviteWrite", "acceptNote", "acceptWrite"} :
          req' = [req EXCEPT ![r] = [req[r] EXCEPT !.pc = pc]]
    BY <1>2 DEF InvitePending, AcceptRead
  <2>2. [req[r] EXCEPT !.pc = pc].inv = req[r].inv
    BY DEF Reqs, Request
  <2>3. UNCHANGED inv
    BY <1>2 DEF InvitePending, AcceptRead
  <2>4. \A q \in Requests : req'[q].inv = req[q].inv
    BY <2>1, <2>2
  <2> QED BY <2>3, <2>4 DEF Answered, Holds
<1>3. CASE CreateInvitation(r)
  <2>1. PICK i \in Invites :
          /\ inv[i].status = "unused"
          /\ inv' = [inv EXCEPT ![i] = [status |-> "PENDING", invitee |-> req[r].target,
                       by |-> req[r].by, role |-> req[r].role, expired |-> FALSE]]
    BY <1>3 DEF CreateInvitation
  <2>2. \A j \in Invites : Answered(j)
    BY <2>1 DEF Answered
  <2> QED BY <1>3, <2>2, IdledHolds DEF CreateInvitation
<1>4. CASE CancelInvitation(r) \/ ExpireInvitation(r) \/ DeclineInvitation(r) \/ AcceptNote(r)
  <2>1. PICK pc \in Holding, s \in Terminal : MarkInvitation(r, pc, s)
    BY <1>4 DEF CancelInvitation, ExpireInvitation, DeclineInvitation, AcceptNote, Holding, Terminal
  <2>2. req[r].inv \in Invites /\ req' = Idled(r) /\ inv' = Marked(r, s)
    BY <2>1 DEF MarkInvitation, Reqs, Remembers
  <2> QED BY <2>2, MarkAnswers, IdledHolds
<1>5. CASE AcceptInvitation(r)
  <2>1. req[r].inv \in Invites /\ req' = Idled(r)
    BY <1>5 DEF AcceptInvitation, Reqs, Remembers, Holding
  <2>2. inv' = inv \/ inv' = Marked(r, "ACCEPTED")
    BY <1>5 DEF AcceptInvitation
  <2>3. PICK s \in Terminal : s = "ACCEPTED"
    BY DEF Terminal
  <2>4. \A i \in Invites : Answered(i)
    <3>1. CASE inv' = inv
      BY <3>1 DEF Answered
    <3>2. CASE inv' = Marked(r, s)
      BY <2>1, <3>2, MarkAnswers
    <3> QED BY <2>2, <2>3, <3>1, <3>2
  <2> QED BY <2>1, <2>4, IdledHolds
<1>6. CASE EraseAccount(r)
  <2>1. /\ req' = Idled(r)
        /\ \A i \in Invites : inv'[i] = inv[i] \/ inv'[i] = NoRow("gone")
    BY <1>6 DEF EraseAccount
  <2>2. \A i \in Invites : Answered(i)
    BY <2>1 DEF Answered, NoRow
  <2> QED BY <2>1, <2>2, IdledHolds
<1> QED BY <1>1, <1>2, <1>3, <1>4, <1>5, <1>6 DEF WriteStep

(* A request that becomes s, with the invitation it had, none, or a        *)
(* pending one.                                                            *)
LEMMA BecomesHolds ==
  ASSUME IInv, NEW r \in Requests, NEW s, req' = [req EXCEPT ![r] = s], inv' = inv,
         \/ s.inv = req[r].inv \/ s.inv = NoInvite
         \/ inv[s.inv].status = "PENDING"
  PROVE  \A q \in Requests : Holds(q)
<1>1. \A q \in Requests : req'[q] = IF q = r THEN s ELSE req[q]
  BY DEF IInv
<1> QED BY <1>1, OrganizationConstants DEF Holds

LEMMA ReadHolds ==
  ASSUME IInv, NEW r \in Requests, ReadStep(r)
  PROVE  inv' = inv /\ \A q \in Requests : Holds(q)
<1> USE DEF IInv, Reqs, Rows, RowTypes
<1>0. req[r] \in Request /\ req \in [Requests -> Request]
  OBVIOUS
<1>1. inv' = inv
  BY DEF ReadStep, Authorize, MemberRead, TransferRead, InviteRead, CancelRead, Respond, EraseRead
<1>2. CASE \E u \in Users, op \in DOMAIN Allowed : Authorize(r, u, op)
  <2> PICK u \in Users, op \in DOMAIN Allowed : Authorize(r, u, op) BY <1>2
  <2> DEFINE s == [Idle EXCEPT !.pc = op, !.by = u, !.as = member[u].role]
  <2>1. s.inv = NoInvite /\ req' = [req EXCEPT ![r] = s]
    BY DEF Authorize, Idle
  <2> HIDE DEF s
  <2> QED BY <1>1, <2>1, BecomesHolds
<1>3. CASE \E t \in Users, role \in {"ADMIN", "MEMBER"} : MemberRead(r, t, role)
  <2> PICK t \in Users, role \in {"ADMIN", "MEMBER"} : MemberRead(r, t, role) BY <1>3
  <2>1. PICK pc \in {"roleWrite", "removeWrite"}, n \in Nat :
          req' = [req EXCEPT ![r] = [req[r] EXCEPT !.pc = pc, !.target = t, !.id = n, !.role = role]]
    <3>1. member[t].id \in Nat
      BY DEF Member, NotMember
    <3> QED BY <1>0, <3>1 DEF MemberRead
  <2> DEFINE s == [req[r] EXCEPT !.pc = pc, !.target = t, !.id = n, !.role = role]
  <2>2. s.inv = req[r].inv /\ req' = [req EXCEPT ![r] = s]
    BY <1>0, <2>1 DEF Request
  <2> HIDE DEF s
  <2> QED BY <1>1, <2>2, BecomesHolds
<1>4. CASE \E t \in Users : TransferRead(r, t)
  <2> PICK t \in Users : TransferRead(r, t) BY <1>4
  <2> DEFINE s == [req[r] EXCEPT !.pc = "transferWrite", !.target = t]
  <2>1. s.inv = req[r].inv /\ req' = [req EXCEPT ![r] = s]
    BY <1>0 DEF TransferRead, Request
  <2> HIDE DEF s
  <2> QED BY <1>1, <2>1, BecomesHolds
<1>5. CASE \E u \in Users, role \in {"ADMIN", "MEMBER"} : InviteRead(r, u, role)
  <2> PICK u \in Users, role \in {"ADMIN", "MEMBER"} : InviteRead(r, u, role) BY <1>5
  <2> DEFINE s == [req[r] EXCEPT !.pc = "inviteRead", !.target = u, !.role = role]
  <2>1. s.inv = req[r].inv /\ req' = [req EXCEPT ![r] = s]
    BY <1>0 DEF InviteRead, Request
  <2> HIDE DEF s
  <2> QED BY <1>1, <2>1, BecomesHolds
<1>6. CASE \E i \in Invites : CancelRead(r, i)
  <2> PICK i \in Invites : CancelRead(r, i) BY <1>6
  <2> DEFINE s == [req[r] EXCEPT !.pc = "cancelWrite", !.inv = i]
  <2>1. s.inv = i /\ req' = [req EXCEPT ![r] = s] /\ inv[i].status = "PENDING"
    BY <1>0 DEF CancelRead, Request
  <2> HIDE DEF s
  <2> QED BY <1>1, <2>1, BecomesHolds
<1>7. CASE \E u \in Users, i \in Invites, op \in {"accept", "decline"} : Respond(r, u, i, op)
  <2> PICK u \in Users, i \in Invites, op \in {"accept", "decline"} : Respond(r, u, i, op) BY <1>7
  <2> DEFINE s == [Idle EXCEPT !.pc = IF inv[i].expired THEN "expireWrite"
                                      ELSE IF op = "accept" THEN "acceptRead" ELSE "declineWrite",
                               !.by = u, !.inv = i]
  <2>1. s.inv = i /\ req' = [req EXCEPT ![r] = s] /\ inv[i].status = "PENDING"
    BY DEF Respond, Idle
  <2> HIDE DEF s
  <2> QED BY <1>1, <2>1, BecomesHolds
<1>8. CASE \E u \in Users : EraseRead(r, u)
  <2> PICK u \in Users : EraseRead(r, u) BY <1>8
  <2> DEFINE s == [Idle EXCEPT !.pc = "eraseWrite", !.by = u]
  <2>1. s.inv = NoInvite /\ req' = [req EXCEPT ![r] = s]
    BY DEF EraseRead, Idle
  <2> HIDE DEF s
  <2> QED BY <1>1, <2>1, BecomesHolds
<1> QED BY <1>2, <1>3, <1>4, <1>5, <1>6, <1>7, <1>8 DEF ReadStep

LEMMA StepAnswers ==
  ASSUME IInv, [Next]_vars
  PROVE  /\ \A i \in Invites : Answered(i)
         /\ \A q \in Requests : Holds(q)
<1>1. ASSUME NEW r \in Requests, ReadStep(r)
      PROVE  /\ \A i \in Invites : Answered(i)
             /\ \A q \in Requests : Holds(q)
  BY <1>1, ReadHolds DEF Answered
<1>2. CASE \/ \E u \in Users : CreateOrganization(u) \/ DeleteOrRestoreUser(u)
           \/ UNCHANGED vars
  <2>1. UNCHANGED <<inv, req>>
    BY <1>2 DEF CreateOrganization, DeleteOrRestoreUser, vars
  <2> QED BY <2>1 DEF Answered, Holds
<1>3. CASE \E i \in Invites : InvitationExpires(i) \/ CleanupTerminalInvitations(i)
  <2>1. PICK i \in Invites : InvitationExpires(i) \/ CleanupTerminalInvitations(i)
    BY <1>3
  <2>2. inv \in [Invites -> Invitation] /\ req' = req
    BY <2>1 DEF IInv, Rows, RowTypes, InvitationExpires, CleanupTerminalInvitations
  <2>3. \A j \in Invites : inv'[j].status \in {inv[j].status, "gone"}
    BY <2>1, <2>2 DEF InvitationExpires, CleanupTerminalInvitations, NoRow, Invitation
  <2> QED BY <2>2, <2>3 DEF Answered, Holds
<1> QED BY <1>1, <1>2, <1>3, WriteAnswers DEF Next

LEMMA WaitsInv ==
  ASSUME IInv, Serial, [Next]_vars, overlap' = overlap \cup Overlapping',
         NEW r \in Requests
  PROVE  Waits(r)'
<1> SUFFICES ASSUME "invitation" \notin overlap', req'[r].inv \in Invites
             PROVE  inv'[req'[r].inv].status \in {"PENDING", "gone"}
  BY DEF Waits
<1>1. PICK i \in Invites : i = req'[r].inv
  OBVIOUS
<1>2. req'[r] # Idle /\ i # NoInvite
  BY <1>1, OrganizationConstants DEF Idle
<1>3. CASE inv' = inv /\ inv[i].status = "PENDING"
  BY <1>1, <1>3
<1>4. CASE req[r].inv = i
  <2>1. Waits(r) /\ "invitation" \notin overlap
    BY DEF Serial
  <2>2. inv[i].status \in {"PENDING", "gone"}
    BY <1>4, <2>1 DEF Waits
  <2>3. ~\E q \in Requests : req[q].inv = i /\ req'[q] = Idle
    <3> SUFFICES ASSUME NEW q \in Requests, req[q].inv = i, req'[q] = Idle PROVE FALSE
      OBVIOUS
    <3>1. q # r
      BY <1>2
    <3> QED BY <1>2, <1>4, <3>1, NoSecond DEF InvitationShared
  <2> QED BY <1>1, <2>2, <2>3, StepAnswers DEF Answered
<1> QED BY <1>1, <1>2, <1>3, <1>4, StepAnswers DEF Holds

LEMMA SerialInv == IInv /\ IInv' /\ Serial /\ [HistoryNext]_<<vars, overlap>> => Serial'
<1> SUFFICES ASSUME IInv, IInv', Serial, [HistoryNext]_<<vars, overlap>> PROVE Serial'
  OBVIOUS
<1>1. CASE HistoryNext
  <2>1. [Next]_vars /\ overlap' = overlap \cup Overlapping'
    BY <1>1 DEF HistoryNext
  <2>2. MembersOK'
    BY <2>1, MembersInv
  <2>3. \A r \in Requests : Waits(r)'
    BY <2>1, WaitsInv
  <2> QED BY <2>1, <2>2, <2>3 DEF Serial, MembersOK
<1>2. CASE UNCHANGED <<vars, overlap>>
  BY <1>2 DEF vars, Serial, Knows, Alone, Waits, Overlapping, MembersCross, ErasureCrosses,
              InvitationShared, Promotes, ChangesMembers, Transfers, Erases, SameRow,
              IsMember, OneOwner, OrgExists
<1> QED BY <1>1, <1>2

LEMMA SerialInit == HistoryInit => Serial
<1> SUFFICES ASSUME HistoryInit PROVE Serial
  OBVIOUS
<1>1. \A r \in Requests : req[r] = Idle
  BY DEF HistoryInit, Init
<1>2. ~OrgExists /\ lost = FALSE
  BY DEF HistoryInit, Init, OrgExists
<1>3. \A r \in Requests : Knows(r) /\ Alone(r) /\ Waits(r)
  BY <1>1, OrganizationConstants, IdleOK DEF Knows, Alone, Waits, ChangesMembers, Transfers, Erases, Idle
<1>4. Overlapping \subseteq overlap
  BY <1>1, IdleOK DEF Overlapping, MembersCross, ErasureCrosses, InvitationShared, Transfers,
                      Erases, Promotes, Idle
<1> QED BY <1>2, <1>3, <1>4 DEF Serial, OneOwner

(* Serial is an invariant of Organization with its history. *)
LEMMA SerialInvariant == HistorySpec => [](IInv /\ Serial)
<1>1. HistoryInit => IInv /\ Serial
  BY InitHolds, SerialInit DEF HistoryInit
<1>2. IInv /\ Serial /\ [HistoryNext]_<<vars, overlap>> => IInv' /\ Serial'
  <2>1. [HistoryNext]_<<vars, overlap>> => [Next]_vars
    BY DEF HistoryNext
  <2> QED BY <2>1, NextKeeps, SerialInv
<1> QED BY <1>1, <1>2, PTL DEF HistorySpec

(* The families of endpoints that TLC explores are behaviours of it. *)
LEMMA FamiliesAreHistories == MCSpec => HistorySpec
<1>1. [MCNext]_<<vars, overlap, family>> => [HistoryNext]_<<vars, overlap>>
  BY DEF MCNext
<1>2. MCInit => HistoryInit
  BY DEF MCInit
<1> QED BY <1>1, <1>2, PTL DEF MCSpec, HistorySpec

(* As long as no transfer crossed another, or a change of the member it    *)
(* promotes, the organization has one OWNER, the user of its ownerId       *)
(* (org.service.js, transferOwnership, updateMemberRole, removeMember).    *)
THEOREM OneOwnerTheorem == HistorySpec => []OneOwnerSerial
<1>1. IInv /\ Serial => OneOwnerSerial
  BY DEF Serial, OneOwnerSerial
<1> QED BY <1>1, SerialInvariant, PTL

(* An erasure that no joining and no transfer to the account crossed       *)
(* leaves the other members their organization (gdpr.service.js,           *)
(* deleteAccount).                                                         *)
THEOREM OthersKeepOrgTheorem == HistorySpec => []OthersKeepOrg
<1>1. IInv /\ Serial => OthersKeepOrg
  BY DEF Serial, OthersKeepOrg
<1> QED BY <1>1, SerialInvariant, PTL

(* An invitation that only one request at a time held keeps its answer,    *)
(* until its row goes (invitation.service.js).                             *)
THEOREM TerminalStaysTheorem == HistorySpec => TerminalStays
<1> DEFINE Stays(i) == inv[i].status \in Terminal /\ "invitation" \notin overlap =>
                         inv'[i].status \in {inv[i].status, "gone"}
<1>1. ASSUME IInv, Serial, [HistoryNext]_<<vars, overlap>>, NEW i \in Invites
      PROVE  Stays(i)
  <2>1. Answered(i)
    BY <1>1, StepAnswers DEF HistoryNext
  <2>2. ASSUME "invitation" \notin overlap, NEW r \in Requests, req[r].inv = i
        PROVE  inv[i].status \in {"PENDING", "gone"}
    BY <1>1, <2>2 DEF Serial, Waits
  <2> QED BY <2>1, <2>2 DEF Answered, Terminal
<1>2. IInv /\ Serial /\ [HistoryNext]_<<vars, overlap>> =>
        [\A i \in Invites : Stays(i)]_<<vars, overlap, family>>
  BY <1>1
<1> QED BY <1>2, SerialInvariant, PTL DEF HistorySpec, TerminalStays

=============================================================================
