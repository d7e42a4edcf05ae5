------------------------------ MODULE Tenants -------------------------------
(***************************************************************************)
(* The rows that the guards of a request read: accounts, organizations,    *)
(* memberships and subscriptions.  The handlers that write them are the    *)
(* subject of modules Sessions, Accounts, Organization and Billing; here   *)
(* each committed write of theirs is one step, as the guards see it.       *)
(***************************************************************************)
EXTENDS Integers, Sequences, FiniteSets

CONSTANTS Users, Orgs,
          Plans       \* plan codes

ASSUME TenantsConstants == Users \cap Orgs = {}

VARIABLES
  user,    \* accounts
  org,     \* organizations
  member,  \* role of each user in each organization
  sub      \* subscriptions of each user and organization, oldest first

tvars == <<user, org, member, sub>>

Roles == {"OWNER", "ADMIN", "MEMBER"}
Holders == Users \cup Orgs
NoPlan == "noPlan"

(* allowed: neither banned nor suspended nor deleted *)
User == [allowed : BOOLEAN, verified : BOOLEAN, version : Nat]
Org == [live : BOOLEAN, owner : Users]
Subscription == [active : BOOLEAN, plan : Plans]

TTypeOK ==
  /\ user \in [Users -> User]
  /\ org \in [Orgs -> Org]
  /\ member \in [Orgs -> [Users -> Roles \cup {"none"}]]
  /\ sub \in [Holders -> Seq(Subscription)]

-----------------------------------------------------------------------------
(* Committed writes *)

SetAllowed(u, allowed) ==
  /\ user[u].allowed # allowed
  /\ user' = [user EXCEPT ![u].allowed = allowed]
  /\ UNCHANGED <<org, member, sub>>

BumpVersion(u) ==
  /\ user' = [user EXCEPT ![u].version = @ + 1]
  /\ UNCHANGED <<org, member, sub>>

verifyEmail(u) ==
  /\ ~user[u].verified
  /\ user' = [user EXCEPT ![u].verified = TRUE]
  /\ UNCHANGED <<org, member, sub>>

acceptInvitation(o, u, role) ==
  /\ org[o].live /\ member[o][u] = "none" /\ role # "OWNER"
  /\ member' = [member EXCEPT ![o][u] = role]
  /\ UNCHANGED <<user, org, sub>>

(* The OWNER was looked for before the write: it may be one by now. *)
updateMemberRole(o, u, role) ==
  /\ member[o][u] \notin {"none", role} /\ role # "OWNER"
  /\ member' = [member EXCEPT ![o][u] = role]
  /\ UNCHANGED <<user, org, sub>>

removeMember(o, u) ==
  /\ member[o][u] # "none"
  /\ member' = [member EXCEPT ![o][u] = "none"]
  /\ UNCHANGED <<user, org, sub>>

transferOwnership(o, from, to) ==
  /\ from # to /\ "none" \notin {member[o][from], member[o][to]}
  /\ org' = [org EXCEPT ![o].owner = to]
  /\ member' = [member EXCEPT ![o][from] = "ADMIN", ![o][to] = "OWNER"]
  /\ UNCHANGED <<user, sub>>

(* deleteOrganization and restoreOrganization *)
SetLive(o, live) ==
  /\ org[o].live # live
  /\ org' = [org EXCEPT ![o].live = live]
  /\ UNCHANGED <<user, member, sub>>

(* Webhooks create a subscription and change its status; nothing keeps a   *)
(* holder from having two that are live.                                   *)
Subscribe(h, p) ==
  /\ sub' = [sub EXCEPT ![h] = Append(@, [active |-> TRUE, plan |-> p])]
  /\ UNCHANGED <<user, org, member>>

SetActive(h, i, active) ==
  /\ sub[h][i].active # active
  /\ sub' = [sub EXCEPT ![h][i].active = active]
  /\ UNCHANGED <<user, org, member>>

TenantsNext ==
  \/ \E u \in Users : \/ BumpVersion(u) \/ verifyEmail(u)
                      \/ \E b \in BOOLEAN : SetAllowed(u, b)
  \/ \E o \in Orgs, u \in Users :
       \/ removeMember(o, u)
       \/ \E to \in Users : transferOwnership(o, u, to)
       \/ \E role \in Roles : acceptInvitation(o, u, role) \/ updateMemberRole(o, u, role)
  \/ \E o \in Orgs, b \in BOOLEAN : SetLive(o, b)
  \/ \E h \in Holders : \/ \E p \in Plans : Subscribe(h, p)
                        \/ \E i \in DOMAIN sub[h], b \in BOOLEAN : SetActive(h, i, b)

-----------------------------------------------------------------------------
(* What a guard reads *)

(* Mutant: the oldest active subscription decides. *)
PlanOfOldest(h) ==
  LET active == {i \in DOMAIN sub[h] : sub[h][i].active}
  IN IF active = {} THEN NoPlan
     ELSE sub[h][CHOOSE i \in active : \A k \in active : i <= k].plan

(* The newest active or trialing subscription decides. *)
PlanOf(h) ==
  LET active == {i \in DOMAIN sub[h] : sub[h][i].active}
  IN IF active = {} THEN NoPlan
     ELSE sub[h][CHOOSE i \in active : \A k \in active : k <= i].plan
=============================================================================
