---------------------------- MODULE AccessProofs ----------------------------
(***************************************************************************)
(* Proofs about module Access: type correctness, that a request is served  *)
(* only by guards that held while it ran, that a revoked key opens         *)
(* nothing, who may write a project, that the two queries of an evaluation *)
(* give the answer of one moment, and that a request next to which nothing *)
(* is written is granted exactly if it is entitled.                        *)
(***************************************************************************)
EXTENDS Access, WellFoundedInduction, TLAPS

USE TenantsConstants, FlagsConstants, KeysConstants, AccessConstants

(* A non-empty set of numbers up to n has a largest one. *)
LEMMA Largest ==
  ASSUME NEW n \in Nat, NEW S, S \subseteq 1..n, S # {}
  PROVE  \E i \in S : \A k \in S : k <= i
<1> DEFINE T == {n - i : i \in S}
<1>1. T \subseteq Nat /\ T # {}
  <2>1. \A i \in S : i \in Nat /\ n - i \in Nat
    OBVIOUS
  <2>2. PICK i : i \in S
    OBVIOUS
  <2>3. n - i \in T
    BY <2>2
  <2> QED BY <2>1, <2>3
<1>2. \E x \in T : \A y \in T : ~ (<<y, x>> \in OpToRel(<, Nat))
  BY <1>1, NatLessThanWellFounded, WFMin
<1>3. PICK x \in T : \A y \in T : ~ (y < x)
  <2>1. \A x \in T, y \in T : y < x => <<y, x>> \in OpToRel(<, Nat)
    BY <1>1 DEF OpToRel
  <2> QED BY <1>2, <2>1
<1>4. PICK i \in S : x = n - i
  BY <1>3
<1>5. ASSUME NEW k \in S PROVE k <= i
  <2>1. n - k \in T
    OBVIOUS
  <2>2. ~ (n - k < n - i)
    BY <1>3, <1>4, <2>1
  <2>3. i \in Int /\ k \in Int
    OBVIOUS
  <2> QED BY <2>2, <2>3
<1> QED BY <1>5

LEMMA Chosen ==
  ASSUME NEW S, S # {}
  PROVE  (CHOOSE x \in S : TRUE) \in S
OBVIOUS

(* PlanOf reads the plan of the newest active subscription, if there is    *)
(* one.                                                                    *)
LEMMA PlanIsNewest ==
  ASSUME TTypeOK, NEW h \in Holders
  PROVE  /\ PlanOf(h) \in Plans \cup {NoPlan}
         /\ PlanOf(h) # NoPlan => Newest(h, PlanOf(h))
<1> DEFINE active == {i \in DOMAIN sub[h] : sub[h][i].active}
           newest == CHOOSE i \in active : \A k \in active : k <= i
<1>1. sub[h] \in Seq(Subscription)
  BY DEF TTypeOK
<1>2. CASE active = {}
  BY <1>2 DEF PlanOf
<1>3. CASE active # {}
  <2>1. active \subseteq 1..Len(sub[h]) /\ Len(sub[h]) \in Nat
    BY <1>1
  <2>2. \E i \in active : \A k \in active : k <= i
    BY <1>3, <2>1, Largest
  <2>3. newest \in active /\ \A k \in active : k <= newest
    BY <2>2
  <2>4. PlanOf(h) = sub[h][newest].plan
    BY <1>3 DEF PlanOf
  <2> HIDE DEF newest
  <2>5. sub[h][newest] \in Subscription /\ sub[h][newest].active
    BY <1>1, <2>3
  <2>6. sub[h][newest] = [active |-> TRUE, plan |-> PlanOf(h)] /\ PlanOf(h) \in Plans
    BY <2>4, <2>5 DEF Subscription
  <2>7. \A k \in DOMAIN sub[h] : k > newest => ~sub[h][k].active
    BY <2>1, <2>3
  <2>8. newest \in DOMAIN sub[h]
    BY <2>3
  <2> QED BY <2>6, <2>7, <2>8 DEF Newest
<1> QED BY <1>2, <1>3

-----------------------------------------------------------------------------
(* Types of the tables under the writes of their modules *)

LEMMA TenantsType == ASSUME TTypeOK, TenantsNext PROVE TTypeOK'
<1> USE DEF TTypeOK
<1>1. ASSUME NEW u \in Users, BumpVersion(u) \/ verifyEmail(u) \/ \E b \in BOOLEAN : SetAllowed(u, b)
      PROVE  TTypeOK'
  <2>1. user[u] \in User
    OBVIOUS
  <2>2. PICK row \in User : user' = [user EXCEPT ![u] = row]
    <3>1. CASE BumpVersion(u)
      <4>1. [user[u] EXCEPT !.version = @ + 1] \in User
        <5>1. user[u].version + 1 \in Nat
          BY <2>1 DEF User
        <5> QED BY <2>1, <5>1, Zenon DEF User
      <4> QED BY <3>1, <4>1 DEF BumpVersion
    <3>2. CASE verifyEmail(u)
      <4>1. [user[u] EXCEPT !.verified = TRUE] \in User
        BY <2>1 DEF User
      <4> QED BY <3>2, <4>1 DEF verifyEmail
    <3>3. ASSUME NEW b \in BOOLEAN, SetAllowed(u, b)
          PROVE  \E row \in User : user' = [user EXCEPT ![u] = row]
      <4>1. [user[u] EXCEPT !.allowed = b] \in User
        BY <2>1 DEF User
      <4> QED BY <3>3, <4>1 DEF SetAllowed
    <3> QED BY <1>1, <3>1, <3>2, <3>3
  <2>3. UNCHANGED <<org, member, sub>>
    BY <1>1 DEF BumpVersion, verifyEmail, SetAllowed
  <2> QED BY <2>2, <2>3
<1>2. ASSUME NEW o \in Orgs, NEW u \in Users, NEW to \in Users,
             \/ removeMember(o, u) \/ transferOwnership(o, u, to)
             \/ \E role \in Roles : acceptInvitation(o, u, role) \/ updateMemberRole(o, u, role)
      PROVE  TTypeOK'
  <2>1. member' \in [Orgs -> [Users -> Roles \cup {"none"}]]
    <3>1. member[o] \in [Users -> Roles \cup {"none"}]
      OBVIOUS
    <3>2. PICK row \in [Users -> Roles \cup {"none"}] : member' = [member EXCEPT ![o] = row]
      <4>1. \A role \in Roles \cup {"none"} :
              [member[o] EXCEPT ![u] = role] \in [Users -> Roles \cup {"none"}]
        BY <3>1
      <4>2. CASE transferOwnership(o, u, to)
        <5>1. [member[o] EXCEPT ![u] = "ADMIN", ![to] = "OWNER"] \in [Users -> Roles \cup {"none"}]
          BY <3>1 DEF Roles
        <5>2. member' = [member EXCEPT ![o] = [member[o] EXCEPT ![u] = "ADMIN", ![to] = "OWNER"]]
          BY <3>1, <4>2 DEF transferOwnership
        <5> QED BY <5>1, <5>2
      <4>3. CASE removeMember(o, u)
        BY <4>1, <4>3 DEF removeMember
      <4>4. ASSUME NEW role \in Roles, acceptInvitation(o, u, role) \/ updateMemberRole(o, u, role)
            PROVE  \E row \in [Users -> Roles \cup {"none"}] : member' = [member EXCEPT ![o] = row]
        BY <4>1, <4>4 DEF acceptInvitation, updateMemberRole
      <4> QED BY <1>2, <4>2, <4>3, <4>4
    <3> QED BY <3>2
  <2>2. org' \in [Orgs -> Org]
    <3>1. [org[o] EXCEPT !.owner = to] \in Org
      <4>1. org[o] \in Org
        OBVIOUS
      <4> QED BY <4>1 DEF Org
    <3> QED
      BY <1>2, <3>1 DEF removeMember, transferOwnership, acceptInvitation, updateMemberRole
  <2>3. UNCHANGED <<user, sub>>
    BY <1>2 DEF removeMember, transferOwnership, acceptInvitation, updateMemberRole
  <2> QED BY <2>1, <2>2, <2>3
<1>3. ASSUME NEW o \in Orgs, NEW b \in BOOLEAN, SetLive(o, b) PROVE TTypeOK'
  <2>1. [org[o] EXCEPT !.live = b] \in Org
    <3>1. org[o] \in Org
      OBVIOUS
    <3> QED BY <3>1 DEF Org
  <2> QED BY <1>3, <2>1 DEF SetLive
<1>4. ASSUME NEW h \in Holders, NEW rows \in Seq(Subscription), sub' = [sub EXCEPT ![h] = rows],
             UNCHANGED <<user, org, member>>
      PROVE  TTypeOK'
  BY <1>4
<1>5. ASSUME NEW h \in Holders, NEW p \in Plans, Subscribe(h, p) PROVE TTypeOK'
  <2>1. Append(sub[h], [active |-> TRUE, plan |-> p]) \in Seq(Subscription)
    <3>1. sub[h] \in Seq(Subscription)
      OBVIOUS
    <3>2. [active |-> TRUE, plan |-> p] \in Subscription
      BY DEF Subscription
    <3> QED BY <3>1, <3>2
  <2> QED BY <1>4, <1>5, <2>1 DEF Subscribe
<1>6. ASSUME NEW h \in Holders, NEW i \in DOMAIN sub[h], NEW b \in BOOLEAN, SetActive(h, i, b)
      PROVE  TTypeOK'
  <2>1. sub[h] \in Seq(Subscription)
    OBVIOUS
  <2>2. sub[h][i] \in Subscription
    BY <2>1
  <2>3. [sub[h][i] EXCEPT !.active = b] \in Subscription
    BY <2>2 DEF Subscription
  <2>4. [sub[h] EXCEPT ![i].active = b] \in Seq(Subscription)
    BY <2>1, <2>3
  <2> QED BY <1>4, <1>6, <2>4 DEF SetActive
<1> QED
  BY <1>1, <1>2, <1>3, <1>5, <1>6 DEF TenantsNext

LEMMA NoCallType == NoCall \in FlagCall /\ NoKeyCall \in KeyCall
<1>1. (CHOOSE f \in FlagIds : TRUE) \in FlagIds /\ (CHOOSE o \in Orgs : TRUE) \in Orgs
  BY Chosen
<1>2. (CHOOSE k \in KeyIds : TRUE) \in KeyIds
  BY Chosen
<1> QED
  BY <1>1, <1>2 DEF NoCall, FlagCall, NoKeyCall, KeyCall, KeyOps, FlagOps

(* A call of an administrator only moves its own slot. *)
LEMMA FlagCallMoves ==
  ASSUME FTypeOK, NEW c \in FlagCalls,
         \/ FAnswered(c)
         \/ \E pc \in {"readOrg", "write"} : FGoes(c, pc)
         \/ \E row \in Nat : fcall' = [fcall EXCEPT ![c].pc = "write", ![c].row = row]
         \/ \E op \in FlagOps, f \in FlagIds, o \in Orgs :
              fcall' = [fcall EXCEPT ![c] = [NoCall EXCEPT !.op = op, !.flag = f, !.org = o]]
  PROVE  fcall' \in [FlagCalls -> FlagCall]
<1>1. fcall[c] \in FlagCall /\ NoCall \in FlagCall /\ fcall \in [FlagCalls -> FlagCall]
  BY NoCallType DEF FTypeOK
<1>2. CASE FAnswered(c)
  BY <1>1, <1>2 DEF FAnswered
<1>3. ASSUME NEW pc \in {"readOrg", "write"}, FGoes(c, pc)
      PROVE  fcall' \in [FlagCalls -> FlagCall]
  <2>1. [fcall[c] EXCEPT !.pc = pc] \in FlagCall
    BY <1>1 DEF FlagCall
  <2> QED BY <1>1, <1>3, <2>1 DEF FGoes
<1>4. ASSUME NEW row \in Nat, fcall' = [fcall EXCEPT ![c].pc = "write", ![c].row = row]
      PROVE  fcall' \in [FlagCalls -> FlagCall]
  <2>1. [fcall[c] EXCEPT !.pc = "write", !.row = row] \in FlagCall
    BY <1>1 DEF FlagCall
  <2>2. fcall' = [fcall EXCEPT ![c] = [fcall[c] EXCEPT !.pc = "write", !.row = row]]
    BY <1>1, <1>4
  <2> QED BY <1>1, <2>1, <2>2
<1>5. ASSUME NEW op \in FlagOps, NEW f \in FlagIds, NEW o \in Orgs,
             fcall' = [fcall EXCEPT ![c] = [NoCall EXCEPT !.op = op, !.flag = f, !.org = o]]
      PROVE  fcall' \in [FlagCalls -> FlagCall]
  <2>1. [NoCall EXCEPT !.op = op, !.flag = f, !.org = o] \in FlagCall
    BY <1>1 DEF FlagCall
  <2> QED BY <1>1, <1>5, <2>1
<1> QED
  BY <1>2, <1>3, <1>4, <1>5

LEMMA OptionalGiven ==
  ASSUME NEW S, NEW x \in Optional(S), NEW old \in S
  PROVE  Given(x, old) \in S
BY Chosen DEF Optional, Given

LEMMA FlagsType ==
  ASSUME FTypeOK, NEW c \in FlagCalls, FlagsQuiet(c) \/ FlagWrite(c)
  PROVE  FTypeOK'
<1> DEFINE f == fcall[c].flag
           o == fcall[c].org
<1>1. /\ fcall[c] \in FlagCall /\ f \in FlagIds /\ o \in Orgs
      /\ flag \in [FlagIds -> Flag] /\ override \in [FlagIds -> [Orgs -> Override]]
      /\ flag[f] \in Flag /\ override[f] \in [Orgs -> Override] /\ override[f][o] \in Override
      /\ override[f][o].row \in Nat
  BY DEF FTypeOK, FlagCall, Override
<1>2. NoValue \in Value /\ \A row \in Nat : [NoOverride EXCEPT !.row = row] \in Override
  BY DEF NoOverride, Override
<1>3. CASE FlagsQuiet(c)
  <2>1. UNCHANGED <<flag, override>>
    BY <1>3 DEF FlagsQuiet, FlagRead, FlagReadOrg, FlagBegin
  <2>2. CASE FlagRead(c)
    BY <1>1, <2>1, <2>2, FlagCallMoves DEF FlagRead, FTypeOK
  <2>3. CASE FlagReadOrg(c)
    BY <2>1, <2>3, FlagCallMoves DEF FlagReadOrg, FTypeOK
  <2>4. ASSUME NEW op \in FlagOps, NEW g \in FlagIds, NEW p \in Orgs, FlagBegin(c, op, g, p)
        PROVE  FTypeOK'
    BY <2>1, <2>4, FlagCallMoves DEF FlagBegin, FTypeOK
  <2> QED BY <1>3, <2>2, <2>3, <2>4 DEF FlagsQuiet
<1>4. ASSUME NEW row \in Flag, flag' \in {flag, [flag EXCEPT ![f] = row]}, override' = override,
             FAnswered(c)
      PROVE  FTypeOK'
  <2>1. fcall' \in [FlagCalls -> FlagCall]
    BY <1>4, FlagCallMoves
  <2>2. flag' \in [FlagIds -> Flag]
    BY <1>1, <1>4
  <2> QED BY <1>1, <1>4, <2>1, <2>2 DEF FTypeOK
<1>5. ASSUME NEW t \in FlagTypes, NEW v \in Values, NEW a \in BOOLEAN, createFlag(c, t, v, a)
      PROVE  FTypeOK'
  <2>1. [state |-> "live", type |-> t, value |-> v, active |-> a] \in Flag
    BY DEF Flag
  <2> QED BY <1>4, <1>5, <2>1 DEF createFlag
<1>6. ASSUME NEW t \in Optional(FlagTypes), NEW v \in Optional(Values), NEW a \in Optional(BOOLEAN),
             updateFlag(c, t, v, a)
      PROVE  FTypeOK'
  <2>1. Given(t, flag[f].type) \in FlagTypes
    BY <1>1, OptionalGiven DEF Flag
  <2>2. Given(v, flag[f].value) \in Value
    <3>1. v \in Optional(Value) /\ flag[f].value \in Value
      BY <1>1 DEF Optional, Flag
    <3> QED BY <3>1, OptionalGiven
  <2>3. Given(a, flag[f].active) \in BOOLEAN
    BY <1>1, OptionalGiven DEF Flag
  <2> DEFINE row == [flag[f] EXCEPT !.type = Given(t, @), !.value = Given(v, @), !.active = Given(a, @)]
  <2>4. row \in Flag
    BY <1>1, <2>1, <2>2, <2>3 DEF Flag
  <2>5. flag' \in {flag, [flag EXCEPT ![f] = row]} /\ override' = override /\ FAnswered(c)
    BY <1>1, <1>6 DEF updateFlag
  <2> QED BY <1>4, <2>4, <2>5
<1>7. ASSUME NEW rows \in [Orgs -> Override], override' \in {override, [override EXCEPT ![f] = rows]},
             flag' \in [FlagIds -> Flag], FAnswered(c)
      PROVE  FTypeOK'
  <2>1. fcall' \in [FlagCalls -> FlagCall]
    BY <1>7, FlagCallMoves
  <2>2. override' \in [FlagIds -> [Orgs -> Override]]
    BY <1>1, <1>7
  <2> QED BY <1>7, <2>1, <2>2 DEF FTypeOK
<1>8. ASSUME NEW row \in Override, override' \in {override, [override EXCEPT ![f][o] = row]},
             flag' = flag, FAnswered(c)
      PROVE  FTypeOK'
  <2>1. [override[f] EXCEPT ![o] = row] \in [Orgs -> Override]
    BY <1>1
  <2>2. override' \in {override, [override EXCEPT ![f] = [override[f] EXCEPT ![o] = row]]}
    BY <1>8
  <2> QED BY <1>1, <1>7, <1>8, <2>1, <2>2
<1>9. CASE deleteFlag(c)
  <2>1. [flag[f] EXCEPT !.state = "gone"] \in Flag
    BY <1>1 DEF Flag
  <2>2. flag' \in [FlagIds -> Flag]
    BY <1>1, <1>9, <2>1 DEF deleteFlag
  <2> DEFINE rows == [x \in Orgs |-> [NoOverride EXCEPT !.row = override[f][x].row]]
  <2>3. rows \in [Orgs -> Override]
    <3>1. \A x \in Orgs : override[f][x].row \in Nat
      BY <1>1 DEF Override
    <3> QED BY <1>2, <3>1
  <2>4. override' \in {override, [override EXCEPT ![f] = rows]} /\ FAnswered(c)
    BY <1>9 DEF deleteFlag
  <2> HIDE DEF rows
  <2> QED BY <1>7, <2>2, <2>3, <2>4
<1>10. ASSUME NEW b \in BOOLEAN, NEW v \in Values, setOverride(c, b, v) PROVE FTypeOK'
  <2> DEFINE row == [exists |-> TRUE,
                     row |-> IF override[f][o].exists THEN override[f][o].row ELSE override[f][o].row + 1,
                     enabled |-> b, value |-> v]
  <2>1. row \in Override
    BY <1>1 DEF Override
  <2>2. override' \in {override, [override EXCEPT ![f][o] = row]} /\ flag' = flag /\ FAnswered(c)
    BY <1>10 DEF setOverride
  <2> HIDE DEF row
  <2> QED BY <1>8, <2>1, <2>2
<1>11. CASE removeOverride(c)
  <2> DEFINE row == [NoOverride EXCEPT !.row = override[f][o].row]
  <2>1. row \in Override
    BY <1>1, <1>2
  <2>2. override' \in {override, [override EXCEPT ![f][o] = row]} /\ flag' = flag /\ FAnswered(c)
    BY <1>11 DEF removeOverride
  <2> HIDE DEF row
  <2> QED BY <1>8, <2>1, <2>2
<1> QED
  BY <1>3, <1>5, <1>6, <1>9, <1>10, <1>11 DEF FlagWrite

LEMMA KeysType ==
  ASSUME KTypeOK, KeyWrite \/ \E c \in KeyCalls : KeysQuiet(c)
  PROVE  KTypeOK'
<1> USE DEF KTypeOK
<1>1. ASSUME NEW k \in KeyIds, NEW row \in Key, key' = [key EXCEPT ![k] = row],
             kcall' = kcall \/ \E c \in KeyCalls : KAnswered(c)
      PROVE  KTypeOK'
  BY <1>1, NoCallType DEF KAnswered
<1>2. ASSUME NEW k \in KeyIds, NEW b \in BOOLEAN, createApiKey(k, b) PROVE KTypeOK'
  <2>1. [NoKey EXCEPT !.exists = TRUE, !.scoped = b] \in Key
    BY DEF NoKey, Key
  <2> QED BY <1>1, <1>2, <2>1 DEF createApiKey
<1>3. ASSUME NEW k \in KeyIds, ExpireKey(k) PROVE KTypeOK'
  <2>1. [key[k] EXCEPT !.expired = TRUE] \in Key
    <3>1. key[k] \in Key
      OBVIOUS
    <3> QED BY <3>1 DEF Key
  <2> QED BY <1>1, <1>3, <2>1 DEF ExpireKey
<1>4. ASSUME NEW c \in KeyCalls, revokeApiKey(c) \/ deleteApiKey(c) \/ restoreApiKey(c)
      PROVE  KTypeOK'
  <2> DEFINE k == kcall[c].key
  <2>1. k \in KeyIds /\ key[k] \in Key
    BY DEF KeyCall
  <2>2. /\ [key[k] EXCEPT !.revoked = TRUE] \in Key /\ [key[k] EXCEPT !.deleted = TRUE] \in Key
        /\ [key[k] EXCEPT !.deleted = FALSE] \in Key
    BY <2>1 DEF Key
  <2> QED BY <1>1, <1>4, <2>1, <2>2 DEF revokeApiKey, deleteApiKey, restoreApiKey
<1>5. ASSUME NEW c \in KeyCalls, KeysQuiet(c) PROVE KTypeOK'
  <2>1. [kcall[c] EXCEPT !.pc = "write"] \in KeyCall
    <3>1. kcall[c] \in KeyCall
      OBVIOUS
    <3> QED BY <3>1 DEF KeyCall
  <2>2. CASE KeyRead(c)
    BY <2>1, <2>2, NoCallType DEF KeyRead, KAnswered
  <2>3. ASSUME NEW op \in KeyOps, NEW k \in KeyIds, KeyBegin(c, op, k) PROVE KTypeOK'
    BY <2>3 DEF KeyBegin, KeyCall
  <2> QED BY <1>5, <2>2, <2>3 DEF KeysQuiet
<1> QED
  BY <1>2, <1>3, <1>4, <1>5 DEF KeyWrite

-----------------------------------------------------------------------------
(* Where the elements stand in the chains *)

LEMMA ChainSteps ==
  ASSUME NEW route \in Routes
  PROVE  /\ Len(Chain[route]) \in 3..6
         /\ \A i \in 1..Len(Chain[route]) :
              /\ Chain[route][i] \in {"authenticate", "authenticateApiKey"} => i = 1
              /\ Chain[route][i] = "authenticate" => route \notin KeyRoutes
              /\ Chain[route][i] = "authenticateApiKey" => route \in KeyRoutes
              /\ Chain[route][i] = "requireTenant" => i = 2 /\ route # "evaluate"
              /\ Chain[route][i] = "requireSubscription" => i = 3 /\ route = "export"
              /\ Chain[route][i] = "requireOrgSubscription" => i = 3 /\ route = "analytics"
              /\ Chain[route][i] = "readOrgPlan" => i = 2 /\ route = "evaluate"
              /\ Chain[route][i] = "readOwnerPlan" => i = 3 /\ route = "evaluate"
              /\ Chain[route][i] = "readFlag" => i = 4 /\ route \in {"export", "evaluate"}
              /\ Chain[route][i] = "readOverride" => i = 5 /\ route \in {"export", "evaluate"}
              /\ Chain[route][i] = "list" => i >= 3 /\ i = Len(Chain[route]) /\ route # "evaluate"
                                             /\ (i = 3 => route \notin {"export", "analytics"})
              /\ Chain[route][i] \in {"get", "create"} => i = 3 /\ route \in {"get", "keyGet", "create"}
              /\ Chain[route][i] = "findLive" => i = 3 /\ route \in {"update", "delete"}
              /\ Chain[route][i] \in {"update", "delete"} => i = 4 /\ route \in {"update", "delete"}
         /\ \A i \in 1..Len(Chain[route]) :
              \/ i < Len(Chain[route])
              \/ Chain[route][i] \in {"list", "get", "create", "update", "delete"}
              \/ route = "evaluate" /\ Chain[route][i] = "readOverride"
         /\ route = "evaluate" => Len(Chain[route]) = 5
         /\ route = "export" => Len(Chain[route]) = 6
<1>1. route \in {"list", "get", "create", "update", "delete", "export", "analytics", "keyList",
                "keyGet", "evaluate"}
  BY DEF Routes, Chain
<1> USE DEF Chain, KeyRoutes
<1>2. CASE route = "list"
  BY <1>2
<1>3. CASE route = "get"
  BY <1>3
<1>4. CASE route = "create"
  BY <1>4
<1>5. CASE route = "update"
  BY <1>5
<1>6. CASE route = "delete"
  BY <1>6
<1>7. CASE route = "export"
  BY <1>7
<1>8. CASE route = "analytics"
  BY <1>8
<1>9. CASE route = "keyList"
  BY <1>9
<1>10. CASE route = "keyGet"
  BY <1>10
<1>11. CASE route = "evaluate"
  BY <1>11
<1> QED
  BY <1>1, <1>2, <1>3, <1>4, <1>5, <1>6, <1>7, <1>8, <1>9, <1>10, <1>11

-----------------------------------------------------------------------------
(* The invariant of the requests *)

(* What request r may rely on when its row is q: the guards it has passed  *)
(* held at some moment, a key that was revoked got no further than its     *)
(* first guard, and the project to be written is one of the organization.  *)
Passed(r, q) ==
  /\ q.step <= Len(Chain[q.route])
  /\ q.answer = "open" /\ q.step >= 2 => "caller" \in seen[r].held
  /\ q.answer = "open" /\ q.step >= 3 => "tenant" \in seen[r].held
  /\ q.answer = "open" /\ q.step >= 4 => "payer" \in seen[r].held
  /\ q.answer = "served" => seen[r].held = Guards
  /\ seen[r].revoked => /\ q.answer # "served"
                        /\ q.answer = "open" => q.step <= 1
                        /\ q.route \in KeyRoutes /\ key[q.key].exists /\ key[q.key].revoked
  /\ q.answer = "open" /\ q.step = 4 /\ q.route \in {"update", "delete"} =>
       project[q.project].state # "none" /\ project[q.project].org = q.org

(* The history of a request has every guard that holds now. *)
HeldNow(r) ==
  req[r].answer = "open" /\ req[r].step > 0 =>
    \A g \in Guards : Holds(g, r) => g \in seen[r].held

Inv == TypeOK /\ \A r \in Requests : Passed(r, req[r]) /\ HeldNow(r)

(* The fields of a request that its guards look at stay as they are. *)
Same(k) ==
  /\ req'[k].route = req[k].route /\ req'[k].user = req[k].user
  /\ req'[k].version = req[k].version /\ req'[k].key = req[k].key /\ req'[k].org = req[k].org

LEMMA HoldsSame ==
  ASSUME NEW k \in Requests, NEW g \in Guards, UNCHANGED <<user, org, member, sub, key>>, Same(k)
  PROVE  Holds(g, k)' <=> Holds(g, k)
<1> USE DEF Same, Holds
<1>1. CASE g = "caller"
  BY <1>1 DEF KeyAccepted, UserAccepted
<1>2. CASE g = "tenant"
  BY <1>2 DEF TenantAccepted, Allowed
<1>3. CASE g = "payer"
  <2>1. Payer(k)' = Payer(k)
    BY DEF Payer
  <2>2. \A h, p : Newest(h, p)' <=> Newest(h, p)
    BY DEF Newest
  <2> QED BY <1>3, <2>1, <2>2
<1> QED BY <1>1, <1>2, <1>3 DEF Guards

(* A request in its chain. *)
LEMMA InChain ==
  ASSUME Inv, NEW r \in Requests, NEW s, Doing(r, s)
  PROVE  /\ req[r] \in Request /\ req[r].answer = "open" /\ req[r].route \in Routes
         /\ req[r].step \in 1..Len(Chain[req[r].route])
         /\ Chain[req[r].route][req[r].step] = s
         /\ seen[r] \in Seen
<1>1. req[r] \in Request /\ seen[r] \in Seen /\ req[r].step <= Len(Chain[req[r].route])
  BY DEF Inv, TypeOK, Passed
<1>2. req[r].route \in Routes /\ req[r].step \in 0..6
  BY <1>1 DEF Request
<1>3. Len(Chain[req[r].route]) \in 3..6
  BY <1>2, ChainSteps
<1> QED
  BY <1>1, <1>2, <1>3 DEF Doing, Step

(* Nobody has to pay on the other routes, and the evaluation endpoint asks *)
(* for no membership.                                                      *)
LEMMA NoPayer ==
  ASSUME NEW r \in Requests, req[r].route \notin {"export", "analytics"}
  PROVE  Holds("payer", r)
BY DEF Holds, Payer

LEMMA NoTenant ==
  ASSUME NEW r \in Requests, req[r].route = "evaluate"
  PROVE  Holds("tenant", r)
BY DEF Holds

(* The last elements of a chain are reached with all guards held. *)
LEMMA AllHeld ==
  ASSUME Inv, NEW r \in Requests, NEW s, Doing(r, s), req[r].step >= 3,
         req[r].step >= 4 \/ req[r].route \notin {"export", "analytics"}
  PROVE  seen[r].held = Guards
<1>1. "caller" \in seen[r].held /\ "tenant" \in seen[r].held
  BY InChain DEF Inv, Passed
<1>2. "payer" \in seen[r].held
  <2>1. CASE req[r].step >= 4
    BY <2>1, InChain DEF Inv, Passed
  <2>2. CASE req[r].route \notin {"export", "analytics"}
    <3>1. Holds("payer", r) /\ "payer" \in Guards
      BY <2>2, NoPayer DEF Guards
    <3> QED BY <3>1, InChain DEF Inv, HeldNow
  <2> QED BY <2>1, <2>2
<1>3. seen[r].held \subseteq Guards
  BY InChain DEF Seen
<1> QED BY <1>1, <1>2, <1>3 DEF Guards

-----------------------------------------------------------------------------
(* Steps of the requests *)

(* One request moves to q, which may rely on what it relies on; projects   *)
(* may be written, but neither created anew nor moved.                     *)
LEMMA Moves ==
  ASSUME Inv, NEW r \in Requests, NEW q \in Request, NothingElse,
         req' = [req EXCEPT ![r] = q],
         q.route = req[r].route, q.user = req[r].user, q.version = req[r].version,
         q.key = req[r].key, q.org = req[r].org,
         req[r].answer = "open", req[r].step > 0,
         project' \in [Projects -> Project],
         \A p \in Projects : project[p].state # "none" =>
            project'[p].state # "none" /\ project'[p].org = project[p].org,
         seen' \in [Requests -> Seen],
         \A k \in Requests : seen'[k].held = seen[k].held /\ seen'[k].revoked = seen[k].revoked,
         Passed(r, q)
  PROVE  Inv'
<1>1. TypeOK'
  <2>1. TTypeOK' /\ FTypeOK' /\ KTypeOK'
    BY DEF Inv, TypeOK, NothingElse, tvars, fvars, kvars, TTypeOK, FTypeOK, KTypeOK
  <2>2. req' \in [Requests -> Request]
    BY DEF Inv, TypeOK
  <2> QED BY <2>1, <2>2 DEF TypeOK
<1>2. ASSUME NEW k \in Requests PROVE HeldNow(k)'
  <2>1. req'[k] = IF k = r THEN q ELSE req[k]
    BY DEF Inv, TypeOK
  <2>2. Same(k)
    BY <2>1 DEF Same
  <2>3. \A g \in Guards : Holds(g, k)' <=> Holds(g, k)
    BY <2>2, HoldsSame DEF NothingElse, tvars, kvars
  <2>4. req'[k].answer = "open" /\ req'[k].step > 0 => req[k].answer = "open" /\ req[k].step > 0
    BY <2>1
  <2> QED
    BY <2>3, <2>4 DEF Inv, HeldNow
<1>3. ASSUME NEW k \in Requests PROVE Passed(k, req[k])'
  <2>1. req'[k] = IF k = r THEN q ELSE req[k]
    BY DEF Inv, TypeOK
  <2>2. Passed(k, req'[k])
    BY <2>1 DEF Inv
  <2>3. req'[k].project \in Projects
    BY <1>1 DEF TypeOK, Request
  <2>4. key' = key
    BY DEF NothingElse, kvars
  <2> QED BY <2>2, <2>3, <2>4 DEF Passed
<1> QED BY <1>1, <1>2, <1>3 DEF Inv

(* A request answered, or one element further. *)
LEMMA SilentMoves ==
  ASSUME Inv, NEW r \in Requests, NEW s, Doing(r, s), NEW q \in Request, Silent,
         req' = [req EXCEPT ![r] = q],
         q.route = req[r].route, q.user = req[r].user, q.version = req[r].version,
         q.key = req[r].key, q.org = req[r].org,
         Passed(r, q)
  PROVE  Inv'
<1>1. /\ project' \in [Projects -> Project] /\ seen' \in [Requests -> Seen]
      /\ project' = project /\ seen' = seen /\ NothingElse
  BY DEF Inv, TypeOK, Silent
<1>2. req[r].answer = "open" /\ req[r].step > 0
  BY DEF Doing
<1> QED
  BY <1>1, <1>2, Moves

LEMMA DeniedInv ==
  ASSUME Inv, NEW r \in Requests, NEW s, Doing(r, s), Denied(r), Silent
  PROVE  Inv'
<1> DEFINE q == [req[r] EXCEPT !.answer = "denied"]
<1>1. req[r] \in Request /\ Passed(r, req[r])
  BY InChain DEF Inv
<1>2. /\ q \in Request /\ q.answer = "denied" /\ q.step = req[r].step
      /\ q.route = req[r].route /\ q.user = req[r].user /\ q.version = req[r].version
      /\ q.key = req[r].key /\ q.org = req[r].org /\ q.project = req[r].project
  BY <1>1 DEF Request
<1>3. req' = [req EXCEPT ![r] = q]
  BY DEF Denied, Inv, TypeOK
<1> HIDE DEF q
<1>4. Passed(r, q)
  BY <1>1, <1>2 DEF Passed
<1> QED BY <1>2, <1>3, <1>4, SilentMoves

LEMMA ServedInv ==
  ASSUME Inv, NEW r \in Requests, NEW s, Doing(r, s), Served(r), Silent,
         seen[r].held = Guards, ~seen[r].revoked
  PROVE  Inv'
<1> DEFINE q == [req[r] EXCEPT !.answer = "served"]
<1>1. req[r] \in Request /\ Passed(r, req[r])
  BY InChain DEF Inv
<1>2. /\ q \in Request /\ q.answer = "served" /\ q.step = req[r].step
      /\ q.route = req[r].route /\ q.user = req[r].user /\ q.version = req[r].version
      /\ q.key = req[r].key /\ q.org = req[r].org /\ q.project = req[r].project
  BY <1>1 DEF Request
<1>3. req' = [req EXCEPT ![r] = q]
  BY DEF Served, Inv, TypeOK
<1> HIDE DEF q
<1>4. Passed(r, q)
  BY <1>1, <1>2 DEF Passed
<1> QED BY <1>2, <1>3, <1>4, SilentMoves

(* The next element of a chain needs the guards up to it. *)
LEMMA PassesInv ==
  ASSUME Inv, NEW r \in Requests, NEW s, Doing(r, s), NEW new \in Request, Passes(r, new), Silent,
         new.answer = "open", new.step >= req[r].step, new.step + 1 <= Len(Chain[req[r].route]),
         new.route = req[r].route, new.user = req[r].user, new.version = req[r].version,
         new.key = req[r].key, new.org = req[r].org, new.project = req[r].project,
         ~seen[r].revoked, "caller" \in seen[r].held,
         new.step >= 2 => "tenant" \in seen[r].held,
         new.step >= 3 => "payer" \in seen[r].held,
         new.step = 3 /\ req[r].route \in {"update", "delete"} =>
           project[req[r].project].state # "none" /\ project[req[r].project].org = req[r].org
  PROVE  Inv'
<1> DEFINE q == [new EXCEPT !.step = @ + 1]
<1>1. req[r].route \in Routes /\ req[r].step \in 1..Len(Chain[req[r].route])
  BY InChain
<1>2. Len(Chain[req[r].route]) \in 3..6
  BY <1>1, ChainSteps
<1>3. new.step \in 0..6 /\ new.step + 1 \in 0..6
  <2>1. new.step \in 0..6
    BY DEF Request
  <2>2. PICK n \in 3..6 : n = Len(Chain[req[r].route])
    BY <1>2
  <2>3. new.step + 1 <= n
    BY <2>2
  <2> QED BY <2>1, <2>3
<1>4. /\ q \in Request /\ q.answer = "open" /\ q.step = new.step + 1
      /\ q.route = req[r].route /\ q.user = req[r].user /\ q.version = req[r].version
      /\ q.key = req[r].key /\ q.org = req[r].org /\ q.project = req[r].project
  BY <1>3 DEF Request
<1>5. req' = [req EXCEPT ![r] = q]
  BY DEF Passes
<1> HIDE DEF q
<1>6. Passed(r, q)
  BY <1>1, <1>2, <1>3, <1>4 DEF Passed
<1> QED BY <1>4, <1>5, <1>6, SilentMoves

(* A request past its first guard has no revoked key. *)
LEMMA NotRevoked ==
  ASSUME Inv, NEW r \in Requests, NEW s, Doing(r, s), req[r].step >= 2
  PROVE  ~seen[r].revoked /\ "caller" \in seen[r].held
BY InChain DEF Inv, Passed

LEMMA Authenticated ==
  ASSUME Inv, NEW r \in Requests, authenticate(r) \/ authenticateApiKey(r)
  PROVE  Inv'
<1> DEFINE accepted == IF req[r].route \in KeyRoutes THEN KeyAccepted(req[r].key)
                       ELSE UserAccepted(req[r].user, req[r].version, req[r].route)
<1>1. PICK s \in {"authenticate", "authenticateApiKey"} :
        /\ Doing(r, s) /\ Silent
        /\ IF accepted THEN Passes(r, req[r]) ELSE Denied(r)
  <2>1. CASE authenticate(r)
    <3>1. Doing(r, "authenticate")
      BY <2>1 DEF authenticate
    <3>2. req[r].route \notin KeyRoutes
      BY <3>1, InChain, ChainSteps
    <3> QED BY <2>1, <3>1, <3>2 DEF authenticate
  <2>2. CASE authenticateApiKey(r)
    <3>1. Doing(r, "authenticateApiKey")
      BY <2>2 DEF authenticateApiKey
    <3>2. req[r].route \in KeyRoutes
      BY <3>1, InChain, ChainSteps
    <3> QED BY <2>2, <3>1, <3>2 DEF authenticateApiKey
  <2> QED BY <2>1, <2>2
<1>2. /\ req[r] \in Request /\ req[r].answer = "open" /\ req[r].step = 1
      /\ 3 <= Len(Chain[req[r].route])
  BY <1>1, InChain, ChainSteps
<1>3. CASE accepted
  <2>1. Holds("caller", r)
    BY <1>3 DEF Holds
  <2>2. "caller" \in seen[r].held
    BY <1>2, <2>1 DEF Inv, HeldNow, Guards
  <2>3. ~seen[r].revoked
    BY <1>3 DEF Inv, Passed, KeyAccepted
  <2> HIDE DEF accepted
  <2>4. Passes(r, req[r])
    BY <1>1, <1>3
  <2> QED BY <1>1, <1>2, <2>2, <2>3, <2>4, PassesInv
<1>4. CASE ~accepted
  BY <1>1, <1>4, DeniedInv
<1> QED BY <1>3, <1>4

LEMMA TenantPassed ==
  ASSUME Inv, NEW r \in Requests, requireTenant(r)
  PROVE  Inv'
<1>1. Doing(r, "requireTenant") /\ Silent
  BY DEF requireTenant
<1>2. /\ req[r] \in Request /\ req[r].answer = "open" /\ req[r].step = 2
      /\ 3 <= Len(Chain[req[r].route])
  BY <1>1, InChain, ChainSteps
<1>3. CASE TenantAccepted(req[r].org, req[r].user, req[r].route)
  <2>1. Holds("tenant", r)
    BY <1>3 DEF Holds
  <2>2. "tenant" \in seen[r].held
    BY <1>2, <2>1 DEF Inv, HeldNow, Guards
  <2>3. Passes(r, req[r])
    BY <1>3 DEF requireTenant
  <2> QED BY <1>1, <1>2, <2>2, <2>3, NotRevoked, PassesInv
<1>4. CASE ~TenantAccepted(req[r].org, req[r].user, req[r].route)
  <2>1. Denied(r)
    BY <1>4 DEF requireTenant
  <2> QED BY <1>1, <2>1, DeniedInv
<1> QED BY <1>3, <1>4

LEMMA SubscriptionPassed ==
  ASSUME Inv, NEW r \in Requests, requireSubscription(r) \/ requireOrgSubscription(r)
  PROVE  Inv'
<1>1. PICK s \in {"requireSubscription", "requireOrgSubscription"},
           h \in Payer(r) : Doing(r, s) /\ Payer(r) = {h} /\ SubscriptionGate(r, h)
  <2>1. CASE requireSubscription(r)
    <3>1. Doing(r, "requireSubscription")
      BY <2>1 DEF requireSubscription
    <3>2. Payer(r) = {req[r].user}
      BY <3>1, InChain, ChainSteps DEF Payer
    <3> QED BY <2>1, <3>1, <3>2 DEF requireSubscription
  <2>2. CASE requireOrgSubscription(r)
    <3>1. Doing(r, "requireOrgSubscription")
      BY <2>2 DEF requireOrgSubscription
    <3>2. Payer(r) = {req[r].org}
      BY <3>1, InChain, ChainSteps DEF Payer
    <3> QED BY <2>2, <3>1, <3>2 DEF requireOrgSubscription
  <2> QED BY <2>1, <2>2
<1>2. /\ req[r] \in Request /\ req[r].answer = "open" /\ req[r].step = 3
      /\ req[r].route \in {"export", "analytics"} /\ 4 <= Len(Chain[req[r].route])
  <2>1. req[r].step = 3 /\ req[r].route \in {"export", "analytics"}
    BY <1>1, InChain, ChainSteps
  <2>2. Chain[req[r].route][3] \notin {"list", "get", "create", "update", "delete"}
    BY <1>1, <2>1, InChain
  <2> QED BY <1>1, <2>1, <2>2, InChain, ChainSteps
<1>3. h \in Holders /\ Silent
  BY <1>1, <1>2 DEF Payer, Holders, Request, SubscriptionGate
<1>4. CASE PlanOf(h) \in PaidPlans
  <2>1. Newest(h, PlanOf(h)) /\ PlanOf(h) \in Plans
    BY <1>3, <1>4, PlanIsNewest DEF PaidPlans, Inv, TypeOK, NoPlan
  <2>2. Holds("payer", r)
    BY <1>1, <1>4, <2>1 DEF Holds
  <2>3. "payer" \in seen[r].held
    BY <1>2, <2>2 DEF Inv, HeldNow, Guards
  <2> DEFINE new == [req[r] EXCEPT !.plan = PlanOf(h)]
  <2>4. /\ new \in Request /\ new.answer = "open" /\ new.step = 3
        /\ new.route = req[r].route /\ new.user = req[r].user /\ new.version = req[r].version
        /\ new.key = req[r].key /\ new.org = req[r].org /\ new.project = req[r].project
    BY <1>2, <2>1 DEF Request
  <2>5. Passes(r, new)
    BY <1>1, <1>4 DEF SubscriptionGate
  <2>6. "tenant" \in seen[r].held
    BY <1>2 DEF Inv, Passed
  <2> HIDE DEF new
  <2> QED BY <1>1, <1>2, <1>3, <2>3, <2>4, <2>5, <2>6, NotRevoked, PassesInv
<1>5. CASE PlanOf(h) \notin PaidPlans
  <2>1. Denied(r)
    BY <1>1, <1>5 DEF SubscriptionGate
  <2> QED BY <1>1, <1>3, <2>1, DeniedInv
<1> QED BY <1>4, <1>5

(* The evaluation endpoint asks for neither membership nor plan. *)
LEMMA EvaluateFree ==
  ASSUME Inv, NEW r \in Requests, NEW s, Doing(r, s), req[r].route = "evaluate"
  PROVE  "tenant" \in seen[r].held /\ "payer" \in seen[r].held
<1>1. req[r].answer = "open" /\ req[r].step > 0
  BY DEF Doing
<1>2. Holds("tenant", r) /\ Holds("payer", r)
  BY NoTenant, NoPayer
<1> QED BY <1>1, <1>2 DEF Inv, HeldNow, Guards

LEMMA PlansRead ==
  ASSUME Inv, NEW r \in Requests, ReadOrgPlan(r) \/ ReadOwnerPlan(r)
  PROVE  Inv'
<1>1. ASSUME NEW s \in {"readOrgPlan", "readOwnerPlan"}, Doing(r, s), Silent,
             NEW new \in Request, Passes(r, new), new.answer = "open", new.step \in {2, 3},
             new.step >= req[r].step,
             new.route = req[r].route, new.user = req[r].user, new.version = req[r].version,
             new.key = req[r].key, new.org = req[r].org, new.project = req[r].project
      PROVE  Inv'
  <2>1. /\ req[r].step \in {2, 3} /\ req[r].route = "evaluate"
        /\ Len(Chain[req[r].route]) = 5
    BY <1>1, InChain, ChainSteps
  <2>2. new.step + 1 <= Len(Chain[req[r].route]) /\ req[r].route \notin {"update", "delete"}
    BY <1>1, <2>1
  <2>3. "tenant" \in seen[r].held /\ "payer" \in seen[r].held
    BY <1>1, <2>1, EvaluateFree
  <2>4. ~seen[r].revoked /\ "caller" \in seen[r].held
    BY <1>1, <2>1, NotRevoked
  <2> QED BY <1>1, <2>2, <2>3, <2>4, PassesInv
<1>2. \A h \in Holders : PlanOf(h) \in Plans \cup {NoPlan}
  BY PlanIsNewest DEF Inv, TypeOK
<1>3. /\ req[r] \in Request /\ req[r].org \in Orgs
      /\ req[r].org \in Holders /\ org[req[r].org].owner \in Holders
  <2>1. req[r] \in Request /\ org \in [Orgs -> Org]
    BY DEF Inv, TypeOK, TTypeOK
  <2> QED BY <2>1 DEF Request, Holders, Org
<1>4. CASE ReadOrgPlan(r)
  <2>1. Doing(r, "readOrgPlan") /\ Silent
    BY <1>4 DEF ReadOrgPlan
  <2>2. req[r].step = 2 /\ req[r].answer = "open"
    BY <2>1, InChain, ChainSteps
  <2>3. CASE PlanOf(req[r].org) = NoPlan
    <3>1. Passes(r, req[r])
      BY <1>4, <2>3 DEF ReadOrgPlan
    <3> QED BY <1>1, <1>3, <2>1, <2>2, <3>1
  <2>4. CASE PlanOf(req[r].org) # NoPlan
    <3> DEFINE plan == PlanOf(req[r].org)
               new == [req[r] EXCEPT !.plan = plan, !.step = 3]
    <3>1. [req[r] EXCEPT !.plan = plan, !.step = @ + 1] = new
      BY <2>2
    <3>2. Passes(r, new)
      BY <1>4, <2>4, <3>1 DEF ReadOrgPlan
    <3>4. plan \in Plans \cup {NoPlan}
      BY <1>2, <1>3
    <3> HIDE DEF plan
    <3>3. /\ new \in Request /\ new.answer = "open" /\ new.step = 3
          /\ new.route = req[r].route /\ new.user = req[r].user /\ new.version = req[r].version
          /\ new.key = req[r].key /\ new.org = req[r].org /\ new.project = req[r].project
      <4>1. 3 \in 0..6
        OBVIOUS
      <4>2. new \in Request
        BY <1>3, <3>4, <4>1, Zenon DEF Request
      <4>3. req[r] \in Request /\ req[r].answer = "open"
        BY <1>3, <2>2
      <4> QED BY <4>2, <4>3 DEF Request
    <3> HIDE DEF new
    <3> QED BY <1>1, <2>1, <2>2, <3>2, <3>3
  <2> QED BY <2>3, <2>4
<1>5. CASE ReadOwnerPlan(r)
  <2>1. Doing(r, "readOwnerPlan") /\ Silent
    BY <1>5 DEF ReadOwnerPlan
  <2>2. req[r].step = 3 /\ req[r].answer = "open"
    BY <2>1, InChain, ChainSteps
  <2> DEFINE plan == PlanOf(org[req[r].org].owner)
             new == [req[r] EXCEPT !.plan = plan]
  <2>3. Passes(r, new)
    BY <1>5 DEF ReadOwnerPlan
  <2>4. plan \in Plans \cup {NoPlan}
    BY <1>2, <1>3
  <2> HIDE DEF plan
  <2>5. /\ new \in Request /\ new.answer = "open" /\ new.step = 3
        /\ new.route = req[r].route /\ new.user = req[r].user /\ new.version = req[r].version
        /\ new.key = req[r].key /\ new.org = req[r].org /\ new.project = req[r].project
    BY <1>3, <2>2, <2>4 DEF Request
  <2> HIDE DEF new
  <2> QED BY <1>1, <2>1, <2>2, <2>3, <2>5
<1> QED BY <1>4, <1>5

(* The end of an evaluation, in its first or its second query. *)
LEMMA EvaluatedInv ==
  ASSUME Inv, NEW r \in Requests, NEW s \in {"readFlag", "readOverride"}, Doing(r, s),
         NEW enabled \in BOOLEAN, Evaluated(r, enabled), NothingElse, project' = project,
         seen' \in [Requests -> Seen],
         \A k \in Requests : seen'[k].held = seen[k].held /\ seen'[k].revoked = seen[k].revoked
  PROVE  Inv'
<1>1. /\ req[r] \in Request /\ req[r].answer = "open" /\ req[r].step \in {4, 5}
      /\ req[r].route \in {"export", "evaluate"}
      /\ req[r].route = "export" => Len(Chain[req[r].route]) = 6
      /\ req[r].step <= Len(Chain[req[r].route])
  BY InChain, ChainSteps
<1>2. /\ seen[r].held = Guards /\ ~seen[r].revoked
  BY <1>1, AllHeld, NotRevoked
<1>3. NoFlag \in Flag
  BY DEF NoFlag, Flag, FlagTypes
<1> DEFINE e == [req[r] EXCEPT !.enabled = enabled, !.row = NoFlag]
           q == IF e.route = "evaluate" THEN [e EXCEPT !.answer = "served"]
                ELSE IF enabled THEN [e EXCEPT !.step = @ + 1]
                ELSE [e EXCEPT !.answer = "denied"]
<1>4. /\ e \in Request /\ e.answer = "open" /\ e.step = req[r].step
      /\ e.route = req[r].route /\ e.user = req[r].user /\ e.version = req[r].version
      /\ e.key = req[r].key /\ e.org = req[r].org /\ e.project = req[r].project
  BY <1>1, <1>3 DEF Request
<1>5. req' = [req EXCEPT ![r] = q]
  BY DEF Evaluated, Inv, TypeOK
<1> HIDE DEF e
<1>6. /\ q \in Request
      /\ \/ q.answer = "served" /\ q.step = req[r].step
         \/ q.answer = "open" /\ q.step = req[r].step + 1 /\ q.route = "export"
         \/ q.answer = "denied" /\ q.step = req[r].step
      /\ q.route = req[r].route /\ q.user = req[r].user /\ q.version = req[r].version
      /\ q.key = req[r].key /\ q.org = req[r].org /\ q.project = req[r].project
  <2>1. CASE e.route = "evaluate"
    BY <1>1, <1>4, <2>1 DEF Request
  <2>2. CASE e.route # "evaluate" /\ enabled
    <3> DEFINE n == e.step + 1
    <3>1. n \in 0..6 /\ n = req[r].step + 1
      BY <1>1, <1>4
    <3>2. q = [e EXCEPT !.step = n] /\ e.route = "export"
      BY <1>1, <1>4, <2>2
    <3> HIDE DEF n, q
    <3>3. q \in Request
      BY <1>4, <3>1, <3>2, Zenon DEF Request
    <3>4. /\ q.answer = "open" /\ q.step = n /\ q.route = "export"
          /\ q.route = req[r].route /\ q.user = req[r].user /\ q.version = req[r].version
          /\ q.key = req[r].key /\ q.org = req[r].org /\ q.project = req[r].project
      BY <1>4, <3>2 DEF Request
    <3> QED BY <3>1, <3>3, <3>4
  <2>3. CASE e.route # "evaluate" /\ ~enabled
    BY <1>1, <1>4, <2>3 DEF Request
  <2> QED BY <2>1, <2>2, <2>3
<1> HIDE DEF q
<1>7. Passed(r, q)
  <2>1. q.step <= Len(Chain[q.route])
    <3>1. PICK n \in 3..6 : n = Len(Chain[req[r].route])
      BY <1>1, ChainSteps DEF Request
    <3>2. req[r].step <= n /\ (req[r].route = "export" => n = 6)
      BY <1>1, <3>1
    <3>3. Len(Chain[q.route]) = n
      BY <1>6, <3>1
    <3>4. q.step <= n
      BY <1>1, <1>6, <3>2
    <3> QED BY <3>3, <3>4
  <2>2. q.route \notin {"update", "delete"}
    BY <1>1, <1>6
  <2> QED BY <1>2, <1>6, <2>1, <2>2 DEF Passed, Guards
<1>8. /\ project' \in [Projects -> Project]
      /\ \A p \in Projects : project[p].state # "none" =>
            project'[p].state # "none" /\ project'[p].org = project[p].org
  BY DEF Inv, TypeOK
<1>9. req[r].step > 0
  BY <1>1
<1> QED BY <1>1, <1>5, <1>6, <1>7, <1>8, <1>9, Moves

LEMMA FlagRequests ==
  ASSUME Inv, NEW r \in Requests, readFlag(r) \/ readOverride(r)
  PROVE  Inv'
<1>1. seen \in [Requests -> Seen] /\ seen[r] \in Seen
  BY DEF Inv, TypeOK
<1>2. CASE readOverride(r)
  <2>1. Doing(r, "readOverride") /\ Silent
    BY <1>2 DEF readOverride
  <2> DEFINE enabled == WithOverride(req[r].flag, req[r].row, req[r].plan, req[r].org)
  <2>2. enabled \in BOOLEAN
    BY DEF WithOverride, evaluateByType
  <2>3. Evaluated(r, enabled)
    BY <1>2 DEF readOverride
  <2> HIDE DEF enabled
  <2> QED BY <1>1, <2>1, <2>2, <2>3, EvaluatedInv DEF Silent
<1>3. CASE readFlag(r)
  <2>1. Doing(r, "readFlag") /\ NothingElse /\ project' = project
    BY <1>3 DEF readFlag
  <2> DEFINE answer == Reference(ExportKey, req[r].plan, req[r].org)
  <2>2. answer \in BOOLEAN
    BY DEF Reference
  <2>3. seen' = [seen EXCEPT ![r].answers = {answer}, ![r].changes = 0, ![r].deleted = FALSE]
    BY <1>3 DEF readFlag
  <2> HIDE DEF answer
  <2>4. seen' \in [Requests -> Seen]
    <3>1. [seen[r] EXCEPT !.answers = {answer}, !.changes = 0, !.deleted = FALSE] \in Seen
      <4>1. {answer} \in SUBSET BOOLEAN /\ 0 \in 0..2
        BY <2>2
      <4> QED BY <1>1, <4>1, Zenon DEF Seen
    <3>2. seen' = [seen EXCEPT ![r] = [seen[r] EXCEPT !.answers = {answer}, !.changes = 0, !.deleted = FALSE]]
      BY <1>1, <2>3
    <3> QED BY <1>1, <3>1, <3>2
  <2>5. \A k \in Requests : seen'[k].held = seen[k].held /\ seen'[k].revoked = seen[k].revoked
    BY <1>1, <2>3 DEF Seen
  <2>6. CASE Evaluated(r, FALSE)
    BY <2>1, <2>4, <2>5, <2>6, EvaluatedInv
  <2>7. ASSUME NEW f \in FlagByKey(ExportKey), Passes(r, [req[r] EXCEPT !.flag = f, !.row = flag[f]])
        PROVE  Inv'
    <3>1. /\ req[r] \in Request /\ req[r].answer = "open" /\ req[r].step = 4
          /\ req[r].route \in {"export", "evaluate"} /\ 5 <= Len(Chain[req[r].route])
      BY <2>1, InChain, ChainSteps
    <3>2. seen[r].held = Guards /\ ~seen[r].revoked
      BY <2>1, <3>1, AllHeld, NotRevoked
    <3>3. f \in FlagIds /\ flag[f] \in Flag
      <4>1. f \in FlagIds
        BY DEF FlagByKey, Taken
      <4> QED BY <4>1 DEF Inv, TypeOK, FTypeOK
    <3> DEFINE e == [req[r] EXCEPT !.flag = f, !.row = flag[f]]
               q == [e EXCEPT !.step = @ + 1]
    <3>4. /\ e \in Request /\ e.answer = "open" /\ e.step = 4
          /\ e.route = req[r].route /\ e.user = req[r].user /\ e.version = req[r].version
          /\ e.key = req[r].key /\ e.org = req[r].org /\ e.project = req[r].project
      BY <3>1, <3>3 DEF Request
    <3>5. req' = [req EXCEPT ![r] = q]
      BY <2>7 DEF Passes
    <3> HIDE DEF e
    <3>6. /\ q \in Request /\ q.answer = "open" /\ q.step = 5
          /\ q.route = req[r].route /\ q.user = req[r].user /\ q.version = req[r].version
          /\ q.key = req[r].key /\ q.org = req[r].org /\ q.project = req[r].project
      <4>1. 5 \in 0..6 /\ e.step + 1 = 5
        BY <3>4
      <4>2. q = [e EXCEPT !.step = 5]
        BY <4>1
      <4> HIDE DEF q
      <4>3. q \in Request
        BY <3>4, <4>1, <4>2, Zenon DEF Request
      <4> QED BY <3>4, <4>2, <4>3 DEF Request
    <3> HIDE DEF q
    <3>7. Passed(r, q)
      <4>1. q.step <= Len(Chain[q.route]) /\ q.route \notin {"update", "delete"}
        BY <3>1, <3>6
      <4> QED BY <3>2, <3>6, <4>1 DEF Passed, Guards
    <3>8. /\ project' \in [Projects -> Project]
          /\ \A p \in Projects : project[p].state # "none" =>
                project'[p].state # "none" /\ project'[p].org = project[p].org
      BY <2>1 DEF Inv, TypeOK
    <3>9. req[r].step > 0
      BY <3>1
    <3> QED BY <2>1, <2>4, <2>5, <3>1, <3>5, <3>6, <3>7, <3>8, <3>9, Moves
  <2> QED BY <1>3, <2>6, <2>7 DEF readFlag
<1> QED BY <1>2, <1>3

(* Where the handlers stand. *)
LEMMA LateStep ==
  ASSUME Inv, NEW r \in Requests,
         NEW s \in {"list", "get", "findLive", "create", "update", "delete"}, Doing(r, s)
  PROVE  /\ req[r] \in Request /\ req[r].answer = "open" /\ req[r].step >= 3 /\ req[r].step > 0
         /\ req[r].step <= Len(Chain[req[r].route])
         /\ req[r].step >= 4 \/ req[r].route \notin {"export", "analytics"}
         /\ s # "list" => req[r].route \notin {"export", "analytics"}
<1> DEFINE i == req[r].step
           route == req[r].route
<1>1. /\ req[r] \in Request /\ req[r].answer = "open" /\ route \in Routes
      /\ i \in 1..Len(Chain[route]) /\ Chain[route][i] = s
  BY InChain
<1>2. PICK n \in 3..6 : n = Len(Chain[route])
  BY <1>1, ChainSteps
<1> HIDE DEF i, route
<1>3. i \in 1..n
  BY <1>1, <1>2
<1>4. CASE s = "list"
  <2>1. i >= 3 /\ (i = 3 => route \notin {"export", "analytics"})
    BY <1>1, <1>4, ChainSteps
  <2> QED BY <1>1, <1>2, <1>3, <1>4, <2>1 DEF i, route
<1>5. CASE s \in {"get", "create"}
  <2>1. i = 3 /\ route \in {"get", "keyGet", "create"}
    BY <1>1, <1>5, ChainSteps
  <2> QED BY <1>1, <1>2, <1>3, <2>1 DEF i, route
<1>6. CASE s = "findLive"
  <2>1. i = 3 /\ route \in {"update", "delete"}
    BY <1>1, <1>6, ChainSteps
  <2> QED BY <1>1, <1>2, <1>3, <2>1 DEF i, route
<1>7. CASE s \in {"update", "delete"}
  <2>1. i = 4 /\ route \in {"update", "delete"}
    BY <1>1, <1>7, ChainSteps
  <2> QED BY <1>1, <1>2, <1>3, <2>1 DEF i, route
<1> QED BY <1>4, <1>5, <1>6, <1>7

(* The handlers that read. *)
LEMMA Reads ==
  ASSUME Inv, NEW r \in Requests, ListProjects(r) \/ getProject(r) \/ findLive(r)
  PROVE  Inv'
<1>1. PICK s \in {"list", "get", "findLive"} : Doing(r, s) /\ Silent
  BY DEF ListProjects, getProject, findLive
<1>2. /\ req[r] \in Request /\ req[r].answer = "open" /\ req[r].step >= 3
      /\ req[r].step >= 4 \/ req[r].route \notin {"export", "analytics"}
  BY <1>1, LateStep
<1>3. seen[r].held = Guards /\ ~seen[r].revoked
  <2>1. seen[r].held = Guards
    BY <1>1, <1>2, AllHeld
  <2>2. req[r].step >= 2
    BY <1>2 DEF Request
  <2> QED BY <1>1, <2>1, <2>2, NotRevoked
<1>4. CASE Served(r)
  BY <1>1, <1>3, <1>4, ServedInv
<1>5. CASE Denied(r)
  BY <1>1, <1>5, DeniedInv
<1>6. CASE findLive(r) /\ FindLive(req[r].project, req[r].org)
  <2>1. Doing(r, "findLive") /\ Passes(r, req[r])
    BY <1>6 DEF findLive
  <2>2. req[r].step = 3 /\ req[r].route \in {"update", "delete"}
    BY <2>1, InChain, ChainSteps
  <2>3. 4 <= Len(Chain[req[r].route])
    <3>1. CASE req[r].route = "update"
      BY <3>1 DEF Chain
    <3>2. CASE req[r].route = "delete"
      BY <3>2 DEF Chain
    <3> QED BY <2>2, <3>1, <3>2
  <2> QED
    BY <1>1, <1>2, <1>3, <1>6, <2>1, <2>2, <2>3, PassesInv DEF FindLive, Guards
<1> QED
  BY <1>4, <1>5, <1>6 DEF ListProjects, getProject, findLive

(* What a handler may write over the row of project p. *)
Kept(r, p, row) ==
  /\ project[p].state # "none" => row.state # "none" /\ row.org = project[p].org
  /\ project[p].state = "deleted" => row.state = "deleted"
  /\ row.org = req[r].org

LEMMA WriteRow ==
  ASSUME Inv, NEW r \in Requests,
         \/ \E p \in Projects : createProject(r, p)
         \/ \E status \in {"ACTIVE", "ARCHIVED"} : updateProject(r, status)
         \/ deleteProject(r)
  PROVE  \E s \in {"create", "update", "delete"}, p \in Projects, row \in Project :
           Doing(r, s) /\ ProjectWritten(r, p, row) /\ Kept(r, p, row)
<1>1. req[r] \in Request /\ project \in [Projects -> Project] /\ Passed(r, req[r])
  BY DEF Inv, TypeOK
<1>2. req[r].project \in Projects /\ req[r].org \in Orgs /\ project[req[r].project] \in Project
  BY <1>1 DEF Request
<1>3. ASSUME NEW p \in Projects, createProject(r, p)
      PROVE  \E row \in Project :
               Doing(r, "create") /\ ProjectWritten(r, p, row) /\ Kept(r, p, row)
  <2> DEFINE row == [state |-> "live", org |-> req[r].org, status |-> "ACTIVE"]
  <2>1. row \in Project /\ row.org = req[r].org /\ project[p].state = "none"
    BY <1>2, <1>3 DEF Project, createProject
  <2>2. Doing(r, "create") /\ ProjectWritten(r, p, row)
    BY <1>3 DEF createProject
  <2> HIDE DEF row
  <2> QED BY <2>1, <2>2 DEF Kept
<1>4. ASSUME NEW s \in {"update", "delete"}, Doing(r, s)
      PROVE  project[req[r].project].state # "none" /\ project[req[r].project].org = req[r].org
  <2>1. /\ req[r].step \in 1..Len(Chain[req[r].route]) /\ req[r].route \in Routes
        /\ Chain[req[r].route][req[r].step] = s /\ req[r].answer = "open"
    BY <1>4, InChain
  <2>2. req[r].step = 4 /\ req[r].route \in {"update", "delete"}
    BY <2>1, ChainSteps
  <2> QED BY <1>1, <2>1, <2>2 DEF Passed
<1>5. ASSUME NEW status \in {"ACTIVE", "ARCHIVED"}, updateProject(r, status)
      PROVE  \E row \in Project :
               Doing(r, "update") /\ ProjectWritten(r, req[r].project, row) /\ Kept(r, req[r].project, row)
  <2> DEFINE row == [project[req[r].project] EXCEPT !.status = status]
  <2>1. row \in Project /\ row.state = project[req[r].project].state
        /\ row.org = project[req[r].project].org
    BY <1>2 DEF Project
  <2>2. Doing(r, "update") /\ ProjectWritten(r, req[r].project, row)
    BY <1>5 DEF updateProject
  <2> HIDE DEF row
  <2> QED BY <1>4, <2>1, <2>2 DEF Kept
<1>6. ASSUME deleteProject(r)
      PROVE  \E row \in Project :
               Doing(r, "delete") /\ ProjectWritten(r, req[r].project, row) /\ Kept(r, req[r].project, row)
  <2> DEFINE row == [project[req[r].project] EXCEPT !.state = "deleted"]
  <2>1. row \in Project /\ row.state = "deleted" /\ row.org = project[req[r].project].org
    BY <1>2 DEF Project
  <2>2. Doing(r, "delete") /\ ProjectWritten(r, req[r].project, row)
    BY <1>6 DEF deleteProject
  <2> HIDE DEF row
  <2> QED BY <1>4, <2>1, <2>2 DEF Kept
<1> QED BY <1>2, <1>3, <1>5, <1>6

(* The handlers that write a project. *)
LEMMA Writes ==
  ASSUME Inv, NEW r \in Requests,
         \/ \E p \in Projects : createProject(r, p)
         \/ \E status \in {"ACTIVE", "ARCHIVED"} : updateProject(r, status)
         \/ deleteProject(r)
  PROVE  Inv'
<1>1. PICK s \in {"create", "update", "delete"}, p \in Projects, row \in Project :
        /\ Doing(r, s) /\ ProjectWritten(r, p, row)
        /\ project[p].state # "none" => row.state # "none" /\ row.org = project[p].org
  BY WriteRow DEF Kept
<1>2. /\ req[r] \in Request /\ req[r].answer = "open" /\ req[r].step >= 3 /\ req[r].step > 0
      /\ req[r].step <= Len(Chain[req[r].route]) /\ req[r].route \notin {"export", "analytics"}
  BY <1>1, LateStep
<1>3. seen[r].held = Guards /\ ~seen[r].revoked
  <2>1. seen[r].held = Guards
    BY <1>1, <1>2, AllHeld
  <2>2. req[r].step >= 2
    BY <1>2 DEF Request
  <2> QED BY <1>1, <2>1, <2>2, NotRevoked
<1> DEFINE q == [req[r] EXCEPT !.answer = "served", !.project = p]
<1>4. /\ q \in Request /\ q.answer = "served" /\ q.step = req[r].step
      /\ q.route = req[r].route /\ q.user = req[r].user /\ q.version = req[r].version
      /\ q.key = req[r].key /\ q.org = req[r].org
  BY <1>2 DEF Request
<1>5. req' = [req EXCEPT ![r] = q]
  BY <1>1 DEF ProjectWritten, Inv, TypeOK
<1> HIDE DEF q
<1>6. Passed(r, q)
  BY <1>2, <1>3, <1>4 DEF Passed
<1>7. seen' \in [Requests -> Seen] /\ \A k \in Requests : seen'[k].held = seen[k].held /\ seen'[k].revoked = seen[k].revoked
  <2>1. \A k \in Requests : seen[k] \in Seen /\ [seen[k] EXCEPT !.quiet = FALSE] \in Seen
    <3>1. \A k \in Requests : seen[k] \in Seen
      BY DEF Inv, TypeOK
    <3> QED BY <3>1, Zenon DEF Seen
  <2>2. seen' = [k \in Requests |-> IF k = r THEN seen[k] ELSE [seen[k] EXCEPT !.quiet = FALSE]]
    BY <1>1 DEF ProjectWritten
  <2>3. \A k \in Requests : [seen[k] EXCEPT !.quiet = FALSE].held = seen[k].held
                           /\ [seen[k] EXCEPT !.quiet = FALSE].revoked = seen[k].revoked
    BY <2>1 DEF Seen
  <2> QED BY <2>1, <2>2, <2>3
<1>8. /\ project' \in [Projects -> Project]
      /\ \A x \in Projects : project[x].state # "none" =>
            project'[x].state # "none" /\ project'[x].org = project[x].org
  BY <1>1 DEF ProjectWritten, Inv, TypeOK
<1>9. NothingElse
  BY <1>1 DEF ProjectWritten
<1> QED BY <1>2, <1>4, <1>5, <1>6, <1>7, <1>8, <1>9, Moves

(* A new request. *)
LEMMA BeginInv ==
  ASSUME Inv, NEW r \in Requests, NEW route \in Routes, NEW u \in Users, NEW o \in Orgs,
         NEW k \in KeyIds, NEW p \in Projects, Begin(r, route, u, o, k, p)
  PROVE  Inv'
<1>1. /\ req \in [Requests -> Request] /\ seen \in [Requests -> Seen] /\ user[u].version \in Nat
      /\ req[r] \in Request
  BY DEF Inv, TypeOK, TTypeOK, User
<1>2. PICK v \in 0..user[u].version :
        req' = [req EXCEPT ![r] = [@ EXCEPT !.route = route, !.step = 1, !.answer = "open",
                  !.user = u, !.version = v, !.key = k, !.org = o, !.project = p,
                  !.plan = NoPlan, !.row = NoFlag, !.enabled = FALSE]]
  BY DEF Begin
<1> DEFINE q == [req[r] EXCEPT !.route = route, !.step = 1, !.answer = "open",
                  !.user = u, !.version = v, !.key = k, !.org = o, !.project = p,
                  !.plan = NoPlan, !.row = NoFlag, !.enabled = FALSE]
<1>3. req' = [req EXCEPT ![r] = q]
  BY <1>2
<1>4. q \in Request /\ q.route = route /\ q.step = 1 /\ q.answer = "open" /\ q.key = k
  <2>1. NoFlag \in Flag
    BY DEF NoFlag, Flag, FlagTypes
  <2>2. v \in Nat /\ 1 \in 0..6
    BY <1>1
  <2>3. q \in Request
    BY <1>1, <2>1, <2>2, Zenon DEF Request
  <2> QED BY <1>1, <2>3 DEF Request
<1> HIDE DEF q
<1> DEFINE held == {g \in Guards : Holds(g, r)'}
           entitled == Entitled(r)'
           revoked == route \in KeyRoutes /\ key[k].revoked
           h == [held |-> held, quiet |-> TRUE, entitled |-> entitled, revoked |-> revoked,
                 answers |-> {}, changes |-> 0, deleted |-> FALSE]
<1>5. seen' = [seen EXCEPT ![r] = h]
  BY DEF Begin
<1>6. held \subseteq Guards /\ entitled \in BOOLEAN /\ revoked \in BOOLEAN
  BY DEF Entitled
<1>7. \A g \in Guards : Holds(g, r)' => g \in held
  OBVIOUS
<1>8. revoked => route \in KeyRoutes /\ key[k].exists /\ key[k].revoked
  BY DEF Begin
<1> HIDE DEF held, entitled, revoked
<1>9. h \in Seen /\ h.held = held /\ h.revoked = revoked
  <2>1. 0 \in 0..2
    OBVIOUS
  <2> QED BY <1>6, <2>1 DEF Seen
<1> HIDE DEF h
<1>10. NothingElse /\ project' = project
  BY DEF Begin
<1>11. TypeOK'
  <2>1. TTypeOK' /\ FTypeOK' /\ KTypeOK' /\ project' \in [Projects -> Project]
    BY <1>10 DEF Inv, TypeOK, NothingElse, tvars, fvars, kvars, TTypeOK, FTypeOK, KTypeOK
  <2>2. req' \in [Requests -> Request] /\ seen' \in [Requests -> Seen]
    BY <1>1, <1>3, <1>4, <1>5, <1>9
  <2> QED BY <2>1, <2>2 DEF TypeOK
<1>12. req'[r] = q /\ seen'[r] = h
  BY <1>1, <1>3, <1>5
<1>13. key' = key /\ UNCHANGED <<user, org, member, sub, key>>
  BY <1>10 DEF NothingElse, tvars, kvars
<1>14. Passed(r, req[r])' /\ HeldNow(r)'
  <2>1. 1 <= Len(Chain[route])
    <3>1. PICK n \in 3..6 : n = Len(Chain[route])
      BY ChainSteps
    <3>2. 1 <= n
      OBVIOUS
    <3> QED BY <3>1, <3>2, Zenon
  <2> QED
    BY <1>4, <1>7, <1>8, <1>9, <1>12, <1>13, <2>1 DEF Passed, HeldNow
<1>15. ASSUME NEW x \in Requests, x # r PROVE Passed(x, req[x])' /\ HeldNow(x)'
  <2>1. req'[x] = req[x] /\ seen'[x] = seen[x]
    BY <1>1, <1>3, <1>5, <1>15
  <2>2. Passed(x, req[x]) /\ HeldNow(x)
    BY DEF Inv
  <2>3. \A g \in Guards : Holds(g, x)' <=> Holds(g, x)
    BY <1>13, <2>1, HoldsSame DEF Same
  <2> QED BY <1>10, <1>13, <2>1, <2>2, <2>3 DEF Passed, HeldNow
<1> QED BY <1>11, <1>14, <1>15 DEF Inv

-----------------------------------------------------------------------------
(* Steps of the tables *)

(* A step of a call before its write: no request can tell. *)
LEMMA QuietInv ==
  ASSUME Inv, TTypeOK', FTypeOK', KTypeOK',
         UNCHANGED <<user, org, member, sub, key, project, req, seen>>
  PROVE  Inv'
<1>1. TypeOK'
  BY DEF Inv, TypeOK
<1>2. ASSUME NEW x \in Requests PROVE Passed(x, req[x])' /\ HeldNow(x)'
  <2>1. Passed(x, req[x]) /\ HeldNow(x)
    BY DEF Inv
  <2>2. \A g \in Guards : Holds(g, x)' <=> Holds(g, x)
    BY HoldsSame DEF Same
  <2> QED BY <2>1, <2>2 DEF Passed, HeldNow
<1> QED BY <1>1, <1>2 DEF Inv

(* A committed write: the history of every request in flight gains the     *)
(* guards that hold after it, and a revoked key stays revoked.             *)
LEMMA NoticeInv ==
  ASSUME Inv, NEW d \in BOOLEAN, Notice(d), TTypeOK', FTypeOK', KTypeOK',
         \A k \in KeyIds : key[k].exists /\ key[k].revoked => key'[k].exists /\ key'[k].revoked
  PROVE  Inv'
<1>1. /\ UNCHANGED <<project, req>> /\ seen' = [r \in Requests |-> Noticed(r, d)]
      /\ req \in [Requests -> Request] /\ seen \in [Requests -> Seen]
  BY DEF Notice, Inv, TypeOK
<1>2. ASSUME NEW r \in Requests
      PROVE  /\ Noticed(r, d) \in Seen /\ Noticed(r, d).revoked = seen[r].revoked
             /\ Free(r) => Noticed(r, d).held = seen[r].held
             /\ ~Free(r) => Noticed(r, d).held = seen[r].held \cup {g \in Guards : Holds(g, r)'}
  <2> DEFINE torn == Doing(r, "readOverride")
             new == {g \in Guards : Holds(g, r)'}
             answer == Reference(ExportKey, req[r].plan, req[r].org)'
             answers == IF torn THEN seen[r].answers \cup {answer} ELSE seen[r].answers
             changes == IF torn /\ seen[r].changes < 2 THEN seen[r].changes + 1 ELSE seen[r].changes
             deleted == seen[r].deleted \/ (torn /\ d)
             held == seen[r].held \cup new
  <2>1. seen[r] \in Seen
    BY <1>1
  <2>2. CASE Free(r)
    <3>1. Noticed(r, d) = [seen[r] EXCEPT !.quiet = FALSE]
      BY <2>2 DEF Noticed
    <3>2. [seen[r] EXCEPT !.quiet = FALSE] \in Seen
      BY <2>1, Zenon DEF Seen
    <3> QED BY <2>1, <2>2, <3>1, <3>2 DEF Seen
  <2>3. CASE ~Free(r)
    <3>1. Noticed(r, d) = [seen[r] EXCEPT !.quiet = FALSE, !.held = held, !.answers = answers,
                                          !.changes = changes, !.deleted = deleted]
      BY <2>3 DEF Noticed
    <3>2. answers \in SUBSET BOOLEAN
      <4>1. answer \in BOOLEAN
        BY DEF Reference
      <4>2. seen[r].answers \in SUBSET BOOLEAN
        BY <2>1 DEF Seen
      <4> HIDE DEF answer
      <4> QED BY <4>1, <4>2
    <3>3. changes \in 0..2
      BY <2>1 DEF Seen
    <3>4. deleted \in BOOLEAN
      BY <2>1 DEF Seen
    <3>5. held \in SUBSET Guards
      BY <2>1 DEF Seen
    <3> HIDE DEF answers, changes, deleted, held
    <3>6. [seen[r] EXCEPT !.quiet = FALSE, !.held = held, !.answers = answers,
                          !.changes = changes, !.deleted = deleted] \in Seen
      BY <2>1, <3>2, <3>3, <3>4, <3>5, Zenon DEF Seen
    <3>7. Noticed(r, d).revoked = seen[r].revoked /\ Noticed(r, d).held = held
      BY <2>1, <3>1 DEF Seen
    <3> QED BY <2>3, <3>1, <3>6, <3>7 DEF held
  <2> QED BY <2>2, <2>3
<1>3. TypeOK'
  BY <1>1, <1>2 DEF Inv, TypeOK
<1>4. ASSUME NEW r \in Requests PROVE Passed(r, req[r])' /\ HeldNow(r)'
  <2>1. /\ Passed(r, req[r]) /\ req'[r] = req[r] /\ project' = project
        /\ req[r].key \in KeyIds
    BY <1>1 DEF Inv, Request
  <2>2. seen'[r] = Noticed(r, d)
    BY <1>1
  <2>3. CASE Free(r)
    <3>1. seen'[r].held = seen[r].held /\ seen'[r].revoked = seen[r].revoked
      BY <1>2, <2>2, <2>3
    <3> QED BY <2>1, <2>3, <3>1 DEF Free, Passed, HeldNow, Request
  <2>4. CASE ~Free(r)
    <3>1. /\ seen'[r].held = seen[r].held \cup {g \in Guards : Holds(g, r)'}
          /\ seen'[r].revoked = seen[r].revoked /\ req[r].answer = "open"
      BY <1>2, <2>2, <2>4 DEF Free
    <3>2. HeldNow(r)'
      BY <3>1 DEF HeldNow
    <3>3. Passed(r, req[r])'
      BY <2>1, <3>1 DEF Passed
    <3> QED BY <3>2, <3>3
  <2> QED BY <2>3, <2>4
<1> QED BY <1>3, <1>4 DEF Inv

LEMMA TenantStepInv == ASSUME Inv, TenantStep PROVE Inv'
<1>1. TTypeOK' /\ FTypeOK' /\ KTypeOK'
  <2>1. TTypeOK /\ FTypeOK /\ KTypeOK
    BY DEF Inv, TypeOK
  <2>2. TTypeOK'
    BY <2>1, TenantsType DEF TenantStep
  <2> QED BY <2>1, <2>2 DEF TenantStep, fvars, kvars, FTypeOK, KTypeOK
<1> QED BY <1>1, NoticeInv DEF TenantStep, kvars

LEMMA FlagStepInv == ASSUME Inv, NEW c \in FlagCalls, FlagStep(c) PROVE Inv'
<1>1. TTypeOK' /\ FTypeOK' /\ KTypeOK' /\ UNCHANGED <<user, org, member, sub, key>>
  <2>1. TTypeOK /\ FTypeOK /\ KTypeOK /\ UNCHANGED <<tvars, kvars>>
    BY DEF Inv, TypeOK, FlagStep
  <2>2. FTypeOK'
    BY <2>1, FlagsType DEF FlagStep
  <2> QED BY <2>1, <2>2 DEF tvars, kvars, TTypeOK, KTypeOK
<1>2. CASE FlagsQuiet(c) /\ UNCHANGED <<project, req, seen>>
  BY <1>1, <1>2, QuietInv
<1>3. CASE Notice(fcall[c].op = "delete")
  <2>1. (fcall[c].op = "delete") \in BOOLEAN
    OBVIOUS
  <2> QED BY <1>1, <1>3, <2>1, NoticeInv
<1> QED BY <1>2, <1>3 DEF FlagStep

(* No write of a key takes a revocation back. *)
LEMMA KeyStepInv == ASSUME Inv, KeyStep PROVE Inv'
<1>1. TTypeOK' /\ FTypeOK' /\ KTypeOK' /\ UNCHANGED <<user, org, member, sub>>
  <2>1. TTypeOK /\ FTypeOK /\ KTypeOK /\ UNCHANGED <<tvars, fvars>>
    BY DEF Inv, TypeOK, KeyStep
  <2>2. KTypeOK'
    BY <2>1, KeysType DEF KeyStep
  <2> QED BY <2>1, <2>2 DEF tvars, fvars, TTypeOK, FTypeOK
<1>2. ASSUME NEW c \in KeyCalls, KeysQuiet(c), UNCHANGED <<project, req, seen>> PROVE Inv'
  <2>1. key' = key
    BY <1>2 DEF KeysQuiet, KeyRead, KeyBegin
  <2> QED BY <1>1, <1>2, <2>1, QuietInv
<1>3. ASSUME KeyWrite, Notice(FALSE) PROVE Inv'
  <2>1. key \in [KeyIds -> Key]
    BY DEF Inv, TypeOK, KTypeOK
  <2>2. ASSUME NEW k \in KeyIds, key[k].exists, key[k].revoked
        PROVE  key'[k].exists /\ key'[k].revoked
    <3>1. key[k] \in Key
      BY <2>1
    <3>2. ASSUME NEW x \in KeyIds, ExpireKey(x) \/ \E b \in BOOLEAN : createApiKey(x, b)
          PROVE  key'[k].exists /\ key'[k].revoked
      BY <2>1, <2>2, <3>1, <3>2 DEF ExpireKey, createApiKey, Key
    <3>3. ASSUME NEW c \in KeyCalls, revokeApiKey(c) \/ deleteApiKey(c) \/ restoreApiKey(c)
          PROVE  key'[k].exists /\ key'[k].revoked
      <4> DEFINE x == kcall[c].key
      <4>1. x \in KeyIds /\ key[x] \in Key
        BY <2>1 DEF Inv, TypeOK, KTypeOK, KeyCall
      <4>2. PICK row \in Key : /\ key' = [key EXCEPT ![x] = row]
                              /\ row.exists = key[x].exists /\ (key[x].revoked => row.revoked)
        <5>1. CASE revokeApiKey(c)
          <6> DEFINE row == [key[x] EXCEPT !.revoked = TRUE]
          <6>1. row \in Key /\ row.exists = key[x].exists /\ row.revoked
            BY <4>1 DEF Key
          <6> QED BY <5>1, <6>1 DEF revokeApiKey
        <5>2. CASE deleteApiKey(c)
          <6> DEFINE row == [key[x] EXCEPT !.deleted = TRUE]
          <6>1. row \in Key /\ row.exists = key[x].exists /\ row.revoked = key[x].revoked
            BY <4>1 DEF Key
          <6> QED BY <5>2, <6>1 DEF deleteApiKey
        <5>3. CASE restoreApiKey(c)
          <6> DEFINE row == [key[x] EXCEPT !.deleted = FALSE]
          <6>1. row \in Key /\ row.exists = key[x].exists /\ row.revoked = key[x].revoked
            BY <4>1 DEF Key
          <6> QED BY <5>3, <6>1 DEF restoreApiKey
        <5> QED BY <3>3, <5>1, <5>2, <5>3
      <4> HIDE DEF x
      <4>3. CASE k = x
        BY <2>1, <2>2, <4>1, <4>2, <4>3
      <4>4. CASE k # x
        BY <2>1, <2>2, <4>1, <4>2, <4>4
      <4> QED BY <4>3, <4>4
    <3> QED BY <1>3, <3>2, <3>3 DEF KeyWrite
  <2> QED BY <1>1, <1>3, <2>2, NoticeInv
<1> QED BY <1>2, <1>3 DEF KeyStep

-----------------------------------------------------------------------------
(* The invariant holds *)

LEMMA InitInv == Init => Inv
<1> SUFFICES ASSUME Init PROVE Inv
  OBVIOUS
<1>1. TTypeOK /\ FTypeOK /\ KTypeOK /\ project \in [Projects -> Project]
  <2>1. PICK s \in Seeds : /\ user = s.user /\ org = s.org /\ member = s.member /\ sub = s.sub
                          /\ flag = s.flag /\ override = s.override /\ key = s.key
                          /\ project = s.project
    BY DEF Init
  <2>2. s \in [user : [Users -> User], org : [Orgs -> Org],
                member : [Orgs -> [Users -> Roles \cup {"none"}]],
                sub : [Holders -> Seq(Subscription)], flag : [FlagIds -> Flag],
                override : [FlagIds -> [Orgs -> Override]], key : [KeyIds -> Key],
                project : [Projects -> Project]]
    OBVIOUS
  <2>3. /\ user \in [Users -> User] /\ org \in [Orgs -> Org]
        /\ member \in [Orgs -> [Users -> Roles \cup {"none"}]]
        /\ sub \in [Holders -> Seq(Subscription)] /\ flag \in [FlagIds -> Flag]
        /\ override \in [FlagIds -> [Orgs -> Override]] /\ key \in [KeyIds -> Key]
        /\ project \in [Projects -> Project]
    BY <2>1, <2>2
  <2>4. fcall \in [FlagCalls -> FlagCall] /\ kcall \in [KeyCalls -> KeyCall]
    BY NoCallType DEF Init
  <2> QED BY <2>3, <2>4 DEF TTypeOK, FTypeOK, KTypeOK
<1>2. NoRequest \in Request /\ NoRequest.step = 0 /\ NoRequest.answer = "open" /\ NoRequest.route = "list"
  <2>1. /\ (CHOOSE u \in Users : TRUE) \in Users /\ (CHOOSE k \in KeyIds : TRUE) \in KeyIds
        /\ (CHOOSE o \in Orgs : TRUE) \in Orgs /\ (CHOOSE p \in Projects : TRUE) \in Projects
        /\ (CHOOSE f \in FlagIds : TRUE) \in FlagIds
    BY Chosen
  <2>2. NoFlag \in Flag /\ 0 \in 0..6 /\ 0 \in Nat /\ "list" \in Routes
    BY DEF NoFlag, Flag, FlagTypes, Routes, Chain
  <2>3. NoRequest \in Request
    BY <2>1, <2>2, Zenon DEF NoRequest, Request
  <2> QED BY <2>3 DEF NoRequest
<1>3. Unseen \in Seen /\ Unseen.revoked = FALSE
  BY DEF Unseen, Seen
<1>4. \A r \in Requests : req[r] = NoRequest /\ seen[r] = Unseen
  BY DEF Init
<1>5. req \in [Requests -> Request] /\ seen \in [Requests -> Seen]
  BY <1>2, <1>3 DEF Init
<1>6. 0 <= Len(Chain["list"])
  BY DEF Chain
<1>7. \A r \in Requests : Passed(r, req[r]) /\ HeldNow(r)
  BY <1>2, <1>3, <1>4, <1>6 DEF Passed, HeldNow
<1> QED BY <1>1, <1>5, <1>7 DEF Inv, TypeOK

LEMMA NextInv == Inv /\ [Next]_vars => Inv'
<1> SUFFICES ASSUME Inv, [Next]_vars PROVE Inv'
  OBVIOUS
<1>1. ASSUME NEW r \in Requests, Continue(r) PROVE Inv'
  BY <1>1, Authenticated, TenantPassed, SubscriptionPassed, PlansRead, FlagRequests, Reads, Writes
     DEF Continue
<1>2. ASSUME NEW r \in Requests, NEW route \in Routes, NEW u \in Users, NEW o \in Orgs,
             NEW k \in KeyIds, NEW p \in Projects, Begin(r, route, u, o, k, p)
      PROVE  Inv'
  BY <1>2, BeginInv
<1>3. CASE TenantStep
  BY <1>3, TenantStepInv
<1>4. CASE KeyStep
  BY <1>4, KeyStepInv
<1>5. ASSUME NEW c \in FlagCalls, FlagStep(c) PROVE Inv'
  BY <1>5, FlagStepInv
<1>6. CASE UNCHANGED vars
  <2>1. TTypeOK' /\ FTypeOK' /\ KTypeOK'
    BY <1>6 DEF Inv, TypeOK, vars, tvars, fvars, kvars, TTypeOK, FTypeOK, KTypeOK
  <2> QED BY <1>6, <2>1, QuietInv DEF vars, tvars, kvars
<1> QED
  BY <1>1, <1>2, <1>3, <1>4, <1>5, <1>6 DEF Next, RequestStep

LEMMA Invariance == Spec => []Inv
BY InitInv, NextInv, PTL DEF Spec

-----------------------------------------------------------------------------
(* The theorems *)

(* Every row, call, request and history has its type.                      *)
THEOREM TypeCorrect == Spec => []TypeOK
<1>1. Inv => TypeOK
  BY DEF Inv
<1> QED BY <1>1, Invariance, PTL

(* A request is served only after each guard of its route held at some     *)
(* moment since it began (project.router.js).                              *)
THEOREM GuardsHeldHolds == Spec => []GuardsHeld
<1>1. Inv => GuardsHeld
  BY DEF Inv, Passed, GuardsHeld
<1> QED BY <1>1, Invariance, PTL

(* A request with a key revoked before it began is never served            *)
(* (apikey.service.js, verifyApiKey).                                      *)
THEOREM RevokedRefusedHolds == Spec => []RevokedRefused
<1>1. Inv => RevokedRefused
  BY DEF Inv, Passed, RevokedRefused
<1> QED BY <1>1, Invariance, PTL

(* A project is written only by a request of its organization whose guards *)
(* held; it is neither moved nor brought back (project.service.js).        *)
THEOREM ProjectWritesHold == Spec => ProjectWrites
<1> DEFINE Written(p) ==
      project'[p] # project[p] =>
        /\ project[p].state # "none" => project'[p].org = project[p].org
        /\ project[p].state = "deleted" => project'[p].state = "deleted"
        /\ \E r \in Requests : /\ req'[r].answer = "served" /\ req[r].answer = "open"
                               /\ req[r].org = project'[p].org
                               /\ seen[r].held = Guards
<1>1. Inv /\ [Next]_vars => [\A p \in Projects : Written(p)]_vars
  <2> SUFFICES ASSUME Inv, Next PROVE \A p \in Projects : Written(p)
    OBVIOUS
  <2>1. CASE project' = project
    BY <2>1
  <2>2. ASSUME NEW r \in Requests, NEW p \in Projects,
               createProject(r, p) \/ deleteProject(r)
                 \/ \E status \in {"ACTIVE", "ARCHIVED"} : updateProject(r, status)
        PROVE  \A x \in Projects : Written(x)
    <3>1. PICK s \in {"create", "update", "delete"}, y \in Projects, row \in Project :
            Doing(r, s) /\ ProjectWritten(r, y, row) /\ Kept(r, y, row)
      BY <2>2, WriteRow
    <3>2. seen[r].held = Guards /\ req[r].answer = "open"
      BY <3>1, LateStep, AllHeld
    <3>3. /\ project' = [project EXCEPT ![y] = row] /\ req'[r].answer = "served"
          /\ project \in [Projects -> Project]
      BY <3>1 DEF ProjectWritten, Inv, TypeOK, Request
    <3> QED BY <3>1, <3>2, <3>3 DEF Kept
  <2>3. ASSUME NEW r \in Requests, Continue(r), project' # project
        PROVE  \A x \in Projects : Written(x)
    <3>1. \/ \E p \in Projects : createProject(r, p)
          \/ deleteProject(r)
          \/ \E status \in {"ACTIVE", "ARCHIVED"} : updateProject(r, status)
      BY <2>3 DEF Continue, Silent, authenticate, authenticateApiKey, requireTenant,
           requireSubscription, requireOrgSubscription, SubscriptionGate, ReadOrgPlan,
           ReadOwnerPlan, readFlag, readOverride, ListProjects, getProject, findLive
    <3>2. \E p \in Projects : TRUE
      BY Chosen
    <3> QED BY <2>2, <3>1, <3>2
  <2> QED
    BY <2>1, <2>3 DEF Next, RequestStep, Begin, TenantStep, KeyStep, FlagStep, Notice
<1> QED BY <1>1, Invariance, PTL DEF Spec, ProjectWrites

-----------------------------------------------------------------------------
(* What a request in its chain knows                                        *)

(* A key names at most one flag that is not deleted. *)
Unique == \A f, g \in FlagIds : Live(f) /\ Live(g) /\ KeyOf[f] = KeyOf[g] => f = g

(* What the two queries of r would evaluate to if the second ran now, and  *)
(* what the flag evaluates to now.                                         *)
Got(r) == WithOverride(req[r].flag, req[r].row, req[r].plan, req[r].org)
Now(r) == Reference(ExportKey, req[r].plan, req[r].org)

(* Between the queries: the answer of this moment is in the history; as    *)
(* long as nothing was written the row read is the row there is, and after *)
(* one write the second query still gives the answer of before or after.   *)
Torn(r) ==
  Doing(r, "readOverride") =>
    /\ KeyOf[req[r].flag] = ExportKey /\ req[r].row.active
    /\ Now(r) \in seen[r].answers
    /\ seen[r].changes = 0 => Live(req[r].flag) /\ flag[req[r].flag] = req[r].row
    /\ seen[r].changes <= 1 /\ ~seen[r].deleted => Got(r) \in seen[r].answers

(* Before them there is no answer in the history. *)
Early(r) ==
  req[r].answer = "open" /\ ~Doing(r, "readOverride") /\ ~Doing(r, "list") =>
    seen[r].answers = {}

Linear(r) ==
  /\ req[r].answer # "open" \/ Doing(r, "list")
  /\ seen[r].answers # {} /\ seen[r].changes <= 1 /\ ~seen[r].deleted
  => req[r].enabled \in seen[r].answers

Reading == Unique /\ \A r \in Requests : Torn(r) /\ Early(r) /\ Linear(r)

(* As long as nothing is written: what a request whose row is q has passed *)
(* still holds, and what it has read is still there.                       *)
Known(r, q) ==
  /\ q.step >= 2 => Holds("caller", r)
  /\ q.step >= 3 => Holds("tenant", r)
  /\ q.step >= 4 => Holds("payer", r)
  /\ q.step = 4 /\ q.route \in {"update", "delete"} => FindLive(q.project, q.org)
  /\ q.step >= 4 /\ q.route = "export" => q.plan \in PaidPlans /\ Newest(q.user, q.plan)
  /\ q.step = 3 /\ q.route = "evaluate" => PlanOf(q.org) = NoPlan
  /\ q.step >= 4 /\ q.route = "evaluate" => q.plan = EndpointPlan(q.org)
  /\ q.step = 5 /\ q.route \in {"export", "evaluate"} =>
       /\ Live(q.flag) /\ KeyOf[q.flag] = ExportKey
       /\ q.row.active /\ q.row = flag[q.flag]
  /\ q.step = 6 => Reference(ExportKey, q.plan, q.org)

Progress(r) ==
  req[r].answer = "open" /\ req[r].step > 0 /\ seen[r].quiet =>
    (seen[r].entitled <=> Entitled(r)) /\ Known(r, req[r])

Exact(r) == req[r].answer # "open" /\ seen[r].quiet => (Granted(r) <=> seen[r].entitled)

Exactness == \A r \in Requests : Progress(r) /\ Exact(r)

(* The newest active subscription is the one that PlanOf reads. *)
LEMMA NewestPlan ==
  ASSUME TTypeOK, NEW h \in Holders, NEW p, Newest(h, p)
  PROVE  PlanOf(h) = p
<1> DEFINE active == {i \in DOMAIN sub[h] : sub[h][i].active}
<1>1. sub[h] \in Seq(Subscription) /\ DOMAIN sub[h] \subseteq Nat
  BY DEF TTypeOK
<1>2. PICK i \in DOMAIN sub[h] :
        /\ sub[h][i] = [active |-> TRUE, plan |-> p]
        /\ \A k \in DOMAIN sub[h] : k > i => ~sub[h][k].active
  BY DEF Newest
<1>3. i \in active /\ \A k \in active : k <= i
  BY <1>1, <1>2
<1> DEFINE j == CHOOSE j \in active : \A k \in active : k <= j
<1>4. j \in active /\ \A k \in active : k <= j
  BY <1>3
<1>5. j = i
  <2>1. i \in Nat /\ j \in Nat
    <3>1. active \subseteq DOMAIN sub[h]
      OBVIOUS
    <3> HIDE DEF active, j
    <3> QED BY <1>1, <1>3, <1>4, <3>1
  <2>2. i <= j /\ j <= i
    <3> HIDE DEF active, j
    <3> QED BY <1>3, <1>4
  <2> HIDE DEF j
  <2> QED BY <2>1, <2>2
<1>6. PlanOf(h) = sub[h][j].plan
  BY <1>3 DEF PlanOf
<1> HIDE DEF j
<1>7. PlanOf(h) = sub[h][i].plan
  BY <1>5, <1>6
<1>8. sub[h][i].plan = p
  BY <1>2
<1> QED BY <1>7, <1>8

(* The clamps of a percentage below 0 and above 100 change nothing.        *)
LEMMA ByType ==
  ASSUME NEW type \in FlagTypes, NEW value \in Value, NEW plan, NEW k \in Keys, NEW o \in Orgs
  PROVE  evaluateByType(type, value, TRUE, plan, k, o) <=> SwitchedOn(type, value, plan, k, o)
<1>1. PICK b \in 0..99 : b = Bucket[k][o]
  BY FlagsConstants
<1>2. PICK n \in Int : n = value.percentage
  BY DEF Value
<1>3. InRollout(b, n) <=> b < n
  BY DEF InRollout
<1>4. value.enabled \in BOOLEAN
  BY DEF Value
<1>5. CASE type = "BOOLEAN"
  BY <1>4, <1>5 DEF evaluateByType, SwitchedOn
<1>6. CASE type = "PERCENTAGE"
  <2>1. evaluateByType(type, value, TRUE, plan, k, o) <=> InRollout(b, n)
    BY <1>1, <1>2, <1>6 DEF evaluateByType, InRollout
  <2>2. SwitchedOn(type, value, plan, k, o) <=> b < n
    BY <1>1, <1>2, <1>6 DEF SwitchedOn
  <2> QED BY <1>3, <2>1, <2>2
<1>7. CASE type = "PLAN"
  BY <1>7 DEF evaluateByType, SwitchedOn
<1> QED BY <1>5, <1>6, <1>7 DEF FlagTypes

(* While the row of the only flag of its key is the one that was read, the *)
(* second query gives the answer of its moment.                            *)
LEMMA GotIsNow ==
  ASSUME FTypeOK, Unique, NEW f \in FlagIds, Live(f), KeyOf[f] = ExportKey, flag[f].active,
         NEW plan, NEW o \in Orgs
  PROVE  WithOverride(f, flag[f], plan, o) <=> Reference(ExportKey, plan, o)
<1>1. override[f][o].exists \in BOOLEAN /\ override[f][o].enabled \in BOOLEAN
  BY DEF FTypeOK, Override
<1> DEFINE over == override[f][o]
           value == IF over.exists THEN over.value ELSE flag[f].value
           answer == /\ over.exists => over.enabled
                     /\ SwitchedOn(flag[f].type, value, plan, ExportKey, o)
<1>2. WithOverride(f, flag[f], plan, o) <=> answer
  <2>1. flag[f].type \in FlagTypes /\ value \in Value
    BY DEF FTypeOK, Flag, Override
  <2>2. evaluateByType(flag[f].type, value, TRUE, plan, ExportKey, o)
          <=> SwitchedOn(flag[f].type, value, plan, ExportKey, o)
    BY <2>1, ByType, AccessConstants
  <2>3. WithOverride(f, flag[f], plan, o) <=>
          /\ over.exists => over.enabled
          /\ evaluateByType(flag[f].type, value, TRUE, plan, ExportKey, o)
    BY <1>1 DEF WithOverride, evaluateByType
  <2> QED BY <2>2, <2>3
<1>3. answer => Reference(ExportKey, plan, o)
  BY DEF Reference
<1>4. ASSUME Reference(ExportKey, plan, o) PROVE answer
  <2>1. PICK g \in FlagIds :
          LET x == override[g][o]
              v == IF x.exists THEN x.value ELSE flag[g].value
          IN /\ Live(g) /\ KeyOf[g] = ExportKey /\ flag[g].active
             /\ x.exists => x.enabled
             /\ SwitchedOn(flag[g].type, v, plan, ExportKey, o)
    BY <1>4 DEF Reference
  <2>2. g = f
    BY <2>1 DEF Unique
  <2> QED BY <2>1, <2>2
<1> QED BY <1>2, <1>3, <1>4

LEMMA FoundFlag ==
  ASSUME NEW f \in FlagByKey(ExportKey)
  PROVE  f \in FlagIds /\ Live(f) /\ KeyOf[f] = ExportKey
BY DEF FlagByKey, Taken

LEMMA NoActiveFlag ==
  ASSUME Unique, \A f \in FlagByKey(ExportKey) : ~flag[f].active, NEW plan, NEW o
  PROVE  ~Reference(ExportKey, plan, o)
<1> SUFFICES ASSUME NEW f \in FlagIds, Live(f), KeyOf[f] = ExportKey, flag[f].active
             PROVE  FALSE
  BY DEF Reference
<1>1. PICK g \in FlagByKey(ExportKey) : TRUE
  BY DEF FlagByKey, Taken
<1>2. g = f
  BY <1>1, FoundFlag DEF Unique
<1> QED BY <1>1, <1>2

(* A committed write of a call changes a flag or its overrides; only a     *)
(* deletion changes both, and only a free key is taken.                    *)
LEMMA FlagWriteDoes ==
  ASSUME FTypeOK, NEW c \in FlagCalls, FlagWrite(c)
  PROVE  /\ fcall[c].op # "delete" => flag' = flag \/ override' = override
         /\ \A f \in FlagIds : Live(f)' => Live(f) \/ (f = fcall[c].flag /\ ~Taken(KeyOf[f]))
<1>1. fcall[c].flag \in FlagIds /\ flag \in [FlagIds -> Flag]
  BY DEF FTypeOK, FlagCall
<1> DEFINE x == fcall[c].flag
<1>2. ASSUME NEW t \in FlagTypes, NEW v \in Values, NEW a \in BOOLEAN, createFlag(c, t, v, a)
      PROVE  override' = override /\ \A f \in FlagIds : Live(f)' => Live(f) \/ (f = x /\ ~Taken(KeyOf[f]))
  <2>1. /\ override' = override
        /\ flag' = IF Taken(KeyOf[x]) \/ flag[x].state # "none" THEN flag
                   ELSE [flag EXCEPT ![x] = [state |-> "live", type |-> t, value |-> v, active |-> a]]
    BY <1>2 DEF createFlag
  <2>2. \A f \in FlagIds : f # x \/ Taken(KeyOf[x]) => flag'[f] = flag[f]
    BY <1>1, <2>1
  <2> QED BY <2>1, <2>2 DEF Live
<1>3. ASSUME NEW t, NEW v, NEW a, updateFlag(c, t, v, a)
      PROVE  override' = override /\ \A f \in FlagIds : Live(f)' => Live(f)
  <2>1. PICK row : flag' \in {flag, [flag EXCEPT ![x] = row]} /\ row.state = flag[x].state
    <3> DEFINE row == [flag[x] EXCEPT !.type = Given(t, @), !.value = Given(v, @),
                                      !.active = Given(a, @)]
    <3>1. row.state = flag[x].state
      BY <1>1 DEF Flag
    <3>2. flag' \in {flag, [flag EXCEPT ![x] = row]}
      BY <1>1, <1>3 DEF updateFlag
    <3> HIDE DEF row
    <3> QED BY <3>1, <3>2
  <2>2. \A f \in FlagIds : flag'[f].state = flag[f].state
    BY <1>1, <2>1
  <2> QED BY <1>3, <2>2 DEF updateFlag, Live
<1>4. ASSUME deleteFlag(c)
      PROVE  fcall[c].op = "delete" /\ \A f \in FlagIds : Live(f)' => Live(f)
  <2>1. flag' = IF Live(x) THEN [flag EXCEPT ![x].state = "gone"] ELSE flag
    BY <1>4 DEF deleteFlag
  <2>2. \A f \in FlagIds : f # x => flag'[f] = flag[f]
    BY <1>1, <2>1
  <2> QED BY <1>1, <1>4, <2>1, <2>2 DEF deleteFlag, At, Live
<1>5. ASSUME (\E b \in BOOLEAN, v \in Values : setOverride(c, b, v)) \/ removeOverride(c)
      PROVE  flag' = flag
  BY <1>5 DEF setOverride, removeOverride
<1> QED BY <1>2, <1>3, <1>4, <1>5 DEF FlagWrite, Live


-----------------------------------------------------------------------------
(* What a step does to one request                                          *)

Still == UNCHANGED <<user, org, member, sub, flag, override, key, project>>

Goes(r, i) ==
  /\ req'[r].answer = "open" /\ req'[r].step = i
  /\ req'[r].project = req[r].project /\ req'[r].enabled = req[r].enabled

Ends(r, answer) ==
  req'[r].answer = answer /\ req'[r].step = req[r].step /\ req'[r].enabled = req[r].enabled

AtGuard(r) ==
  LET q == req[r] IN
  /\ seen'[r] = seen[r]
  /\ \/ /\ q.step = 1 /\ \E s \in {"authenticate", "authenticateApiKey"} : Doing(r, s)
        /\ IF Holds("caller", r) THEN Goes(r, 2) ELSE Ends(r, "denied")
     \/ /\ q.step = 2 /\ Doing(r, "requireTenant")
        /\ IF Holds("tenant", r) THEN Goes(r, 3) ELSE Ends(r, "denied")
     \/ /\ q.step = 3 /\ q.route \in {"export", "analytics"}
        /\ \E s \in {"requireSubscription", "requireOrgSubscription"} : Doing(r, s)
        /\ \E h \in Holders :
             /\ Payer(r) = {h}
             /\ IF PlanOf(h) \in PaidPlans THEN Goes(r, 4) /\ req'[r].plan = PlanOf(h)
                                           ELSE Ends(r, "denied")

AtPlan(r) ==
  LET q == req[r] IN
  /\ seen'[r] = seen[r] /\ q.route = "evaluate"
  /\ \/ /\ q.step = 2 /\ Doing(r, "readOrgPlan")
        /\ IF PlanOf(q.org) = NoPlan THEN Goes(r, 3)
           ELSE Goes(r, 4) /\ req'[r].plan = PlanOf(q.org)
     \/ /\ q.step = 3 /\ Doing(r, "readOwnerPlan")
        /\ Goes(r, 4) /\ req'[r].plan = PlanOf(org[q.org].owner)

(* The evaluation ends in enabled. *)
Gives(r, enabled) ==
  LET q == req[r]  n == req'[r] IN
  /\ n.enabled = enabled /\ n.plan = q.plan
  /\ IF q.route = "evaluate" THEN n.answer = "served"
     ELSE IF enabled THEN n.answer = "open" /\ n.step = q.step + 1
     ELSE n.answer = "denied"

AtFlag(r) ==
  LET q == req[r]  n == req'[r] IN
  /\ q.step = 4 /\ Doing(r, "readFlag") /\ q.route \in {"export", "evaluate"}
  /\ seen'[r].answers = {Now(r)} /\ seen'[r].changes = 0
  /\ seen'[r].quiet = seen[r].quiet /\ seen'[r].entitled = seen[r].entitled
  /\ \/ \E f \in FlagByKey(ExportKey) :
          /\ flag[f].active /\ Goes(r, 5)
          /\ n.flag = f /\ n.row = flag[f] /\ n.plan = q.plan
     \/ (\A f \in FlagByKey(ExportKey) : ~flag[f].active) /\ Gives(r, FALSE)

AtOverride(r) ==
  LET q == req[r] IN
  /\ q.step = 5 /\ Doing(r, "readOverride") /\ q.route \in {"export", "evaluate"}
  /\ seen'[r] = seen[r]
  /\ Gives(r, Got(r))

AtHandler(r) ==
  LET q == req[r]  found == FindLive(q.project, q.org) IN
  /\ seen'[r] = seen[r]
  /\ \/ Doing(r, "list") /\ Ends(r, "served")
     \/ Doing(r, "get") /\ Ends(r, IF found THEN "served" ELSE "denied")
     \/ /\ q.step = 3 /\ Doing(r, "findLive") /\ q.route \in {"update", "delete"}
        /\ IF found THEN Goes(r, 4) ELSE Ends(r, "denied")

AtWrite(r) ==
  /\ seen'[r] = seen[r]
  /\ \E s \in {"create", "update", "delete"} : Doing(r, s)
  /\ Ends(r, "served")

LEMMA PassesGoes ==
  ASSUME Inv, NEW r \in Requests, NEW new \in Request, Passes(r, new), new.answer = "open",
         new.route = req[r].route, new.user = req[r].user, new.version = req[r].version,
         new.key = req[r].key, new.org = req[r].org, new.project = req[r].project,
         new.enabled = req[r].enabled
  PROVE  /\ Same(r) /\ Goes(r, new.step + 1)
         /\ req'[r].plan = new.plan /\ req'[r].flag = new.flag /\ req'[r].row = new.row
<1>1. req'[r] = [new EXCEPT !.step = @ + 1]
  BY DEF Passes, Inv, TypeOK
<1> QED BY <1>1 DEF Same, Goes, Request

LEMMA AnswerEnds ==
  ASSUME Inv, NEW r \in Requests
  PROVE  /\ Denied(r) => Same(r) /\ Ends(r, "denied")
         /\ Served(r) => Same(r) /\ Ends(r, "served")
<1>1. req \in [Requests -> Request] /\ req[r] \in Request
  BY DEF Inv, TypeOK
<1> QED BY <1>1 DEF Denied, Served, Same, Ends, Request

LEMMA SilentStill ==
  ASSUME Silent, NEW r
  PROVE  Still /\ seen'[r] = seen[r]
BY DEF Silent, NothingElse, Still, tvars, fvars, kvars

(* Where a guard stands in a chain, and on which routes. *)
GuardIs(route, i, s) ==
  CASE s = "authenticate" -> i = 1 /\ route \notin KeyRoutes
    [] s = "authenticateApiKey" -> i = 1 /\ route \in KeyRoutes
    [] s = "requireTenant" -> i = 2 /\ route # "evaluate"
    [] s = "requireSubscription" -> i = 3 /\ route = "export"
    [] s = "requireOrgSubscription" -> i = 3 /\ route = "analytics"
    [] OTHER -> TRUE

LEMMA GuardWhere ==
  ASSUME NEW route \in Routes, NEW i \in 1..Len(Chain[route])
  PROVE  GuardIs(route, i, Chain[route][i])
<1>1. route \in {"list", "get", "create", "update", "delete", "export", "analytics", "keyList",
                "keyGet", "evaluate"}
  BY DEF Routes, Chain
<1> USE DEF Chain, KeyRoutes, GuardIs
<1>2. CASE route = "list"
  BY <1>2
<1>3. CASE route = "get"
  BY <1>3
<1>4. CASE route = "create"
  BY <1>4
<1>5. CASE route = "update"
  BY <1>5
<1>6. CASE route = "delete"
  BY <1>6
<1>7. CASE route = "export"
  BY <1>7
<1>8. CASE route = "analytics"
  BY <1>8
<1>9. CASE route = "keyList"
  BY <1>9
<1>10. CASE route = "keyGet"
  BY <1>10
<1>11. CASE route = "evaluate"
  BY <1>11
<1> QED
  BY <1>1, <1>2, <1>3, <1>4, <1>5, <1>6, <1>7, <1>8, <1>9, <1>10, <1>11

LEMMA AtItsGuard ==
  ASSUME Inv, NEW r \in Requests, NEW s, Doing(r, s)
  PROVE  req[r].answer = "open" /\ GuardIs(req[r].route, req[r].step, s)
BY InChain, GuardWhere

LEMMA GuardStep ==
  ASSUME Inv, NEW r \in Requests,
         \/ authenticate(r) \/ authenticateApiKey(r) \/ requireTenant(r)
         \/ requireSubscription(r) \/ requireOrgSubscription(r)
  PROVE  Same(r) /\ Still /\ AtGuard(r)
<1>0. req[r] \in Request
  BY DEF Inv, TypeOK
<1>1. ASSUME authenticate(r) PROVE Same(r) /\ Still /\ AtGuard(r)
  <2>1. Doing(r, "authenticate") /\ Silent
    BY <1>1 DEF authenticate
  <2>2. req[r].step = 1 /\ req[r].route \notin KeyRoutes /\ req[r].answer = "open"
    BY <2>1, AtItsGuard DEF GuardIs
  <2>3. Holds("caller", r) <=> UserAccepted(req[r].user, req[r].version, req[r].route)
    BY <2>2 DEF Holds
  <2>4. Same(r) /\ IF Holds("caller", r) THEN Goes(r, 2) ELSE Ends(r, "denied")
    BY <1>0, <1>1, <2>2, <2>3, PassesGoes, AnswerEnds DEF authenticate
  <2> QED BY <2>1, <2>2, <2>4, SilentStill DEF AtGuard
<1>2. ASSUME authenticateApiKey(r) PROVE Same(r) /\ Still /\ AtGuard(r)
  <2>1. Doing(r, "authenticateApiKey") /\ Silent
    BY <1>2 DEF authenticateApiKey
  <2>2. req[r].step = 1 /\ req[r].route \in KeyRoutes /\ req[r].answer = "open"
    BY <2>1, AtItsGuard DEF GuardIs
  <2>3. Holds("caller", r) <=> KeyAccepted(req[r].key)
    BY <2>2 DEF Holds
  <2>4. Same(r) /\ IF Holds("caller", r) THEN Goes(r, 2) ELSE Ends(r, "denied")
    BY <1>0, <1>2, <2>2, <2>3, PassesGoes, AnswerEnds DEF authenticateApiKey
  <2> QED BY <2>1, <2>2, <2>4, SilentStill DEF AtGuard
<1>3. ASSUME requireTenant(r) PROVE Same(r) /\ Still /\ AtGuard(r)
  <2>1. Doing(r, "requireTenant") /\ Silent
    BY <1>3 DEF requireTenant
  <2>2. req[r].step = 2 /\ req[r].route # "evaluate" /\ req[r].answer = "open"
    BY <2>1, AtItsGuard DEF GuardIs
  <2>3. Holds("tenant", r) <=> TenantAccepted(req[r].org, req[r].user, req[r].route)
    BY <2>2 DEF Holds
  <2>4. Same(r) /\ IF Holds("tenant", r) THEN Goes(r, 3) ELSE Ends(r, "denied")
    BY <1>0, <1>3, <2>2, <2>3, PassesGoes, AnswerEnds DEF requireTenant
  <2> QED BY <2>1, <2>2, <2>4, SilentStill DEF AtGuard
<1>4. ASSUME NEW s \in {"requireSubscription", "requireOrgSubscription"}, Doing(r, s),
             NEW h \in Holders, Payer(r) = {h}, SubscriptionGate(r, h)
      PROVE  Same(r) /\ Still /\ AtGuard(r)
  <2>1. req[r].step = 3 /\ req[r].route \in {"export", "analytics"} /\ req[r].answer = "open"
    BY <1>4, AtItsGuard DEF GuardIs
  <2>2. Silent
    BY <1>4 DEF SubscriptionGate
  <2>3. CASE PlanOf(h) \in PaidPlans
    <3> DEFINE new == [req[r] EXCEPT !.plan = PlanOf(h)]
    <3>1. PlanOf(h) \in Plans \cup {NoPlan}
      BY PlanIsNewest DEF Inv, TypeOK
    <3>2. /\ new \in Request /\ new.answer = "open" /\ new.step = 3 /\ new.plan = PlanOf(h)
          /\ new.route = req[r].route /\ new.user = req[r].user /\ new.version = req[r].version
          /\ new.key = req[r].key /\ new.org = req[r].org /\ new.project = req[r].project
          /\ new.enabled = req[r].enabled
      BY <1>0, <2>1, <3>1 DEF Request
    <3>3. Passes(r, new)
      BY <1>4, <2>3 DEF SubscriptionGate
    <3> HIDE DEF new
    <3>4. Same(r) /\ Goes(r, 4) /\ req'[r].plan = PlanOf(h)
      BY <3>2, <3>3, PassesGoes
    <3> QED BY <1>4, <2>1, <2>2, <2>3, <3>4, SilentStill DEF AtGuard
  <2>4. CASE PlanOf(h) \notin PaidPlans
    <3>1. Same(r) /\ Ends(r, "denied")
      BY <1>4, <2>4, AnswerEnds DEF SubscriptionGate
    <3> QED BY <1>4, <2>1, <2>2, <2>4, <3>1, SilentStill DEF AtGuard
  <2> QED BY <2>3, <2>4
<1>5. ASSUME requireSubscription(r) PROVE Same(r) /\ Still /\ AtGuard(r)
  <2>1. Doing(r, "requireSubscription") /\ SubscriptionGate(r, req[r].user)
    BY <1>5 DEF requireSubscription
  <2>2. Payer(r) = {req[r].user} /\ req[r].user \in Holders
    BY <1>0, <2>1, AtItsGuard DEF GuardIs, Payer, Request, Holders
  <2> QED BY <1>4, <2>1, <2>2
<1>6. ASSUME requireOrgSubscription(r) PROVE Same(r) /\ Still /\ AtGuard(r)
  <2>1. Doing(r, "requireOrgSubscription") /\ SubscriptionGate(r, req[r].org)
    BY <1>6 DEF requireOrgSubscription
  <2>2. Payer(r) = {req[r].org} /\ req[r].org \in Holders
    BY <1>0, <2>1, AtItsGuard DEF GuardIs, Payer, Request, Holders
  <2> QED BY <1>4, <2>1, <2>2
<1> QED BY <1>1, <1>2, <1>3, <1>5, <1>6

(* Where in its chain a request reads a plan or a flag, and where a handler *)
(* is.                                                                      *)
ChainAt(route, i, s) ==
  CASE s = "readOrgPlan" -> i = 2 /\ route = "evaluate"
    [] s = "readOwnerPlan" -> i = 3 /\ route = "evaluate"
    [] s = "readFlag" -> i = 4 /\ route \in {"export", "evaluate"}
    [] s = "readOverride" -> i = 5 /\ route \in {"export", "evaluate"}
    [] s = "findLive" -> i = 3 /\ route \in {"update", "delete"}
    [] s = "get" -> i = 3 /\ route \in {"get", "keyGet"}
    [] s = "create" -> i = 3 /\ route = "create"
    [] s \in {"update", "delete"} -> i = 4 /\ route = s
    [] s = "list" -> \/ i = 3 /\ route \in {"list", "keyList"}
                     \/ i = 4 /\ route = "analytics"
                     \/ i = 6 /\ route = "export"
    [] OTHER -> i \in 1..3

LEMMA ChainWhere ==
  ASSUME NEW route \in Routes, NEW i \in 1..Len(Chain[route])
  PROVE  ChainAt(route, i, Chain[route][i])
<1>1. route \in {"list", "get", "create", "update", "delete", "export", "analytics", "keyList",
                "keyGet", "evaluate"}
  BY DEF Routes, Chain
<1> USE DEF Chain, ChainAt
<1>2. CASE route = "list"
  BY <1>2
<1>3. CASE route = "get"
  BY <1>3
<1>4. CASE route = "create"
  BY <1>4
<1>5. CASE route = "update"
  BY <1>5
<1>6. CASE route = "delete"
  BY <1>6
<1>7. CASE route = "export"
  BY <1>7
<1>8. CASE route = "analytics"
  BY <1>8
<1>9. CASE route = "keyList"
  BY <1>9
<1>10. CASE route = "keyGet"
  BY <1>10
<1>11. CASE route = "evaluate"
  BY <1>11
<1> QED
  BY <1>1, <1>2, <1>3, <1>4, <1>5, <1>6, <1>7, <1>8, <1>9, <1>10, <1>11

LEMMA StepAt ==
  ASSUME Inv, NEW r \in Requests, NEW s, Doing(r, s)
  PROVE  req[r].answer = "open" /\ ChainAt(req[r].route, req[r].step, s)
BY InChain, ChainWhere

LEMMA PlanStep ==
  ASSUME Inv, NEW r \in Requests, ReadOrgPlan(r) \/ ReadOwnerPlan(r)
  PROVE  Same(r) /\ Still /\ AtPlan(r)
<1>0. req[r] \in Request
  BY DEF Inv, TypeOK
<1>1. \A h \in Holders : PlanOf(h) \in Plans \cup {NoPlan}
  BY PlanIsNewest DEF Inv, TypeOK
<1>2. /\ req[r].org \in Holders /\ org[req[r].org].owner \in Holders
  <2>1. org \in [Orgs -> Org]
    BY DEF Inv, TypeOK, TTypeOK
  <2> QED BY <1>0, <2>1 DEF Request, Holders, Org
<1>3. ASSUME req[r].answer = "open", NEW plan \in Plans \cup {NoPlan}, NEW i \in 0..6,
             Passes(r, [req[r] EXCEPT !.plan = plan, !.step = i])
      PROVE  Same(r) /\ Goes(r, i + 1) /\ req'[r].plan = plan
  <2> DEFINE new == [req[r] EXCEPT !.plan = plan, !.step = i]
  <2>1. new \in Request
    BY <1>0, Zenon DEF Request
  <2>2. /\ new.answer = "open" /\ new.step = i /\ new.plan = plan
        /\ new.route = req[r].route /\ new.user = req[r].user /\ new.version = req[r].version
        /\ new.key = req[r].key /\ new.org = req[r].org /\ new.project = req[r].project
        /\ new.enabled = req[r].enabled
    BY <1>0, <1>3 DEF Request
  <2>3. Passes(r, new)
    BY <1>3
  <2> HIDE DEF new
  <2> QED BY <2>1, <2>2, <2>3, PassesGoes
<1>4. CASE ReadOrgPlan(r)
  <2>1. Doing(r, "readOrgPlan") /\ Silent
    BY <1>4 DEF ReadOrgPlan
  <2>2. req[r].step = 2 /\ req[r].route = "evaluate" /\ req[r].answer = "open"
    BY <2>1, StepAt DEF ChainAt
  <2>3. CASE PlanOf(req[r].org) = NoPlan
    <3>1. Passes(r, req[r])
      BY <1>4, <2>3 DEF ReadOrgPlan
    <3>2. Same(r) /\ Goes(r, 3)
      BY <1>0, <2>2, <3>1, PassesGoes
    <3> QED BY <2>1, <2>2, <2>3, <3>2, SilentStill DEF AtPlan
  <2>4. CASE PlanOf(req[r].org) # NoPlan
    <3> DEFINE plan == PlanOf(req[r].org)
    <3>1. plan \in Plans \cup {NoPlan}
      BY <1>1, <1>2
    <3>2. Passes(r, [req[r] EXCEPT !.plan = plan, !.step = 3])
      <4>1. [req[r] EXCEPT !.plan = plan, !.step = @ + 1] = [req[r] EXCEPT !.plan = plan, !.step = 3]
        BY <2>2
      <4> QED BY <1>4, <2>4, <4>1 DEF ReadOrgPlan
    <3> HIDE DEF plan
    <3>3. Same(r) /\ Goes(r, 4) /\ req'[r].plan = plan
      <4>1. 3 \in 0..6 /\ 3 + 1 = 4
        OBVIOUS
      <4> QED BY <1>3, <2>2, <3>1, <3>2, <4>1
    <3> QED BY <2>1, <2>2, <2>4, <3>3, SilentStill DEF AtPlan, plan
  <2> QED BY <2>3, <2>4
<1>5. CASE ReadOwnerPlan(r)
  <2>1. Doing(r, "readOwnerPlan") /\ Silent
    BY <1>5 DEF ReadOwnerPlan
  <2>2. req[r].step = 3 /\ req[r].route = "evaluate" /\ req[r].answer = "open"
    BY <2>1, StepAt DEF ChainAt
  <2> DEFINE plan == PlanOf(org[req[r].org].owner)
  <2>3. plan \in Plans \cup {NoPlan}
    BY <1>1, <1>2
  <2>4. Passes(r, [req[r] EXCEPT !.plan = plan])
    BY <1>5 DEF ReadOwnerPlan
  <2> HIDE DEF plan
  <2>5. [req[r] EXCEPT !.plan = plan] = [req[r] EXCEPT !.plan = plan, !.step = 3]
    BY <1>0, <2>2 DEF Request
  <2>6. Same(r) /\ Goes(r, 4) /\ req'[r].plan = plan
    <3>1. 3 \in 0..6 /\ 3 + 1 = 4
      OBVIOUS
    <3>2. Passes(r, [req[r] EXCEPT !.plan = plan, !.step = 3])
      BY <2>4, <2>5
    <3> QED BY <1>3, <2>2, <2>3, <3>1, <3>2
  <2> QED BY <2>1, <2>2, <2>6, SilentStill DEF AtPlan, plan
<1> QED BY <1>4, <1>5

(* The two ends of an evaluation. *)
LEMMA EvaluatedGives ==
  ASSUME Inv, NEW r \in Requests, NEW enabled \in BOOLEAN, Evaluated(r, enabled),
         req[r].answer = "open"
  PROVE  Same(r) /\ Gives(r, enabled)
<1>0. req[r] \in Request /\ req \in [Requests -> Request]
  BY DEF Inv, TypeOK
<1> DEFINE e == [req[r] EXCEPT !.enabled = enabled, !.row = NoFlag]
<1>1. /\ e.enabled = enabled /\ e.plan = req[r].plan /\ e.step = req[r].step
      /\ e.answer = "open" /\ e.project = req[r].project
      /\ e.route = req[r].route /\ e.user = req[r].user /\ e.version = req[r].version
      /\ e.key = req[r].key /\ e.org = req[r].org
  BY <1>0 DEF Request
<1>2. e \in [route : Routes, step : 0..6, answer : {"open", "served", "denied"},
             user : Users, version : Nat, key : KeyIds, org : Orgs, project : Projects,
             plan : Plans \cup {NoPlan}, flag : FlagIds, row : Flag, enabled : BOOLEAN]
  <2>1. NoFlag \in Flag
    BY DEF NoFlag, Flag, FlagTypes
  <2> QED BY <1>0, <2>1 DEF Request
<1>3. req'[r] = IF e.route = "evaluate" THEN [e EXCEPT !.answer = "served"]
                ELSE IF enabled THEN [e EXCEPT !.step = @ + 1]
                ELSE [e EXCEPT !.answer = "denied"]
  BY <1>0 DEF Evaluated
<1> HIDE DEF e
<1>4. CASE e.route = "evaluate"
  <2>1. req'[r] = [e EXCEPT !.answer = "served"]
    BY <1>3, <1>4
  <2> QED BY <1>1, <1>2, <1>4, <2>1 DEF Same, Gives
<1>5. CASE e.route # "evaluate" /\ enabled
  <2>1. req'[r] = [e EXCEPT !.step = @ + 1]
    BY <1>3, <1>5
  <2> QED BY <1>1, <1>2, <1>5, <2>1 DEF Same, Gives
<1>6. CASE e.route # "evaluate" /\ ~enabled
  <2>1. req'[r] = [e EXCEPT !.answer = "denied"]
    BY <1>3, <1>6
  <2> QED BY <1>1, <1>2, <1>6, <2>1 DEF Same, Gives
<1> QED BY <1>4, <1>5, <1>6

LEMMA OverrideStep ==
  ASSUME Inv, NEW r \in Requests, readOverride(r)
  PROVE  Same(r) /\ Still /\ AtOverride(r)
<1>1. Doing(r, "readOverride") /\ Silent /\ Evaluated(r, Got(r))
  BY DEF readOverride, Got
<1>2. req[r].step = 5 /\ req[r].route \in {"export", "evaluate"} /\ req[r].answer = "open"
  BY <1>1, StepAt DEF ChainAt
<1>3. Got(r) \in BOOLEAN
  BY DEF Got, WithOverride, evaluateByType
<1>4. Same(r) /\ Gives(r, Got(r))
  BY <1>1, <1>2, <1>3, EvaluatedGives
<1> QED BY <1>1, <1>2, <1>4, SilentStill DEF AtOverride

LEMMA FlagQuery ==
  ASSUME Inv, NEW r \in Requests, readFlag(r)
  PROVE  Same(r) /\ Still /\ AtFlag(r)
<1>0. req[r] \in Request /\ seen[r] \in Seen /\ flag \in [FlagIds -> Flag]
  BY DEF Inv, TypeOK, FTypeOK
<1>1. Doing(r, "readFlag") /\ NothingElse /\ project' = project
  BY DEF readFlag
<1>2. req[r].step = 4 /\ req[r].route \in {"export", "evaluate"} /\ req[r].answer = "open"
  BY <1>1, StepAt DEF ChainAt
<1>3. Still
  BY <1>1 DEF NothingElse, Still, tvars, fvars, kvars
<1>4. /\ seen'[r].answers = {Now(r)} /\ seen'[r].changes = 0
      /\ seen'[r].quiet = seen[r].quiet /\ seen'[r].entitled = seen[r].entitled
  <2> DEFINE now == Now(r)
  <2>1. seen' = [seen EXCEPT ![r].answers = {now}, ![r].changes = 0, ![r].deleted = FALSE]
    BY DEF readFlag, Now
  <2> HIDE DEF now
  <2>2. seen'[r] = [seen[r] EXCEPT !.answers = {now}, !.changes = 0, !.deleted = FALSE]
    BY <2>1 DEF Inv, TypeOK
  <2>3. /\ seen'[r].answers = {now} /\ seen'[r].changes = 0
        /\ seen'[r].quiet = seen[r].quiet /\ seen'[r].entitled = seen[r].entitled
    BY <1>0, <2>2 DEF Seen
  <2> QED BY <2>3 DEF now
<1>5. ASSUME NEW f \in FlagByKey(ExportKey), flag[f].active,
             Passes(r, [req[r] EXCEPT !.flag = f, !.row = flag[f]])
      PROVE  Same(r) /\ AtFlag(r)
  <2> DEFINE new == [req[r] EXCEPT !.flag = f, !.row = flag[f]]
  <2>1. f \in FlagIds /\ flag[f] \in Flag
    BY <1>0, FoundFlag
  <2>2. /\ new \in Request /\ new.answer = "open" /\ new.step = 4 /\ new.plan = req[r].plan
        /\ new.flag = f /\ new.row = flag[f]
        /\ new.route = req[r].route /\ new.user = req[r].user /\ new.version = req[r].version
        /\ new.key = req[r].key /\ new.org = req[r].org /\ new.project = req[r].project
        /\ new.enabled = req[r].enabled
    BY <1>0, <1>2, <2>1 DEF Request
  <2>3. Passes(r, new)
    BY <1>5
  <2> HIDE DEF new
  <2>4. /\ Same(r) /\ Goes(r, 5) /\ req'[r].flag = f /\ req'[r].row = flag[f]
        /\ req'[r].plan = req[r].plan
    BY <2>2, <2>3, PassesGoes
  <2> QED BY <1>1, <1>2, <1>4, <1>5, <2>4 DEF AtFlag
<1>6. ASSUME \A f \in FlagByKey(ExportKey) : ~flag[f].active, Evaluated(r, FALSE)
      PROVE  Same(r) /\ AtFlag(r)
  <2>1. Same(r) /\ Gives(r, FALSE)
    BY <1>2, <1>6, EvaluatedGives
  <2> QED BY <1>1, <1>2, <1>4, <1>6, <2>1 DEF AtFlag
<1> QED BY <1>3, <1>5, <1>6 DEF readFlag

LEMMA HandlerStep ==
  ASSUME Inv, NEW r \in Requests, ListProjects(r) \/ getProject(r) \/ findLive(r)
  PROVE  Same(r) /\ Still /\ AtHandler(r)
<1>0. req[r] \in Request
  BY DEF Inv, TypeOK
<1>1. Still /\ seen'[r] = seen[r]
  BY SilentStill DEF ListProjects, getProject, findLive
<1>2. CASE ListProjects(r)
  BY <1>1, <1>2, AnswerEnds DEF ListProjects, AtHandler
<1>3. CASE getProject(r)
  BY <1>1, <1>3, AnswerEnds DEF getProject, AtHandler
<1>4. CASE findLive(r)
  <2>1. Doing(r, "findLive")
    BY <1>4 DEF findLive
  <2>2. req[r].step = 3 /\ req[r].route \in {"update", "delete"} /\ req[r].answer = "open"
    BY <2>1, StepAt DEF ChainAt
  <2>3. Same(r) /\ IF FindLive(req[r].project, req[r].org) THEN Goes(r, 4) ELSE Ends(r, "denied")
    BY <1>0, <1>4, <2>2, PassesGoes, AnswerEnds DEF findLive
  <2> QED BY <1>1, <2>1, <2>2, <2>3 DEF AtHandler
<1> QED BY <1>2, <1>3, <1>4

LEMMA WriteStep ==
  ASSUME Inv, NEW r \in Requests,
         \/ \E p \in Projects : createProject(r, p)
         \/ \E status \in {"ACTIVE", "ARCHIVED"} : updateProject(r, status)
         \/ deleteProject(r)
  PROVE  /\ Same(r) /\ AtWrite(r) /\ NothingElse
         /\ \A k \in Requests \ {r} : req'[k] = req[k] /\ ~seen'[k].quiet
                                      /\ seen'[k] = [seen[k] EXCEPT !.quiet = FALSE]
<1>1. PICK s \in {"create", "update", "delete"}, p \in Projects, row \in Project :
        Doing(r, s) /\ ProjectWritten(r, p, row)
  BY WriteRow
<1>2. /\ req' = [req EXCEPT ![r].answer = "served", ![r].project = p]
      /\ seen' = [k \in Requests |-> IF k = r THEN seen[k] ELSE [seen[k] EXCEPT !.quiet = FALSE]]
      /\ NothingElse
  BY <1>1 DEF ProjectWritten
<1>3. /\ req \in [Requests -> Request] /\ req[r] \in Request
      /\ \A k \in Requests : seen[k] \in Seen
  BY DEF Inv, TypeOK
<1>4. Same(r) /\ Ends(r, "served")
  BY <1>2, <1>3 DEF Same, Ends, Request
<1>5. seen'[r] = seen[r]
  BY <1>2
<1>6. ASSUME NEW k \in Requests \ {r}
      PROVE  req'[k] = req[k] /\ ~seen'[k].quiet /\ seen'[k] = [seen[k] EXCEPT !.quiet = FALSE]
  <2>1. seen'[k] = [seen[k] EXCEPT !.quiet = FALSE]
    BY <1>2
  <2>2. ~seen'[k].quiet
    BY <1>3, <2>1 DEF Seen
  <2> QED BY <1>2, <1>3, <2>1, <2>2
<1> QED BY <1>1, <1>2, <1>4, <1>5, <1>6 DEF AtWrite


(* A step of one request leaves the others alone, unless it writes.        *)
LEMMA OthersStay ==
  ASSUME Inv, NEW r \in Requests, NEW k \in Requests \ {r},
         \/ authenticate(r) \/ authenticateApiKey(r) \/ requireTenant(r)
         \/ requireSubscription(r) \/ requireOrgSubscription(r)
         \/ ReadOrgPlan(r) \/ ReadOwnerPlan(r) \/ readFlag(r) \/ readOverride(r)
         \/ ListProjects(r) \/ getProject(r) \/ findLive(r)
  PROVE  req'[k] = req[k] /\ seen'[k] = seen[k]
<1>1. req \in [Requests -> Request] /\ seen \in [Requests -> Seen]
  BY DEF Inv, TypeOK
<1>2. \A q : Passes(r, q) => req'[k] = req[k]
  BY <1>1 DEF Passes
<1>3. Denied(r) \/ Served(r) => req'[k] = req[k]
  BY <1>1 DEF Denied, Served
<1>4. \A b : Evaluated(r, b) => req'[k] = req[k]
  BY <1>1 DEF Evaluated
<1>5. Silent => seen'[k] = seen[k]
  BY DEF Silent
<1>6. CASE authenticate(r) \/ authenticateApiKey(r) \/ requireTenant(r)
  BY <1>2, <1>3, <1>5, <1>6 DEF authenticate, authenticateApiKey, requireTenant
<1>7. CASE requireSubscription(r) \/ requireOrgSubscription(r)
  BY <1>2, <1>3, <1>5, <1>7 DEF requireSubscription, requireOrgSubscription, SubscriptionGate
<1>8. CASE ReadOrgPlan(r) \/ ReadOwnerPlan(r)
  BY <1>2, <1>5, <1>8 DEF ReadOrgPlan, ReadOwnerPlan
<1>9. CASE readFlag(r)
  <2>1. seen'[k] = seen[k]
    BY <1>1, <1>9 DEF readFlag
  <2> QED BY <1>2, <1>4, <1>9, <2>1 DEF readFlag
<1>10. CASE readOverride(r)
  BY <1>4, <1>5, <1>10 DEF readOverride
<1>11. CASE ListProjects(r) \/ getProject(r) \/ findLive(r)
  BY <1>2, <1>3, <1>5, <1>11 DEF ListProjects, getProject, findLive
<1> QED BY <1>6, <1>7, <1>8, <1>9, <1>10, <1>11

(* What one step may be to request k: nothing, a write to a project that   *)
(* it misses, a write to another table, its beginning, or its own step.    *)
Untouched(k) == Still /\ req'[k] = req[k] /\ seen'[k] = seen[k]

Missed(k) ==
  NothingElse /\ req'[k] = req[k] /\ seen'[k] = [seen[k] EXCEPT !.quiet = FALSE]

Watched(k) ==
  \E deleted \in BOOLEAN :
    /\ req'[k] = req[k] /\ seen'[k] = Noticed(k, deleted)
    /\ \/ flag' = flag /\ override' = override
       \/ \E c \in FlagCalls : FlagWrite(c) /\ deleted = (fcall[c].op = "delete")

Starts(k) ==
  /\ Still /\ req'[k].answer = "open" /\ req'[k].step = 1
  /\ seen'[k].answers = {} /\ (seen'[k].entitled <=> Entitled(k)')

Moving(k) ==
  /\ Same(k)
  /\ \/ Still /\ (AtGuard(k) \/ AtPlan(k) \/ AtFlag(k) \/ AtOverride(k) \/ AtHandler(k))
     \/ NothingElse /\ AtWrite(k)

LEMMA ContinueIs ==
  ASSUME Inv, NEW r \in Requests, NEW k \in Requests, Continue(r)
  PROVE  IF k = r THEN Moving(k) ELSE Untouched(k) \/ Missed(k)
<1>1. CASE \/ authenticate(r) \/ authenticateApiKey(r) \/ requireTenant(r)
           \/ requireSubscription(r) \/ requireOrgSubscription(r)
           \/ ReadOrgPlan(r) \/ ReadOwnerPlan(r) \/ readFlag(r) \/ readOverride(r)
           \/ ListProjects(r) \/ getProject(r) \/ findLive(r)
  <2>1. Moving(r) /\ Still
    BY <1>1, GuardStep, PlanStep, FlagQuery, OverrideStep, HandlerStep, Zenon DEF Moving
  <2>2. CASE k = r
    BY <2>1, <2>2
  <2>3. CASE k # r
    <3>1. req'[k] = req[k] /\ seen'[k] = seen[k]
      BY <1>1, <2>3, OthersStay
    <3> QED BY <2>1, <2>3, <3>1 DEF Untouched
  <2> QED BY <2>2, <2>3
<1>2. CASE \/ \E p \in Projects : createProject(r, p)
           \/ \E status \in {"ACTIVE", "ARCHIVED"} : updateProject(r, status)
           \/ deleteProject(r)
  <2>1. Same(r) /\ AtWrite(r) /\ NothingElse
    BY <1>2, WriteStep
  <2>2. k # r => req'[k] = req[k] /\ seen'[k] = [seen[k] EXCEPT !.quiet = FALSE]
    BY <1>2, WriteStep
  <2> QED BY <2>1, <2>2 DEF Moving, Missed
<1> QED BY <1>1, <1>2, Zenon DEF Continue

LEMMA BeginIs ==
  ASSUME Inv, NEW r \in Requests, NEW k \in Requests,
         NEW route \in Routes, NEW u \in Users, NEW o \in Orgs, NEW i \in KeyIds,
         NEW p \in Projects, Begin(r, route, u, o, i, p)
  PROVE  IF k = r THEN Starts(k) ELSE Untouched(k)
<1>1. req \in [Requests -> Request] /\ seen \in [Requests -> Seen] /\ req[r] \in Request
  BY DEF Inv, TypeOK
<1>2. PICK v \in 0..user[u].version :
        req' = [req EXCEPT ![r] = [@ EXCEPT !.route = route, !.step = 1, !.answer = "open",
                 !.user = u, !.version = v, !.key = i, !.org = o, !.project = p,
                 !.plan = NoPlan, !.row = NoFlag, !.enabled = FALSE]]
  BY DEF Begin
<1>3. Still
  BY DEF Begin, NothingElse, Still, tvars, fvars, kvars
<1>4. CASE k = r
  <2>1. req'[k].answer = "open" /\ req'[k].step = 1
    BY <1>1, <1>2, <1>4 DEF Request
  <2>2. seen'[k].answers = {} /\ (seen'[k].entitled <=> Entitled(k)')
    BY <1>1, <1>4 DEF Begin
  <2> QED BY <1>3, <1>4, <2>1, <2>2 DEF Starts
<1>5. CASE k # r
  <2>1. req'[k] = req[k]
    BY <1>1, <1>2, <1>5
  <2>2. seen'[k] = seen[k]
    BY <1>1, <1>5 DEF Begin
  <2> QED BY <1>3, <1>5, <2>1, <2>2 DEF Untouched
<1> QED BY <1>4, <1>5

LEMMA StepIs ==
  ASSUME Inv, [Next]_vars, NEW k \in Requests
  PROVE  Untouched(k) \/ Missed(k) \/ Watched(k) \/ Starts(k) \/ Moving(k)
<1>1. CASE UNCHANGED vars
  BY <1>1 DEF vars, tvars, fvars, kvars, Untouched, Still
<1>2. ASSUME NEW r \in Requests, RequestStep(r)
      PROVE  Untouched(k) \/ Missed(k) \/ Starts(k) \/ Moving(k)
  BY <1>2, ContinueIs, BeginIs DEF RequestStep
<1>3. CASE TenantStep
  BY <1>3 DEF TenantStep, Notice, fvars, Watched
<1>4. ASSUME NEW c \in FlagCalls, FlagStep(c)
      PROVE  Untouched(k) \/ Watched(k)
  <2>1. CASE FlagsQuiet(c) /\ UNCHANGED <<project, req, seen>>
    <3>1. flag' = flag /\ override' = override
      BY <2>1 DEF FlagsQuiet, FlagRead, FlagReadOrg, FlagBegin
    <3> QED BY <1>4, <2>1, <3>1 DEF FlagStep, tvars, kvars, Untouched, Still
  <2>2. CASE FlagWrite(c) /\ Notice(fcall[c].op = "delete")
    <3> DEFINE d == (fcall[c].op = "delete")
    <3>1. d \in BOOLEAN
      OBVIOUS
    <3>2. req'[k] = req[k] /\ seen'[k] = Noticed(k, d)
      BY <2>2 DEF Notice
    <3> QED BY <2>2, <3>1, <3>2 DEF Watched
  <2> QED BY <1>4, <2>1, <2>2 DEF FlagStep
<1>5. CASE KeyStep
  <2>1. CASE (\E c \in KeyCalls : KeysQuiet(c)) /\ UNCHANGED <<project, req, seen>>
    <3>1. key' = key
      BY <2>1 DEF KeysQuiet, KeyBegin, KeyRead
    <3> QED BY <1>5, <2>1, <3>1 DEF KeyStep, tvars, fvars, Untouched, Still
  <2>2. CASE KeyWrite /\ Notice(FALSE)
    BY <1>5, <2>2 DEF KeyStep, Notice, fvars, Watched
  <2> QED BY <1>5, <2>1, <2>2 DEF KeyStep
<1> QED BY <1>1, <1>2, <1>3, <1>4, <1>5, Zenon DEF Next


-----------------------------------------------------------------------------
(* The reading of a flag                                                    *)

Coherent(k) == Torn(k) /\ Early(k) /\ Linear(k)

LEMMA StepAtNext ==
  ASSUME Inv', NEW r \in Requests, NEW s, Doing(r, s)'
  PROVE  ChainAt(req'[r].route, req'[r].step, s)
<1>1. req'[r] \in Request /\ req'[r].step <= Len(Chain[req'[r].route])
  BY DEF Inv, TypeOK, Passed
<1>2. PICK route \in Routes, i \in 0..6 : req'[r].route = route /\ req'[r].step = i
  BY <1>1 DEF Request
<1>3. PICK n \in 3..6 : n = Len(Chain[route])
  BY ChainSteps
<1>4. i <= n /\ i > 0 /\ Chain[route][i] = s
  BY <1>1, <1>2, <1>3 DEF Doing, Step
<1>5. i \in 1..n
  BY <1>4
<1>6. i \in 1..Len(Chain[route])
  BY <1>3, <1>5
<1>7. ChainAt(route, i, Chain[route][i])
  BY <1>6, ChainWhere
<1> QED BY <1>2, <1>4, <1>7

LEMMA CoherentInit == Init => Unique /\ \A k \in Requests : Coherent(k)
<1> SUFFICES ASSUME Init PROVE Unique /\ \A k \in Requests : Coherent(k)
  OBVIOUS
<1>1. Unique
  <2>1. PICK s \in Seeds : flag = s.flag
    BY DEF Init
  <2> QED BY <2>1, SeedsUnique DEF Unique, Live
<1>2. ASSUME NEW k \in Requests PROVE Coherent(k)
  <2>1. req[k].answer = "open" /\ req[k].step = 0 /\ seen[k].answers = {}
    BY DEF Init, NoRequest, Unseen
  <2> QED BY <2>1 DEF Coherent, Torn, Early, Linear, Doing
<1> QED BY <1>1, <1>2

LEMMA UniqueNext ==
  ASSUME Inv, Unique, [Next]_vars
  PROVE  Unique'
<1>1. flag' = flag \/ \E c \in FlagCalls : FlagWrite(c)
  <2>1. CASE UNCHANGED vars
    BY <2>1 DEF vars, fvars
  <2>2. ASSUME NEW r \in Requests, RequestStep(r) PROVE flag' = flag
    <3>1. Untouched(r) \/ Missed(r) \/ Starts(r) \/ Moving(r)
      BY <2>2, ContinueIs, BeginIs DEF RequestStep
    <3> QED BY <3>1 DEF Untouched, Missed, Starts, Moving, Still, NothingElse, fvars
  <2>3. CASE TenantStep \/ KeyStep
    BY <2>3 DEF TenantStep, KeyStep, fvars
  <2>4. ASSUME NEW c \in FlagCalls, FlagStep(c) PROVE flag' = flag \/ FlagWrite(c)
    BY <2>4 DEF FlagStep, FlagsQuiet, FlagRead, FlagReadOrg, FlagBegin
  <2> QED BY <2>1, <2>2, <2>3, <2>4 DEF Next
<1>2. CASE flag' = flag
  BY <1>2 DEF Unique, Live
<1>3. ASSUME NEW c \in FlagCalls, FlagWrite(c) PROVE Unique'
  <2>1. \A f \in FlagIds : Live(f)' => Live(f) \/ (f = fcall[c].flag /\ ~Taken(KeyOf[f]))
    BY <1>3, FlagWriteDoes DEF Inv, TypeOK
  <2> QED BY <2>1 DEF Unique, Taken
<1> QED BY <1>1, <1>2, <1>3

(* A request whose rows and history stay as they are. *)
LEMMA RowsKeepCoherent ==
  ASSUME NEW k \in Requests, Coherent(k), UNCHANGED <<flag, override>>, req'[k] = req[k],
         seen'[k].answers = seen[k].answers, seen'[k].changes = seen[k].changes,
         seen'[k].deleted = seen[k].deleted
  PROVE  Coherent(k)'
<1>1. \A s : Doing(k, s)' <=> Doing(k, s)
  BY DEF Doing, Step
<1>2. Now(k)' <=> Now(k)
  BY DEF Now, Reference, Live
<1>3. Got(k)' <=> Got(k)
  BY DEF Got, WithOverride
<1>4. Now(k)' = Now(k) /\ Got(k)' = Got(k)
  <2>1. Now(k) \in BOOLEAN /\ Now(k)' \in BOOLEAN
    BY DEF Now, Reference
  <2>2. Got(k) \in BOOLEAN /\ Got(k)' \in BOOLEAN
    BY DEF Got, WithOverride, evaluateByType
  <2> QED BY <1>2, <1>3, <2>1, <2>2
<1>5. Torn(k)'
  BY <1>1, <1>4 DEF Coherent, Torn, Live
<1> QED BY <1>1, <1>5 DEF Coherent, Early, Linear

(* A request that has no answers to choose from. *)
LEMMA NoAnswers ==
  ASSUME Inv', NEW k \in Requests, seen'[k].answers = {}, req'[k].step # 5 \/ req'[k].answer # "open"
  PROVE  Coherent(k)'
<1>1. ~Doing(k, "readOverride")'
  <2>1. Doing(k, "readOverride")' => req'[k].step = 5
    BY StepAtNext DEF ChainAt
  <2> QED BY <2>1 DEF Doing
<1> QED BY <1>1 DEF Coherent, Torn, Early, Linear

(* The second query gives the answer of its moment, in the next state too. *)
LEMMA GotIsNowNext ==
  ASSUME FTypeOK', Unique', NEW f \in FlagIds, Live(f)', KeyOf[f] = ExportKey, flag'[f].active,
         NEW plan, NEW o \in Orgs
  PROVE  WithOverride(f, flag[f], plan, o)' <=> Reference(ExportKey, plan, o)'
<1>1. override'[f][o].exists \in BOOLEAN /\ override'[f][o].enabled \in BOOLEAN
  BY DEF FTypeOK, Override
<1> DEFINE over == override'[f][o]
           value == IF over.exists THEN over.value ELSE flag'[f].value
           answer == /\ over.exists => over.enabled
                     /\ SwitchedOn(flag'[f].type, value, plan, ExportKey, o)
<1>2. WithOverride(f, flag[f], plan, o)' <=> answer
  <2>1. flag'[f].type \in FlagTypes /\ value \in Value
    BY DEF FTypeOK, Flag, Override
  <2>2. evaluateByType(flag'[f].type, value, TRUE, plan, ExportKey, o)
          <=> SwitchedOn(flag'[f].type, value, plan, ExportKey, o)
    BY <2>1, ByType, AccessConstants
  <2>3. WithOverride(f, flag[f], plan, o)' <=>
          /\ over.exists => over.enabled
          /\ evaluateByType(flag'[f].type, value, TRUE, plan, ExportKey, o)
    BY <1>1 DEF WithOverride, evaluateByType
  <2> QED BY <2>2, <2>3
<1>3. answer => Reference(ExportKey, plan, o)'
  BY DEF Reference
<1>4. ASSUME Reference(ExportKey, plan, o)' PROVE answer
  <2>1. PICK g \in FlagIds :
          LET x == override'[g][o]
              v == IF x.exists THEN x.value ELSE flag'[g].value
          IN /\ Live(g)' /\ KeyOf[g] = ExportKey /\ flag'[g].active
             /\ x.exists => x.enabled
             /\ SwitchedOn(flag'[g].type, v, plan, ExportKey, o)
    BY <1>4 DEF Reference
  <2>2. g = f
    BY <2>1 DEF Unique
  <2> QED BY <2>1, <2>2
<1> QED BY <1>2, <1>3, <1>4

(* A write falls between the two queries. *)
LEMMA WatchedTorn ==
  ASSUME Inv, Inv', Unique, Unique', NEW k \in Requests, Coherent(k), Doing(k, "readOverride"),
         NEW deleted \in BOOLEAN, req'[k] = req[k], seen'[k] = Noticed(k, deleted),
         \/ flag' = flag /\ override' = override
         \/ \E c \in FlagCalls : FlagWrite(c) /\ deleted = (fcall[c].op = "delete")
  PROVE  Coherent(k)'
<1>1. /\ req[k] \in Request /\ seen[k] \in Seen /\ ~Free(k)
      /\ req[k].flag \in FlagIds /\ req[k].org \in Orgs /\ req[k].plan \in Plans \cup {NoPlan}
  <2>1. req[k] \in Request /\ seen[k] \in Seen
    BY InChain
  <2>2. req[k].flag \in FlagIds /\ req[k].org \in Orgs /\ req[k].plan \in Plans \cup {NoPlan}
    BY <2>1 DEF Request
  <2>3. ~Free(k)
    BY <2>1 DEF Doing, Free, Request
  <2> QED BY <2>1, <2>2, <2>3
<1> DEFINE now == Now(k)'
<1>2. seen'[k].answers = seen[k].answers \cup {now} /\ now = Now(k)'
  <2>1. now = Reference(ExportKey, req[k].plan, req[k].org)'
    BY DEF Now
  <2> QED BY <1>1, <2>1 DEF Noticed, Seen
<1>3. /\ seen'[k].changes # 0
      /\ seen'[k].changes <= 1 => seen[k].changes = 0
  <2>1. PICK n \in 0..2 : seen[k].changes = n
    BY <1>1 DEF Seen
  <2>2. seen'[k].changes = IF n < 2 THEN n + 1 ELSE n
    BY <1>1, <2>1 DEF Noticed, Seen
  <2> QED BY <2>1, <2>2
<1>4. ~seen'[k].deleted => ~deleted /\ ~seen[k].deleted
  BY <1>1 DEF Noticed, Seen
<1>5. \A s : Doing(k, s)' <=> Doing(k, s)
  BY DEF Doing, Step
<1>6. /\ KeyOf[req[k].flag] = ExportKey /\ req[k].row.active
      /\ seen[k].changes = 0 => Live(req[k].flag) /\ flag[req[k].flag] = req[k].row
      /\ seen[k].changes <= 1 /\ ~seen[k].deleted => Got(k) \in seen[k].answers
  BY DEF Coherent, Torn
<1>7. ASSUME seen'[k].changes <= 1, ~seen'[k].deleted PROVE Got(k)' \in seen'[k].answers
  <2>1. /\ seen[k].changes = 0 /\ ~seen[k].deleted /\ ~deleted
        /\ Live(req[k].flag) /\ flag[req[k].flag] = req[k].row
        /\ Got(k) \in seen[k].answers
    BY <1>3, <1>4, <1>6, <1>7
  <2>2. flag' = flag \/ override' = override
    <3>1. ASSUME NEW c \in FlagCalls, FlagWrite(c), deleted = (fcall[c].op = "delete")
          PROVE  flag' = flag \/ override' = override
      <4>1. fcall[c].op # "delete"
        BY <2>1, <3>1
      <4> QED BY <3>1, <4>1, FlagWriteDoes DEF Inv, TypeOK
    <3> QED BY <3>1
  <2>3. CASE flag' = flag
    <3>1. Live(req[k].flag)' /\ flag'[req[k].flag] = req[k].row
      BY <2>1, <2>3 DEF Live
    <3>2. Got(k)' <=> now
      <4>1. PICK f \in FlagIds, o \in Orgs, plan \in Plans \cup {NoPlan} :
              f = req[k].flag /\ o = req[k].org /\ plan = req[k].plan
        BY <1>1
      <4>2. WithOverride(f, flag[f], plan, o)' <=> Reference(ExportKey, plan, o)'
        <5>1. FTypeOK' /\ Live(f)' /\ KeyOf[f] = ExportKey /\ flag'[f].active
          BY <1>6, <3>1, <4>1 DEF Inv, TypeOK
        <5> QED BY <5>1, GotIsNowNext
      <4>3. now <=> Reference(ExportKey, plan, o)'
        BY <4>1 DEF Now
      <4>4. Got(k)' <=> WithOverride(f, flag[f], plan, o)'
        BY <3>1, <4>1 DEF Got
      <4> QED BY <4>2, <4>3, <4>4
    <3>3. Got(k)' \in BOOLEAN /\ now \in BOOLEAN
      BY DEF Got, WithOverride, evaluateByType, Now, Reference
    <3> HIDE DEF now
    <3> QED BY <1>2, <3>2, <3>3
  <2>4. CASE override' = override
    <3>1. Got(k)' = Got(k)
      BY <2>4 DEF Got, WithOverride
    <3> QED BY <1>2, <2>1, <3>1
  <2> QED BY <2>2, <2>3, <2>4
<1>8. Now(k)' \in seen'[k].answers
  BY <1>2
<1>9. Torn(k)'
  BY <1>3, <1>5, <1>6, <1>7, <1>8 DEF Torn
<1>10. Doing(k, "readOverride")' /\ req'[k].answer = "open" /\ ~Doing(k, "list")'
  BY <1>5 DEF Doing
<1> QED BY <1>9, <1>10 DEF Coherent, Early, Linear

LEMMA WatchedCoherent ==
  ASSUME Inv, Inv', Unique, Unique', NEW k \in Requests, Coherent(k), Watched(k)
  PROVE  Coherent(k)'
<1>1. PICK deleted \in BOOLEAN :
        /\ req'[k] = req[k] /\ seen'[k] = Noticed(k, deleted)
        /\ \/ flag' = flag /\ override' = override
           \/ \E c \in FlagCalls : FlagWrite(c) /\ deleted = (fcall[c].op = "delete")
  BY DEF Watched
<1>2. CASE Doing(k, "readOverride")
  BY <1>1, <1>2, WatchedTorn
<1>3. CASE ~Doing(k, "readOverride")
  <2>1. seen[k] \in Seen
    BY DEF Inv, TypeOK
  <2>2. /\ seen'[k].answers = seen[k].answers /\ seen'[k].changes = seen[k].changes
        /\ seen'[k].deleted <=> seen[k].deleted
    BY <1>1, <1>3, <2>1 DEF Noticed, Seen
  <2>3. \A s : Doing(k, s)' <=> Doing(k, s)
    BY <1>1 DEF Doing, Step
  <2> QED BY <1>1, <1>3, <2>2, <2>3 DEF Coherent, Torn, Early, Linear
<1> QED BY <1>2, <1>3


(* Nothing is evaluated before the first query on the flag. *)
LEMMA BeforeFlag ==
  ASSUME Inv, NEW k \in Requests, Coherent(k), NEW s, Doing(k, s),
         s \notin {"readOverride", "list"}
  PROVE  seen[k].answers = {}
BY DEF Coherent, Early, Doing

LEMMA GuardCoherent ==
  ASSUME Inv, Inv', NEW k \in Requests, Coherent(k), AtGuard(k) \/ AtPlan(k)
  PROVE  Coherent(k)'
<1>1. seen'[k].answers = {}
  BY BeforeFlag DEF AtGuard, AtPlan
<1>2. req'[k].step # 5 \/ req'[k].answer # "open"
  BY DEF AtGuard, AtPlan, Goes, Ends
<1> QED BY <1>1, <1>2, NoAnswers

LEMMA FlagCoherent ==
  ASSUME Inv, Inv', Unique, NEW k \in Requests, Still, Same(k), AtFlag(k)
  PROVE  Coherent(k)'
<1>0. req[k] \in Request /\ req[k].org \in Orgs /\ req[k].plan \in Plans \cup {NoPlan}
  BY DEF Inv, TypeOK, Request
<1>1. /\ req[k].step = 4 /\ req[k].route \in {"export", "evaluate"}
      /\ seen'[k].answers = {Now(k)} /\ seen'[k].changes = 0
  BY DEF AtFlag
<1>2. ASSUME NEW f \in FlagByKey(ExportKey), flag[f].active, Goes(k, 5),
             req'[k].flag = f, req'[k].row = flag[f], req'[k].plan = req[k].plan
      PROVE  Coherent(k)'
  <2>1. f \in FlagIds /\ Live(f) /\ KeyOf[f] = ExportKey
    BY FoundFlag
  <2>2. PICK o \in Orgs, plan \in Plans \cup {NoPlan} : o = req[k].org /\ plan = req[k].plan
    BY <1>0
  <2>3. WithOverride(f, flag[f], plan, o) <=> Reference(ExportKey, plan, o)
    BY <1>2, <2>1, GotIsNow DEF Inv, TypeOK
  <2>4. req'[k].org = o /\ req'[k].plan = plan /\ req'[k].route = req[k].route
    BY <1>2, <2>2 DEF Same
  <2>5. Got(k)' <=> WithOverride(f, flag[f], plan, o)
    BY <1>2, <2>4 DEF Got, WithOverride, Still
  <2>6. (Now(k)' <=> Reference(ExportKey, plan, o)) /\ (Now(k) <=> Reference(ExportKey, plan, o))
    BY <2>2, <2>4 DEF Now, Reference, Live, Still
  <2>7. Got(k)' = Now(k) /\ Now(k)' = Now(k)
    <3>1. Now(k) \in BOOLEAN /\ Now(k)' \in BOOLEAN
      BY DEF Now, Reference
    <3>2. Got(k)' \in BOOLEAN
      BY DEF Got, WithOverride, evaluateByType
    <3> QED BY <2>3, <2>5, <2>6, <3>1, <3>2
  <2>8. req'[k].answer = "open" /\ Doing(k, "readOverride")'
    <3>1. req'[k].answer = "open" /\ req'[k].step = 5 /\ req'[k].route \in {"export", "evaluate"}
      BY <1>1, <1>2, <2>4 DEF Goes
    <3>2. Chain[req'[k].route][5] = "readOverride"
      BY <3>1 DEF Chain
    <3> QED BY <3>1, <3>2 DEF Doing, Step
  <2>9. Live(f)' /\ flag'[f] = flag[f]
    BY <2>1 DEF Live, Still
  <2>10. Torn(k)'
    BY <1>1, <1>2, <2>1, <2>7, <2>9 DEF Torn
  <2>11. ~Doing(k, "list")'
    BY <2>8 DEF Doing
  <2> QED BY <2>8, <2>10, <2>11 DEF Coherent, Early, Linear
<1>3. ASSUME \A f \in FlagByKey(ExportKey) : ~flag[f].active, Gives(k, FALSE)
      PROVE  Coherent(k)'
  <2>1. ~Now(k)
    BY <1>3, NoActiveFlag DEF Now
  <2>2. req'[k].enabled = FALSE /\ req'[k].answer # "open"
    BY <1>3 DEF Gives
  <2>3. seen'[k].answers = {FALSE}
    <3>1. Now(k) \in BOOLEAN
      BY DEF Now, Reference
    <3> QED BY <1>1, <2>1, <3>1
  <2>4. ~Doing(k, "readOverride")'
    BY <2>2 DEF Doing
  <2> QED BY <2>2, <2>3, <2>4 DEF Coherent, Torn, Early, Linear
<1> QED BY <1>2, <1>3 DEF AtFlag

LEMMA OverrideCoherent ==
  ASSUME Inv, Inv', NEW k \in Requests, Coherent(k), Same(k), AtOverride(k)
  PROVE  Coherent(k)'
<1>1. /\ req[k].step = 5 /\ Doing(k, "readOverride") /\ seen'[k] = seen[k]
      /\ req[k].route \in {"export", "evaluate"}
  BY DEF AtOverride
<1>2. req'[k].enabled = Got(k)
  BY DEF AtOverride, Gives
<1>3. seen[k].changes <= 1 /\ ~seen[k].deleted => Got(k) \in seen[k].answers
  BY <1>1 DEF Coherent, Torn
<1>4. req'[k].answer = "open" => req'[k].step = 6 /\ req'[k].route = "export"
  BY <1>1 DEF AtOverride, Gives, Same
<1>5. Doing(k, "readOverride")' => FALSE
  <2>1. Doing(k, "readOverride")' => req'[k].step = 5
    BY StepAtNext DEF ChainAt
  <2> QED BY <1>4, <2>1 DEF Doing
<1>6. req'[k].answer = "open" => Doing(k, "list")'
  BY <1>4 DEF Doing, Step, Chain
<1> QED BY <1>1, <1>2, <1>3, <1>5, <1>6 DEF Coherent, Torn, Early, Linear

LEMMA HandlerCoherent ==
  ASSUME Inv, Inv', NEW k \in Requests, Coherent(k), AtHandler(k) \/ AtWrite(k)
  PROVE  Coherent(k)'
<1>1. CASE Doing(k, "list") /\ seen'[k] = seen[k] /\ Ends(k, "served")
  <2>1. req'[k].answer = "served" /\ req'[k].enabled = req[k].enabled
    BY <1>1 DEF Ends
  <2> QED BY <1>1, <2>1 DEF Coherent, Torn, Early, Linear, Doing
<1>2. CASE /\ seen'[k] = seen[k] /\ \E s \in {"get", "findLive", "create", "update", "delete"} : Doing(k, s)
           /\ req'[k].step # 5 \/ req'[k].answer # "open"
  <2>1. seen'[k].answers = {}
    BY <1>2, BeforeFlag
  <2> QED BY <1>2, <2>1, NoAnswers
<1> QED BY <1>1, <1>2 DEF AtHandler, AtWrite, Goes, Ends

LEMMA CoherentNext ==
  ASSUME Inv, Inv', Unique, Unique', [Next]_vars, NEW k \in Requests, Coherent(k)
  PROVE  Coherent(k)'
<1>1. CASE Untouched(k)
  BY <1>1, RowsKeepCoherent DEF Untouched, Still
<1>2. CASE Missed(k)
  <2>1. seen[k] \in Seen
    BY DEF Inv, TypeOK
  <2>2. /\ seen'[k].answers = seen[k].answers /\ seen'[k].changes = seen[k].changes
        /\ seen'[k].deleted = seen[k].deleted
    BY <1>2, <2>1 DEF Missed, Seen
  <2> QED BY <1>2, <2>2, RowsKeepCoherent DEF Missed, NothingElse, fvars
<1>3. CASE Watched(k)
  BY <1>3, WatchedCoherent
<1>4. CASE Starts(k)
  BY <1>4, NoAnswers DEF Starts
<1>5. CASE Moving(k)
  BY <1>5, GuardCoherent, FlagCoherent, OverrideCoherent, HandlerCoherent DEF Moving
<1> QED BY <1>1, <1>2, <1>3, <1>4, <1>5, StepIs

LEMMA ReadingNext == Inv /\ Inv' /\ Reading /\ [Next]_vars => Reading'
<1> SUFFICES ASSUME Inv, Inv', Reading, [Next]_vars PROVE Reading'
  OBVIOUS
<1>1. Unique /\ \A k \in Requests : Coherent(k)
  BY DEF Reading, Coherent
<1>2. Unique'
  BY <1>1, UniqueNext
<1>3. \A k \in Requests : Coherent(k)'
  BY <1>1, <1>2, CoherentNext
<1> QED BY <1>2, <1>3 DEF Reading, Coherent

LEMMA ReadingInvariance == Spec => []Reading
<1>1. Init => Reading
  BY CoherentInit DEF Reading, Coherent
<1> QED BY <1>1, ReadingNext, Invariance, PTL DEF Spec

(* If one write or none fell between the two queries of an evaluation, and *)
(* it was not the deletion of the flag, the answer is that of one moment   *)
(* (featureflag.service.js, evaluateFlag).                                 *)
THEOREM EvaluateLinearHolds == Spec => []EvaluateLinear
<1>1. Reading => EvaluateLinear
  BY DEF Reading, Linear, EvaluateLinear
<1> QED BY <1>1, ReadingInvariance, PTL


-----------------------------------------------------------------------------
(* The answer of a request that nothing was written next to                 *)

Sound(k) == Progress(k) /\ Exact(k)

LEMMA StillRows ==
  ASSUME Still
  PROVE  /\ \A h, p : Newest(h, p)' <=> Newest(h, p)
         /\ \A h : PlanOf(h)' = PlanOf(h)
         /\ \A o : EndpointPlan(o)' = EndpointPlan(o)
         /\ \A p, o : FindLive(p, o)' <=> FindLive(p, o)
         /\ \A key_, p, o : Reference(key_, p, o)' <=> Reference(key_, p, o)
         /\ \A f : Live(f)' <=> Live(f)
<1>1. \A h, p : Newest(h, p)' <=> Newest(h, p)
  BY DEF Still, Newest
<1>2. \A h : PlanOf(h)' = PlanOf(h)
  BY DEF Still, PlanOf
<1>3. \A o : EndpointPlan(o)' = EndpointPlan(o)
  BY <1>2 DEF Still, EndpointPlan
<1>4. \A p, o : FindLive(p, o)' <=> FindLive(p, o)
  BY DEF Still, FindLive
<1>5. \A key_, p, o : Reference(key_, p, o)' <=> Reference(key_, p, o)
  BY DEF Still, Reference, Live
<1>6. \A f : Live(f)' <=> Live(f)
  BY DEF Still, Live
<1> QED BY <1>1, <1>2, <1>3, <1>4, <1>5, <1>6

ProjectKept(k) ==
  req[k].route \in {"get", "keyGet", "update", "delete"} => req'[k].project = req[k].project

LEMMA EntitledSame ==
  ASSUME NEW k \in Requests, Still, Same(k), ProjectKept(k)
  PROVE  Entitled(k)' <=> Entitled(k)
<1>1. \A g \in Guards : Holds(g, k)' <=> Holds(g, k)
  BY HoldsSame DEF Still
<1>2. req'[k].route = req[k].route /\ req'[k].org = req[k].org /\ req'[k].user = req[k].user
  BY DEF Same
<1>3. req[k].route \in {"get", "keyGet", "update", "delete"} =>
        (FindLive(req[k].project, req[k].org)' <=> FindLive(req[k].project, req[k].org))
  BY <1>2 DEF ProjectKept, FindLive, Still
<1>4. (\E p \in PaidPlans : Newest(req[k].user, p) /\ Reference(ExportKey, p, req[k].org))'
      <=> \E p \in PaidPlans : Newest(req[k].user, p) /\ Reference(ExportKey, p, req[k].org)
  BY <1>2 DEF Newest, Reference, Live, Still
<1>5. Reference(ExportKey, EndpointPlan(req[k].org), req[k].org)'
      <=> Reference(ExportKey, EndpointPlan(req[k].org), req[k].org)
  BY <1>2 DEF EndpointPlan, PlanOf, Reference, Live, Still
<1> QED BY <1>1, <1>2, <1>3, <1>4, <1>5 DEF Entitled

Remembered(k) ==
  (seen'[k].quiet <=> seen[k].quiet) /\ (seen'[k].entitled <=> seen[k].entitled)

LEMMA Carries ==
  ASSUME NEW k \in Requests, Still, Same(k), ProjectKept(k), Remembered(k), Progress(k),
         req[k].answer = "open", req[k].step > 0, req'[k].answer = "open",
         seen[k].quiet => Known(k, req'[k])
  PROVE  Sound(k)'
<1> SUFFICES ASSUME seen'[k].quiet PROVE (seen'[k].entitled <=> Entitled(k)') /\ Known(k, req[k])'
  BY DEF Sound, Progress, Exact
<1>1. seen[k].quiet /\ Known(k, req'[k])
  BY DEF Remembered
<1>2. seen'[k].entitled <=> Entitled(k)'
  BY <1>1, EntitledSame DEF Remembered, Progress
<1>3. Known(k, req[k])'
  <2>1. \A g \in Guards : Holds(g, k)' <=> Holds(g, k)
    BY HoldsSame DEF Still
  <2>2. PICK q : q = req'[k]
    OBVIOUS
  <2>3. Known(k, q)
    BY <1>1, <2>2
  <2>4. "caller" \in Guards /\ "tenant" \in Guards /\ "payer" \in Guards
    BY DEF Guards
  <2>5. flag' = flag
    BY DEF Still
  <2> QED BY <2>1, <2>2, <2>3, <2>4, <2>5, StillRows DEF Known
<1> QED BY <1>2, <1>3

LEMMA Answers ==
  ASSUME NEW k \in Requests, Remembered(k), Progress(k),
         req[k].answer = "open", req[k].step > 0, req'[k].answer # "open",
         seen[k].quiet => (Granted(k)' <=> Entitled(k))
  PROVE  Sound(k)'
BY DEF Sound, Progress, Exact, Remembered

(* What is known of a request in its chain. *)
LEMMA InProgress ==
  ASSUME NEW k \in Requests, Inv, Sound(k), NEW s, Doing(k, s)
  PROVE  /\ req[k].answer = "open" /\ req[k].step > 0 /\ Progress(k)
         /\ seen[k].quiet => Known(k, req[k])
BY DEF Doing, Sound, Progress

LEMMA QuietSound ==
  ASSUME NEW k \in Requests, Inv, Sound(k), Untouched(k) \/ Missed(k) \/ Watched(k) \/ Starts(k)
  PROVE  Sound(k)'
<1>1. seen[k] \in Seen
  BY DEF Inv, TypeOK
<1>2. CASE Untouched(k)
  <2>1. Same(k) /\ ProjectKept(k) /\ Remembered(k) /\ Still
    BY <1>2 DEF Untouched, Same, ProjectKept, Remembered
  <2>2. CASE req[k].answer = "open" /\ req[k].step > 0
    BY <1>2, <2>1, <2>2, Carries DEF Untouched, Sound, Progress
  <2>3. CASE ~(req[k].answer = "open" /\ req[k].step > 0)
    BY <1>2, <2>3 DEF Untouched, Sound, Progress, Exact, Granted
  <2> QED BY <2>2, <2>3
<1>3. CASE Missed(k) \/ Watched(k)
  <2>1. ~seen'[k].quiet
    BY <1>1, <1>3 DEF Missed, Watched, Noticed, Seen
  <2> QED BY <2>1 DEF Sound, Progress, Exact
<1>4. CASE Starts(k)
  <2>1. Known(k, req[k])'
    BY <1>4 DEF Starts, Known
  <2> QED BY <1>4, <2>1 DEF Starts, Sound, Progress, Exact
<1> QED BY <1>2, <1>3, <1>4


LEMMA GuardSound ==
  ASSUME NEW k \in Requests, Inv, Sound(k), Still, Same(k), AtGuard(k)
  PROVE  Sound(k)'
<1> DEFINE q == req[k]
<1>1. Remembered(k)
  BY DEF AtGuard, Remembered
<1>2. ASSUME NEW s, Doing(k, s), NEW i \in {2, 3, 4}, Goes(k, i),
             seen[k].quiet => Known(k, req'[k])
      PROVE  Sound(k)'
  <2>1. ProjectKept(k) /\ req'[k].answer = "open"
    BY <1>2 DEF Goes, ProjectKept
  <2> QED BY <1>1, <1>2, <2>1, InProgress, Carries
<1>3. ASSUME NEW s, Doing(k, s), Ends(k, "denied"), NEW g \in Guards, ~Holds(g, k)
      PROVE  Sound(k)'
  <2>1. req'[k].answer # "open" /\ ~Granted(k)' /\ ~Entitled(k)
    BY <1>3 DEF Ends, Granted, Entitled
  <2> QED BY <1>1, <1>3, <2>1, InProgress, Answers
<1>4. ASSUME q.step = 1, NEW s, Doing(k, s),
             IF Holds("caller", k) THEN Goes(k, 2) ELSE Ends(k, "denied")
      PROVE  Sound(k)'
  <2>1. CASE Holds("caller", k)
    <3>1. Goes(k, 2)
      BY <1>4, <2>1
    <3>2. Known(k, req'[k])
      BY <2>1, <3>1 DEF Known, Goes
    <3> QED BY <1>2, <1>4, <3>1, <3>2
  <2>2. CASE ~Holds("caller", k)
    BY <1>3, <1>4, <2>2 DEF Guards
  <2> QED BY <2>1, <2>2
<1>5. ASSUME q.step = 2, Doing(k, "requireTenant"),
             IF Holds("tenant", k) THEN Goes(k, 3) ELSE Ends(k, "denied")
      PROVE  Sound(k)'
  <2>1. CASE Holds("tenant", k)
    <3>1. Goes(k, 3)
      BY <1>5, <2>1
    <3>2. q.route # "evaluate" /\ req'[k].route = q.route
      BY <1>5, AtItsGuard DEF GuardIs, Same
    <3>3. seen[k].quiet => Known(k, req'[k])
      <4>1. seen[k].quiet => Holds("caller", k)
        BY <1>5, InProgress DEF Known
      <4> QED BY <2>1, <3>1, <3>2, <4>1 DEF Known, Goes
    <3> QED BY <1>2, <1>5, <3>1, <3>3
  <2>2. CASE ~Holds("tenant", k)
    BY <1>3, <1>5, <2>2 DEF Guards
  <2> QED BY <2>1, <2>2
<1>6. ASSUME q.step = 3, q.route \in {"export", "analytics"}, NEW s, Doing(k, s),
             NEW h \in Holders, Payer(k) = {h},
             IF PlanOf(h) \in PaidPlans THEN Goes(k, 4) /\ req'[k].plan = PlanOf(h)
                                        ELSE Ends(k, "denied")
      PROVE  Sound(k)'
  <2>1. CASE PlanOf(h) \in PaidPlans
    <3>1. Goes(k, 4) /\ req'[k].plan = PlanOf(h)
      BY <1>6, <2>1
    <3>2. Newest(h, PlanOf(h))
      <4>1. PlanOf(h) # NoPlan
        BY <2>1 DEF PaidPlans, NoPlan
      <4> QED BY <4>1, PlanIsNewest DEF Inv, TypeOK
    <3>3. Holds("payer", k)
      BY <1>6, <2>1, <3>2 DEF Holds
    <3>4. req'[k].route = q.route /\ req'[k].user = q.user
      BY DEF Same
    <3>5. q.route = "export" => h = q.user
      BY <1>6 DEF Payer
    <3>6. seen[k].quiet => Known(k, req'[k])
      <4>1. seen[k].quiet => Holds("caller", k) /\ Holds("tenant", k)
        BY <1>6, InProgress DEF Known
      <4>2. req'[k].step = 4
        BY <3>1 DEF Goes
      <4> QED BY <1>6, <2>1, <3>1, <3>2, <3>3, <3>4, <3>5, <4>1, <4>2 DEF Known
    <3> QED BY <1>2, <1>6, <3>1, <3>6
  <2>2. CASE PlanOf(h) \notin PaidPlans
    <3>1. ~Holds("payer", k)
      <4>1. ASSUME NEW p \in PaidPlans, Newest(h, p) PROVE FALSE
        BY <2>2, <4>1, NewestPlan DEF Inv, TypeOK
      <4> QED BY <1>6, <4>1 DEF Holds
    <3> QED BY <1>3, <1>6, <2>2, <3>1 DEF Guards
  <2> QED BY <2>1, <2>2
<1> QED BY <1>4, <1>5, <1>6 DEF AtGuard

LEMMA PlanSound ==
  ASSUME NEW k \in Requests, Inv, Sound(k), Still, Same(k), AtPlan(k)
  PROVE  Sound(k)'
<1> DEFINE q == req[k]
<1>1. /\ Remembered(k) /\ q.route = "evaluate"
      /\ req'[k].route = q.route /\ req'[k].org = q.org
  BY DEF AtPlan, Remembered, Same
<1>2. Holds("tenant", k) /\ Holds("payer", k)
  BY <1>1, NoTenant, NoPayer
<1>3. ASSUME NEW s, Doing(k, s), NEW i \in {3, 4}, Goes(k, i),
             seen[k].quiet => Known(k, req'[k])
      PROVE  Sound(k)'
  <2>1. ProjectKept(k) /\ req'[k].answer = "open"
    BY <1>3 DEF Goes, ProjectKept
  <2> QED BY <1>1, <1>3, <2>1, InProgress, Carries
<1>4. ASSUME q.step = 2, Doing(k, "readOrgPlan"), PlanOf(q.org) = NoPlan, Goes(k, 3)
      PROVE  Sound(k)'
  <2>1. seen[k].quiet => Holds("caller", k)
    BY <1>4, InProgress DEF Known
  <2>2. seen[k].quiet => Known(k, req'[k])
    BY <1>1, <1>2, <1>4, <2>1 DEF Known, Goes
  <2> QED BY <1>3, <1>4, <2>2
<1>5. ASSUME q.step \in {2, 3}, NEW s, Doing(k, s), Goes(k, 4),
             seen[k].quiet => req'[k].plan = EndpointPlan(q.org)
      PROVE  Sound(k)'
  <2>1. seen[k].quiet => Holds("caller", k)
    BY <1>5, InProgress DEF Known
  <2>2. seen[k].quiet => Known(k, req'[k])
    BY <1>1, <1>2, <1>5, <2>1 DEF Known, Goes
  <2> QED BY <1>3, <1>5, <2>2
<1>6. ASSUME q.step = 2, Doing(k, "readOrgPlan"), PlanOf(q.org) # NoPlan, Goes(k, 4),
             req'[k].plan = PlanOf(q.org)
      PROVE  Sound(k)'
  BY <1>5, <1>6 DEF EndpointPlan
<1>7. ASSUME q.step = 3, Doing(k, "readOwnerPlan"), Goes(k, 4),
             req'[k].plan = PlanOf(org[q.org].owner)
      PROVE  Sound(k)'
  <2>1. seen[k].quiet => PlanOf(q.org) = NoPlan
    BY <1>1, <1>7, InProgress DEF Known
  <2> QED BY <1>5, <1>7, <2>1 DEF EndpointPlan
<1> QED BY <1>4, <1>6, <1>7 DEF AtPlan

(* The plan of an export decides whether the flag is on for it. *)
LEMMA ExportEntitled ==
  ASSUME NEW k \in Requests, Inv, req[k].route = "export", Holds("caller", k), Holds("tenant", k),
         Holds("payer", k), req[k].plan \in PaidPlans, Newest(req[k].user, req[k].plan)
  PROVE  Entitled(k) <=> Now(k)
<1>1. \A g \in Guards : Holds(g, k)
  BY DEF Guards
<1>2. req[k].user \in Holders
  BY DEF Inv, TypeOK, Request, Holders
<1>3. ASSUME NEW p, Newest(req[k].user, p) PROVE p = req[k].plan
  BY <1>2, <1>3, NewestPlan DEF Inv, TypeOK
<1> QED BY <1>1, <1>3 DEF Entitled, Now

LEMMA EvaluateEntitled ==
  ASSUME NEW k \in Requests, req[k].route = "evaluate", Holds("caller", k), Holds("tenant", k),
         Holds("payer", k), req[k].plan = EndpointPlan(req[k].org)
  PROVE  Entitled(k) <=> Now(k)
BY DEF Entitled, Now, Guards

(* An evaluation ends, or an export goes on to its handler. *)
LEMMA GivesSound ==
  ASSUME NEW k \in Requests, Inv, Sound(k), Still, Same(k), Remembered(k), NEW s, Doing(k, s),
         NEW enabled \in BOOLEAN, Gives(k, enabled), seen[k].quiet => (enabled <=> Now(k)),
         req[k].step \in {4, 5}, enabled => req[k].step = 5,
         req[k].route \in {"export", "evaluate"}
  PROVE  Sound(k)'
<1>1. /\ req'[k].route = req[k].route /\ req'[k].plan = req[k].plan
      /\ req'[k].org = req[k].org /\ req'[k].user = req[k].user
      /\ req'[k].enabled = enabled
  BY DEF Same, Gives
<1>2. seen[k].quiet =>
        /\ Holds("caller", k) /\ Holds("tenant", k) /\ Holds("payer", k)
        /\ req[k].route = "export" => req[k].plan \in PaidPlans /\ Newest(req[k].user, req[k].plan)
        /\ req[k].route = "evaluate" => req[k].plan = EndpointPlan(req[k].org)
  BY InProgress DEF Known
<1>3. seen[k].quiet => (Entitled(k) <=> enabled)
  BY <1>2, ExportEntitled, EvaluateEntitled
<1>4. CASE req[k].route = "evaluate" \/ ~enabled
  <2>1. req'[k].answer # "open" /\ (Granted(k)' <=> enabled)
    BY <1>1, <1>4 DEF Gives, Granted
  <2> QED BY <1>3, <2>1, InProgress, Answers
<1>5. CASE req[k].route = "export" /\ enabled
  <2>1. req'[k].answer = "open" /\ req'[k].step = 6 /\ ProjectKept(k)
    BY <1>5 DEF Gives, ProjectKept
  <2>2. seen[k].quiet => Known(k, req'[k])
    BY <1>1, <1>2, <1>5, <2>1 DEF Known, Now
  <2> QED BY <2>1, <2>2, InProgress, Carries
<1> QED BY <1>4, <1>5

LEMMA FlagSound ==
  ASSUME NEW k \in Requests, Inv, Unique, Sound(k), Still, Same(k), AtFlag(k)
  PROVE  Sound(k)'
<1>1. /\ req[k].step = 4 /\ Doing(k, "readFlag") /\ req[k].route \in {"export", "evaluate"}
      /\ Remembered(k)
  BY DEF AtFlag, Remembered
<1>2. ASSUME NEW f \in FlagByKey(ExportKey), flag[f].active, Goes(k, 5),
             req'[k].flag = f, req'[k].row = flag[f], req'[k].plan = req[k].plan
      PROVE  Sound(k)'
  <2>1. f \in FlagIds /\ Live(f) /\ KeyOf[f] = ExportKey
    BY FoundFlag
  <2>2. /\ req'[k].route = req[k].route /\ req'[k].org = req[k].org /\ req'[k].user = req[k].user
        /\ req'[k].answer = "open" /\ req'[k].step = 5 /\ ProjectKept(k)
    BY <1>2 DEF Same, Goes, ProjectKept
  <2>3. seen[k].quiet => Known(k, req'[k])
    <3>1. seen[k].quiet => Known(k, req[k])
      BY <1>1, InProgress
    <3> QED BY <1>1, <1>2, <2>1, <2>2, <3>1 DEF Known
  <2> QED BY <1>1, <2>2, <2>3, InProgress, Carries
<1>3. ASSUME \A f \in FlagByKey(ExportKey) : ~flag[f].active, Gives(k, FALSE)
      PROVE  Sound(k)'
  <2>1. ~Now(k)
    BY <1>3, NoActiveFlag DEF Now
  <2> QED BY <1>1, <1>3, <2>1, GivesSound
<1> QED BY <1>2, <1>3 DEF AtFlag

LEMMA OverrideSound ==
  ASSUME NEW k \in Requests, Inv, Unique, Sound(k), Still, Same(k), AtOverride(k)
  PROVE  Sound(k)'
<1>1. /\ req[k].step = 5 /\ Doing(k, "readOverride") /\ req[k].route \in {"export", "evaluate"}
      /\ Remembered(k) /\ Gives(k, Got(k))
  BY DEF AtOverride, Remembered
<1>2. Got(k) \in BOOLEAN
  BY DEF Got, WithOverride, evaluateByType
<1>3. ASSUME seen[k].quiet PROVE Got(k) <=> Now(k)
  <2>1. /\ Live(req[k].flag) /\ KeyOf[req[k].flag] = ExportKey
        /\ req[k].row.active /\ req[k].row = flag[req[k].flag]
    BY <1>1, <1>3, InProgress DEF Known
  <2>2. PICK f \in FlagIds, o \in Orgs, plan \in Plans \cup {NoPlan} :
          f = req[k].flag /\ o = req[k].org /\ plan = req[k].plan
    BY DEF Inv, TypeOK, Request
  <2>3. WithOverride(f, flag[f], plan, o) <=> Reference(ExportKey, plan, o)
    BY <2>1, <2>2, GotIsNow DEF Inv, TypeOK
  <2> QED BY <2>1, <2>2, <2>3 DEF Got, Now
<1> QED BY <1>1, <1>2, <1>3, GivesSound


LEMMA HandlerSound ==
  ASSUME NEW k \in Requests, Inv, Sound(k), Still, Same(k), AtHandler(k)
  PROVE  Sound(k)'
<1>1. Remembered(k) /\ req'[k].route = req[k].route
  BY DEF AtHandler, Remembered, Same
<1>2. ASSUME Doing(k, "list"), Ends(k, "served") PROVE Sound(k)'
  <2>1. \/ req[k].step = 3 /\ req[k].route \in {"list", "keyList"}
        \/ req[k].step = 4 /\ req[k].route = "analytics"
        \/ req[k].step = 6 /\ req[k].route = "export"
    BY <1>2, StepAt DEF ChainAt
  <2>2. req'[k].answer # "open" /\ Granted(k)'
    BY <1>1, <1>2, <2>1 DEF Ends, Granted
  <2>3. ASSUME seen[k].quiet PROVE Entitled(k)
    <3>1. Known(k, req[k])
      BY <1>2, <2>3, InProgress
    <3>2. Holds("caller", k) /\ Holds("tenant", k) /\ Holds("payer", k)
      BY <2>1, <3>1, NoPayer DEF Known
    <3>3. CASE req[k].route = "export"
      BY <2>1, <3>1, <3>2, <3>3, ExportEntitled DEF Known, Now
    <3>4. CASE req[k].route # "export"
      BY <2>1, <3>2, <3>4 DEF Entitled, Guards
    <3> QED BY <3>3, <3>4
  <2> QED BY <1>1, <1>2, <2>2, <2>3, InProgress, Answers
<1>3. ASSUME Doing(k, "get"),
             Ends(k, IF FindLive(req[k].project, req[k].org) THEN "served" ELSE "denied")
      PROVE  Sound(k)'
  <2>1. req[k].step = 3 /\ req[k].route \in {"get", "keyGet"}
    BY <1>3, StepAt DEF ChainAt
  <2>2. /\ req'[k].answer # "open"
        /\ Granted(k)' <=> FindLive(req[k].project, req[k].org)
    BY <1>1, <1>3, <2>1 DEF Ends, Granted
  <2>3. ASSUME seen[k].quiet PROVE Entitled(k) <=> FindLive(req[k].project, req[k].org)
    <3>1. Holds("caller", k) /\ Holds("tenant", k) /\ Holds("payer", k)
      BY <1>3, <2>1, <2>3, InProgress, NoPayer DEF Known
    <3> QED BY <2>1, <3>1 DEF Entitled, Guards
  <2> QED BY <1>1, <1>3, <2>2, <2>3, InProgress, Answers
<1>4. ASSUME req[k].step = 3, Doing(k, "findLive"), req[k].route \in {"update", "delete"},
             IF FindLive(req[k].project, req[k].org) THEN Goes(k, 4) ELSE Ends(k, "denied")
      PROVE  Sound(k)'
  <2>1. CASE FindLive(req[k].project, req[k].org)
    <3>1. Goes(k, 4)
      BY <1>4, <2>1
    <3>2. /\ ProjectKept(k) /\ req'[k].answer = "open" /\ req'[k].step = 4
          /\ req'[k].project = req[k].project /\ req'[k].org = req[k].org
      BY <3>1 DEF Goes, ProjectKept, Same
    <3>3. seen[k].quiet => Known(k, req'[k])
      <4>1. seen[k].quiet => Holds("caller", k) /\ Holds("tenant", k)
        BY <1>4, InProgress DEF Known
      <4>2. Holds("payer", k)
        BY <1>4, NoPayer
      <4> QED BY <1>1, <1>4, <2>1, <3>2, <4>1, <4>2 DEF Known
    <3> QED BY <1>1, <1>4, <3>2, <3>3, InProgress, Carries
  <2>2. CASE ~FindLive(req[k].project, req[k].org)
    <3>1. req'[k].answer # "open" /\ ~Granted(k)' /\ ~Entitled(k)
      BY <1>4, <2>2 DEF Ends, Granted, Entitled
    <3> QED BY <1>1, <1>4, <3>1, InProgress, Answers
  <2> QED BY <2>1, <2>2
<1> QED BY <1>2, <1>3, <1>4 DEF AtHandler

LEMMA WriteSound ==
  ASSUME NEW k \in Requests, Inv, Sound(k), Same(k), AtWrite(k)
  PROVE  Sound(k)'
<1>1. PICK s \in {"create", "update", "delete"} : Doing(k, s)
  BY DEF AtWrite
<1>2. /\ Remembered(k) /\ req'[k].route = req[k].route /\ req'[k].answer = "served"
  BY DEF AtWrite, Remembered, Same, Ends
<1>3. \/ req[k].step = 3 /\ req[k].route = "create"
      \/ req[k].step = 4 /\ req[k].route \in {"update", "delete"}
  BY <1>1, StepAt DEF ChainAt
<1>4. req'[k].answer # "open" /\ Granted(k)'
  BY <1>2, <1>3 DEF Granted
<1>5. ASSUME seen[k].quiet PROVE Entitled(k)
  <2>1. Known(k, req[k])
    BY <1>1, <1>5, InProgress
  <2>2. Holds("caller", k) /\ Holds("tenant", k) /\ Holds("payer", k)
    BY <1>3, <2>1, NoPayer DEF Known
  <2> QED BY <1>3, <2>1, <2>2 DEF Known, Entitled, Guards
<1> QED BY <1>1, <1>2, <1>4, <1>5, InProgress, Answers

LEMMA ExactnessNext ==
  Inv /\ Reading /\ Exactness /\ [Next]_vars => Exactness'
<1> SUFFICES ASSUME Inv, Reading, Exactness, [Next]_vars, NEW k \in Requests
             PROVE  Sound(k)'
  BY DEF Exactness, Sound
<1>1. Sound(k) /\ Unique
  BY DEF Exactness, Sound, Reading
<1>2. CASE Untouched(k) \/ Missed(k) \/ Watched(k) \/ Starts(k)
  BY <1>1, <1>2, QuietSound
<1>3. CASE Moving(k)
  BY <1>1, <1>3, GuardSound, PlanSound, FlagSound, OverrideSound, HandlerSound, WriteSound, Zenon
  DEF Moving
<1> QED BY <1>2, <1>3, StepIs

LEMMA ExactnessInvariance == Spec => []Exactness
<1>1. Init => Exactness
  BY DEF Init, NoRequest, Unseen, Exactness, Progress, Exact
<1> QED BY <1>1, ExactnessNext, Invariance, ReadingInvariance, PTL DEF Spec

(* A request next to which nothing was written is granted exactly if its   *)
(* caller, membership, role, plan, flag and project allow it as it begins  *)
(* (auth, tenant, subscription, featureflag and apiKey middleware).        *)
THEOREM AnswerExactHolds == Spec => []AnswerExact
<1>1. Exactness => AnswerExact
  BY DEF Exactness, Exact, AnswerExact
<1> QED BY <1>1, ExactnessInvariance, PTL
=============================================================================
