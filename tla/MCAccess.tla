------------------------------ MODULE MCAccess ------------------------------
(* Instances of Access for TLC.  A behaviour belongs to a family: the      *)
(* tables that are written in it and the routes that are asked for.        *)
EXTENDS Access, TLC

CONSTANTS u1, u2, o1, o2, f1, f2, k1, p1, p2, p3, r1, r2,
          Families,
          MaxWrites   \* bound: rows written, or calls of administrators and key owners

VARIABLES family, left

MCKeyOf == [f \in {f1, f2} |-> "projects_export"]
MCKeyOwner == [k \in {k1} |-> u2]
MCBucket == [k \in {"projects_export"} |-> [o \in {o1, o2} |-> 50]]
Yes == [enabled |-> TRUE, percentage |-> 51, plans |-> {"pro"}]
No == [enabled |-> FALSE, percentage |-> 50, plans |-> {"free"}]
MCValues == {NoValue, Yes, No}

Live1(type, value) == [state |-> "live", type |-> type, value |-> value, active |-> TRUE]

(* u1 owns o1 and u2, who has a Pro plan, is an administrator of it; o2,   *)
(* and the project p2 in it, belong to u2.                                 *)
Seed(verified, row, orgSubs) ==
  [user |-> [u \in Users |-> [allowed |-> TRUE, verified |-> verified \/ u = u1, version |-> 0]],
   org |-> [o \in Orgs |-> [live |-> TRUE, owner |-> IF o = o1 THEN u1 ELSE u2]],
   member |-> [o \in Orgs |-> [u \in Users |-> IF o = o2 THEN IF u = u2 THEN "OWNER" ELSE "none"
                                               ELSE IF u = u1 THEN "OWNER" ELSE "ADMIN"]],
   sub |-> [h \in Holders |-> IF h = u2 THEN <<[active |-> TRUE, plan |-> "pro"]>>
                              ELSE IF h = o1 THEN orgSubs ELSE <<>>],
   flag |-> [f \in FlagIds |-> IF f = f1 THEN row ELSE NoFlag],
   override |-> [f \in FlagIds |-> [o \in Orgs |-> NoOverride]],
   key |-> [k \in KeyIds |-> [NoKey EXCEPT !.exists = TRUE, !.scoped = TRUE]],
   project |-> [p \in Projects |-> [state |-> IF p = p3 THEN "none" ELSE "live",
                                    org |-> IF p = p2 THEN o2 ELSE o1, status |-> "ACTIVE"]]]

MCSeeds == {Seed(FALSE, NoFlag, <<>>),
            Seed(TRUE, Live1("PLAN", Yes), <<[active |-> TRUE, plan |-> "free"]>>)}

RoutesOf ==
  [rows |-> Routes, flags |-> {"export", "evaluate"}, keys |-> KeyRoutes,
   projects |-> {"create", "update", "delete", "get"}]

MCInit == Init /\ family \in Families /\ left = MaxWrites[family]

(* A slot serves one request; two of them run in family projects only,     *)
(* elsewhere it is u2 who asks for p1 of o1.                               *)
Asks(r) ==
  \/ req[r].answer = "open" /\ Continue(r)
  \/ /\ req[r].step = 0
     /\ \E route \in RoutesOf[family] :
          IF family # "projects" THEN r = r1 /\ Begin(r, route, u2, o1, k1, p1)
          ELSE \E u \in Users, o \in Orgs, p \in Projects : Begin(r, route, u, o, k1, p)

(* Rows that this request does not read stay as they are. *)
RowsStep ==
  /\ TenantStep
  /\ user'[u1] = user[u1] /\ org'[o2] = org[o2] /\ member'[o2] = member[o2]
  /\ sub'[o2] = sub[o2]

FlagsStep ==
  \E c \in FlagCalls :
    FlagStep(c) /\ fcall'[c].org = o1 /\ (fcall'[c].flag = f2 => fcall'[c].op = "create")

Begun(calls) == \E c \in DOMAIN calls : calls[c].op = "none" /\ calls'[c].op # "none"

MCNext ==
  /\ \/ \E r \in Requests : Asks(r)
     \/ family = "rows" /\ left > 0 /\ RowsStep
     \/ family = "flags" /\ FlagsStep
     \/ family = "keys" /\ KeyStep
  /\ left' = IF tvars' # tvars \/ Begun(fcall) \/ Begun(kcall) THEN left - 1 ELSE left
  /\ left' >= 0
  /\ UNCHANGED family

MCSpec == MCInit /\ [][MCNext]_<<vars, family, left>>

MCMaxWrites == [rows |-> 2, flags |-> 3, keys |-> 4, projects |-> 0]
Slots == Permutations(FlagCalls) \cup Permutations(KeyCalls)
=============================================================================
