------------------------------- MODULE Access -------------------------------
(***************************************************************************)
(* A request on the project routes and on the flag evaluation endpoint:    *)
(* its chain of guards, then its handler, over the rows of modules         *)
(* Tenants, FeatureFlags and ApiKeys, which change while it runs.  A       *)
(* request is at one element of its chain; an element is one await, with   *)
(* the guards that only look at what it read.                              *)
(***************************************************************************)
EXTENDS FeatureFlags, ApiKeys

CONSTANTS Requests, Projects,
          ExportKey,  \* projects_export
          Seeds       \* contents of the tables at the start

VARIABLES
  project,  \* projects rows
  req,      \* requests
  seen      \* history of each request

vars == <<tvars, fvars, kvars, project, req, seen>>

-----------------------------------------------------------------------------
(* Routes *)

Chain == [
  list      |-> <<"authenticate", "requireTenant", "list">>,
  get       |-> <<"authenticate", "requireTenant", "get">>,
  create    |-> <<"authenticate", "requireTenant", "create">>,
  update    |-> <<"authenticate", "requireTenant", "findLive", "update">>,
  delete    |-> <<"authenticate", "requireTenant", "findLive", "delete">>,
  export    |-> <<"authenticate", "requireTenant", "requireSubscription", "readFlag",
                  "readOverride", "list">>,
  analytics |-> <<"authenticate", "requireTenant", "requireOrgSubscription", "list">>,
  keyList   |-> <<"authenticateApiKey", "requireTenant", "list">>,
  keyGet    |-> <<"authenticateApiKey", "requireTenant", "get">>,
  evaluate  |-> <<"authenticate", "readOrgPlan", "readOwnerPlan", "readFlag", "readOverride">>]

Routes == DOMAIN Chain
KeyRoutes == {"keyList", "keyGet"}

(* requireOrgRole, by route *)
Allowed(route) ==
  CASE route \in {"create", "update"} -> {"OWNER", "ADMIN"}
    [] route = "delete" -> {"OWNER"}
    [] OTHER -> Roles

PaidPlans == {"pro", "enterprise"}

(* Who has to have the paid plan: nobody, the caller or the organization. *)
Payer(r) ==
  CASE req[r].route = "export" -> {req[r].user}
    [] req[r].route = "analytics" -> {req[r].org}
    [] OTHER -> {}

(* step: index in the chain; 0: free.  answer: "open" until the end.       *)
(* plan: req.subscription.  row: the flag that the first query read.       *)
Request == [route : Routes, step : 0..6, answer : {"open", "served", "denied"},
            user : Users, version : Nat, key : KeyIds, org : Orgs, project : Projects,
            plan : Plans \cup {NoPlan}, flag : FlagIds, row : Flag, enabled : BOOLEAN]

Project == [state : {"none", "live", "deleted"}, org : Orgs, status : {"ACTIVE", "ARCHIVED"}]

Guards == {"caller", "tenant", "payer"}

(* held: guards that held at some moment since the request began.  quiet:  *)
(* nothing was written since.  entitled, revoked: as the request began.    *)
(* answers: what the flag evaluates to at the moments from its first query *)
(* to its second; changes, deleted: the writes between the two.            *)
Seen == [held : SUBSET Guards, quiet : BOOLEAN, entitled : BOOLEAN, revoked : BOOLEAN,
         answers : SUBSET BOOLEAN, changes : 0..2, deleted : BOOLEAN]
Unseen == [held |-> {}, quiet |-> FALSE, entitled |-> FALSE, revoked |-> FALSE,
           answers |-> {}, changes |-> 0, deleted |-> FALSE]

NoFlag == [state |-> "none", type |-> "BOOLEAN", value |-> NoValue, active |-> FALSE]
NoRequest == [route |-> "list", step |-> 0, answer |-> "open", user |-> CHOOSE u \in Users : TRUE,
              version |-> 0, key |-> CHOOSE k \in KeyIds : TRUE, org |-> CHOOSE o \in Orgs : TRUE,
              project |-> CHOOSE p \in Projects : TRUE, plan |-> NoPlan,
              flag |-> CHOOSE f \in FlagIds : TRUE, row |-> NoFlag, enabled |-> FALSE]

ASSUME AccessConstants ==
  /\ {} \notin {Users, Orgs, FlagIds, KeyIds, Projects}
  /\ ExportKey \in Keys
  /\ Seeds \subseteq
       [user : [Users -> User], org : [Orgs -> Org], member : [Orgs -> [Users -> Roles \cup {"none"}]],
        sub : [Holders -> Seq(Subscription)], flag : [FlagIds -> Flag],
        override : [FlagIds -> [Orgs -> Override]], key : [KeyIds -> Key],
        project : [Projects -> Project]]

(* feature_flags.key is unique. *)
ASSUME SeedsUnique ==
  \A s \in Seeds : \A f, g \in FlagIds :
    s.flag[f].state = "live" /\ s.flag[g].state = "live" /\ KeyOf[f] = KeyOf[g] => f = g

TypeOK ==
  /\ TTypeOK /\ FTypeOK /\ KTypeOK
  /\ project \in [Projects -> Project]
  /\ req \in [Requests -> Request]
  /\ seen \in [Requests -> Seen]

Step(r) == Chain[req[r].route][req[r].step]
Doing(r, step) == req[r].answer = "open" /\ req[r].step > 0 /\ Step(r) = step

Init ==
  /\ \E s \in Seeds : /\ user = s.user /\ org = s.org /\ member = s.member /\ sub = s.sub
                      /\ flag = s.flag /\ override = s.override /\ key = s.key
                      /\ project = s.project
  /\ fcall = [c \in FlagCalls |-> NoCall]
  /\ kcall = [c \in KeyCalls |-> NoKeyCall]
  /\ req = [r \in Requests |-> NoRequest]
  /\ seen = [r \in Requests |-> Unseen]

Free(r) == req[r].step = 0 \/ req[r].answer # "open"
Denied(r) == req' = [req EXCEPT ![r].answer = "denied"]
Served(r) == req' = [req EXCEPT ![r].answer = "served"]

(* On to the next element of the chain, with what this one has read. *)
Passes(r, new) == req' = [req EXCEPT ![r] = [new EXCEPT !.step = @ + 1]]

-----------------------------------------------------------------------------
(* What the guards check *)

(* authenticate, then requireVerifiedEmail on the same row, which the      *)
(* evaluation endpoint does not ask for                                    *)
UserAccepted(u, version, route) ==
  /\ user[u].allowed
  /\ user[u].version = version
  /\ user[u].verified \/ route = "evaluate"

(* requireTenant, then requireOrgRole on the role it read *)
TenantAccepted(o, u, route) == org[o].live /\ member[o][u] \in Allowed(route)

(* Mutant: the lookup goes by the project id alone. *)
FindLiveUnscoped(p, o) == project[p].state = "live"

FindLive(p, o) == project[p].state = "live" /\ project[p].org = o

(* p is the plan of the newest active subscription of h. *)
Newest(h, p) ==
  \E i \in DOMAIN sub[h] :
    /\ sub[h][i] = [active |-> TRUE, plan |-> p]
    /\ \A k \in DOMAIN sub[h] : k > i => ~sub[h][k].active

Holds(g, r) ==
  LET q == req[r] IN
  CASE g = "caller" -> IF q.route \in KeyRoutes THEN KeyAccepted(q.key)
                       ELSE UserAccepted(q.user, q.version, q.route)
    [] g = "tenant" -> q.route = "evaluate" \/ TenantAccepted(q.org, q.user, q.route)
    [] g = "payer" -> \A h \in Payer(r) : \E p \in PaidPlans : Newest(h, p)

(* What the types of flags promise: a switch; the first percent of the     *)
(* hundred buckets; the plans named, or all of them if none is.            *)
SwitchedOn(type, value, plan, k, o) ==
  \/ type = "BOOLEAN" /\ value.enabled
  \/ type = "PERCENTAGE" /\ Bucket[k][o] < value.percentage
  \/ type = "PLAN" /\ (value.plans = {} \/ plan \in value.plans)

(* The evaluation of a flag in one moment: an override, if there is one,   *)
(* switches the flag off or replaces its value.                            *)
Reference(k, plan, o) ==
  \E f \in FlagIds :
    LET over == override[f][o]
        value == IF over.exists THEN over.value ELSE flag[f].value
    IN /\ Live(f) /\ KeyOf[f] = k /\ flag[f].active
       /\ over.exists => over.enabled
       /\ SwitchedOn(flag[f].type, value, plan, k, o)

(* The plan that counts for an organization, at the evaluation endpoint *)
EndpointPlan(o) == IF PlanOf(o) # NoPlan THEN PlanOf(o) ELSE PlanOf(org[o].owner)

(* The whole chain in one moment. *)
Entitled(r) ==
  LET q == req[r] IN
  /\ \A g \in Guards : Holds(g, r)
  /\ q.route \in {"get", "keyGet", "update", "delete"} => FindLive(q.project, q.org)
  /\ q.route = "export" => \E p \in PaidPlans : Newest(q.user, p) /\ Reference(ExportKey, p, q.org)
  /\ q.route = "evaluate" => Reference(ExportKey, EndpointPlan(q.org), q.org)

-----------------------------------------------------------------------------
(* Requests *)

NothingElse == UNCHANGED <<tvars, fvars, kvars>>
Silent == NothingElse /\ UNCHANGED <<project, seen>>

(* A token carries the version of its account at an earlier moment, a key  *)
(* the id of its owner.                                                    *)
Begin(r, route, u, o, k, p) ==
  /\ Free(r)
  /\ NothingElse /\ UNCHANGED project
  /\ route \in KeyRoutes => key[k].exists /\ u = KeyOwner[k]
  /\ \E v \in 0..user[u].version :
       req' = [req EXCEPT ![r] = [@ EXCEPT !.route = route, !.step = 1, !.answer = "open",
                 !.user = u, !.version = v, !.key = k, !.org = o, !.project = p,
                 !.plan = NoPlan, !.row = NoFlag, !.enabled = FALSE]]
  /\ seen' = [seen EXCEPT ![r] = [held |-> {g \in Guards : Holds(g, r)'}, quiet |-> TRUE,
                entitled |-> Entitled(r)', revoked |-> route \in KeyRoutes /\ key[k].revoked,
                answers |-> {}, changes |-> 0, deleted |-> FALSE]]

authenticate(r) ==
  /\ Doing(r, "authenticate")
  /\ IF UserAccepted(req[r].user, req[r].version, req[r].route)
     THEN Passes(r, req[r]) ELSE Denied(r)
  /\ Silent

authenticateApiKey(r) ==
  /\ Doing(r, "authenticateApiKey")
  /\ IF KeyAccepted(req[r].key) THEN Passes(r, req[r]) ELSE Denied(r)
  /\ Silent

(* Mutant: a soft-deleted organization is let through. *)
requireTenantIncludeDeleted(r) ==
  /\ Doing(r, "requireTenant")
  /\ IF member[req[r].org][req[r].user] \in Allowed(req[r].route)
     THEN Passes(r, req[r]) ELSE Denied(r)
  /\ Silent

requireTenant(r) ==
  /\ Doing(r, "requireTenant")
  /\ IF TenantAccepted(req[r].org, req[r].user, req[r].route)
     THEN Passes(r, req[r]) ELSE Denied(r)
  /\ Silent

(* requireSubscription or requireOrgSubscription, then requirePlan on the  *)
(* subscription that it put on the request                                 *)
SubscriptionGate(r, holder) ==
  /\ IF PlanOf(holder) \in PaidPlans
     THEN Passes(r, [req[r] EXCEPT !.plan = PlanOf(holder)]) ELSE Denied(r)
  /\ Silent

requireSubscription(r) ==
  Doing(r, "requireSubscription") /\ SubscriptionGate(r, req[r].user)

requireOrgSubscription(r) ==
  Doing(r, "requireOrgSubscription") /\ SubscriptionGate(r, req[r].org)

(* The evaluation endpoint looks for the organization's own subscription,  *)
(* then for one of its owner.                                              *)
ReadOrgPlan(r) ==
  /\ Doing(r, "readOrgPlan")
  /\ IF PlanOf(req[r].org) = NoPlan THEN Passes(r, req[r])
     ELSE Passes(r, [req[r] EXCEPT !.plan = PlanOf(req[r].org), !.step = @ + 1])
  /\ Silent

ReadOwnerPlan(r) ==
  /\ Doing(r, "readOwnerPlan")
  /\ Passes(r, [req[r] EXCEPT !.plan = PlanOf(org[req[r].org].owner)])
  /\ Silent

(* evaluateFlag, first query.  requireFeatureFlag denies a request whose   *)
(* flag is off; the endpoint answers it.                                   *)
Evaluated(r, enabled) ==
  req' = [req EXCEPT ![r] =
    LET q == [@ EXCEPT !.enabled = enabled, !.row = NoFlag]
    IN IF q.route = "evaluate" THEN [q EXCEPT !.answer = "served"]
       ELSE IF enabled THEN [q EXCEPT !.step = @ + 1]
       ELSE [q EXCEPT !.answer = "denied"]]

readFlag(r) ==
  /\ Doing(r, "readFlag")
  /\ \/ \E f \in FlagByKey(ExportKey) :
          flag[f].active /\ Passes(r, [req[r] EXCEPT !.flag = f, !.row = flag[f]])
     \/ (\A f \in FlagByKey(ExportKey) : ~flag[f].active) /\ Evaluated(r, FALSE)
  /\ seen' = [seen EXCEPT ![r].answers = {Reference(ExportKey, req[r].plan, req[r].org)},
                          ![r].changes = 0, ![r].deleted = FALSE]
  /\ NothingElse /\ UNCHANGED project

readOverride(r) ==
  /\ Doing(r, "readOverride")
  /\ Evaluated(r, WithOverride(req[r].flag, req[r].row, req[r].plan, req[r].org))
  /\ Silent

(* Handlers that read *)
ListProjects(r) == Doing(r, "list") /\ Served(r) /\ Silent

getProject(r) ==
  /\ Doing(r, "get")
  /\ IF FindLive(req[r].project, req[r].org) THEN Served(r) ELSE Denied(r)
  /\ Silent

findLive(r) ==
  /\ Doing(r, "findLive")
  /\ IF FindLive(req[r].project, req[r].org) THEN Passes(r, req[r]) ELSE Denied(r)
  /\ Silent

-----------------------------------------------------------------------------
(* Writes, which the other requests may notice *)

(* Every write extends the history of the requests in flight.  A request   *)
(* between its two queries on a flag also counts the changes it misses.    *)
Noticed(r, deleted) ==
  LET torn == Doing(r, "readOverride") IN
  IF Free(r) THEN [seen[r] EXCEPT !.quiet = FALSE]
  ELSE [seen[r] EXCEPT
          !.quiet = FALSE,
          !.held = @ \cup {g \in Guards : Holds(g, r)'},
          !.answers = IF torn THEN @ \cup {Reference(ExportKey, req[r].plan, req[r].org)'} ELSE @,
          !.changes = IF torn /\ @ < 2 THEN @ + 1 ELSE @,
          !.deleted = @ \/ (torn /\ deleted)]

Notice(deleted) ==
  /\ UNCHANGED <<project, req>>
  /\ seen' = [r \in Requests |-> Noticed(r, deleted)]

TenantStep == TenantsNext /\ UNCHANGED <<fvars, kvars>> /\ Notice(FALSE)

FlagStep(c) ==
  /\ UNCHANGED <<tvars, kvars>>
  /\ \/ FlagsQuiet(c) /\ UNCHANGED <<project, req, seen>>
     \/ FlagWrite(c) /\ Notice(fcall[c].op = "delete")

KeyStep ==
  /\ UNCHANGED <<tvars, fvars>>
  /\ \/ (\E c \in KeyCalls : KeysQuiet(c)) /\ UNCHANGED <<project, req, seen>>
     \/ KeyWrite /\ Notice(FALSE)

(* The handlers that write a project *)
ProjectWritten(r, p, row) ==
  /\ project' = [project EXCEPT ![p] = row]
  /\ req' = [req EXCEPT ![r].answer = "served", ![r].project = p]
  /\ seen' = [s \in Requests |-> IF s = r THEN seen[s] ELSE [seen[s] EXCEPT !.quiet = FALSE]]
  /\ NothingElse

createProject(r, p) ==
  /\ Doing(r, "create") /\ project[p].state = "none"
  /\ ProjectWritten(r, p, [state |-> "live", org |-> req[r].org, status |-> "ACTIVE"])

(* The row was found alive; the write goes by its id alone. *)
updateProject(r, status) ==
  /\ Doing(r, "update")
  /\ ProjectWritten(r, req[r].project, [project[req[r].project] EXCEPT !.status = status])

deleteProject(r) ==
  /\ Doing(r, "delete")
  /\ ProjectWritten(r, req[r].project, [project[req[r].project] EXCEPT !.state = "deleted"])

-----------------------------------------------------------------------------

Continue(r) ==
  \/ authenticate(r) \/ authenticateApiKey(r) \/ requireTenant(r)
  \/ requireSubscription(r) \/ requireOrgSubscription(r)
  \/ ReadOrgPlan(r) \/ ReadOwnerPlan(r) \/ readFlag(r) \/ readOverride(r)
  \/ ListProjects(r) \/ getProject(r) \/ findLive(r)
  \/ \E p \in Projects : createProject(r, p)
  \/ \E status \in {"ACTIVE", "ARCHIVED"} : updateProject(r, status)
  \/ deleteProject(r)

RequestStep(r) ==
  \/ Continue(r)
  \/ \E route \in Routes, u \in Users, o \in Orgs, k \in KeyIds, p \in Projects :
       Begin(r, route, u, o, k, p)

Next ==
  \/ \E r \in Requests : RequestStep(r)
  \/ TenantStep \/ KeyStep
  \/ \E c \in FlagCalls : FlagStep(c)

Spec == Init /\ [][Next]_vars

-----------------------------------------------------------------------------
(* Properties *)

(* A request that was served passed every guard of its route with rows     *)
(* that were true at some moment since it began, whatever was written in   *)
(* between its awaits (project.router.js): nothing it was let through with *)
(* is older than the request.                                              *)
GuardsHeld == \A r \in Requests : req[r].answer = "served" => seen[r].held = Guards

(* If nothing was written while it ran, a request is granted exactly if    *)
(* its caller, membership, role, plan, flag and project allow it           *)
(* (auth, tenant, subscription, featureflag and apiKey middleware).        *)
Granted(r) == req[r].answer = "served" /\ (req[r].route = "evaluate" => req[r].enabled)
AnswerExact ==
  \A r \in Requests : req[r].answer # "open" /\ seen[r].quiet => (Granted(r) <=> seen[r].entitled)

(* The two queries of an evaluation give the answer of one moment if at    *)
(* most one write fell between them and it did not delete the flag, which  *)
(* takes the overrides along (featureflag.service.js, evaluateFlag).       *)
EvaluateLinear ==
  \A r \in Requests :
    /\ req[r].answer # "open" \/ Doing(r, "list")
    /\ seen[r].answers # {} /\ seen[r].changes <= 1 /\ ~seen[r].deleted
    => req[r].enabled \in seen[r].answers

(* A request that began after its key was revoked is not served, whatever  *)
(* deletions and restorations of the key cross the revocation              *)
(* (apikey.service.js).                                                    *)
RevokedRefused ==
  \A r \in Requests : seen[r].revoked => req[r].answer # "served"

(* A project is written only by a request of its own organization that its *)
(* guards let through; it is never moved, and a deleted one never comes    *)
(* back, though a late update may still reach it (project.service.js).     *)
ProjectWrites ==
  [][\A p \in Projects : project'[p] # project[p] =>
       /\ project[p].state # "none" => project'[p].org = project[p].org
       /\ project[p].state = "deleted" => project'[p].state = "deleted"
       /\ \E r \in Requests : /\ req'[r].answer = "served" /\ req[r].answer = "open"
                              /\ req[r].org = project'[p].org
                              /\ seen[r].held = Guards]_vars
=============================================================================
