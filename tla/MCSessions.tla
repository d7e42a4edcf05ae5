----------------------------- MODULE MCSessions -----------------------------
(* Instances of Sessions for TLC, with a history of overlapping requests. *)
EXTENDS Sessions, FiniteSets, TLC

VARIABLES
  overlap,  \* accounts that had two requests in flight at once
  family    \* the endpoints called in this behaviour

Symmetry == Permutations(Tokens) \cup Permutations(Requests)

(* Family one: the endpoints of one account, with two revoke-all events.   *)
(* Family two: those that name a token or a session, of two accounts, with *)
(* one revoke-all event each and no administrator.                         *)
OpsOf ==
  [one |-> {"google", "verify", "refresh", "resetPassword", "enable", "disable", "admin"},
   two |-> {"login", "refresh", "logout", "revokeSession", "revokeAll", "changePassword"}]
First == CHOOSE u \in Users : TRUE

Overlapping ==
  {u \in Users : \E q, r \in Requests :
                   q # r /\ InFlight(q) /\ InFlight(r) /\ req[q].user = u /\ req[r].user = u}

(* Sessions with its history, whatever the endpoints called.               *)
HistoryInit == Init /\ overlap = {}
HistoryNext == Next /\ overlap' = overlap \cup Overlapping'
HistorySpec == HistoryInit /\ [][HistoryNext]_<<vars, overlap>>

MCInit == HistoryInit /\ family \in DOMAIN OpsOf
MCNext ==
  /\ HistoryNext
  /\ UNCHANGED family
  /\ \A r \in Requests : InFlight(r)' =>
       req'[r].op \in OpsOf[family] /\ (family = "one" => req'[r].user = First)
  /\ \A u \in Users :
       /\ family = "one" /\ u # First => user'[u] = user[u]
       /\ family = "two" =>
            /\ epoch'[u].now <= 1
            /\ user'[u] = [user[u] EXCEPT !.tokenVersion = user'[u].tokenVersion]
MCSpec == MCInit /\ [][MCNext]_<<vars, overlap, family>>

(* Rotation is a chain: a refresh token has at most one successor, issued  *)
(* or about to be, as long as no two requests of its account overlapped.   *)
OneSuccessorSerial ==
  \A t \in Tokens :
    rt[t].owner \notin overlap =>
      Cardinality({s \in Tokens : rt[s].parent = t}) +
      Cardinality({r \in Requests : /\ req[r].op = "refresh" /\ req[r].pc = "issue"
                                    /\ req[r].tok = t}) <= 1

(* A session does not outlive a revoke-all of its account, as long as no   *)
(* two requests of the account overlapped.                                 *)
RevokeAllSerial ==
  \A t \in Tokens :
    rt[t].status = "live" /\ rt[t].owner \notin overlap =>
      rt[t].authEpoch = epoch[rt[t].owner].now
=============================================================================
