--------------------------- MODULE SessionsProofs ---------------------------
(***************************************************************************)
(* Sessions: the type invariant and the two containment properties, for    *)
(* any number of accounts, tokens and requests and any bound MaxEpoch.     *)
(* IndInv is inductive: a step either leaves every row at least as revoked *)
(* as it was and every tokenVersion and epoch alone (RowsKept,             *)
(* RequestsKept), or issues one token, or is a revoke-all.                 *)
(*                                                                         *)
(* With the history of overlapping requests of MCSessions: no session      *)
(* outlives a revoke-all, and rotation is a chain.                         *)
(***************************************************************************)
EXTENDS MCSessions, FiniteSetTheorems, TLAPS

-----------------------------------------------------------------------------
(* Lemmas on the records the actions build.                                *)

(* Single-field updates of a request and of a row keep their types.        *)
LEMMA RequestUpdate ==
  ASSUME NEW q \in Request
  PROVE  /\ [q EXCEPT !.crossed = TRUE] \in Request
         /\ \A p \in {"issue", "finish"} : [q EXCEPT !.pc = p] \in Request
         /\ q.user \in Users /\ q.version \in Nat /\ q.authEpoch \in Nat
         /\ q.tok \in Tokens \cup {NoToken}
         /\ q.crossed \in BOOLEAN /\ q.late \in BOOLEAN /\ q.op \in AllOps
BY DEF Request, AllOps

LEMMA RowUpdate ==
  ASSUME NEW w \in TokenRow
  PROVE  /\ \A s \in {"revoked", "deleted"} : [w EXCEPT !.status = s] \in TokenRow
         /\ [w EXCEPT !.expired = TRUE] \in TokenRow
         /\ [w EXCEPT !.returned = TRUE] \in TokenRow
         /\ w.owner \in Users /\ w.version \in Nat /\ w.authEpoch \in Nat
         /\ w.crossed \in BOOLEAN /\ w.late \in BOOLEAN
BY DEF TokenRow

LEMMA UserUpdate ==
  ASSUME NEW w \in UserRow, NEW b \in BOOLEAN, NEW c \in BOOLEAN
  PROVE  LET v == [w EXCEPT !.tokenVersion = w.tokenVersion + 1,
                            !.reset = b, !.twoFactorEnabled = c]
         IN  v \in UserRow /\ v.tokenVersion = w.tokenVersion + 1
<1> DEFINE w1 == [w EXCEPT !.tokenVersion = w.tokenVersion + 1]
           w2 == [w1 EXCEPT !.reset = b]
           w3 == [w2 EXCEPT !.twoFactorEnabled = c]
<1>1. w1 \in UserRow /\ w1.tokenVersion = w.tokenVersion + 1
  BY DEF UserRow
<1> HIDE DEF w1
<1>2. w2 \in UserRow /\ w2.tokenVersion = w1.tokenVersion
  BY <1>1 DEF UserRow
<1> HIDE DEF w2
<1>3. w3 \in UserRow /\ w3.tokenVersion = w2.tokenVersion
  BY <1>2 DEF UserRow
<1> QED BY <1>1, <1>2, <1>3 DEF w1, w2

LEMMA IdleType ==
  ASSUME NEW u \in Users
  PROVE  IdleRequest(u) \in Request /\ IdleRequest(u).pc = "idle"
BY DEF Request, AllOps, IdleRequest

(* Ending a request keeps the requests well typed and the others as they   *)
(* are.                                                                    *)
LEMMA FinishedFacts ==
  ASSUME TypeOK, NEW r \in Requests
  PROVE  /\ Finished(r) \in [Requests -> Request]
         /\ Finished(r)[r].pc = "idle"
         /\ \A q \in Requests : q # r => Finished(r)[q] = req[q]
<1>1. req[r].user \in Users
  BY RequestUpdate DEF TypeOK
<1>2. IdleRequest(req[r].user) \in Request /\ IdleRequest(req[r].user).pc = "idle"
  BY <1>1, IdleType
<1> QED BY <1>2 DEF TypeOK, Finished

(* Where a request may be after its first read. *)
FirstPC == {"stamp", "issue", "reuse", "retire", "rotate", "commit"}

(* A request that has just read u's row carries its version and epoch.     *)
LEMMA StartedFacts ==
  ASSUME TypeOK, NEW r \in Requests, NEW op \in AllOps, NEW pc \in FirstPC,
         NEW u \in Users, NEW t \in Tokens \cup {NoToken}
  PROVE  \E q \in Request :
           /\ Started(r, op, pc, u, t) = [req EXCEPT ![r] = q]
           /\ q.pc = pc /\ q.user = u /\ q.version = user[u].tokenVersion
           /\ q.authEpoch = epoch[u].now /\ ~q.crossed /\ ~q.late
<1> DEFINE q == [pc |-> pc, op |-> op, user |-> u, tok |-> t,
                 version |-> user[u].tokenVersion, authEpoch |-> epoch[u].now,
                 crossed |-> FALSE, late |-> FALSE]
<1>1. user[u].tokenVersion \in Nat /\ epoch[u].now \in Nat
  BY SessionConstants DEF TypeOK, UserRow
<1>2. q \in Request
  BY <1>1 DEF Request, FirstPC
<1>3. /\ q.pc = pc /\ q.user = u /\ q.version = user[u].tokenVersion
      /\ q.authEpoch = epoch[u].now /\ ~q.crossed /\ ~q.late
  OBVIOUS
<1>4. Started(r, op, pc, u, t) = [req EXCEPT ![r] = q]
  BY DEF Started
<1> HIDE DEF q
<1> QED BY <1>2, <1>3, <1>4

(* A revoke-all keeps the requests well typed. *)
LEMMA OvertakenType ==
  ASSUME TypeOK, NEW r \in Requests, NEW u \in Users
  PROVE  Overtaken(r, u) \in [Requests -> Request]
BY RequestUpdate, IdleType DEF TypeOK, Overtaken

(* What revoking one row does to the table. *)
LEMMA RevokedRowFacts ==
  ASSUME TypeOK, NEW t \in Tokens \cup {NoToken}
  PROVE  /\ RevokedRow(t) \in [Tokens -> TokenRow]
         /\ \A w \in Tokens :
              \/ RevokedRow(t)[w] = rt[w]
              \/ /\ RevokedRow(t)[w] = [rt[w] EXCEPT !.status = "revoked"]
                 /\ RowExists(w)
<1>1. CASE t \in Tokens /\ RowExists(t)
  <2>1. [rt[t] EXCEPT !.status = "revoked"] \in TokenRow
    BY <1>1, RowUpdate DEF TypeOK
  <2>2. RevokedRow(t) = [rt EXCEPT ![t] = [rt[t] EXCEPT !.status = "revoked"]]
    BY <1>1 DEF TypeOK, RevokedRow
  <2> QED BY <1>1, <2>1, <2>2 DEF TypeOK
<1>2. CASE ~(t \in Tokens /\ RowExists(t))
  <2>1. RevokedRow(t) = rt BY <1>2 DEF RevokedRow, TypeOK, TokenRow
  <2> QED BY <2>1 DEF TypeOK
<1> QED BY <1>1, <1>2

(* What revoking every row of u does to the table. *)
LEMMA RevokedRowsFacts ==
  ASSUME TypeOK, NEW u \in Users
  PROVE  /\ RevokedRows(u) \in [Tokens -> TokenRow]
         /\ \A w \in Tokens :
              \/ RevokedRows(u)[w] = rt[w] /\ (rt[w].owner # u \/ rt[w].status # "live")
              \/ /\ RevokedRows(u)[w] = [rt[w] EXCEPT !.status = "revoked"]
                 /\ rt[w].status = "live" /\ rt[w].owner = u
BY RowUpdate DEF TypeOK, RevokedRows

-----------------------------------------------------------------------------
(* Steps that issue nothing and revoke at most some rows. *)

(* Row w is row v with, at most, its status lowered, its expiry passed or  *)
(* its tokens handed to the client.                                        *)
Lowered(w, v) ==
  /\ w.owner = v.owner /\ w.version = v.version /\ w.authEpoch = v.authEpoch
  /\ w.crossed = v.crossed /\ w.late = v.late /\ w.parent = v.parent
  /\ w.status = v.status \/ (v.status # "unused" /\ w.status \in {"revoked", "deleted"})
  /\ w.returned = v.returned \/ v.status # "unused"

(* The row updates of the actions lower a row. *)
LEMMA LoweredRows ==
  ASSUME NEW v \in TokenRow
  PROVE  /\ Lowered(v, v)
         /\ v.status # "unused" =>
              /\ Lowered([v EXCEPT !.status = "revoked"], v)
              /\ Lowered([v EXCEPT !.status = "deleted"], v)
              /\ Lowered([v EXCEPT !.returned = TRUE], v)
         /\ Lowered([v EXCEPT !.expired = TRUE], v)
BY DEF Lowered, TokenRow

(* The step leaves versions and epochs alone and lowers rows. *)
Quiet ==
  /\ rt' \in [Tokens -> TokenRow]
  /\ user' \in [Users -> UserRow]
  /\ \A t \in Tokens : Lowered(rt'[t], rt[t])
  /\ \A u \in Users : user'[u].tokenVersion = user[u].tokenVersion
  /\ epoch' = epoch

(* Such a step keeps what is known of every token. *)
LEMMA RowsKept ==
  ASSUME IndInv, Quiet
  PROVE  \A t \in Tokens : TokenOK(t)'
<1> SUFFICES ASSUME NEW t \in Tokens PROVE TokenOK(t)'
  OBVIOUS
<1>1. Lowered(rt'[t], rt[t]) /\ TokenOK(t)
  BY DEF IndInv, Quiet
<1>2. rt[t].owner \in Users
  BY RowUpdate DEF IndInv, TypeOK
<1> QED BY <1>1, <1>2 DEF Lowered, TokenOK, Quiet

(* And of every request that it leaves as it was or ends. *)
LEMMA RequestKept ==
  ASSUME IndInv, Quiet, NEW q \in Requests,
         \/ req'[q] = req[q]
         \/ req'[q].pc \in {"idle", "reuse", "retire", "commit"}
  PROVE  RequestOK(q)'
<1>1. CASE req'[q] = req[q]
  <2>1. RequestOK(q) /\ req[q].user \in Users
    BY RequestUpdate DEF IndInv, TypeOK
  <2>2. req[q].tok \in Tokens => (rt[req[q].tok].status # "unused"
                                    => rt'[req[q].tok].status # "unused")
    BY DEF Quiet, Lowered
  <2> QED BY <1>1, <2>1, <2>2 DEF RequestOK, Quiet
<1>2. CASE req'[q].pc \in {"idle", "reuse", "retire", "commit"}
  BY <1>2 DEF RequestOK
<1> QED BY <1>1, <1>2

(* Together: a quiet step in which only r moves, and r ends.               *)
LEMMA QuietFinish ==
  ASSUME IndInv, Quiet, NEW r \in Requests, req' = Finished(r)
  PROVE  IndInv'
<1>1. TypeOK'
  BY FinishedFacts DEF IndInv, TypeOK, Quiet
<1>2. \A q \in Requests : RequestOK(q)'
  BY RequestKept, FinishedFacts DEF IndInv
<1> QED BY <1>1, <1>2, RowsKept DEF IndInv, Quiet

(* A quiet step in which no request moves. *)
LEMMA QuietStutter ==
  ASSUME IndInv, Quiet, UNCHANGED req
  PROVE  IndInv'
<1>1. TypeOK'
  BY DEF IndInv, TypeOK, Quiet
<1>2. \A q \in Requests : RequestOK(q)'
  BY RequestKept
<1> QED BY <1>1, <1>2, RowsKept DEF IndInv, Quiet

(* A step that changes requests only is quiet. *)
LEMMA QuietRequests ==
  ASSUME IndInv, UNCHANGED <<user, rt, epoch>>
  PROVE  Quiet
BY LoweredRows DEF IndInv, TypeOK, Quiet

-----------------------------------------------------------------------------
(* Steps that start a request or move one on. *)

(* The first read of a request that is not a refresh. *)
LEMMA StartStep ==
  ASSUME IndInv, UNCHANGED <<user, rt, epoch>>,
         NEW r \in Requests, NEW u \in Users, NEW op \in AllOps,
         NEW pc \in {"stamp", "issue", "commit"}, NEW t \in Tokens \cup {NoToken},
         req' = Started(r, op, pc, u, t)
  PROVE  IndInv'
<1>1. Quiet
  BY QuietRequests
<1>0. PICK q \in Request :
        /\ req' = [req EXCEPT ![r] = q]
        /\ q.pc = pc /\ q.user = u /\ q.version = user[u].tokenVersion
        /\ q.authEpoch = epoch[u].now /\ ~q.crossed /\ ~q.late
  <2>1. TypeOK /\ pc \in FirstPC
    BY DEF IndInv, FirstPC
  <2> QED BY <2>1, StartedFacts
<1>2. TypeOK'
  BY <1>0 DEF IndInv, TypeOK
<1>3. RequestOK(r)'
  <2>1. user[u].tokenVersion \in Nat /\ epoch[u].kill <= epoch[u].now
    BY DEF IndInv, TypeOK, UserRow
  <2>2. epoch[u].now \in Nat /\ epoch[u].kill \in Nat
    BY SessionConstants DEF IndInv, TypeOK
  <2>3. req'[r] = q
    BY <1>0 DEF IndInv, TypeOK
  <2> QED BY <1>0, <2>1, <2>2, <2>3 DEF RequestOK
<1>4. \A p \in Requests : p # r => req'[p] = req[p]
  BY <1>0 DEF IndInv, TypeOK
<1> QED BY <1>1, <1>2, <1>3, <1>4, RowsKept, RequestKept DEF IndInv, Quiet

(* The first read of a refresh: a session whose token is live and not      *)
(* crossed passes the current epoch on.                                    *)
LEMMA RefreshReadStep ==
  ASSUME IndInv, NEW r \in Requests, NEW t \in Tokens, RefreshRead(r, t)
  PROVE  IndInv'
<1>1. Quiet
  BY QuietRequests DEF RefreshRead
<1>2. PICK pc \in {"reuse", "retire", "rotate"} :
        /\ req' = [Started(r, "refresh", pc, rt[t].owner, t) EXCEPT
                     ![r].authEpoch = rt[t].authEpoch, ![r].late = rt[t].crossed]
        /\ pc = "rotate" => rt[t].status = "live"
  BY DEF RefreshRead
<1>3. /\ rt[t].owner \in Users /\ rt[t].authEpoch \in Nat
      /\ rt[t].crossed \in BOOLEAN
  BY RowUpdate DEF IndInv, TypeOK
<1>4. PICK s \in Request :
        /\ Started(r, "refresh", pc, rt[t].owner, t) = [req EXCEPT ![r] = s]
        /\ s.pc = pc /\ s.user = rt[t].owner
        /\ s.version = user[rt[t].owner].tokenVersion
        /\ s.authEpoch = epoch[rt[t].owner].now /\ ~s.crossed /\ ~s.late
  <2>1. TypeOK /\ pc \in FirstPC /\ t \in Tokens \cup {NoToken}
    BY DEF IndInv, FirstPC
  <2>2. PICK u \in Users : u = rt[t].owner
    BY <1>3
  <2>3. PICK op \in AllOps : op = "refresh"
    BY DEF AllOps
  <2>4. \E q \in Request :
          /\ Started(r, op, pc, u, t) = [req EXCEPT ![r] = q]
          /\ q.pc = pc /\ q.user = u /\ q.version = user[u].tokenVersion
          /\ q.authEpoch = epoch[u].now /\ ~q.crossed /\ ~q.late
    BY <2>1, StartedFacts
  <2> QED BY <2>2, <2>3, <2>4
<1> DEFINE q == [s EXCEPT !.authEpoch = rt[t].authEpoch, !.late = rt[t].crossed]
<1>5. /\ q \in Request /\ q.pc = pc /\ q.user = rt[t].owner
      /\ q.version = user[rt[t].owner].tokenVersion
      /\ ~q.crossed /\ q.late = rt[t].crossed /\ q.authEpoch = rt[t].authEpoch
  BY <1>3, <1>4 DEF Request
<1>6. req' = [req EXCEPT ![r] = q]
  BY <1>2, <1>4 DEF IndInv, TypeOK
<1> HIDE DEF q
<1>7. TypeOK'
  BY <1>5, <1>6 DEF IndInv, TypeOK, RefreshRead
<1>8. req'[r] = q
  BY <1>6 DEF IndInv, TypeOK
<1>9. RequestOK(r)'
  <2>1. TokenOK(t) /\ UNCHANGED <<user, epoch, rt>>
    BY DEF IndInv, RefreshRead
  <2>2. /\ epoch[rt[t].owner].kill <= epoch[rt[t].owner].now
        /\ user[rt[t].owner].tokenVersion \in Nat
    BY <1>3 DEF IndInv, TypeOK, UserRow
  <2>3. CASE pc = "rotate"
    <3>1. ~rt[t].crossed => rt[t].authEpoch = epoch[rt[t].owner].now
      BY <1>2, <2>1, <2>3 DEF TokenOK
    <3>2. epoch[rt[t].owner].kill \in Nat /\ epoch[rt[t].owner].now \in Nat
      BY <1>3, SessionConstants DEF IndInv, TypeOK
    <3> QED BY <1>3, <1>5, <1>8, <2>1, <2>2, <2>3, <3>1, <3>2 DEF RequestOK
  <2>4. CASE pc # "rotate"
    BY <1>2, <1>5, <1>8, <2>4 DEF RequestOK
  <2> QED BY <2>3, <2>4
<1>10. \A p \in Requests : p # r => req'[p] = req[p]
  BY <1>6 DEF IndInv, TypeOK
<1> QED BY <1>1, <1>7, <1>9, <1>10, RowsKept, RequestKept DEF IndInv, Quiet

(* googleLogin takes the version it will sign: a session that nothing has  *)
(* overtaken yet carries the current epoch, hence one past the last bump.  *)
LEMMA GoogleStampStep ==
  ASSUME IndInv, NEW r \in Requests, GoogleStamp(r)
  PROVE  IndInv'
<1> DEFINE u == req[r].user
           q == [req[r] EXCEPT !.pc = "issue", !.late = req[r].crossed,
                               !.version = user[u].tokenVersion]
<1>1. Quiet
  BY QuietRequests DEF GoogleStamp
<1>2. req[r] \in Request /\ u \in Users
  BY RequestUpdate DEF IndInv, TypeOK
<1>3. /\ user[u].tokenVersion \in Nat /\ epoch[u].now \in Nat
      /\ epoch[u].kill \in Nat /\ epoch[u].kill <= epoch[u].now
  BY <1>2, SessionConstants DEF IndInv, TypeOK, UserRow
<1>4. q \in Request /\ q.pc = "issue" /\ q.user = u /\ q.late = req[r].crossed
      /\ q.crossed = req[r].crossed /\ q.version = user[u].tokenVersion
      /\ q.authEpoch = req[r].authEpoch
  BY <1>2, <1>3 DEF Request
<1>5. req' = [req EXCEPT ![r] = q]
  BY DEF GoogleStamp, IndInv, TypeOK
<1> HIDE DEF q
<1>6. RequestOK(r) /\ req[r].pc = "stamp"
  BY DEF IndInv, GoogleStamp
<1>7. req'[r] = q /\ \A p \in Requests : p # r => req'[p] = req[p]
  BY <1>5 DEF IndInv, TypeOK
<1>8. RequestOK(r)'
  BY <1>2, <1>3, <1>4, <1>6, <1>7 DEF RequestOK, GoogleStamp, Request
<1>9. TypeOK'
  BY <1>4, <1>5 DEF IndInv, TypeOK, GoogleStamp
<1> QED BY <1>1, <1>7, <1>8, <1>9, RowsKept, RequestKept DEF IndInv, Quiet

-----------------------------------------------------------------------------
(* Issuing a token. *)

(* The new row inherits from the request what RequestOK knows of it. *)
LEMMA IssueStep ==
  ASSUME IndInv, NEW r \in Requests, IssueToken(r)
  PROVE  IndInv'
<1> DEFINE q == req[r]
           row == [status |-> "live", owner |-> q.user, expired |-> FALSE,
                   returned |-> q.op # "login", version |-> SignedVersion(r),
                   parent |-> q.tok, authEpoch |-> q.authEpoch,
                   crossed |-> q.crossed \/ q.late, late |-> q.late]
<1>1. PICK t \in Tokens :
        /\ rt[t].status = "unused" /\ rt' = [rt EXCEPT ![t] = row]
        /\ req' = IF q.op = "login"
                    THEN [req EXCEPT ![r].pc = "finish", ![r].tok = t]
                    ELSE Finished(r)
  BY DEF IssueToken
<1>2. /\ q \in Request /\ q.user \in Users /\ q.version \in Nat
      /\ q.authEpoch \in Nat /\ q.crossed \in BOOLEAN /\ q.late \in BOOLEAN
      /\ q.tok \in Tokens \cup {NoToken} /\ q.pc = "issue" /\ RequestOK(r)
      /\ UNCHANGED <<user, epoch>>
  BY RequestUpdate DEF IndInv, TypeOK, IssueToken
<1>3. /\ row \in TokenRow /\ row.status = "live" /\ row.owner = q.user
      /\ row.version = q.version /\ row.authEpoch = q.authEpoch
      /\ row.late = q.late /\ (~row.crossed => ~q.crossed /\ ~q.late)
  BY <1>2 DEF TokenRow, SignedVersion
<1> HIDE DEF row
<1>4. /\ rt' \in [Tokens -> TokenRow] /\ rt'[t] = row
      /\ \A w \in Tokens : w # t => rt'[w] = rt[w]
  BY <1>1, <1>3 DEF IndInv, TypeOK
<1>5. /\ req' \in [Requests -> Request]
      /\ req'[r].pc = "idle" \/ (req'[r].pc = "finish" /\ req'[r].tok = t)
      /\ \A p \in Requests : p # r => req'[p] = req[p]
  <2>1. CASE q.op = "login"
    <3>1. [q EXCEPT !.pc = "finish", !.tok = t] \in Request
      BY <1>2 DEF Request
    <3>2. req' = [req EXCEPT ![r] = [q EXCEPT !.pc = "finish", !.tok = t]]
      BY <1>1, <2>1 DEF IndInv, TypeOK
    <3> QED BY <1>2, <3>1, <3>2 DEF IndInv, TypeOK, Request
  <2>2. CASE q.op # "login"
    BY <1>1, <2>2, FinishedFacts DEF IndInv
  <2> QED BY <2>1, <2>2
<1>6. TypeOK'
  BY <1>2, <1>4, <1>5 DEF IndInv, TypeOK
<1>7. ASSUME NEW w \in Tokens PROVE TokenOK(w)'
  <2>1. CASE w = t
    BY <1>2, <1>3, <1>4, <2>1 DEF TokenOK, RequestOK
  <2>2. CASE w # t
    BY <1>2, <1>4, <2>2 DEF TokenOK, IndInv
  <2> QED BY <2>1, <2>2
<1>8. ASSUME NEW p \in Requests PROVE RequestOK(p)'
  <2>1. CASE p = r
    BY <1>3, <1>4, <1>5, <2>1 DEF RequestOK
  <2>2. CASE p # r
    <3>1. req'[p] = req[p] /\ RequestOK(p)
      BY <1>5, <2>2 DEF IndInv
    <3>2. req[p].tok \in Tokens => (rt[req[p].tok].status # "unused"
                                      => rt'[req[p].tok].status # "unused")
      BY <1>3, <1>4
    <3> QED BY <1>2, <3>1, <3>2 DEF RequestOK
  <2> QED BY <2>1, <2>2
<1> QED BY <1>2, <1>6, <1>7, <1>8 DEF IndInv

-----------------------------------------------------------------------------
(* Revoke-all events. *)

(* u's live rows are revoked and its requests marked; a bump leaves every  *)
(* version signed or read before behind.  Common to Kill (b = TRUE, the    *)
(* version is bumped) and to logout everywhere (b = FALSE).                *)
LEMMA RevokeAllStep ==
  ASSUME IndInv, NEW r \in Requests, NEW u \in Users, NEW b \in BOOLEAN,
         epoch[u].now < MaxEpoch,
         rt' = RevokedRows(u), req' = Overtaken(r, u),
         user' \in [Users -> UserRow],
         \A v \in Users : v # u => user'[v].tokenVersion = user[v].tokenVersion,
         IF b THEN user'[u].tokenVersion = user[u].tokenVersion + 1
              ELSE user'[u].tokenVersion = user[u].tokenVersion,
         epoch' = [epoch EXCEPT ![u] = [now |-> epoch[u].now + 1,
                                        kill |-> IF b THEN epoch[u].now + 1
                                                      ELSE epoch[u].kill]]
  PROVE  IndInv'
<1>1. epoch \in [Users -> [now : 0..MaxEpoch, kill : 0..MaxEpoch]]
  BY DEF IndInv, TypeOK
<1>2. /\ epoch' \in [Users -> [now : 0..MaxEpoch, kill : 0..MaxEpoch]]
      /\ epoch'[u].now = epoch[u].now + 1
      /\ epoch'[u].kill = IF b THEN epoch[u].now + 1 ELSE epoch[u].kill
      /\ \A v \in Users : v # u => epoch'[v] = epoch[v]
  BY <1>1, SessionConstants
<1>3. \A v \in Users : epoch'[v].kill <= epoch'[v].now
  BY <1>1, <1>2, SessionConstants DEF IndInv
<1>4. TypeOK'
  BY <1>2, RevokedRowsFacts, OvertakenType DEF IndInv, TypeOK
<1>5. ASSUME NEW t \in Tokens PROVE TokenOK(t)'
  <2>1. /\ rt[t] \in TokenRow /\ rt[t].owner \in Users /\ rt[t].version \in Nat
        /\ TokenOK(t) /\ user[rt[t].owner].tokenVersion \in Nat
    BY RowUpdate DEF IndInv, TypeOK, UserRow
  <2>2. CASE rt'[t] = rt[t] /\ (rt[t].owner # u \/ rt[t].status # "live")
    BY <1>2, <2>1, <2>2 DEF TokenOK
  <2>3. CASE /\ rt'[t] = [rt[t] EXCEPT !.status = "revoked"]
             /\ rt[t].status = "live" /\ rt[t].owner = u
    <3>1. /\ rt'[t].owner = u /\ rt'[t].status = "revoked"
          /\ rt'[t].version = rt[t].version /\ rt'[t].late = rt[t].late
          /\ rt'[t].authEpoch = rt[t].authEpoch
      BY <2>1, <2>3 DEF TokenRow
    <3> QED BY <1>2, <2>1, <2>3, <3>1 DEF TokenOK
  <2> QED BY <2>2, <2>3, RevokedRowsFacts DEF IndInv
<1>6. ASSUME NEW q \in Requests PROVE RequestOK(q)'
  <2>1. /\ req[q] \in Request /\ req[q].user \in Users /\ req[q].version \in Nat
        /\ RequestOK(q) /\ user[req[q].user].tokenVersion \in Nat
    BY RequestUpdate DEF IndInv, TypeOK, UserRow
  <2>2. req[q].tok \in Tokens => (rt[req[q].tok].status # "unused"
                                    => rt'[req[q].tok].status # "unused")
    <3>1. \A w \in Tokens : rt'[w] = rt[w] \/ rt'[w] = [rt[w] EXCEPT !.status = "revoked"]
      BY RevokedRowsFacts DEF IndInv
    <3>2. \A w \in Tokens : [rt[w] EXCEPT !.status = "revoked"].status = "revoked"
      BY DEF IndInv, TypeOK, TokenRow
    <3> QED BY <3>1, <3>2
  <2>3. CASE req'[q] = req[q] /\ (req[q].user # u \/ ~InFlight(q))
    BY <1>2, <2>1, <2>2, <2>3 DEF RequestOK, InFlight
  <2>4. CASE req'[q].pc = "idle"
    BY <2>4 DEF RequestOK
  <2>5. CASE req'[q] = [req[q] EXCEPT !.crossed = TRUE] /\ req[q].user = u
    <3>1. /\ req'[q].crossed /\ req'[q].user = u /\ req'[q].pc = req[q].pc
          /\ req'[q].tok = req[q].tok /\ req'[q].version = req[q].version
          /\ req'[q].late = req[q].late /\ req'[q].authEpoch = req[q].authEpoch
      BY <2>1, <2>5 DEF Request
    <3> QED BY <1>2, <2>1, <2>2, <2>5, <3>1 DEF RequestOK
  <2>6. \/ req'[q] = req[q] /\ (req[q].user # u \/ ~InFlight(q))
        \/ req'[q].pc = "idle"
        \/ req'[q] = [req[q] EXCEPT !.crossed = TRUE] /\ req[q].user = u
    BY IdleType DEF Overtaken
  <2> QED BY <2>3, <2>4, <2>5, <2>6
<1> QED BY <1>3, <1>4, <1>5, <1>6 DEF IndInv

-----------------------------------------------------------------------------
(* The invariant. *)

LEMMA InitInv == Init => IndInv
<1> SUFFICES ASSUME Init PROVE IndInv
  OBVIOUS
<1>1. PICK u0 \in Users :
        /\ rt = [t \in Tokens |->
                  [status |-> "unused", owner |-> u0, expired |-> FALSE,
                   returned |-> FALSE, version |-> 0, parent |-> NoToken,
                   authEpoch |-> 0, crossed |-> FALSE, late |-> FALSE]]
        /\ req = [r \in Requests |-> IdleRequest(u0)]
  BY DEF Init
<1>2. rt \in [Tokens -> TokenRow] /\ \A t \in Tokens : rt[t].status = "unused" /\ ~rt[t].returned
  BY <1>1 DEF TokenRow
<1>3. req \in [Requests -> Request] /\ \A r \in Requests : req[r].pc = "idle"
  BY <1>1, IdleType
<1>4. user \in [Users -> UserRow]
  BY DEF Init, UserRow
<1>5. /\ epoch \in [Users -> [now : 0..MaxEpoch, kill : 0..MaxEpoch]]
      /\ \A u \in Users : epoch[u].kill <= epoch[u].now
  BY SessionConstants DEF Init
<1> QED BY <1>2, <1>3, <1>4, <1>5 DEF IndInv, TypeOK, RequestOK, TokenOK

(* Updates of the flags of a user keep the table well typed and every      *)
(* version alone.                                                          *)
LEMMA UserStepQuiet ==
  ASSUME IndInv, NEW u \in Users, UserStep(u)
  PROVE  Quiet /\ UNCHANGED req
<1>1. \A t \in Tokens : Lowered(rt[t], rt[t])
  BY LoweredRows DEF IndInv, TypeOK
<1>2. user[u] \in UserRow /\ user \in [Users -> UserRow] /\ rt \in [Tokens -> TokenRow]
  BY DEF IndInv, TypeOK
<1>3. UNCHANGED <<rt, req, epoch>>
  BY DEF UserStep, ForgotPassword, ResetExpired, SetBlocked, SetDeleted
<1>4. PICK v \in UserRow : user' = [user EXCEPT ![u] = v] /\ v.tokenVersion = user[u].tokenVersion
  <2>1. CASE ForgotPassword(u)
    <3>1. /\ [user[u] EXCEPT !.reset = TRUE] \in UserRow
          /\ [user[u] EXCEPT !.reset = TRUE].tokenVersion = user[u].tokenVersion
      BY <1>2 DEF UserRow
    <3>2. user' = [user EXCEPT ![u] = [user[u] EXCEPT !.reset = TRUE]]
      BY <1>2, <2>1 DEF ForgotPassword
    <3> QED BY <3>1, <3>2
  <2>2. CASE ResetExpired(u)
    <3>1. /\ [user[u] EXCEPT !.reset = FALSE] \in UserRow
          /\ [user[u] EXCEPT !.reset = FALSE].tokenVersion = user[u].tokenVersion
      BY <1>2 DEF UserRow
    <3>2. user' = [user EXCEPT ![u] = [user[u] EXCEPT !.reset = FALSE]]
      BY <1>2, <2>2 DEF ResetExpired
    <3> QED BY <3>1, <3>2
  <2>3. CASE SetBlocked(u)
    <3>1. /\ [user[u] EXCEPT !.blocked = ~user[u].blocked] \in UserRow
          /\ [user[u] EXCEPT !.blocked = ~user[u].blocked].tokenVersion = user[u].tokenVersion
      BY <1>2 DEF UserRow
    <3>2. user' = [user EXCEPT ![u] = [user[u] EXCEPT !.blocked = ~user[u].blocked]]
      BY <1>2, <2>3 DEF SetBlocked
    <3> QED BY <3>1, <3>2
  <2>4. CASE SetDeleted(u)
    <3>1. /\ [user[u] EXCEPT !.deleted = ~user[u].deleted] \in UserRow
          /\ [user[u] EXCEPT !.deleted = ~user[u].deleted].tokenVersion = user[u].tokenVersion
      BY <1>2 DEF UserRow
    <3>2. user' = [user EXCEPT ![u] = [user[u] EXCEPT !.deleted = ~user[u].deleted]]
      BY <1>2, <2>4 DEF SetDeleted
    <3> QED BY <3>1, <3>2
  <2> QED BY <2>1, <2>2, <2>3, <2>4 DEF UserStep
<1> QED BY <1>1, <1>2, <1>3, <1>4 DEF Quiet

(* Steps that revoke one row, let it expire, hand it out or clean up.      *)
LEMMA RowStep ==
  ASSUME IndInv, UNCHANGED <<user, epoch>>,
         rt' \in [Tokens -> TokenRow],
         \A t \in Tokens : Lowered(rt'[t], rt[t])
  PROVE  Quiet
BY DEF IndInv, TypeOK, Quiet

(* Revoking one row is such a step. *)
LEMMA RevokeOneQuiet ==
  ASSUME IndInv, UNCHANGED <<user, epoch>>, NEW t \in Tokens \cup {NoToken},
         rt' = RevokedRow(t)
  PROVE  Quiet
<1>1. TypeOK
  BY DEF IndInv
<1>2. ASSUME NEW w \in Tokens PROVE Lowered(rt'[w], rt[w])
  <2>1. rt[w] \in TokenRow
    BY <1>1 DEF TypeOK
  <2>2. \/ rt'[w] = rt[w]
        \/ rt'[w] = [rt[w] EXCEPT !.status = "revoked"] /\ RowExists(w)
    BY <1>1, RevokedRowFacts
  <2> QED BY <2>1, <2>2, LoweredRows DEF RowExists
<1> QED BY <1>1, <1>2, RevokedRowFacts, RowStep

(* One step per action of a request in flight. *)
LEMMA RequestStepInv ==
  ASSUME IndInv, NEW r \in Requests, RequestStep(r)
  PROVE  IndInv'
<1>0. /\ req[r] \in Request /\ req[r].user \in Users
      /\ req[r].tok \in Tokens \cup {NoToken} /\ RequestOK(r) /\ TypeOK
  BY RequestUpdate DEF IndInv, TypeOK
<1>1. CASE GoogleStamp(r)
  BY <1>1, GoogleStampStep
<1>2. CASE IssueToken(r)
  BY <1>2, IssueStep
<1>3. CASE LoginFinish(r)
  <2> DEFINE t == req[r].tok
  <2>1. t \in Tokens /\ rt[t].status # "unused"
    BY <1>0, <1>3 DEF LoginFinish, RequestOK
  <2>2. rt[t] \in TokenRow /\ [rt[t] EXCEPT !.returned = TRUE] \in TokenRow
    BY <2>1, RowUpdate DEF IndInv, TypeOK
  <2>3. rt' = [rt EXCEPT ![t] = [rt[t] EXCEPT !.returned = TRUE]]
    BY <1>3, <2>1 DEF LoginFinish, IndInv, TypeOK
  <2>4. /\ rt' \in [Tokens -> TokenRow]
        /\ \A w \in Tokens : Lowered(rt'[w], rt[w])
    BY <2>1, <2>2, <2>3, LoweredRows DEF IndInv, TypeOK
  <2>5. Quiet
    BY <1>3, <2>4, RowStep DEF LoginFinish
  <2> QED BY <1>3, <2>5, QuietFinish DEF LoginFinish
<1>4. CASE RefreshRetire(r)
  <2>1. Quiet
    BY <1>0, <1>4, RevokeOneQuiet DEF RefreshRetire
  <2> QED BY <1>4, <2>1, QuietFinish DEF RefreshRetire
<1>5. CASE RefreshRotate(r)
  <2>1. Quiet
    BY <1>0, <1>5, RevokeOneQuiet DEF RefreshRotate
  <2>2. CASE req' = Finished(r)
    BY <2>1, <2>2, QuietFinish
  <2>3. CASE req' = [req EXCEPT ![r].pc = "issue"]
    <3> DEFINE q == [req[r] EXCEPT !.pc = "issue"]
    <3>1. /\ q \in Request /\ q.pc = "issue" /\ q.user = req[r].user
          /\ q.version = req[r].version /\ q.authEpoch = req[r].authEpoch
          /\ q.crossed = req[r].crossed /\ q.late = req[r].late
      BY <1>0 DEF Request
    <3>2. req' = [req EXCEPT ![r] = q]
      BY <2>3 DEF IndInv, TypeOK
    <3> HIDE DEF q
    <3>3. /\ req'[r] = q /\ req' \in [Requests -> Request]
          /\ \A p \in Requests : p # r => req'[p] = req[p]
      BY <3>1, <3>2 DEF IndInv, TypeOK
    <3>4. RequestOK(r)'
      BY <1>0, <1>5, <3>1, <3>3 DEF RequestOK, RefreshRotate
    <3>5. TypeOK'
      BY <2>1, <3>3 DEF IndInv, TypeOK, Quiet
    <3> QED BY <2>1, <3>3, <3>4, <3>5, RowsKept, RequestKept DEF IndInv, Quiet
  <2> QED BY <1>5, <2>2, <2>3 DEF RefreshRotate
<1>6. CASE RefreshReuse(r)
  <2> DEFINE u == req[r].user
             v == [user[u] EXCEPT !.tokenVersion = user[u].tokenVersion + 1]
  <2>1. user[u] \in UserRow
    BY <1>0 DEF IndInv, TypeOK
  <2>2. v \in UserRow /\ v.tokenVersion = user[u].tokenVersion + 1
    BY <2>1 DEF UserRow
  <2>3. user' = [user EXCEPT ![u] = v]
    BY <1>0, <1>6 DEF RefreshReuse, BumpedVersion, IndInv, TypeOK
  <2> HIDE DEF v
  <2>4. /\ user' \in [Users -> UserRow]
        /\ user'[u].tokenVersion = user[u].tokenVersion + 1
        /\ \A w \in Users : w # u => user'[w].tokenVersion = user[w].tokenVersion
    BY <1>0, <2>2, <2>3 DEF IndInv, TypeOK
  <2>5. /\ epoch[u].now < MaxEpoch /\ rt' = RevokedRows(u) /\ req' = Overtaken(r, u)
        /\ epoch' = [epoch EXCEPT ![u] = [now |-> epoch[u].now + 1,
                                           kill |-> epoch[u].now + 1]]
    BY <1>0, <1>6 DEF RefreshReuse, Kill, IndInv, TypeOK
  <2> QED BY <1>0, <2>4, <2>5, RevokeAllStep
<1>7. CASE CommitKill(r)
  <2> DEFINE u == req[r].user
  <2>1. user[u] \in UserRow
    BY <1>0 DEF IndInv, TypeOK
  <2>2. PICK v \in UserRow :
          /\ user' = [user EXCEPT ![u] = v]
          /\ v.tokenVersion = user[u].tokenVersion + 1
    <3> DEFINE op == req[r].op
               b == user[u].reset /\ op # "resetPassword"
               c == op = "enable" \/ (user[u].twoFactorEnabled /\ op # "disable")
               v == [user[u] EXCEPT !.tokenVersion = user[u].tokenVersion + 1,
                                    !.reset = b, !.twoFactorEnabled = c]
    <3>1. user' = [user EXCEPT ![u] = v]
      BY <1>0, <1>7 DEF CommitKill, BumpedVersion, IndInv, TypeOK
    <3>2. b \in BOOLEAN /\ c \in BOOLEAN
      OBVIOUS
    <3> HIDE DEF b, c
    <3>3. v \in UserRow /\ v.tokenVersion = user[u].tokenVersion + 1
      BY <2>1, <3>2, UserUpdate
    <3> QED BY <3>1, <3>3
  <2>4. /\ user' \in [Users -> UserRow]
        /\ user'[u].tokenVersion = user[u].tokenVersion + 1
        /\ \A w \in Users : w # u => user'[w].tokenVersion = user[w].tokenVersion
    BY <1>0, <2>2 DEF IndInv, TypeOK
  <2>5. /\ epoch[u].now < MaxEpoch /\ rt' = RevokedRows(u) /\ req' = Overtaken(r, u)
        /\ epoch' = [epoch EXCEPT ![u] = [now |-> epoch[u].now + 1,
                                           kill |-> epoch[u].now + 1]]
    BY <1>0, <1>7 DEF CommitKill, Kill, IndInv, TypeOK
  <2> QED BY <1>0, <2>4, <2>5, RevokeAllStep
<1>8. CASE CommitLogoutAll(r)
  <2> DEFINE u == req[r].user
  <2>1. /\ epoch[u].now < MaxEpoch /\ rt' = RevokedRows(u) /\ req' = Overtaken(r, u)
        /\ user' = user /\ user \in [Users -> UserRow]
    BY <1>0, <1>8 DEF CommitLogoutAll, IndInv, TypeOK
  <2>2. epoch' = [epoch EXCEPT ![u] = [now |-> epoch[u].now + 1, kill |-> epoch[u].kill]]
    BY <1>0, <1>8 DEF CommitLogoutAll, IndInv, TypeOK
  <2> QED BY <1>0, <2>1, <2>2, RevokeAllStep
<1>9. CASE CommitRevokeOne(r)
  <2>1. Quiet
    <3>1. CASE rt' = rt
      BY <1>9, <3>1, QuietRequests DEF CommitRevokeOne
    <3>2. CASE rt' = RevokedRow(req[r].tok)
      BY <1>0, <1>9, <3>2, RevokeOneQuiet DEF CommitRevokeOne
    <3> QED BY <1>9, <3>1, <3>2 DEF CommitRevokeOne
  <2> QED BY <1>9, <2>1, QuietFinish DEF CommitRevokeOne
<1>10. CASE Fail(r)
  <2>1. Quiet
    BY <1>10, QuietRequests DEF Fail
  <2> QED BY <1>10, <2>1, QuietFinish DEF Fail
<1> QED BY <1>1, <1>2, <1>3, <1>4, <1>5, <1>6, <1>7, <1>8, <1>9, <1>10 DEF RequestStep

(* The invariant is preserved by every step. *)
LEMMA NextInv == IndInv /\ [Next]_vars => IndInv'
<1> SUFFICES ASSUME IndInv, [Next]_vars PROVE IndInv'
  OBVIOUS
<1>0. NoToken \in Tokens \cup {NoToken}
  OBVIOUS
<1>1. ASSUME NEW r \in Requests, RequestStep(r) PROVE IndInv'
  BY <1>1, RequestStepInv
<1>2. ASSUME NEW r \in Requests, NEW u \in Users, LoginRead(r, u) \/ GoogleRead(r, u) \/ VerifyRead(r, u)
      PROVE IndInv'
  <2>1. PICK op \in AllOps, pc \in {"stamp", "issue", "commit"} :
          req' = Started(r, op, pc, u, NoToken)
    BY <1>2 DEF LoginRead, GoogleRead, VerifyRead, AllOps
  <2>2. UNCHANGED <<user, rt, epoch>>
    BY <1>2 DEF LoginRead, GoogleRead, VerifyRead
  <2> QED BY <1>0, <2>1, <2>2, StartStep
<1>3. ASSUME NEW r \in Requests, NEW u \in Users, NEW op \in AllOps,
             PrivilegedRead(r, u, op)
      PROVE IndInv'
  <2>1. PICK pc \in {"stamp", "issue", "commit"} : pc = "commit"
    OBVIOUS
  <2>2. req' = Started(r, op, pc, u, NoToken) /\ UNCHANGED <<user, rt, epoch>>
    BY <1>3, <2>1 DEF PrivilegedRead
  <2> QED BY <1>0, <2>2, StartStep
<1>4. ASSUME NEW r \in Requests, NEW t \in Tokens, RefreshRead(r, t) PROVE IndInv'
  BY <1>4, RefreshReadStep
<1>5. ASSUME NEW r \in Requests, NEW u \in Users, NEW t \in Tokens,
             RevokeOneRead(r, u, t)
      PROVE IndInv'
  <2>1. PICK op \in AllOps, pc \in {"stamp", "issue", "commit"} :
          req' = Started(r, op, pc, u, t)
    BY <1>5 DEF RevokeOneRead, AllOps
  <2>2. t \in Tokens \cup {NoToken} /\ UNCHANGED <<user, rt, epoch>>
    BY <1>5 DEF RevokeOneRead
  <2> QED BY <2>1, <2>2, StartStep
<1>6. ASSUME NEW u \in Users, UserStep(u) PROVE IndInv'
  BY <1>6, UserStepQuiet, QuietStutter
<1>7. ASSUME NEW t \in Tokens, Expire(t) PROVE IndInv'
  <2>1. rt[t] \in TokenRow /\ [rt[t] EXCEPT !.expired = TRUE] \in TokenRow
    BY RowUpdate DEF IndInv, TypeOK
  <2>2. rt' = [rt EXCEPT ![t] = [rt[t] EXCEPT !.expired = TRUE]]
    BY <1>7 DEF Expire, IndInv, TypeOK
  <2>3. rt' \in [Tokens -> TokenRow] /\ \A w \in Tokens : Lowered(rt'[w], rt[w])
    BY <2>1, <2>2, LoweredRows DEF IndInv, TypeOK
  <2> QED BY <1>7, <2>3, RowStep, QuietStutter DEF Expire
<1>8. ASSUME CleanupRefreshTokens PROVE IndInv'
  <2>1. PICK gone \in SUBSET Tokens :
          /\ \A t \in gone : rt[t].status # "unused"
          /\ rt' = [t \in Tokens |-> IF t \in gone
                                        THEN [rt[t] EXCEPT !.status = "deleted"]
                                        ELSE rt[t]]
          /\ UNCHANGED <<user, req, epoch>>
    BY <1>8 DEF CleanupRefreshTokens, RowExists
  <2>2. \A w \in Tokens : rt[w] \in TokenRow /\ [rt[w] EXCEPT !.status = "deleted"] \in TokenRow
    BY RowUpdate DEF IndInv, TypeOK
  <2>3. rt' \in [Tokens -> TokenRow] /\ \A w \in Tokens : Lowered(rt'[w], rt[w])
    BY <2>1, <2>2, LoweredRows
  <2> QED BY <2>1, <2>3, RowStep, QuietStutter
<1>9. CASE UNCHANGED vars
  BY <1>9, QuietRequests, QuietStutter DEF vars
<1> QED BY <1>1, <1>2, <1>3, <1>4, <1>5, <1>6, <1>7, <1>8, <1>9 DEF Next

(* IndInv is an invariant of Sessions. *)
THEOREM InductiveInvariant == Spec => []IndInv
BY InitInv, NextInv, PTL DEF Spec

(* The rows, requests and history counters keep their types whatever       *)
(* requests interleave.                                                    *)
THEOREM TypeCorrect == Spec => []TypeOK
<1>1. IndInv => TypeOK
  BY DEF IndInv
<1> QED BY <1>1, InductiveInvariant, PTL

(* Every revoke-all of auth.service, twofa.service and session.service     *)
(* reaches every session, but for those a request in flight was about to   *)
(* create.                                                                 *)
THEOREM RevokeAllTheorem == Spec => []RevokeAllContained
<1>1. IndInv => RevokeAllContained
  BY DEF IndInv, TokenOK, RevokeAllContained
<1> QED BY <1>1, InductiveInvariant, PTL

(* An access token signed from a row read before the last tokenVersion     *)
(* bump is refused by authenticate: it is accepted only for a session that *)
(* logged in after the bump.                                               *)
THEOREM KillSwitchTheorem == Spec => []KillSwitchContained
<1>1. IndInv => KillSwitchContained
  BY DEF IndInv, TokenOK, KillSwitchContained, Authenticated
<1> QED BY <1>1, InductiveInvariant, PTL

-----------------------------------------------------------------------------
(* What a step may do to a row, for the two action properties.             *)

(* The revoking step of request r: it ends or moves on.                    *)
Revoking(r, t) ==
  /\ InFlight(r) /\ req'[r] # req[r]
  /\ \/ req[r].user = rt[t].owner
     \/ req[r].pc \in {"retire", "rotate"} /\ req[r].tok = t

(* A row is issued once, keeps its owner and version, is revoked by a      *)
(* request and removed by the cleanup.                                     *)
Changed(t) ==
  \/ rt'[t] = rt[t]
  \/ rt[t].status = "unused"
  \/ /\ rt[t].status # "unused"
     /\ rt'[t].owner = rt[t].owner /\ rt'[t].version = rt[t].version
     /\ \/ rt'[t].status = rt[t].status
        \/ /\ rt'[t].status = "deleted"
           /\ rt[t].status = "live" => rt[t].expired
        \/ /\ rt'[t].status = "revoked" /\ rt[t].status \in {"live", "revoked"}
           /\ \E r \in Requests : Revoking(r, t)

(* One field of a row. *)
LEMMA RowField ==
  ASSUME NEW v \in TokenRow
  PROVE  /\ \A s \in {"revoked", "deleted"} :
              /\ [v EXCEPT !.status = s].status = s
              /\ [v EXCEPT !.status = s].owner = v.owner
              /\ [v EXCEPT !.status = s].version = v.version
         /\ [v EXCEPT !.returned = TRUE].status = v.status
         /\ [v EXCEPT !.returned = TRUE].owner = v.owner
         /\ [v EXCEPT !.returned = TRUE].version = v.version
         /\ [v EXCEPT !.expired = TRUE].status = v.status
         /\ [v EXCEPT !.expired = TRUE].owner = v.owner
         /\ [v EXCEPT !.expired = TRUE].version = v.version
BY DEF TokenRow

(* One step per action that writes a row. *)
LEMMA RequestChanges ==
  ASSUME IndInv, NEW r \in Requests, RequestStep(r), NEW t \in Tokens
  PROVE  Changed(t)
<1>0. TypeOK /\ rt[t] \in TokenRow /\ req[r].tok \in Tokens \cup {NoToken}
      /\ req[r].user \in Users /\ RequestOK(r)
  BY RequestUpdate DEF IndInv, TypeOK
<1>1. CASE GoogleStamp(r) \/ Fail(r)
  BY <1>1 DEF GoogleStamp, Fail, Changed
<1>2. CASE IssueToken(r)
  <2>1. PICK n \in Tokens : rt[n].status = "unused" /\ \A w \in Tokens : w # n => rt'[w] = rt[w]
    BY <1>0, <1>2 DEF IssueToken, TypeOK
  <2> QED BY <2>1 DEF Changed
<1>3. CASE LoginFinish(r)
  <2>1. rt'[t] = rt[t] \/ (rt'[t] = [rt[t] EXCEPT !.returned = TRUE])
    BY <1>0, <1>3 DEF LoginFinish, TypeOK
  <2> QED BY <1>0, <2>1, RowField DEF Changed
<1>4. ASSUME \/ req' = Finished(r)
             \/ req' = [req EXCEPT ![r].pc = "issue"] /\ req[r].pc = "rotate",
             InFlight(r),
             rt' = RevokedRow(req[r].tok),
             \/ req[r].pc \in {"retire", "rotate"}
             \/ req[r].tok \in Tokens /\ rt[req[r].tok].owner = req[r].user
      PROVE  Changed(t)
  <2>1. req'[r] # req[r]
    <3>1. req[r] \in Request /\ req'[r].pc # req[r].pc
      <4>1. CASE req' = Finished(r)
        BY <1>0, <1>4, <4>1, FinishedFacts DEF InFlight, TypeOK
      <4>2. CASE req' = [req EXCEPT ![r].pc = "issue"] /\ req[r].pc = "rotate"
        BY <1>0, <4>2 DEF TypeOK, Request
      <4> QED BY <1>4, <4>1, <4>2
    <3> QED BY <3>1
  <2>2. rt'[t] = rt[t] \/ (rt'[t] = [rt[t] EXCEPT !.status = "revoked"] /\ RowExists(t) /\ req[r].tok = t)
    BY <1>0, <1>4 DEF RevokedRow, TypeOK, TokenRow
  <2>3. CASE rt'[t] = [rt[t] EXCEPT !.status = "revoked"] /\ RowExists(t) /\ req[r].tok = t
    <3>1. Revoking(r, t)
      BY <1>4, <2>1, <2>3 DEF Revoking
    <3> QED BY <1>0, <2>3, <3>1, RowField DEF Changed, RowExists
  <2> QED BY <2>2, <2>3 DEF Changed
<1>5. CASE RefreshRetire(r) \/ RefreshRotate(r)
  <2>1. /\ InFlight(r) /\ req[r].pc \in {"retire", "rotate"}
        /\ rt' = RevokedRow(req[r].tok)
    BY <1>5 DEF RefreshRetire, RefreshRotate, InFlight
  <2>2. \/ req' = Finished(r)
        \/ req' = [req EXCEPT ![r].pc = "issue"] /\ req[r].pc = "rotate"
    BY <1>5, Zenon DEF RefreshRetire, RefreshRotate
  <2> QED BY <1>4, <2>1, <2>2
<1>6. CASE CommitRevokeOne(r)
  <2>1. CASE rt[req[r].tok].owner = req[r].user
    BY <1>0, <1>4, <1>6, <2>1 DEF CommitRevokeOne, InFlight
  <2>2. CASE rt[req[r].tok].owner # req[r].user
    BY <1>6, <2>2 DEF CommitRevokeOne, Changed
  <2> QED BY <2>1, <2>2
<1>7. CASE RefreshReuse(r) \/ CommitKill(r) \/ CommitLogoutAll(r)
  <2>1. /\ rt' = RevokedRows(req[r].user) /\ req' = Overtaken(r, req[r].user)
        /\ req[r].pc # "idle"
    BY <1>7 DEF RefreshReuse, CommitKill, CommitLogoutAll, Kill
  <2>2. req'[r].pc = "idle"
    BY <1>0, <2>1, IdleType DEF Overtaken
  <2>3. rt'[t] = rt[t] \/ (/\ rt'[t] = [rt[t] EXCEPT !.status = "revoked"]
                           /\ rt[t].status = "live" /\ rt[t].owner = req[r].user)
    BY <1>0, <2>1, RevokedRowsFacts
  <2>4. CASE /\ rt'[t] = [rt[t] EXCEPT !.status = "revoked"]
             /\ rt[t].status = "live" /\ rt[t].owner = req[r].user
    <3>1. Revoking(r, t)
      BY <2>1, <2>2, <2>4 DEF Revoking, InFlight
    <3> QED BY <1>0, <2>4, <3>1, RowField DEF Changed
  <2> QED BY <2>3, <2>4 DEF Changed
<1> QED BY <1>1, <1>2, <1>3, <1>5, <1>6, <1>7 DEF RequestStep

LEMMA StepChanges ==
  ASSUME IndInv, [Next]_vars, NEW t \in Tokens
  PROVE  Changed(t)
<1>0. TypeOK /\ rt[t] \in TokenRow
  BY DEF IndInv, TypeOK
<1>1. ASSUME NEW r \in Requests, RequestStep(r) PROVE Changed(t)
  BY <1>1, RequestChanges
<1>2. CASE UNCHANGED rt
  BY <1>2 DEF Changed
<1>3. ASSUME NEW w \in Tokens, Expire(w) PROVE Changed(t)
  <2>1. rt'[t] = rt[t] \/ (rt'[t] = [rt[t] EXCEPT !.expired = TRUE] /\ rt[t].status = "live")
    BY <1>0, <1>3 DEF Expire, TypeOK
  <2> QED BY <1>0, <2>1, RowField DEF Changed
<1>4. CASE CleanupRefreshTokens
  <2>1. \/ rt'[t] = rt[t]
        \/ /\ rt'[t] = [rt[t] EXCEPT !.status = "deleted"]
           /\ rt[t].status = "revoked" \/ (RowExists(t) /\ rt[t].expired)
    BY <1>4 DEF CleanupRefreshTokens
  <2>2. CASE /\ rt'[t] = [rt[t] EXCEPT !.status = "deleted"]
             /\ rt[t].status = "revoked" \/ (RowExists(t) /\ rt[t].expired)
    <3>1. /\ rt'[t].status = "deleted" /\ rt'[t].owner = rt[t].owner
          /\ rt'[t].version = rt[t].version
      BY <1>0, <2>2, RowField
    <3>2. rt[t].status # "unused" /\ (rt[t].status = "live" => rt[t].expired)
      BY <2>2 DEF RowExists
    <3> QED BY <3>1, <3>2 DEF Changed
  <2> QED BY <2>1, <2>2 DEF Changed
<1> QED
  BY <1>1, <1>2, <1>3, <1>4
     DEF Next, vars, LoginRead, GoogleRead, VerifyRead, PrivilegedRead, RefreshRead,
         RevokeOneRead, UserStep, ForgotPassword, ResetExpired, SetBlocked, SetDeleted

(* A revoked refresh token never works again, whatever requests cross, and *)
(* fail half-way, on it (auth.service.js, refresh and logout).             *)
THEOREM RevocationPermanentTheorem == Spec => RevocationPermanent
<1>1. IndInv /\ [Next]_vars =>
        [\A t \in Tokens :
           /\ rt[t].status = "revoked" => rt'[t].status \in {"revoked", "deleted"}
           /\ rt[t].status = "deleted" => rt'[t].status = "deleted"
           /\ rt[t].status # "unused" => rt'[t].version = rt[t].version]_vars
  BY StepChanges DEF Changed
<1> QED BY <1>1, InductiveInvariant, PTL DEF Spec, RevocationPermanent

(* The token that a refresh acts on is of the account it acts for. *)
Presented ==
  \A r \in Requests :
    req[r].pc \in {"retire", "rotate"} =>
      /\ req[r].tok \in Tokens
      /\ rt[req[r].tok].status # "unused"
      /\ rt[req[r].tok].owner = req[r].user

(* A request comes to retire or rotate a token by reading it, and keeps    *)
(* the token and the account.                                              *)
LEMMA RefreshMoves ==
  ASSUME IndInv, [Next]_vars, NEW q \in Requests, req'[q].pc \in {"retire", "rotate"}
  PROVE  \/ /\ req[q].pc \in {"retire", "rotate"}
            /\ req'[q].tok = req[q].tok /\ req'[q].user = req[q].user
         \/ \E t \in Tokens : /\ req'[q].tok = t /\ req'[q].user = rt[t].owner
                              /\ rt[t].status # "unused" /\ rt' = rt
<1> DEFINE Kept == /\ req[q].pc \in {"retire", "rotate"}
                   /\ req'[q].tok = req[q].tok /\ req'[q].user = req[q].user
<1>0. TypeOK /\ req[q] \in Request
  BY DEF IndInv, TypeOK
<1>1. CASE UNCHANGED req
  BY <1>1
<1>2. ASSUME NEW r \in Requests, NEW u \in Users, NEW op \in AllOps,
             NEW pc \in {"stamp", "issue", "commit"}, NEW t \in Tokens \cup {NoToken},
             req' = Started(r, op, pc, u, t)
      PROVE  Kept
  <2>1. PICK s \in Request : req' = [req EXCEPT ![r] = s] /\ s.pc = pc
    BY <1>0, <1>2, StartedFacts DEF FirstPC
  <2> QED BY <1>0, <2>1 DEF TypeOK
<1>3. ASSUME NEW r \in Requests, req' = Finished(r) PROVE Kept
  BY <1>0, <1>3, FinishedFacts
<1>4. ASSUME NEW r \in Requests, NEW u \in Users, req' = Overtaken(r, u) PROVE Kept
  <2>1. \/ req'[q].pc = "idle" \/ req'[q] = req[q]
        \/ req'[q] = [req[q] EXCEPT !.crossed = TRUE]
    BY <1>4, IdleType DEF Overtaken
  <2> QED BY <1>0, <2>1 DEF Request
<1>5. ASSUME NEW r \in Requests, NEW pc \in {"issue", "finish"}, NEW s,
             req' = [req EXCEPT ![r] = s], s.pc = pc
      PROVE  Kept
  BY <1>0, <1>5 DEF TypeOK
<1>6. ASSUME NEW r \in Requests, RequestStep(r) PROVE Kept
  <2>1. req[r] \in Request /\ req[r].user \in Users
    BY <1>0, RequestUpdate DEF TypeOK
  <2>2. CASE GoogleStamp(r)
    <3> DEFINE s == [req[r] EXCEPT !.pc = "issue", !.late = req[r].crossed,
                                   !.version = user[req[r].user].tokenVersion]
    <3>1. s.pc = "issue" /\ req' = [req EXCEPT ![r] = s]
      BY <1>0, <2>1, <2>2 DEF GoogleStamp, TypeOK, Request
    <3> HIDE DEF s
    <3> QED BY <1>5, <3>1
  <2>3. CASE IssueToken(r)
    <3>1. CASE req' = Finished(r)
      BY <1>3, <3>1
    <3>2. ASSUME NEW t \in Tokens, req' = [req EXCEPT ![r].pc = "finish", ![r].tok = t]
          PROVE  Kept
      <4> DEFINE s == [req[r] EXCEPT !.pc = "finish", !.tok = t]
      <4>1. s.pc = "finish" /\ req' = [req EXCEPT ![r] = s]
        BY <1>0, <2>1, <3>2 DEF TypeOK, Request
      <4> HIDE DEF s
      <4> QED BY <1>5, <4>1
    <3>3. req' = Finished(r) \/ \E t \in Tokens : req' = [req EXCEPT ![r].pc = "finish", ![r].tok = t]
      BY <2>3, Zenon DEF IssueToken
    <3> QED BY <3>1, <3>2, <3>3
  <2>4. CASE RefreshRotate(r)
    <3>1. CASE req' = [req EXCEPT ![r].pc = "issue"]
      <4> DEFINE s == [req[r] EXCEPT !.pc = "issue"]
      <4>1. s.pc = "issue" /\ req' = [req EXCEPT ![r] = s]
        BY <1>0, <2>1, <3>1 DEF TypeOK, Request
      <4> HIDE DEF s
      <4> QED BY <1>5, <4>1
    <3>2. req' = Finished(r) \/ req' = [req EXCEPT ![r].pc = "issue"]
      BY <2>4, Zenon DEF RefreshRotate
    <3> QED BY <1>3, <3>1, <3>2
  <2>5. CASE RefreshReuse(r) \/ CommitKill(r) \/ CommitLogoutAll(r)
    BY <1>4, <2>1, <2>5 DEF RefreshReuse, CommitKill, CommitLogoutAll, Kill
  <2>6. CASE LoginFinish(r) \/ RefreshRetire(r) \/ CommitRevokeOne(r) \/ Fail(r)
    BY <1>3, <2>6 DEF LoginFinish, RefreshRetire, CommitRevokeOne, Fail
  <2> QED BY <1>6, <2>2, <2>3, <2>4, <2>5, <2>6 DEF RequestStep
<1>7. ASSUME NEW r \in Requests, NEW t \in Tokens, RefreshRead(r, t)
      PROVE  Kept \/ (/\ req'[q].tok = t /\ req'[q].user = rt[t].owner
                      /\ rt[t].status # "unused" /\ rt' = rt)
  <2>1. PICK pc \in {"reuse", "retire", "rotate"} :
          /\ req' = [Started(r, "refresh", pc, rt[t].owner, t) EXCEPT
                       ![r].authEpoch = rt[t].authEpoch, ![r].late = rt[t].crossed]
          /\ rt[t].status # "unused" /\ rt' = rt
    BY <1>7 DEF RefreshRead
  <2>2. CASE q # r
    <3>1. req'[q] = req[q]
      BY <1>0, <2>1, <2>2 DEF Started, TypeOK
    <3> QED BY <3>1
  <2>3. CASE q = r
    <3>1. req'[q].tok = t /\ req'[q].user = rt[t].owner
      BY <1>0, <2>1, <2>3 DEF Started, TypeOK
    <3> QED BY <2>1, <3>1
  <2> QED BY <2>2, <2>3
<1>8. ASSUME NEW r \in Requests, NEW u \in Users, LoginRead(r, u) \/ GoogleRead(r, u) \/ VerifyRead(r, u)
      PROVE  Kept
  <2>1. PICK op \in AllOps, pc \in {"stamp", "issue", "commit"} :
          req' = Started(r, op, pc, u, NoToken)
    BY <1>8 DEF LoginRead, GoogleRead, VerifyRead, AllOps
  <2>2. NoToken \in Tokens \cup {NoToken}
    OBVIOUS
  <2> QED BY <1>2, <2>1, <2>2
<1>9. ASSUME NEW r \in Requests, NEW u \in Users, NEW op \in AllOps, PrivilegedRead(r, u, op)
      PROVE  Kept
  <2>1. req' = Started(r, op, "commit", u, NoToken)
    BY <1>9 DEF PrivilegedRead
  <2>2. "commit" \in {"stamp", "issue", "commit"} /\ NoToken \in Tokens \cup {NoToken}
    OBVIOUS
  <2> QED BY <1>2, <2>1, <2>2
<1>10. ASSUME NEW r \in Requests, NEW u \in Users, NEW t \in Tokens, RevokeOneRead(r, u, t)
       PROVE  Kept
  <2>1. PICK op \in AllOps : req' = Started(r, op, "commit", u, t)
    BY <1>10 DEF RevokeOneRead, AllOps
  <2>2. "commit" \in {"stamp", "issue", "commit"} /\ t \in Tokens \cup {NoToken}
    OBVIOUS
  <2> QED BY <1>2, <2>1, <2>2
<1>11. CASE \/ \E u \in Users : UserStep(u)
            \/ \E t \in Tokens : Expire(t)
            \/ CleanupRefreshTokens
            \/ UNCHANGED vars
  BY <1>1, <1>11
     DEF UserStep, ForgotPassword, ResetExpired, SetBlocked, SetDeleted, Expire,
         CleanupRefreshTokens, vars
<1> QED BY <1>6, <1>7, <1>8, <1>9, <1>10, <1>11 DEF Next

LEMMA PresentedInv == IndInv /\ IndInv' /\ Presented /\ [Next]_vars => Presented'
<1> SUFFICES ASSUME IndInv, IndInv', Presented, [Next]_vars, NEW q \in Requests,
                    req'[q].pc \in {"retire", "rotate"}
             PROVE  /\ req'[q].tok \in Tokens
                    /\ rt'[req'[q].tok].status # "unused"
                    /\ rt'[req'[q].tok].owner = req'[q].user
  BY DEF Presented
<1>1. CASE /\ req[q].pc \in {"retire", "rotate"}
           /\ req'[q].tok = req[q].tok /\ req'[q].user = req[q].user
  <2>1. /\ req[q].tok \in Tokens /\ rt[req[q].tok].status # "unused"
        /\ rt[req[q].tok].owner = req[q].user
    BY <1>1 DEF Presented
  <2>2. Changed(req[q].tok)
    BY <2>1, StepChanges
  <2> QED BY <1>1, <2>1, <2>2 DEF Changed
<1> QED BY <1>1, RefreshMoves

(* Signing out, rotating, or presenting an old token ends sessions of the  *)
(* own account only, whatever tokens the requests of others name           *)
(* (auth.service.js logout and refresh, session.service.js).               *)
THEOREM OnlyOwnTheorem == Spec => OnlyOwnSessionsRevoked
<1> DEFINE Own(t) ==
      rt[t].status = "live" /\ rt'[t].status # "live" =>
        \/ rt[t].expired
        \/ \E r \in Requests : /\ InFlight(r) /\ req'[r] # req[r]
                              /\ req[r].user = rt[t].owner
<1>1. Init => Presented
  BY DEF Init, Presented, IdleRequest
<1>2. IndInv /\ Presented /\ [Next]_vars => [\A t \in Tokens : Own(t)]_vars
  <2> SUFFICES ASSUME IndInv, Presented, [Next]_vars, NEW t \in Tokens,
                      rt[t].status = "live", rt'[t].status # "live", ~rt[t].expired
               PROVE  \E r \in Requests : /\ InFlight(r) /\ req'[r] # req[r]
                                          /\ req[r].user = rt[t].owner
    OBVIOUS
  <2>1. PICK r \in Requests : Revoking(r, t)
    BY StepChanges DEF Changed
  <2> QED BY <2>1 DEF Revoking, Presented
<1>3. Init => IndInv /\ Presented
  BY <1>1, InitInv
<1>4. IndInv /\ Presented /\ [Next]_vars => IndInv' /\ Presented'
  BY PresentedInv, NextInv
<1>5. Spec => [](IndInv /\ Presented)
  BY <1>3, <1>4, PTL DEF Spec
<1> QED BY <1>2, <1>5, PTL DEF Spec, OnlyOwnSessionsRevoked

-----------------------------------------------------------------------------
(* One request of an account at a time: the two serial properties, over    *)
(* the history of overlapping requests.                                    *)

(* Where a request is on its way to issue a token. *)
Acting == {"stamp", "issue", "rotate"}

(* It holds the token it rotates, of its own account, or none.             *)
Holding(r) ==
  req[r].pc \in Acting =>
    \/ /\ req[r].op = "refresh" /\ req[r].pc \in {"issue", "rotate"}
       /\ req[r].tok \in Tokens
       /\ rt[req[r].tok].status # "unused"
       /\ rt[req[r].tok].owner = req[r].user
    \/ /\ req[r].op # "refresh" /\ req[r].pc \in {"issue", "stamp"}
       /\ req[r].tok = NoToken

(* Nothing has overtaken the requests of an account that kept to one at a  *)
(* time, and the token they rotate has no successor yet.                   *)
Single(r) ==
  req[r].pc \in Acting /\ req[r].user \notin overlap =>
    /\ ~req[r].crossed /\ ~req[r].late
    /\ req[r].op = "refresh" =>
         /\ \A s \in Tokens : rt[s].parent # req[r].tok
         /\ req[r].pc = "issue" => rt[req[r].tok].status # "live"

(* A token with a successor was issued, and of such an account it is live  *)
(* no more and has no other.                                               *)
Chained(s) ==
  LET p == rt[s].parent IN
  p \in Tokens =>
    /\ rt[p].status # "unused"
    /\ rt[p].owner \notin overlap =>
         /\ rt[p].status # "live"
         /\ \A w \in Tokens : rt[w].parent = p => w = s

Uncrossed(t) == rt[t].status # "unused" /\ rt[t].owner \notin overlap => ~rt[t].crossed

Serial ==
  /\ Overlapping \subseteq overlap
  /\ \A r \in Requests : Holding(r) /\ Single(r)
  /\ \A t \in Tokens : Chained(t) /\ Uncrossed(t)

(* A request of r's account is in flight besides r. *)
Rival(r) ==
  \E q \in Requests : q # r /\ InFlight(q) /\ InFlight(r) /\ req[q].user = req[r].user

(* What a step may do to a request that is still to issue a token: leave   *)
(* it where it was (it may be overtaken, by a rival), start it at the      *)
(* login gates or at a live token, or move it on.                          *)
Stayed(q) ==
  /\ req'[q].pc = req[q].pc /\ req'[q].op = req[q].op
  /\ req'[q].user = req[q].user /\ req'[q].tok = req[q].tok
  /\ req'[q].late = req[q].late
  /\ req'[q].crossed = req[q].crossed \/ Rival(q)

Entered(q) ==
  /\ req'[q].pc \in {"stamp", "issue"} /\ req'[q].op # "refresh"
  /\ req'[q].tok = NoToken /\ ~req'[q].crossed /\ ~req'[q].late

Taken(q) ==
  \E t \in Tokens :
    /\ rt' = rt /\ rt[t].status = "live"
    /\ req'[q].pc = "rotate" /\ req'[q].op = "refresh" /\ req'[q].tok = t
    /\ req'[q].user = rt[t].owner
    /\ ~req'[q].crossed /\ req'[q].late = rt[t].crossed

Rotated(q) ==
  /\ req[q].pc = "rotate" /\ req'[q].pc = "issue"
  /\ req'[q].op = req[q].op /\ req'[q].user = req[q].user
  /\ req'[q].tok = req[q].tok
  /\ req'[q].crossed = req[q].crossed /\ req'[q].late = req[q].late
  /\ req[q].tok \in Tokens => rt'[req[q].tok].status = "revoked"

Stamped(q) ==
  /\ req[q].pc = "stamp" /\ req'[q].pc = "issue"
  /\ req'[q].op = req[q].op /\ req'[q].user = req[q].user
  /\ req'[q].tok = req[q].tok
  /\ req'[q].crossed = req[q].crossed /\ req'[q].late = req[q].crossed

Moved(q) ==
  \/ req'[q].pc \notin Acting
  \/ Stayed(q) \/ Entered(q) \/ Taken(q) \/ Rotated(q) \/ Stamped(q)

(* And to the rows: lower them, or issue one. *)
Issued(r, n) ==
  /\ InFlight(r) /\ req[r].pc = "issue" /\ rt[n].status = "unused"
  /\ rt'[n].status = "live" /\ rt'[n].owner = req[r].user
  /\ rt'[n].parent = req[r].tok
  /\ rt'[n].crossed = (req[r].crossed \/ req[r].late)
  /\ \A w \in Tokens : w # n => rt'[w] = rt[w]
  /\ req'[r].pc \notin Acting
  /\ \A q \in Requests : q # r => req'[q] = req[q]

(* The steps of a request in flight, on the rows. *)
LEMMA RequestRows ==
  ASSUME IndInv, NEW r \in Requests, RequestStep(r)
  PROVE  \/ \A t \in Tokens : Lowered(rt'[t], rt[t])
         \/ \E n \in Tokens : Issued(r, n)
<1>0. /\ TypeOK /\ req[r] \in Request /\ req[r].tok \in Tokens \cup {NoToken}
      /\ req[r].user \in Users /\ RequestOK(r)
      /\ \A t \in Tokens : rt[t] \in TokenRow
  BY RequestUpdate DEF IndInv, TypeOK
<1>1. CASE UNCHANGED rt
  BY <1>0, <1>1, LoweredRows
<1>2. CASE IssueToken(r)
  <2> DEFINE row == [status |-> "live", owner |-> req[r].user, expired |-> FALSE,
                     returned |-> req[r].op # "login", version |-> SignedVersion(r),
                     parent |-> req[r].tok, authEpoch |-> req[r].authEpoch,
                     crossed |-> req[r].crossed \/ req[r].late, late |-> req[r].late]
  <2>1. PICK n \in Tokens :
          /\ rt[n].status = "unused" /\ rt' = [rt EXCEPT ![n] = row]
          /\ req' = IF req[r].op = "login"
                      THEN [req EXCEPT ![r].pc = "finish", ![r].tok = n]
                      ELSE Finished(r)
    BY <1>2 DEF IssueToken
  <2>2. /\ row.status = "live" /\ row.owner = req[r].user /\ row.parent = req[r].tok
        /\ row.crossed = (req[r].crossed \/ req[r].late)
    OBVIOUS
  <2> HIDE DEF row
  <2>3. /\ req'[r].pc \in {"idle", "finish"}
        /\ \A q \in Requests : q # r => req'[q] = req[q]
    <3>1. CASE req' = Finished(r)
      BY <1>0, <3>1, FinishedFacts
    <3>2. CASE req' = [req EXCEPT ![r].pc = "finish", ![r].tok = n]
      <4> DEFINE s == [req[r] EXCEPT !.pc = "finish", !.tok = n]
      <4>1. s.pc = "finish" /\ req' = [req EXCEPT ![r] = s]
        BY <1>0, <3>2 DEF TypeOK, Request
      <4> HIDE DEF s
      <4> QED BY <1>0, <4>1 DEF TypeOK
    <3> QED BY <2>1, <3>1, <3>2
  <2>4. rt'[n] = row /\ \A w \in Tokens : w # n => rt'[w] = rt[w]
    BY <1>0, <2>1 DEF TypeOK
  <2>5. Issued(r, n)
    BY <1>2, <2>1, <2>2, <2>3, <2>4 DEF Issued, InFlight, Acting, IssueToken
  <2> QED BY <2>5
<1>3. CASE LoginFinish(r)
  <2> DEFINE t == req[r].tok
  <2>1. t \in Tokens /\ rt[t].status # "unused"
    BY <1>0, <1>3 DEF LoginFinish, RequestOK
  <2>2. rt' = [rt EXCEPT ![t] = [rt[t] EXCEPT !.returned = TRUE]]
    BY <1>0, <1>3, <2>1 DEF LoginFinish, TypeOK
  <2> QED BY <1>0, <2>1, <2>2, LoweredRows DEF TypeOK
<1>4. CASE RefreshRetire(r) \/ RefreshRotate(r) \/ CommitRevokeOne(r)
  <2>1. CASE rt' = RevokedRow(req[r].tok)
    <3>1. UNCHANGED <<user, epoch>>
      BY <1>4 DEF RefreshRetire, RefreshRotate, CommitRevokeOne
    <3> QED BY <1>0, <2>1, <3>1, RevokeOneQuiet DEF Quiet
  <2> QED BY <1>1, <1>4, <2>1 DEF RefreshRetire, RefreshRotate, CommitRevokeOne
<1>5. CASE RefreshReuse(r) \/ CommitKill(r) \/ CommitLogoutAll(r)
  <2>1. rt' = RevokedRows(req[r].user)
    BY <1>5 DEF RefreshReuse, CommitKill, CommitLogoutAll, Kill
  <2>2. ASSUME NEW t \in Tokens PROVE Lowered(rt'[t], rt[t])
    <3>1. rt'[t] = rt[t] \/ (rt'[t] = [rt[t] EXCEPT !.status = "revoked"] /\ rt[t].status = "live")
      BY <1>0, <2>1, RevokedRowsFacts
    <3> QED BY <1>0, <3>1, LoweredRows
  <2> QED BY <2>2
<1>6. CASE GoogleStamp(r) \/ Fail(r)
  BY <1>1, <1>6 DEF GoogleStamp, Fail
<1> QED BY <1>2, <1>3, <1>4, <1>5, <1>6 DEF RequestStep

(* Every step, on the rows. *)
LEMMA StepRows ==
  ASSUME IndInv, [Next]_vars
  PROVE  \/ \A t \in Tokens : Lowered(rt'[t], rt[t])
         \/ \E r \in Requests, n \in Tokens : Issued(r, n)
<1>0. TypeOK /\ \A t \in Tokens : rt[t] \in TokenRow
  BY DEF IndInv, TypeOK
<1>1. CASE UNCHANGED rt
  BY <1>0, <1>1, LoweredRows
<1>2. ASSUME NEW t \in Tokens, Expire(t) PROVE \A w \in Tokens : Lowered(rt'[w], rt[w])
  <2>1. rt' = [rt EXCEPT ![t] = [rt[t] EXCEPT !.expired = TRUE]]
    BY <1>0, <1>2 DEF Expire, TypeOK
  <2> QED BY <1>0, <2>1, LoweredRows DEF TypeOK
<1>3. CASE CleanupRefreshTokens
  <2>1. PICK gone \in SUBSET Tokens :
          /\ \A t \in gone : rt[t].status # "unused"
          /\ rt' = [t \in Tokens |-> IF t \in gone
                                        THEN [rt[t] EXCEPT !.status = "deleted"]
                                        ELSE rt[t]]
    BY <1>3 DEF CleanupRefreshTokens, RowExists
  <2> QED BY <1>0, <2>1, LoweredRows
<1>4. ASSUME NEW r \in Requests, RequestStep(r)
      PROVE  \/ \A t \in Tokens : Lowered(rt'[t], rt[t])
             \/ \E n \in Tokens : Issued(r, n)
  BY <1>4, RequestRows
<1>5. ASSUME \E u \in Users : UserStep(u) PROVE UNCHANGED rt
  BY <1>5 DEF UserStep, ForgotPassword, ResetExpired, SetBlocked, SetDeleted
<1>6. ASSUME \/ \E r \in Requests, u \in Users : LoginRead(r, u) \/ GoogleRead(r, u) \/ VerifyRead(r, u)
             \/ \E r \in Requests, u \in Users, op \in AllOps : PrivilegedRead(r, u, op)
             \/ \E r \in Requests, t \in Tokens : RefreshRead(r, t)
             \/ \E r \in Requests, u \in Users, t \in Tokens : RevokeOneRead(r, u, t)
      PROVE  UNCHANGED rt
  BY <1>6 DEF LoginRead, GoogleRead, VerifyRead, PrivilegedRead, RefreshRead, RevokeOneRead
<1>7. CASE UNCHANGED vars
  BY <1>1, <1>7 DEF vars
<1>8. CASE \E r \in Requests : RequestStep(r)
  BY <1>4, <1>8
<1> QED BY <1>1, <1>2, <1>3, <1>5, <1>6, <1>7, <1>8 DEF Next

(* The first read of a request that is not a refresh enters it or leaves   *)
(* nothing to issue.                                                       *)
LEMMA StartMoves ==
  ASSUME TypeOK, NEW q \in Requests, NEW r \in Requests, NEW u \in Users,
         NEW op \in AllOps, NEW pc \in FirstPC, NEW t \in Tokens \cup {NoToken},
         req' = Started(r, op, pc, u, t),
         pc = "commit" \/ (pc \in {"stamp", "issue"} /\ op # "refresh" /\ t = NoToken)
  PROVE  Moved(q)
<1> DEFINE s == [pc |-> pc, op |-> op, user |-> u, tok |-> t,
                 version |-> user[u].tokenVersion, authEpoch |-> epoch[u].now,
                 crossed |-> FALSE, late |-> FALSE]
<1>1. req' = [req EXCEPT ![r] = s]
  BY DEF Started
<1>2. s.pc = pc /\ s.op = op /\ s.tok = t /\ ~s.crossed /\ ~s.late
  OBVIOUS
<1> HIDE DEF s
<1>3. req'[q] = IF q = r THEN s ELSE req[q]
  BY <1>1 DEF TypeOK
<1>4. CASE q = r
  BY <1>2, <1>3, <1>4 DEF Moved, Entered, Acting
<1>5. CASE q # r
  BY <1>3, <1>5 DEF Moved, Stayed
<1> QED BY <1>4, <1>5

(* What the steps of requests in flight do to a request. *)
LEMMA RequestMoves ==
  ASSUME IndInv, NEW q \in Requests, NEW r \in Requests, RequestStep(r)
  PROVE  Moved(q)
<1>0. TypeOK /\ req[r] \in Request /\ req[q] \in Request /\ req[r].user \in Users
      /\ req[r].tok \in Tokens \cup {NoToken}
  BY RequestUpdate DEF IndInv, TypeOK
<1>1. CASE req'[q] = req[q]
  BY <1>1 DEF Moved, Stayed
<1>2. ASSUME req' = Finished(r) PROVE Moved(q)
  <2>1. req'[q].pc = "idle" \/ req'[q] = req[q]
    BY <1>0, <1>2, FinishedFacts
  <2> QED BY <1>1, <2>1 DEF Moved, Acting
<1>3. CASE GoogleStamp(r)
  <2> DEFINE s == [req[r] EXCEPT !.pc = "issue", !.late = req[r].crossed,
                                 !.version = user[req[r].user].tokenVersion]
  <2>1. /\ s.pc = "issue" /\ s.op = req[r].op /\ s.user = req[r].user
        /\ s.tok = req[r].tok /\ s.crossed = req[r].crossed /\ s.late = req[r].crossed
        /\ req' = [req EXCEPT ![r] = s] /\ req[r].pc = "stamp"
    BY <1>0, <1>3 DEF GoogleStamp, TypeOK, Request
  <2> HIDE DEF s
  <2>2. req'[q] = IF q = r THEN s ELSE req[q]
    BY <1>0, <2>1 DEF TypeOK
  <2> QED BY <1>1, <2>1, <2>2 DEF Moved, Stamped
<1>4. CASE IssueToken(r)
  <2>1. CASE req' = Finished(r)
    BY <1>2, <2>1
  <2>2. ASSUME NEW t \in Tokens, req' = [req EXCEPT ![r].pc = "finish", ![r].tok = t]
        PROVE  Moved(q)
    <3> DEFINE s == [req[r] EXCEPT !.pc = "finish", !.tok = t]
    <3>1. s.pc = "finish" /\ req' = [req EXCEPT ![r] = s]
      BY <1>0, <2>2 DEF TypeOK, Request
    <3> HIDE DEF s
    <3>2. req'[q] = IF q = r THEN s ELSE req[q]
      BY <1>0, <3>1 DEF TypeOK
    <3> QED BY <1>1, <3>1, <3>2 DEF Moved, Acting
  <2>3. req' = Finished(r) \/ \E t \in Tokens : req' = [req EXCEPT ![r].pc = "finish", ![r].tok = t]
    BY <1>4, Zenon DEF IssueToken
  <2> QED BY <2>1, <2>2, <2>3
<1>5. CASE RefreshRotate(r)
  <2>1. CASE /\ req' = [req EXCEPT ![r].pc = "issue"] /\ req[r].pc = "rotate"
             /\ RowExists(req[r].tok) /\ rt' = RevokedRow(req[r].tok)
    <3> DEFINE s == [req[r] EXCEPT !.pc = "issue"]
    <3>1. /\ s.pc = "issue" /\ s.op = req[r].op /\ s.user = req[r].user
          /\ s.tok = req[r].tok /\ s.crossed = req[r].crossed /\ s.late = req[r].late
          /\ req' = [req EXCEPT ![r] = s]
      BY <1>0, <2>1 DEF TypeOK, Request
    <3> HIDE DEF s
    <3>2. req'[q] = IF q = r THEN s ELSE req[q]
      BY <1>0, <3>1 DEF TypeOK
    <3>3. req[r].tok \in Tokens => rt'[req[r].tok].status = "revoked"
      BY <1>0, <2>1 DEF TypeOK, TokenRow, RevokedRow
    <3> QED BY <1>1, <2>1, <3>1, <3>2, <3>3 DEF Moved, Rotated
  <2>2. \/ req' = Finished(r)
        \/ req' = [req EXCEPT ![r].pc = "issue"] /\ RowExists(req[r].tok)
    BY <1>5, Zenon DEF RefreshRotate
  <2> QED BY <1>2, <1>5, <2>1, <2>2 DEF RefreshRotate
<1>6. CASE RefreshReuse(r) \/ CommitKill(r) \/ CommitLogoutAll(r)
  <2>1. req' = Overtaken(r, req[r].user) /\ InFlight(r)
    BY <1>6 DEF RefreshReuse, CommitKill, CommitLogoutAll, Kill, InFlight
  <2>2. \/ req'[q].pc = "idle" \/ req'[q] = req[q]
        \/ /\ req'[q] = [req[q] EXCEPT !.crossed = TRUE]
           /\ q # r /\ InFlight(q) /\ req[q].user = req[r].user
    BY <1>0, <2>1, IdleType DEF Overtaken
  <2>3. CASE /\ req'[q] = [req[q] EXCEPT !.crossed = TRUE]
             /\ q # r /\ InFlight(q) /\ req[q].user = req[r].user
    <3>1. Rival(q)
      BY <2>1, <2>3 DEF Rival
    <3>2. /\ req'[q].pc = req[q].pc /\ req'[q].op = req[q].op
          /\ req'[q].user = req[q].user /\ req'[q].tok = req[q].tok
          /\ req'[q].late = req[q].late
      BY <1>0, <2>3 DEF Request
    <3> QED BY <3>1, <3>2 DEF Moved, Stayed
  <2> QED BY <1>1, <2>2, <2>3 DEF Moved, Acting
<1>7. CASE LoginFinish(r) \/ RefreshRetire(r) \/ CommitRevokeOne(r) \/ Fail(r)
  BY <1>2, <1>7 DEF LoginFinish, RefreshRetire, CommitRevokeOne, Fail
<1> QED BY <1>3, <1>4, <1>5, <1>6, <1>7 DEF RequestStep

(* Every step, on a request. *)
LEMMA StepMoves ==
  ASSUME IndInv, [Next]_vars, NEW q \in Requests
  PROVE  Moved(q)
<1>0. TypeOK /\ NoToken \in Tokens \cup {NoToken}
  BY DEF IndInv
<1>1. CASE UNCHANGED req
  BY <1>1 DEF Moved, Stayed
<1>2. ASSUME NEW r \in Requests, RequestStep(r) PROVE Moved(q)
  BY <1>2, RequestMoves
<1>3. ASSUME NEW r \in Requests, NEW u \in Users, LoginRead(r, u) \/ GoogleRead(r, u) \/ VerifyRead(r, u)
      PROVE  Moved(q)
  <2>1. PICK op \in AllOps, pc \in FirstPC :
          /\ req' = Started(r, op, pc, u, NoToken)
          /\ pc \in {"stamp", "issue"} /\ op # "refresh"
    BY <1>3 DEF LoginRead, GoogleRead, VerifyRead, AllOps, FirstPC
  <2> QED BY <1>0, <2>1, StartMoves
<1>4. ASSUME NEW r \in Requests, NEW u \in Users, NEW op \in AllOps, PrivilegedRead(r, u, op)
      PROVE  Moved(q)
  <2>1. PICK pc \in FirstPC : pc = "commit"
    BY DEF FirstPC
  <2>2. req' = Started(r, op, pc, u, NoToken)
    BY <1>4, <2>1 DEF PrivilegedRead
  <2> QED BY <1>0, <2>1, <2>2, StartMoves
<1>5. ASSUME NEW r \in Requests, NEW u \in Users, NEW t \in Tokens, RevokeOneRead(r, u, t)
      PROVE  Moved(q)
  <2>1. PICK op \in AllOps, pc \in FirstPC : req' = Started(r, op, pc, u, t) /\ pc = "commit"
    BY <1>5 DEF RevokeOneRead, AllOps, FirstPC
  <2>2. t \in Tokens \cup {NoToken}
    OBVIOUS
  <2> QED BY <1>0, <2>1, <2>2, StartMoves
<1>6. ASSUME NEW r \in Requests, NEW t \in Tokens, RefreshRead(r, t) PROVE Moved(q)
  <2>1. PICK pc \in {"reuse", "retire", "rotate"} :
          /\ req' = [Started(r, "refresh", pc, rt[t].owner, t) EXCEPT
                       ![r].authEpoch = rt[t].authEpoch, ![r].late = rt[t].crossed]
          /\ pc = "rotate" => rt[t].status = "live"
          /\ rt' = rt
    BY <1>6 DEF RefreshRead
  <2>2. CASE q # r
    <3>1. req'[q] = req[q]
      BY <1>0, <2>1, <2>2 DEF Started, TypeOK
    <3> QED BY <3>1 DEF Moved, Stayed
  <2>3. CASE q = r
    <3>1. /\ req'[q].pc = pc /\ req'[q].op = "refresh" /\ req'[q].tok = t
          /\ req'[q].user = rt[t].owner /\ req'[q].crossed = FALSE
          /\ req'[q].late = rt[t].crossed
      BY <1>0, <2>1, <2>3 DEF Started, TypeOK
    <3>2. CASE pc = "rotate"
      BY <2>1, <3>1, <3>2 DEF Moved, Taken
    <3>3. CASE pc # "rotate"
      BY <3>1, <3>3 DEF Moved, Acting
    <3> QED BY <3>2, <3>3
  <2> QED BY <2>2, <2>3
<1>7. CASE \/ \E u \in Users : UserStep(u)
           \/ \E t \in Tokens : Expire(t)
           \/ CleanupRefreshTokens
           \/ UNCHANGED vars
  BY <1>1, <1>7
     DEF UserStep, ForgotPassword, ResetExpired, SetBlocked, SetDeleted, Expire,
         CleanupRefreshTokens, vars
<1> QED BY <1>2, <1>3, <1>4, <1>5, <1>6, <1>7 DEF Next

(* An account that has kept to one request at a time has no rivals, before *)
(* a step and after it.                                                    *)
LEMMA NoRival ==
  ASSUME Serial, overlap' = overlap \cup Overlapping',
         NEW u \in Users, u \notin overlap',
         NEW q \in Requests, NEW r \in Requests, q # r
  PROVE  /\ ~(InFlight(q) /\ InFlight(r) /\ req[q].user = u /\ req[r].user = u)
         /\ ~(InFlight(q)' /\ InFlight(r)' /\ req'[q].user = u /\ req'[r].user = u)
         /\ u \notin overlap
BY DEF Serial, Overlapping

(* Rows that are only lowered keep chains and marks. *)
LEMMA ChainedLowered ==
  ASSUME IndInv, Serial, overlap' = overlap \cup Overlapping',
         \A t \in Tokens : Lowered(rt'[t], rt[t]),
         NEW s \in Tokens
  PROVE  Chained(s)' /\ Uncrossed(s)'
<1>1. Chained(s) /\ Uncrossed(s)
  BY DEF Serial
<1>2. Chained(s)'
  BY <1>1 DEF Chained, Lowered
<1>3. Uncrossed(s)'
  BY <1>1 DEF Uncrossed, Lowered
<1> QED BY <1>2, <1>3

(* Steps that only lower rows keep what is known of requests. *)
LEMMA HoldingLowered ==
  ASSUME IndInv, Serial, overlap' = overlap \cup Overlapping',
         \A t \in Tokens : Lowered(rt'[t], rt[t]),
         NEW q \in Requests, Moved(q), req'[q].pc \in Acting
  PROVE  Holding(q)' /\ Single(q)'
<1>0. Holding(q) /\ Single(q) /\ req[q].user \in Users
  BY RequestUpdate DEF Serial, IndInv, TypeOK
<1>1. CASE Stayed(q)
  <2>1. Holding(q)'
    BY <1>0, <1>1 DEF Stayed, Holding, Lowered
  <2>2. ASSUME req'[q].user \notin overlap' PROVE ~Rival(q) /\ req[q].user \notin overlap
    BY <1>0, <1>1, <2>2 DEF Serial, Overlapping, Rival, Stayed
  <2>3. Single(q)'
    BY <1>0, <1>1, <2>2 DEF Stayed, Single, Holding, Lowered
  <2> QED BY <2>1, <2>3
<1>2. CASE Entered(q)
  BY <1>2 DEF Entered, Holding, Single
<1>3. CASE Taken(q)
  <2>1. PICK t \in Tokens :
          /\ rt' = rt /\ rt[t].status = "live"
          /\ req'[q].pc = "rotate" /\ req'[q].op = "refresh" /\ req'[q].tok = t
          /\ req'[q].user = rt[t].owner
          /\ ~req'[q].crossed /\ req'[q].late = rt[t].crossed
    BY <1>3 DEF Taken
  <2>2. Holding(q)'
    BY <2>1 DEF Holding
  <2>3. ASSUME rt[t].owner \notin overlap
        PROVE  ~rt[t].crossed /\ \A s \in Tokens : rt[s].parent # t
    BY <2>1, <2>3 DEF Serial, Uncrossed, Chained
  <2>4. Single(q)'
    BY <2>1, <2>3 DEF Single
  <2> QED BY <2>2, <2>4
<1>4. CASE Rotated(q)
  <2>1. Holding(q)'
    BY <1>0, <1>4 DEF Rotated, Holding, Lowered, Acting
  <2>2. Single(q)'
    BY <1>0, <1>4 DEF Rotated, Single, Holding, Lowered, Acting
  <2> QED BY <2>1, <2>2
<1>5. CASE Stamped(q)
  <2>1. Holding(q)'
    BY <1>0, <1>5 DEF Stamped, Holding, Acting
  <2>2. Single(q)'
    BY <1>0, <1>5 DEF Stamped, Single, Holding, Acting
  <2> QED BY <2>1, <2>2
<1> QED BY <1>1, <1>2, <1>3, <1>4, <1>5 DEF Moved

(* A new row continues the chain of the token its request has retired: no  *)
(* other row does, and no other request of the account is about to.        *)
LEMMA SerialIssued ==
  ASSUME IndInv, Serial, overlap' = overlap \cup Overlapping',
         NEW r \in Requests, NEW n \in Tokens, Issued(r, n)
  PROVE  Serial'
<1>0. /\ Holding(r) /\ Single(r) /\ req[r].user \in Users
      /\ req[r].pc \in Acting
  BY RequestUpdate DEF Serial, IndInv, TypeOK, Issued, Acting
<1>1. /\ InFlight(r) /\ req[r].pc = "issue" /\ rt[n].status = "unused"
      /\ rt'[n].status = "live" /\ rt'[n].owner = req[r].user
      /\ rt'[n].parent = req[r].tok
      /\ rt'[n].crossed = (req[r].crossed \/ req[r].late)
      /\ \A w \in Tokens : w # n => rt'[w] = rt[w]
      /\ req'[r].pc \notin Acting
      /\ \A q \in Requests : q # r => req'[q] = req[q]
  BY DEF Issued
<1>2. \A w \in Tokens : rt[w].parent # n
  BY <1>1 DEF Serial, Chained
<1>3. ASSUME NEW w \in Tokens PROVE Uncrossed(w)'
  <2>1. CASE w = n
    BY <1>0, <1>1, <2>1 DEF Uncrossed, Single
  <2>2. CASE w # n
    BY <1>1, <2>2 DEF Uncrossed, Serial
  <2> QED BY <2>1, <2>2
<1>4. ASSUME NEW w \in Tokens PROVE Chained(w)'
  <2>1. req[r].tok \in Tokens =>
          /\ req[r].tok # n /\ rt[req[r].tok].status # "unused"
          /\ rt[req[r].tok].owner = req[r].user
          /\ req[r].user \notin overlap =>
               /\ rt[req[r].tok].status # "live"
               /\ \A s \in Tokens : rt[s].parent # req[r].tok
    BY <1>0, <1>1, SessionConstants DEF Holding, Single
  <2>2. CASE w = n
    BY <1>1, <2>1, <2>2 DEF Chained
  <2>3. CASE w # n
    <3>1. Chained(w) /\ rt'[w] = rt[w] /\ rt[w].parent # n
      BY <1>1, <1>2, <2>3 DEF Serial
    <3>2. CASE rt[w].parent = req[r].tok
      BY <1>1, <2>1, <3>1, <3>2 DEF Chained
    <3>3. CASE rt[w].parent # req[r].tok
      BY <1>1, <3>1, <3>3 DEF Chained
    <3> QED BY <3>2, <3>3
  <2> QED BY <2>2, <2>3
<1>5. ASSUME NEW q \in Requests PROVE Holding(q)' /\ Single(q)'
  <2>1. CASE q = r
    BY <1>1, <2>1 DEF Holding, Single
  <2>2. CASE q # r /\ req[q].pc \in Acting
    <3>1. Holding(q) /\ Single(q) /\ req'[q] = req[q] /\ req[q].user \in Users
      BY <1>1, <2>2, RequestUpdate DEF Serial, IndInv, TypeOK
    <3>2. req[q].tok # n
      BY <1>1, <2>2, <3>1, SessionConstants DEF Holding
    <3>3. Holding(q)'
      BY <1>1, <3>1, <3>2 DEF Holding
    <3>4. ASSUME req[q].user \notin overlap'
          PROVE  /\ req[q].user \notin overlap
                 /\ req[q].op = "refresh" /\ req[r].op = "refresh" => req[q].tok # req[r].tok
      <4>1. req[q].user # req[r].user /\ req[q].user \notin overlap
        BY <1>1, <2>2, <3>1, <3>4 DEF Serial, Overlapping, InFlight, Acting
      <4> QED BY <1>0, <2>2, <3>1, <4>1 DEF Holding
    <3>5. req[q].user \notin overlap' /\ req[q].op = "refresh" => req[q].tok # req[r].tok
      BY <1>0, <2>2, <3>1, <3>4, SessionConstants DEF Holding
    <3>6. Single(q)'
      BY <1>1, <2>2, <3>1, <3>2, <3>4, <3>5 DEF Single, Holding
    <3> QED BY <3>3, <3>6
  <2>3. CASE q # r /\ req[q].pc \notin Acting
    BY <1>1, <2>3 DEF Holding, Single
  <2> QED BY <2>1, <2>2, <2>3
<1>6. (Overlapping \subseteq overlap)'
  OBVIOUS
<1> QED BY <1>3, <1>4, <1>5, <1>6 DEF Serial

LEMMA SerialInv == IndInv /\ Serial /\ [HistoryNext]_<<vars, overlap>> => Serial'
<1> SUFFICES ASSUME IndInv, Serial, [HistoryNext]_<<vars, overlap>> PROVE Serial'
  OBVIOUS
<1>1. CASE HistoryNext
  <2>1. [Next]_vars /\ overlap' = overlap \cup Overlapping'
    BY <1>1 DEF HistoryNext
  <2>2. CASE \A t \in Tokens : Lowered(rt'[t], rt[t])
    <3>1. \A t \in Tokens : Chained(t)' /\ Uncrossed(t)'
      BY <2>1, <2>2, ChainedLowered
    <3>2. ASSUME NEW q \in Requests PROVE Holding(q)' /\ Single(q)'
      <4>1. CASE req'[q].pc \in Acting
        BY <2>1, <2>2, <4>1, StepMoves, HoldingLowered
      <4>2. CASE req'[q].pc \notin Acting
        BY <4>2 DEF Holding, Single
      <4> QED BY <4>1, <4>2
    <3>3. (Overlapping \subseteq overlap)'
      BY <2>1
    <3> QED BY <3>1, <3>2, <3>3 DEF Serial
  <2>3. CASE \E r \in Requests, n \in Tokens : Issued(r, n)
    BY <2>1, <2>3, SerialIssued
  <2> QED BY <2>1, <2>2, <2>3, StepRows
<1>2. CASE UNCHANGED <<vars, overlap>>
  BY <1>2 DEF vars, Serial, Holding, Single, Chained, Uncrossed, Overlapping, InFlight
<1> QED BY <1>1, <1>2

LEMMA SerialInit == HistoryInit => Serial
<1> SUFFICES ASSUME HistoryInit PROVE Serial
  OBVIOUS
<1>1. \A r \in Requests : req[r].pc = "idle"
  BY DEF HistoryInit, Init, IdleRequest
<1>2. \A t \in Tokens : rt[t].status = "unused" /\ rt[t].parent = NoToken
  BY DEF HistoryInit, Init
<1> QED BY <1>1, <1>2, SessionConstants
        DEF Serial, Holding, Single, Chained, Uncrossed, Overlapping, InFlight, Acting

(* Serial is an invariant of Sessions with its history. *)
LEMMA SerialInvariant == HistorySpec => [](IndInv /\ Serial)
<1>1. HistoryInit => IndInv /\ Serial
  BY InitInv, SerialInit DEF HistoryInit
<1>2. IndInv /\ Serial /\ [HistoryNext]_<<vars, overlap>> => IndInv' /\ Serial'
  <2>1. [HistoryNext]_<<vars, overlap>> => [Next]_vars
    BY DEF HistoryNext
  <2> QED BY <2>1, NextInv, SerialInv
<1> QED BY <1>1, <1>2, PTL DEF HistorySpec

(* The families of endpoints that TLC explores are behaviours of it. *)
LEMMA FamiliesAreHistories == MCSpec => HistorySpec
<1>1. [MCNext]_<<vars, overlap, family>> => [HistoryNext]_<<vars, overlap>>
  BY DEF MCNext
<1>2. MCInit => HistoryInit
  BY DEF MCInit
<1> QED BY <1>1, <1>2, PTL DEF MCSpec, HistorySpec

(* An account whose requests never overlapped keeps no session past a      *)
(* revoke-all, whatever the other accounts do (auth.service.js             *)
(* createRefreshTokenRecord after the row was read).                       *)
THEOREM RevokeAllSerialTheorem == HistorySpec => []RevokeAllSerial
<1>1. IndInv /\ Serial => RevokeAllSerial
  BY DEF IndInv, TokenOK, Serial, Uncrossed, RevokeAllSerial
<1> QED BY <1>1, SerialInvariant, PTL

(* Its refresh tokens form chains: rotation gives a token at most one      *)
(* successor, stored or about to be (auth.service.js, refresh).            *)
THEOREM OneSuccessorTheorem == HistorySpec => []OneSuccessorSerial
<1>1. ASSUME IndInv, Serial, NEW t \in Tokens, rt[t].owner \notin overlap
      PROVE  Cardinality({s \in Tokens : rt[s].parent = t}) +
             Cardinality({r \in Requests : /\ req[r].op = "refresh" /\ req[r].pc = "issue"
                                           /\ req[r].tok = t}) <= 1
  <2> DEFINE S == {s \in Tokens : rt[s].parent = t}
             R == {r \in Requests : /\ req[r].op = "refresh" /\ req[r].pc = "issue"
                                    /\ req[r].tok = t}
  <2>1. \A s, w \in S : s = w
    BY <1>1 DEF Serial, Chained
  <2>2. ASSUME NEW r \in R PROVE req[r].user = rt[t].owner /\ req[r].user \in Users
                                 /\ InFlight(r) /\ S = {}
    BY <1>1, <2>2, SessionConstants, RequestUpdate
       DEF Serial, Holding, Single, Acting, InFlight, IndInv, TypeOK
  <2>3. \A q, r \in R : q = r
    BY <1>1, <2>2 DEF Serial, Overlapping
  <2>4. S = {} \/ \E s : S = {s}
    BY <2>1
  <2>5. R = {} \/ \E r : R = {r}
    BY <2>3
  <2>6. S = {} \/ R = {}
    BY <2>2
  <2> HIDE DEF S, R
  <2>7. /\ Cardinality(S) = 0 \/ Cardinality(S) = 1
        /\ Cardinality(R) = 0 \/ Cardinality(R) = 1
        /\ Cardinality(S) = 0 \/ Cardinality(R) = 0
    BY <2>4, <2>5, <2>6, FS_EmptySet, FS_Singleton
  <2>8. Cardinality(S) + Cardinality(R) <= 1
    BY <2>7
  <2> QED BY <2>8 DEF S, R
<1>2. IndInv /\ Serial => OneSuccessorSerial
  BY <1>1 DEF OneSuccessorSerial
<1> QED BY <1>2, SerialInvariant, PTL

=============================================================================
