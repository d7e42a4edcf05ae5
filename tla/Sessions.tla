------------------------------ MODULE Sessions ------------------------------
(***************************************************************************)
(* Sessions of an account: refresh-token rows, access tokens and the       *)
(* tokenVersion they are checked against.                                  *)
(*                                                                         *)
(* Every HTTP request is a process that stops at each await of a database  *)
(* call: what it read before the await is in its record req[r], and other  *)
(* requests run between two of its steps.  A Prisma $transaction, a single *)
(* query and the synchronous code after it are one step.                   *)
(*                                                                         *)
(* A login or a refresh issues a pair: a refresh-token row and an access   *)
(* token signed with the tokenVersion the request read.  A pair has one    *)
(* identity t, rt[t].  The password compare, the TOTP code and the JWT     *)
(* signatures are inputs: only requests that present valid ones are        *)
(* started, since the others change nothing here (failed passwords are the *)
(* subject of module Lockout, challenges of module TwoFactor).             *)
(***************************************************************************)
EXTENDS Naturals

CONSTANTS
  Users,      \* accounts
  Tokens,     \* identities of refresh/access pairs, each issued once
  NoToken,
  Requests,   \* request slots: how many requests may be in flight
  Ops,        \* the endpoints clients call in this instance
  MaxEpoch    \* bound: revoke-all events per account

AllOps == {"login", "google", "verify", "refresh", "changePassword", "resetPassword",
           "enable", "disable", "revokeAll", "logout", "revokeSession", "admin"}

ASSUME SessionConstants ==
  /\ NoToken \notin Tokens
  /\ Ops \subseteq AllOps
  /\ MaxEpoch \in Nat

VARIABLES
  user,    \* users rows
  rt,      \* refresh_tokens rows, with the access token issued alongside
  req,     \* requests in flight
  epoch    \* history: epoch[u].now counts the revoke-all events of u,
           \* epoch[u].kill is its value at the last tokenVersion bump

vars == <<user, rt, req, epoch>>

-----------------------------------------------------------------------------
(* Types *)

(* blocked stands for banned or suspendedUntil in the future: every gate   *)
(* answers 403 to both.  reset: a passwordResetToken is stored.            *)
UserRow == [tokenVersion : Nat, blocked : BOOLEAN, deleted : BOOLEAN,
            twoFactorEnabled : BOOLEAN, reset : BOOLEAN]

(* status "unused": not issued yet; "deleted": the row has been cleaned up *)
(* version: tokenVersion in the access token; returned: the client has it. *)
(* History: parent, the token it was rotated from; authEpoch, epoch.now    *)
(* when this session passed the login gates; crossed, it was created by a  *)
(* request that a revoke-all overtook, or descends from such a token;      *)
(* late, the version was read when the session was already crossed.        *)
TokenRow == [status : {"unused", "live", "revoked", "deleted"}, owner : Users,
             expired : BOOLEAN, returned : BOOLEAN, version : Nat,
             parent : Tokens \cup {NoToken}, authEpoch : Nat,
             crossed : BOOLEAN, late : BOOLEAN]

Request == [pc : {"idle", "stamp", "issue", "finish", "reuse", "retire",
                  "rotate", "commit"},
            op : AllOps, user : Users, tok : Tokens \cup {NoToken},
            version : Nat, authEpoch : Nat,
            crossed : BOOLEAN, late : BOOLEAN]

TypeOK ==
  /\ user \in [Users -> UserRow]
  /\ rt \in [Tokens -> TokenRow]
  /\ req \in [Requests -> Request]
  /\ epoch \in [Users -> [now : 0..MaxEpoch, kill : 0..MaxEpoch]]

-----------------------------------------------------------------------------
(* Queries *)

InFlight(r) == req[r].pc # "idle"

RowExists(t) == rt[t].status \in {"live", "revoked"}

(* authenticate: the JWT carries the current tokenVersion of a user who is *)
(* neither deleted nor blocked.                                            *)
Authenticated(t) ==
  LET u == rt[t].owner IN
  /\ rt[t].returned
  /\ rt[t].version = user[u].tokenVersion
  /\ ~user[u].deleted
  /\ ~user[u].blocked

AuthenticatedUser(u) == \E t \in Tokens : rt[t].owner = u /\ Authenticated(t)

(* Writes *)

(* The record of request r after its first read of u's row. *)
Started(r, op, pc, u, t) ==
  [req EXCEPT ![r] = [pc |-> pc, op |-> op, user |-> u, tok |-> t,
                      version |-> user[u].tokenVersion,
                      authEpoch |-> epoch[u].now,
                      crossed |-> FALSE, late |-> FALSE]]

IdleRequest(u) == [pc |-> "idle", op |-> "login", user |-> u, tok |-> NoToken,
                   version |-> 0, authEpoch |-> 0, crossed |-> FALSE, late |-> FALSE]

Finished(r) == [req EXCEPT ![r] = IdleRequest(@.user)]

RevokedRow(t) == [rt EXCEPT ![t].status = IF RowExists(t) THEN "revoked" ELSE @]

RevokedRows(u) ==
  [t \in Tokens |-> IF rt[t].owner = u /\ rt[t].status = "live"
                      THEN [rt[t] EXCEPT !.status = "revoked"]
                      ELSE rt[t]]

(* History: every request in flight for u is overtaken by a revoke-all,    *)
(* and r, which did it, is over.                                           *)
Overtaken(r, u) ==
  [q \in Requests |->
     IF q = r THEN IdleRequest(u)
     ELSE IF InFlight(q) /\ req[q].user = u THEN [req[q] EXCEPT !.crossed = TRUE]
     ELSE req[q]]

(* tokenVersion: { increment: 1 } is evaluated by the database.            *)
(* Mutants: the value written is computed from the row as read; the sign   *)
(* is wrong.                                                               *)
BumpedFromRead(r, u) == req[r].version + 1
BumpedDown(r, u) == user[u].tokenVersion - 1
BumpedVersion(r, u) == user[u].tokenVersion + 1

(* What the access token of request r is signed with. *)
SignedVersion(r) == req[r].version

-----------------------------------------------------------------------------
(* login and googleLogin *)

(* login reads the row; bcrypt runs; the 403 gates and the second-factor   *)
(* gate then look at the row as it was read.                               *)
LoginRead(r, u) ==
  /\ "login" \in Ops /\ ~InFlight(r)
  /\ ~user[u].deleted /\ ~user[u].blocked /\ ~user[u].twoFactorEnabled
  /\ req' = Started(r, "login", "issue", u, NoToken)
  /\ UNCHANGED <<user, rt, epoch>>

(* googleLogin reads (or links, or creates) the row and checks the gates.  *)
GoogleRead(r, u) ==
  /\ "google" \in Ops /\ ~InFlight(r)
  /\ ~user[u].deleted /\ ~user[u].blocked /\ ~user[u].twoFactorEnabled
  /\ req' = Started(r, "google", "stamp", u, NoToken)
  /\ UNCHANGED <<user, rt, epoch>>

(* Its lastLoginAt update also returns the tokenVersion it will sign.      *)
GoogleStamp(r) ==
  /\ req[r].pc = "stamp"
  /\ req' = [req EXCEPT ![r] = [@ EXCEPT !.pc = "issue", !.late = req[r].crossed,
                                  !.version = user[req[r].user].tokenVersion]]
  /\ UNCHANGED <<user, rt, epoch>>

(* verifyChallenge: the second factor of a login, with gates of its own;   *)
(* the challenge is module TwoFactor's.                                    *)
VerifyRead(r, u) ==
  /\ "verify" \in Ops /\ ~InFlight(r)
  /\ ~user[u].deleted /\ ~user[u].blocked
  /\ req' = Started(r, "verify", "issue", u, NoToken)
  /\ UNCHANGED <<user, rt, epoch>>

(* createRefreshTokenRecord.  Every path but login signs the access token  *)
(* and answers right after it; login still has an update to wait for.      *)
IssueToken(r) ==
  /\ req[r].pc = "issue"
  /\ \E t \in Tokens :
       /\ rt[t].status = "unused"
       /\ rt' = [rt EXCEPT ![t] =
                  [status |-> "live", owner |-> req[r].user, expired |-> FALSE,
                   returned |-> req[r].op # "login",
                   version |-> SignedVersion(r), parent |-> req[r].tok,
                   authEpoch |-> req[r].authEpoch,
                   crossed |-> req[r].crossed \/ req[r].late,
                   late |-> req[r].late]]
       /\ req' = IF req[r].op = "login"
                   THEN [req EXCEPT ![r].pc = "finish", ![r].tok = t]
                   ELSE Finished(r)
  /\ UNCHANGED <<user, epoch>>

(* login resets the failure counters (module Lockout) and answers.         *)
LoginFinish(r) ==
  /\ req[r].pc = "finish"
  /\ rt' = [rt EXCEPT ![req[r].tok].returned = TRUE]
  /\ req' = Finished(r)
  /\ UNCHANGED <<user, epoch>>

-----------------------------------------------------------------------------
(* refresh *)

(* findUnique of the row with its user.  A missing row, and a row of a     *)
(* deleted or blocked user, is refused without a write.                    *)
(* Mutant: revoked is not looked at. *)
RefreshReadNoReuseCheck(r, t) ==
  /\ "refresh" \in Ops /\ ~InFlight(r)
  /\ rt[t].returned /\ RowExists(t)
  /\ req' = [Started(r, "refresh", "rotate", rt[t].owner, t) EXCEPT
                ![r].authEpoch = rt[t].authEpoch, ![r].late = rt[t].crossed]
  /\ UNCHANGED <<user, rt, epoch>>

RefreshRead(r, t) ==
  LET u == rt[t].owner
      start(pc) == [Started(r, "refresh", pc, u, t) EXCEPT
                      ![r].authEpoch = rt[t].authEpoch,
                      ![r].late = rt[t].crossed]
  IN
  /\ "refresh" \in Ops /\ ~InFlight(r)
  /\ rt[t].returned
  /\ \/ rt[t].status = "revoked" /\ req' = start("reuse")
     \/ rt[t].status = "live" /\ rt[t].expired /\ req' = start("retire")
     \/ /\ rt[t].status = "live" /\ ~rt[t].expired
        /\ ~user[u].deleted /\ ~user[u].blocked
        /\ req' = start("rotate")
  /\ UNCHANGED <<user, rt, epoch>>

(* The row's expiry has passed: it is revoked (the update fails, with      *)
(* nothing to undo, when the row is gone).                                 *)
RefreshRetire(r) ==
  /\ req[r].pc = "retire"
  /\ rt' = RevokedRow(req[r].tok)
  /\ req' = Finished(r)
  /\ UNCHANGED <<user, epoch>>

(* Rotation, first half: the submitted token is revoked.  Mutant: it is    *)
(* left as it was.                                                         *)
RotateKeepingOld(r) ==
  /\ req[r].pc = "rotate"
  /\ req' = [req EXCEPT ![r].pc = "issue"]
  /\ UNCHANGED <<user, rt, epoch>>

RefreshRotate(r) ==
  /\ req[r].pc = "rotate"
  /\ rt' = RevokedRow(req[r].tok)
  /\ req' = IF RowExists(req[r].tok) THEN [req EXCEPT ![r].pc = "issue"]
                                      ELSE Finished(r)
  /\ UNCHANGED <<user, epoch>>

-----------------------------------------------------------------------------
(* Revoke-all events *)

(* One transaction: tokenVersion + 1 (the caller's conjunct on user') and  *)
(* every row of the user revoked.  Mutant: the rows are forgotten.         *)
KillVersionOnly(r, u) ==
  /\ epoch[u].now < MaxEpoch
  /\ req' = Overtaken(r, u)
  /\ epoch' = [epoch EXCEPT ![u] = [now |-> @.now + 1, kill |-> @.now + 1]]
  /\ UNCHANGED rt

Kill(r, u) ==
  /\ epoch[u].now < MaxEpoch
  /\ rt' = RevokedRows(u)
  /\ req' = Overtaken(r, u)
  /\ epoch' = [epoch EXCEPT ![u] = [now |-> @.now + 1, kill |-> @.now + 1]]

(* Reuse detection: a revoked token was presented. *)
RefreshReuse(r) ==
  /\ req[r].pc = "reuse"
  /\ Kill(r, req[r].user)
  /\ user' = [user EXCEPT ![req[r].user].tokenVersion = BumpedVersion(r, req[r].user)]

(* changePassword, resetPassword, enable and disable of the second factor, *)
(* revokeAllSessions and logout: authentication and the reads that decide, *)
(* then, after an await, the write.                                        *)
PrivilegedRead(r, u, op) ==
  /\ op \in Ops /\ ~InFlight(r)
  /\ \/ op \in {"changePassword", "revokeAll", "logout"} /\ AuthenticatedUser(u)
     \/ op = "enable" /\ AuthenticatedUser(u) /\ ~user[u].twoFactorEnabled
     \/ op = "disable" /\ AuthenticatedUser(u) /\ user[u].twoFactorEnabled
     \/ op = "resetPassword" /\ user[u].reset /\ ~user[u].deleted
  /\ req' = Started(r, op, "commit", u, NoToken)
  /\ UNCHANGED <<user, rt, epoch>>

CommitKill(r) ==
  LET u == req[r].user  op == req[r].op IN
  /\ req[r].pc = "commit"
  /\ op \in {"changePassword", "resetPassword", "enable", "disable", "revokeAll"}
  /\ Kill(r, u)
  /\ user' = [user EXCEPT ![u] = [user[u] EXCEPT
       !.tokenVersion = BumpedVersion(r, u),
       !.reset = @ /\ op # "resetPassword",
       !.twoFactorEnabled = op = "enable" \/ (@ /\ op # "disable")]]

(* logout without a token: the rows are revoked, tokenVersion stays. *)
CommitLogoutAll(r) ==
  LET u == req[r].user IN
  /\ req[r].pc = "commit" /\ req[r].op = "logout" /\ req[r].tok = NoToken
  /\ epoch[u].now < MaxEpoch
  /\ rt' = RevokedRows(u)
  /\ req' = Overtaken(r, u)
  /\ epoch' = [epoch EXCEPT ![u] = [now |-> @.now + 1, kill |-> @.kill]]
  /\ UNCHANGED user

-----------------------------------------------------------------------------
(* Revoking one session *)

(* logout with a token (any token the client knows) and revokeSession,     *)
(* which first looks the row up among the caller's live ones.              *)
RevokeOneRead(r, u, t) ==
  /\ ~InFlight(r) /\ AuthenticatedUser(u)
  /\ \/ "logout" \in Ops /\ rt[t].returned
        /\ req' = Started(r, "logout", "commit", u, t)
     \/ "revokeSession" \in Ops /\ rt[t].status = "live" /\ rt[t].owner = u
        /\ req' = Started(r, "revokeSession", "commit", u, t)
  /\ UNCHANGED <<user, rt, epoch>>

(* logout filters its updateMany by token and userId.  Mutant: by token    *)
(* only.                                                                   *)
CommitRevokeAny(r) ==
  /\ req[r].pc = "commit" /\ req[r].op \in {"logout", "revokeSession"}
  /\ req[r].tok # NoToken
  /\ rt' = RevokedRow(req[r].tok)
  /\ req' = Finished(r)
  /\ UNCHANGED <<user, epoch>>

CommitRevokeOne(r) ==
  LET t == req[r].tok IN
  /\ req[r].pc = "commit" /\ req[r].op \in {"logout", "revokeSession"}
  /\ t # NoToken
  /\ rt' = IF rt[t].owner = req[r].user THEN RevokedRow(t) ELSE rt
  /\ req' = Finished(r)
  /\ UNCHANGED <<user, epoch>>

-----------------------------------------------------------------------------
(* The rest of the environment *)

(* forgotPassword stores a reset token; resetPassword clears an expired    *)
(* one.                                                                    *)
ForgotPassword(u) ==
  /\ "resetPassword" \in Ops /\ ~user[u].deleted
  /\ user' = [user EXCEPT ![u].reset = TRUE]
  /\ UNCHANGED <<rt, req, epoch>>

ResetExpired(u) ==
  /\ "resetPassword" \in Ops /\ ~user[u].deleted /\ user[u].reset
  /\ user' = [user EXCEPT ![u].reset = FALSE]
  /\ UNCHANGED <<rt, req, epoch>>

(* Admin updateUser (ban, suspend, lift; a suspension may also run out),   *)
(* deleteUser and restoreUser.  None of them touches the user's tokens.    *)
SetBlocked(u) ==
  /\ "admin" \in Ops /\ ~user[u].deleted
  /\ user' = [user EXCEPT ![u].blocked = ~@]
  /\ UNCHANGED <<rt, req, epoch>>

SetDeleted(u) ==
  /\ "admin" \in Ops
  /\ user' = [user EXCEPT ![u].deleted = ~@]
  /\ UNCHANGED <<rt, req, epoch>>

(* expiresAt passes.  On a revoked row it makes no difference: refresh     *)
(* looks at revoked first, and cleanup may take the row either way.        *)
Expire(t) ==
  /\ rt[t].status = "live" /\ ~rt[t].expired
  /\ rt' = [rt EXCEPT ![t].expired = TRUE]
  /\ UNCHANGED <<user, req, epoch>>

(* cleanupRefreshTokens: every expired row, and the revoked rows not       *)
(* touched for seven days (any of them may be).                            *)
CleanupRefreshTokens ==
  \E old \in SUBSET {t \in Tokens : rt[t].status = "revoked"} :
    LET gone == old \cup {t \in Tokens : RowExists(t) /\ rt[t].expired} IN
    /\ gone # {}
    /\ rt' = [t \in Tokens |-> IF t \in gone THEN [rt[t] EXCEPT !.status = "deleted"]
                                              ELSE rt[t]]
    /\ UNCHANGED <<user, req, epoch>>

(* A database error, or the end of the process, between two awaits: the    *)
(* request is over and nothing it wrote is undone.  Mutant: a failing      *)
(* refresh puts its token back.                                            *)
FailUndo(r) ==
  /\ InFlight(r)
  /\ rt' = IF req[r].op = "refresh" /\ req[r].pc = "issue"
             THEN [rt EXCEPT ![req[r].tok].status = "live"] ELSE rt
  /\ req' = Finished(r)
  /\ UNCHANGED <<user, epoch>>

Fail(r) ==
  /\ InFlight(r)
  /\ req' = Finished(r)
  /\ UNCHANGED <<user, rt, epoch>>

-----------------------------------------------------------------------------

Init ==
  /\ user = [u \in Users |-> [tokenVersion |-> 0, blocked |-> FALSE, deleted |-> FALSE,
                              twoFactorEnabled |-> FALSE, reset |-> FALSE]]
  /\ \E u0 \in Users :
       /\ rt = [t \in Tokens |->
                 [status |-> "unused", owner |-> u0, expired |-> FALSE,
                  returned |-> FALSE, version |-> 0, parent |-> NoToken,
                  authEpoch |-> 0, crossed |-> FALSE, late |-> FALSE]]
       /\ req = [r \in Requests |-> IdleRequest(u0)]
  /\ epoch = [u \in Users |-> [now |-> 0, kill |-> 0]]

RequestStep(r) ==
  \/ GoogleStamp(r) \/ IssueToken(r) \/ LoginFinish(r)
  \/ RefreshRetire(r) \/ RefreshRotate(r) \/ RefreshReuse(r)
  \/ CommitKill(r) \/ CommitLogoutAll(r) \/ CommitRevokeOne(r)
  \/ Fail(r)

UserStep(u) ==
  \/ ForgotPassword(u) \/ ResetExpired(u) \/ SetBlocked(u) \/ SetDeleted(u)

Next ==
  \/ \E r \in Requests : RequestStep(r)
  \/ \E r \in Requests, u \in Users : LoginRead(r, u) \/ GoogleRead(r, u) \/ VerifyRead(r, u)
  \/ \E r \in Requests, u \in Users, op \in AllOps : PrivilegedRead(r, u, op)
  \/ \E r \in Requests, t \in Tokens : RefreshRead(r, t)
  \/ \E r \in Requests, u \in Users, t \in Tokens : RevokeOneRead(r, u, t)
  \/ \E u \in Users : UserStep(u)
  \/ \E t \in Tokens : Expire(t)
  \/ CleanupRefreshTokens

Spec == Init /\ [][Next]_vars

-----------------------------------------------------------------------------
(* Properties *)

(* Inductive strengthening of the two containment properties below. *)

(* A request that is still to issue a token and was not overtaken carries  *)
(* the current epoch; one that signs the current version has seen the last *)
(* bump.                                                                   *)
RequestOK(r) ==
  LET q == req[r] IN
  /\ q.pc \in {"stamp", "issue", "rotate"} =>
       /\ q.version <= user[q.user].tokenVersion
       /\ ~q.crossed /\ ~q.late => q.authEpoch = epoch[q.user].now
       /\ ~q.late /\ q.version = user[q.user].tokenVersion =>
            q.authEpoch >= epoch[q.user].kill
  /\ q.pc = "stamp" => ~q.late
  /\ q.pc = "finish" => q.tok \in Tokens /\ rt[q.tok].status # "unused"

(* The same of issued tokens. *)
TokenOK(t) ==
  LET u == rt[t].owner IN
  /\ rt[t].returned => rt[t].status # "unused"
  /\ rt[t].status # "unused" =>
       /\ rt[t].version <= user[u].tokenVersion
       /\ ~rt[t].late /\ rt[t].version = user[u].tokenVersion =>
            rt[t].authEpoch >= epoch[u].kill
  /\ rt[t].status = "live" /\ ~rt[t].crossed => rt[t].authEpoch = epoch[u].now

IndInv ==
  /\ TypeOK
  /\ \A r \in Requests : RequestOK(r)
  /\ \A t \in Tokens : TokenOK(t)
  /\ \A u \in Users : epoch[u].kill <= epoch[u].now

(* A revoke-all (password change or reset, second factor switched on or    *)
(* off, revokeAllSessions, logout everywhere, reuse detection) reaches     *)
(* every session: a refresh token that is still live belongs to a session  *)
(* that logged in after the account's last revoke-all, except where the    *)
(* request that created it, or one of its ancestors, was overtaken by a    *)
(* revoke-all between its read and its createRefreshTokenRecord.           *)
RevokeAllContained ==
  \A t \in Tokens :
    rt[t].status = "live" /\ ~rt[t].crossed =>
      rt[t].authEpoch = epoch[rt[t].owner].now

(* The tokenVersion kill switch also covers the requests that were in      *)
(* flight: an access token that authenticate still accepts was obtained by *)
(* a session that logged in after the last tokenVersion bump, even when    *)
(* its own request was overtaken, unless the session was already crossed   *)
(* when the version was read.                                              *)
KillSwitchContained ==
  \A t \in Tokens :
    Authenticated(t) /\ ~rt[t].late =>
      rt[t].authEpoch >= epoch[rt[t].owner].kill

(* Revocation is permanent and no identity is issued twice: a revoked row  *)
(* is never live again, a deleted one never comes back, and no refresh     *)
(* changes what an issued access token was signed with.                    *)
RevocationPermanent ==
  [][\A t \in Tokens :
       /\ rt[t].status = "revoked" => rt'[t].status \in {"revoked", "deleted"}
       /\ rt[t].status = "deleted" => rt'[t].status = "deleted"
       /\ rt[t].status # "unused" => rt'[t].version = rt[t].version]_vars

(* Tenant isolation of revocation: a session stops being live only through *)
(* a request made for its own account, or through the cleanup job once it  *)
(* has expired.                                                            *)
OnlyOwnSessionsRevoked ==
  [][\A t \in Tokens :
       rt[t].status = "live" /\ rt'[t].status # "live" =>
         \/ rt[t].expired
         \/ \E r \in Requests : /\ InFlight(r) /\ req'[r] # req[r]
                               /\ req[r].user = rt[t].owner]_vars
=============================================================================
