------------------------------ MODULE Accounts ------------------------------
(***************************************************************************)
(* The life of accounts: registration, proof of an email address, change   *)
(* of it, Google sign-in, and the administrators.                          *)
(*                                                                         *)
(* A request stops at its awaits and keeps what it read; reads that follow *)
(* each other directly are one step (the caller's row and the row it is    *)
(* about, the two lookups of googleLogin).  An address also stands for the *)
(* Google identity that owns it.  A verification token is the pair of its  *)
(* account and a number; a link is a token together with the address it    *)
(* was mailed to.  Passwords are inputs.                                   *)
(***************************************************************************)
EXTENDS Naturals, FiniteSets

CONSTANTS
  Users, NoUser,
  Emails, NoEmail,
  Requests,   \* request slots
  Ops,        \* endpoints called in this instance
  MaxTokens   \* bound: verification tokens issued per account

AdminOps == {"promote", "demote", "deleteUser", "restoreUser"}
AllOps == AdminOps \cup {"register", "verify", "resend", "changeEmail", "google", "erase"}

ASSUME AccountConstants ==
  /\ NoUser \notin Users /\ NoEmail \notin Emails
  /\ Ops \subseteq AllOps
  /\ MaxTokens \in Nat

VARIABLES
  acct,   \* users rows
  links,  \* verification links that were mailed
  req     \* requests in flight

vars == <<acct, links, req>>

-----------------------------------------------------------------------------
(* Types *)

Address == Emails \cup {NoEmail}

(* token: the number of the stored verification token, 0 for null.         *)
(* History: issued numbers the tokens; proven, the addresses whose owner   *)
(* has confirmed them to this account; mixed, the stored token was issued  *)
(* by resendVerification while a change of address was pending; excused,   *)
(* such a token was accepted.                                              *)
Account == [status : {"none", "live", "deleted", "gone"},
            role : {"USER", "ADMIN"}, password : BOOLEAN,
            email : Address, verified : BOOLEAN, pending : Address,
            token : Nat, expired : BOOLEAN, google : Address,
            issued : Nat, proven : SUBSET Emails,
            mixed : BOOLEAN, excused : BOOLEAN]

Link == [user : Users, token : Nat, to : Emails]

(* user: the account the request is about; to: the address it was given or *)
(* read; pending, mixed: as read.                                          *)
Request == [pc : {"idle", "create", "mail", "resend", "changeCheck", "change",
                  "expire", "verify", "link", "googleCreate",
                  "count", "write"},
            op : AllOps \cup {"none"}, user : Users \cup {NoUser}, to : Address,
            token : Nat, pending : Address, mixed : BOOLEAN]

Idle == [pc |-> "idle", op |-> "none", user |-> NoUser, to |-> NoEmail,
         token |-> 0, pending |-> NoEmail, mixed |-> FALSE]

(* The email column is NOT NULL. *)
TypeOK ==
  /\ acct \in [Users -> Account]
  /\ \A u \in Users : acct[u].email = NoEmail => acct[u].status \in {"none", "gone"}
  /\ links \subseteq Link
  /\ req \in [Requests -> Request]

Live(u) == acct[u].status = "live"
Exists(u) == acct[u].status \in {"live", "deleted"}

NoAccount == [status |-> "none", role |-> "USER", password |-> FALSE,
              email |-> NoEmail, verified |-> FALSE, pending |-> NoEmail,
              token |-> 0, expired |-> FALSE, google |-> NoEmail,
              issued |-> 0, proven |-> {}, mixed |-> FALSE, excused |-> FALSE]

(* The partial unique indexes: among the live rows other than u's. *)
EmailFree(e, u) == \A v \in Users \ {u} : Live(v) => acct[v].email # e
PendingFree(e, u) == \A v \in Users \ {u} : Live(v) => acct[v].pending # e
GoogleFree(e, u) == \A v \in Users \ {u} : Live(v) => acct[v].google # e

Started(r, pc, op, u, e) ==
  req' = [req EXCEPT ![r] = [Idle EXCEPT !.pc = pc, !.op = op, !.user = u, !.to = e]]
Step(r, pc) == req' = [req EXCEPT ![r].pc = pc]
Done(r) == req' = [req EXCEPT ![r] = Idle]

(* A new verification token for u, and the request that is to mail it.     *)
Issued(u) == acct[u].issued + 1
CanIssue(u) == acct[u].issued < MaxTokens
ToMail(r, u) ==
  req' = [req EXCEPT ![r] = [@ EXCEPT !.pc = "mail", !.user = u, !.token = Issued(u)]]

-----------------------------------------------------------------------------
(* register *)

RegisterRead(r, e) ==
  /\ "register" \in Ops /\ req[r] = Idle /\ EmailFree(e, NoUser)
  /\ Started(r, "create", "register", NoUser, e)
  /\ UNCHANGED <<acct, links>>

(* The insert, which the index may refuse (see Fail). *)
RegisterCreate(r) ==
  LET e == req[r].to IN
  /\ req[r].pc = "create" /\ EmailFree(e, NoUser)
  /\ \E u \in Users :
       /\ acct[u].status = "none" /\ CanIssue(u)
       /\ acct' = [acct EXCEPT ![u] = [NoAccount EXCEPT !.status = "live",
                     !.password = TRUE, !.email = e, !.token = 1, !.issued = 1]]
       /\ ToMail(r, u)
  /\ UNCHANGED links

(* queueVerificationEmail, of register, resendVerification and changeEmail.*)
SendLink(r) ==
  /\ req[r].pc = "mail"
  /\ links' = links \cup {[user |-> req[r].user, token |-> req[r].token, to |-> req[r].to]}
  /\ Done(r)
  /\ UNCHANGED acct

-----------------------------------------------------------------------------
(* resendVerification and changeEmail *)

ResendRead(r, u) ==
  /\ "resend" \in Ops /\ req[r] = Idle
  /\ Live(u) /\ ~acct[u].verified
  /\ Started(r, "resend", "resend", u, acct[u].email)
  /\ UNCHANGED <<acct, links>>

ResendWrite(r) ==
  LET u == req[r].user IN
  /\ req[r].pc = "resend" /\ Exists(u) /\ CanIssue(u)
  /\ acct' = [acct EXCEPT ![u] = [@ EXCEPT !.token = Issued(u), !.issued = Issued(u),
                !.expired = FALSE, !.mixed = acct[u].pending # NoEmail]]
  /\ ToMail(r, u)
  /\ UNCHANGED links

(* The account has a password, and nobody has the address. *)
ChangeRead(r, u, e) ==
  /\ "changeEmail" \in Ops /\ req[r] = Idle
  /\ Live(u) /\ acct[u].password /\ EmailFree(e, NoUser)
  /\ Started(r, "changeCheck", "changeEmail", u, e)
  /\ UNCHANGED <<acct, links>>

(* Nor has somebody else asked for it. *)
ChangeCheck(r) ==
  /\ req[r].pc = "changeCheck" /\ PendingFree(req[r].to, req[r].user)
  /\ Step(r, "change")
  /\ UNCHANGED <<acct, links>>

(* Mutant: the token of an earlier link stays valid. *)
ChangeKeepingToken(r) ==
  LET u == req[r].user IN
  /\ req[r].pc = "change" /\ Exists(u) /\ CanIssue(u)
  /\ acct' = [acct EXCEPT ![u] = [@ EXCEPT !.pending = req[r].to, !.expired = FALSE]]
  /\ ToMail(r, u)
  /\ UNCHANGED links

ChangeWrite(r) ==
  LET u == req[r].user IN
  /\ req[r].pc = "change" /\ Exists(u) /\ CanIssue(u)
  /\ Live(u) => PendingFree(req[r].to, u)
  /\ acct' = [acct EXCEPT ![u] = [@ EXCEPT !.pending = req[r].to, !.token = Issued(u),
                !.issued = Issued(u), !.expired = FALSE, !.mixed = FALSE]]
  /\ ToMail(r, u)
  /\ UNCHANGED links

-----------------------------------------------------------------------------
(* verifyEmail *)

(* A link is followed: its token is the stored one of a live account that  *)
(* has something to verify.                                                *)
VerifyRead(r, l) ==
  LET u == l.user  a == acct[u] IN
  /\ "verify" \in Ops /\ req[r] = Idle
  /\ Live(u) /\ a.token = l.token
  /\ ~a.verified \/ a.pending # NoEmail
  /\ req' = [req EXCEPT ![r] =
       [pc |-> IF a.expired THEN "expire" ELSE "verify", op |-> "verify", user |-> u,
        to |-> l.to, token |-> l.token, pending |-> a.pending, mixed |-> a.mixed]]
  /\ UNCHANGED <<acct, links>>

VerifyExpired(r) ==
  LET u == req[r].user IN
  /\ req[r].pc = "expire"
  /\ acct' = IF Exists(u) THEN [acct EXCEPT ![u] = [@ EXCEPT !.token = 0, !.expired = FALSE]]
                          ELSE acct
  /\ Done(r)
  /\ UNCHANGED links

(* Mutant: pendingEmail replaces email even when there is none.            *)
VerifyTakingPending(r) ==
  LET u == req[r].user  p == req[r].pending IN
  /\ req[r].pc = "verify" /\ Exists(u)
  /\ Live(u) => EmailFree(p, u)
  /\ acct' = [acct EXCEPT ![u] = [@ EXCEPT
       !.verified = TRUE, !.token = 0, !.expired = FALSE, !.email = p, !.pending = NoEmail]]
  /\ Done(r)
  /\ UNCHANGED links

(* The write uses pendingEmail as it was read.  The index may refuse it.   *)
VerifyWrite(r) ==
  LET u == req[r].user  p == req[r].pending IN
  /\ req[r].pc = "verify" /\ Exists(u)
  /\ Live(u) /\ p # NoEmail => EmailFree(p, u)
  /\ acct' = [acct EXCEPT ![u] = [@ EXCEPT
       !.verified = TRUE, !.token = 0, !.expired = FALSE,
       !.email = IF p # NoEmail THEN p ELSE acct[u].email,
       !.pending = IF p # NoEmail THEN NoEmail ELSE acct[u].pending,
       !.proven = acct[u].proven \cup {req[r].to},
       !.excused = acct[u].excused \/ req[r].mixed]]
  /\ Done(r)
  /\ UNCHANGED links

(* emailVerificationExpires passes. *)
TokenExpires(u) ==
  /\ Live(u) /\ acct[u].token # 0 /\ ~acct[u].expired
  /\ acct' = [acct EXCEPT ![u].expired = TRUE]
  /\ UNCHANGED <<links, req>>

-----------------------------------------------------------------------------
(* googleLogin, as far as it links or creates an account *)

(* Mutant: the account's other Google identity is not looked at. *)
LinkableAny(u, e) == Live(u) /\ acct[u].email = e
Linkable(u, e) == Live(u) /\ acct[u].email = e /\ acct[u].google \in {NoEmail, e}

(* No live account has this Google identity; one has its address, or none. *)
GoogleRead(r, e) ==
  /\ "google" \in Ops /\ req[r] = Idle /\ GoogleFree(e, NoUser)
  /\ \/ \E u \in Users : Linkable(u, e) /\ Started(r, "link", "google", u, e)
     \/ EmailFree(e, NoUser) /\ Started(r, "googleCreate", "google", NoUser, e)
  /\ UNCHANGED <<acct, links>>

GoogleLink(r) ==
  LET u == req[r].user  e == req[r].to IN
  /\ req[r].pc = "link" /\ Exists(u)
  /\ Live(u) => GoogleFree(e, u)
  /\ acct' = [acct EXCEPT ![u] = [@ EXCEPT !.google = e, !.verified = TRUE,
                !.proven = acct[u].proven \cup {e}]]
  /\ Done(r)
  /\ UNCHANGED links

(* When the index refuses, the concurrent account is used as it is: Fail.  *)
GoogleCreate(r) ==
  LET e == req[r].to IN
  /\ req[r].pc = "googleCreate" /\ EmailFree(e, NoUser) /\ GoogleFree(e, NoUser)
  /\ \E u \in Users :
       /\ acct[u].status = "none"
       /\ acct' = [acct EXCEPT ![u] = [NoAccount EXCEPT !.status = "live",
                     !.email = e, !.google = e, !.verified = TRUE, !.proven = {e}]]
  /\ Done(r)
  /\ UNCHANGED links

(* resetPassword (Sessions has its tokens) also gives a password to an     *)
(* account that Google created.                                            *)
ResetPassword(u) ==
  /\ "google" \in Ops /\ Live(u) /\ ~acct[u].password
  /\ acct' = [acct EXCEPT ![u].password = TRUE]
  /\ UNCHANGED <<links, req>>

-----------------------------------------------------------------------------
(* Administrators: updateUser (role), deleteUser, restoreUser; and         *)
(* deleteAccount, by which anybody deletes an account of their own.        *)

Admins == {u \in Users : Live(u) /\ acct[u].role = "ADMIN"}

(* requireRole, and the guards against acting on oneself. *)
AdminRead(r, a, t, op) ==
  /\ op \in Ops \cap AdminOps /\ req[r] = Idle /\ a \in Admins
  /\ op \in {"demote", "deleteUser"} => a # t
  /\ IF op = "restoreUser" THEN acct[t].status = "deleted" ELSE Live(t)
  /\ Started(r, IF op \in {"demote", "deleteUser"} /\ acct[t].role = "ADMIN"
                  THEN "count" ELSE "write", op, t, NoEmail)
  /\ UNCHANGED <<acct, links>>

EraseRead(r, u) ==
  /\ "erase" \in Ops /\ req[r] = Idle /\ Live(u) /\ acct[u].password
  /\ Started(r, IF acct[u].role = "ADMIN" THEN "count" ELSE "write", "erase", u, NoEmail)
  /\ UNCHANGED <<acct, links>>

(* The last administrator stays.  Mutant: soft-deleted ones count too.     *)
CountAdminsAll(r) ==
  /\ req[r].pc = "count"
  /\ Cardinality({u \in Users : Exists(u) /\ acct[u].role = "ADMIN"}) > 1
  /\ Step(r, "write")
  /\ UNCHANGED <<acct, links>>

CountAdmins(r) ==
  /\ req[r].pc = "count" /\ Cardinality(Admins) > 1
  /\ Step(r, "write")
  /\ UNCHANGED <<acct, links>>

(* The row after the write; a deleted account keeps nothing. *)
Edited(a, op) ==
  CASE op = "promote"     -> [a EXCEPT !.role = "ADMIN"]
    [] op = "demote"      -> [a EXCEPT !.role = "USER"]
    [] op = "deleteUser"  -> [a EXCEPT !.status = "deleted"]
    [] op = "restoreUser" -> [a EXCEPT !.status = "live"]
    [] op = "erase"       -> [NoAccount EXCEPT !.status = "gone"]

AdminWrite(r) ==
  LET t == req[r].user  op == req[r].op IN
  /\ req[r].pc = "write" /\ Exists(t)
  /\ op = "restoreUser" => /\ EmailFree(acct[t].email, t)
                           /\ acct[t].pending # NoEmail => PendingFree(acct[t].pending, t)
                           /\ acct[t].google # NoEmail => GoogleFree(acct[t].google, t)
  /\ acct' = [acct EXCEPT ![t] = Edited(acct[t], op)]
  /\ Done(r)
  /\ UNCHANGED links

-----------------------------------------------------------------------------

(* A check refuses, an index or a missing row fails the write, or the      *)
(* process stops.                                                          *)
Fail(r) ==
  /\ req[r] # Idle
  /\ Done(r)
  /\ UNCHANGED <<acct, links>>

(* At most a first administrator, as the seed creates it. *)
Seeded(u0, e0) ==
  [u \in Users |->
     IF u = u0 THEN [NoAccount EXCEPT !.status = "live", !.role = "ADMIN", !.password = TRUE,
                       !.email = e0, !.verified = TRUE, !.proven = {e0}]
               ELSE NoAccount]

Init ==
  /\ \/ acct = [u \in Users |-> NoAccount]
     \/ \E u0 \in Users, e0 \in Emails : acct = Seeded(u0, e0)
  /\ links = {}
  /\ req = [r \in Requests |-> Idle]

RequestStep(r) ==
  \/ RegisterCreate(r) \/ SendLink(r) \/ ResendWrite(r) \/ ChangeCheck(r) \/ ChangeWrite(r)
  \/ VerifyExpired(r) \/ VerifyWrite(r) \/ GoogleLink(r) \/ GoogleCreate(r)
  \/ CountAdmins(r) \/ AdminWrite(r) \/ Fail(r)

Next ==
  \/ \E r \in Requests : RequestStep(r)
  \/ \E r \in Requests, e \in Emails : RegisterRead(r, e) \/ GoogleRead(r, e)
  \/ \E r \in Requests, u \in Users : ResendRead(r, u) \/ EraseRead(r, u)
  \/ \E r \in Requests, u \in Users, e \in Emails : ChangeRead(r, u, e)
  \/ \E r \in Requests, l \in links : VerifyRead(r, l)
  \/ \E r \in Requests, a, t \in Users, op \in AdminOps : AdminRead(r, a, t, op)
  \/ \E u \in Users : TokenExpires(u) \/ ResetPassword(u)

Spec == Init /\ [][Next]_vars

-----------------------------------------------------------------------------
(* Properties *)

(* A verified address is one whose owner confirmed it to this account, by  *)
(* following a link mailed to that very address or through Google,         *)
(* whatever overlaps.  The exception is a link of resendVerification that  *)
(* was issued while a change of address was pending: it was mailed to the  *)
(* old address and confirms the new one.                                   *)
VerifiedProven ==
  \A u \in Users : acct[u].verified /\ ~acct[u].excused => acct[u].email \in acct[u].proven
=============================================================================
