--------------------------- MODULE AccountsProofs ---------------------------
(* Proofs about Accounts: types, that a verified address was proven, and,  *)
(* with the history of overlapping requests of MCAccounts, that the last   *)
(* administrator stays and a Google identity is kept.                      *)
EXTENDS MCAccounts, FiniteSetTheorems, TLAPS

-----------------------------------------------------------------------------
(* The inductive invariant *)

Row(a) == a.status \in {"live", "deleted"}

RowOK(a) ==
  /\ a \in Account
  /\ a.email = NoEmail => a.status \in {"none", "gone"}
  /\ a.verified /\ ~a.excused => a.email \in a.proven
  /\ a.token <= a.issued
  /\ a.status = "none" => a.issued = 0

(* Token t of account a was, or is to be, mailed to address e: while it is *)
(* the stored one it confirms e, unless resendVerification issued it while *)
(* a change of address was pending.                                        *)
TokenOK(a, t, e) ==
  /\ a.status # "none" /\ t >= 1
  /\ Row(a) =>
       /\ t <= a.issued
       /\ t = a.token /\ ~a.mixed => /\ a.pending # NoEmail => e = a.pending
                                     /\ a.pending = NoEmail /\ ~a.verified => e = a.email

(* As long as account a is not verified, e is its address. *)
AddressOK(a, e) ==
  /\ a.status # "none"
  /\ Row(a) /\ ~a.verified => a.email = e

RequestOK(q, A) ==
  /\ q \in Request
  /\ q.pc \notin {"idle", "create", "googleCreate"} => q.user \in Users
  /\ q.pc \notin {"idle", "count", "write"} => q.to \in Emails
  /\ q.pc \in {"count", "write"} => q.op \in AdminOps \cup {"erase"}
  /\ q.pc = "mail" => TokenOK(A[q.user], q.token, q.to)
  /\ q.pc \in {"resend", "link"} => AddressOK(A[q.user], q.to)
  /\ q.pc = "verify" /\ ~q.mixed =>
       /\ q.pending # NoEmail => q.to = q.pending
       /\ q.pending = NoEmail => AddressOK(A[q.user], q.to)

Inv ==
  /\ TypeOK
  /\ \A u \in Users : RowOK(acct[u])
  /\ \A l \in links : TokenOK(acct[l.user], l.token, l.to)
  /\ \A r \in Requests : RequestOK(req[r], acct)

(* What a write to a row must preserve for links and requests. *)
Keeps(a, b) ==
  /\ \A t \in Nat, e \in Emails : TokenOK(a, t, e) => TokenOK(b, t, e)
  /\ \A e \in Emails : AddressOK(a, e) => AddressOK(b, e)

-----------------------------------------------------------------------------
(* Lemmas about rows *)

LEMMA NoAccountType == NoAccount \in Account
BY DEF NoAccount, Account, Address

LEMMA IdleOK == ASSUME NEW A PROVE RequestOK(Idle, A)
BY DEF RequestOK, Idle, Request, Address, AllOps

(* A write that leaves the address, its proof and its token alone. *)
LEMMA KeepsSame ==
  ASSUME NEW a, NEW b, RowOK(a), b \in Account,
         b.status # "none", Row(b) => Row(a),
         b.email = a.email, b.verified = a.verified, b.pending = a.pending,
         b.token = a.token, b.issued = a.issued, b.proven = a.proven,
         b.mixed = a.mixed, b.excused = a.excused,
         b.email = NoEmail => b.status \in {"none", "gone"}
  PROVE  RowOK(b) /\ Keeps(a, b)
BY DEF RowOK, Keeps, TokenOK, AddressOK, Row

(* A new token: no earlier one is stored any longer. *)
LEMMA KeepsIssue ==
  ASSUME NEW a, NEW b, RowOK(a), Row(a), b \in Account, b.status = a.status,
         b.email = a.email, b.verified = a.verified, b.proven = a.proven,
         b.excused = a.excused, b.token = a.issued + 1, b.issued = a.issued + 1
  PROVE  RowOK(b) /\ Keeps(a, b)
<1>1. a.issued \in Nat /\ a.token \in Nat
  BY DEF RowOK, Account
<1>2. RowOK(b)
  BY <1>1 DEF RowOK, Row
<1>3. Keeps(a, b)
  BY <1>1 DEF Keeps, TokenOK, AddressOK, Row
<1> QED
  BY <1>2, <1>3

(* The token is cleared, and the row verified or its address left alone. *)
LEMMA KeepsClear ==
  ASSUME NEW a, NEW b, RowOK(a), b \in Account, b.status = a.status,
         b.token = 0, b.issued = a.issued,
         b.email = NoEmail => b.status \in {"none", "gone"},
         b.verified \/ (b.verified = a.verified /\ b.email = a.email),
         b.verified /\ ~b.excused => b.email \in b.proven
  PROVE  RowOK(b) /\ Keeps(a, b)
<1>1. a.issued \in Nat /\ b.verified \in BOOLEAN
  BY DEF RowOK, Account
<1>2. RowOK(b)
  BY <1>1 DEF RowOK
<1>3. Keeps(a, b)
  BY <1>1 DEF Keeps, TokenOK, AddressOK, Row
<1> QED
  BY <1>2, <1>3

(* Nothing refers to an account that does not exist yet. *)
LEMMA KeepsNone ==
  ASSUME NEW a, NEW b, a.status = "none"
  PROVE  Keeps(a, b)
BY DEF Keeps, TokenOK, AddressOK

-----------------------------------------------------------------------------
(* Lemmas about steps *)

(* A step of request r that writes row u. *)
LEMMA WriteStep ==
  ASSUME Inv, NEW u \in Users, NEW b, RowOK(b), Keeps(acct[u], b),
         acct' = [acct EXCEPT ![u] = b],
         NEW r \in Requests, NEW q, req' = [req EXCEPT ![r] = q],
         RequestOK(q, acct'), UNCHANGED links
  PROVE  Inv'
<1> USE DEF Inv
<1>1. acct' \in [Users -> Account] /\ req' \in [Requests -> Request] /\ links' \subseteq Link
  BY DEF TypeOK, RowOK, RequestOK
<1>2. \A v \in Users : RowOK(acct'[v])
  BY DEF TypeOK
<1>3. \A v \in Users, t \in Nat, e \in Emails :
        TokenOK(acct[v], t, e) => TokenOK(acct'[v], t, e)
  BY DEF TypeOK, Keeps
<1>4. \A v \in Users, e \in Emails :
        AddressOK(acct[v], e) => AddressOK(acct'[v], e)
  BY DEF TypeOK, Keeps
<1>5. TypeOK'
  BY <1>1, <1>2 DEF TypeOK, RowOK
<1>6. \A l \in links' : TokenOK(acct'[l.user], l.token, l.to)
  BY <1>3 DEF TypeOK, Link
<1>7. \A s \in Requests : RequestOK(req'[s], acct')
  <2> SUFFICES ASSUME NEW s \in Requests, s # r PROVE RequestOK(req'[s], acct')
    BY DEF TypeOK
  <2>1. req'[s] = req[s] /\ RequestOK(req[s], acct)
    BY DEF TypeOK
  <2>2. req[s].token \in Nat
    BY <2>1 DEF RequestOK, Request
  <2> QED
    BY <2>1, <2>2, <1>3, <1>4 DEF RequestOK
<1> QED
  BY <1>2, <1>5, <1>6, <1>7

(* A step of request r that writes no row. *)
LEMMA ReadStep ==
  ASSUME Inv, UNCHANGED <<acct, links>>,
         NEW r \in Requests, NEW q, req' = [req EXCEPT ![r] = q], RequestOK(q, acct)
  PROVE  Inv'
<1>1. req' \in [Requests -> Request]
  BY DEF Inv, TypeOK, RequestOK
<1>2. \A s \in Requests : RequestOK(req'[s], acct')
  BY DEF Inv, TypeOK
<1> QED
  BY <1>1, <1>2 DEF Inv, TypeOK

(* A write to row u by no request. *)
LEMMA RowStep ==
  ASSUME Inv, NEW u \in Users, NEW b, RowOK(b), Keeps(acct[u], b),
         acct' = [acct EXCEPT ![u] = b], UNCHANGED <<links, req>>
  PROVE  Inv'
<1> USE DEF Inv
<1>1. acct' \in [Users -> Account]
  BY DEF TypeOK, RowOK
<1>2. \A v \in Users : RowOK(acct'[v])
  BY DEF TypeOK
<1>3. \A v \in Users, t \in Nat, e \in Emails :
        TokenOK(acct[v], t, e) => TokenOK(acct'[v], t, e)
  BY DEF TypeOK, Keeps
<1>4. \A v \in Users, e \in Emails :
        AddressOK(acct[v], e) => AddressOK(acct'[v], e)
  BY DEF TypeOK, Keeps
<1>5. TypeOK'
  BY <1>1, <1>2 DEF TypeOK, RowOK
<1>6. \A l \in links' : TokenOK(acct'[l.user], l.token, l.to)
  BY <1>3 DEF TypeOK, Link
<1>7. \A s \in Requests : RequestOK(req'[s], acct')
  <2> SUFFICES ASSUME NEW s \in Requests PROVE RequestOK(req'[s], acct')
    OBVIOUS
  <2>1. req'[s] = req[s] /\ RequestOK(req[s], acct)
    BY DEF TypeOK
  <2>2. req[s].token \in Nat
    BY <2>1 DEF RequestOK, Request
  <2> QED
    BY <2>1, <2>2, <1>3, <1>4 DEF RequestOK
<1> QED
  BY <1>2, <1>5, <1>6, <1>7

-----------------------------------------------------------------------------
(* One lemma per group of actions *)

(* What the types say of the row and the request an action is about. *)
LEMMA RowFacts ==
  ASSUME Inv, NEW u \in Users
  PROVE  RowOK(acct[u]) /\ acct[u] \in Account /\ acct[u].issued \in Nat
BY DEF Inv, RowOK, Account

LEMMA RequestFacts ==
  ASSUME Inv, NEW r \in Requests
  PROVE  RequestOK(req[r], acct) /\ req[r] \in Request
BY DEF Inv, RequestOK

LEMMA DoneStep ==
  ASSUME Inv, NEW r \in Requests, Done(r), UNCHANGED <<acct, links>>
  PROVE  Inv'
BY IdleOK, ReadStep DEF Done

LEMMA StartedOK ==
  ASSUME Inv, NEW r \in Requests, NEW pc, NEW op, NEW u, NEW e,
         Started(r, pc, op, u, e), UNCHANGED <<acct, links>>,
         op \in AllOps, u \in Users \cup {NoUser}, e \in Address,
         \/ /\ pc \in {"create", "googleCreate"} /\ e \in Emails
         \/ /\ pc = "changeCheck" /\ u \in Users /\ e \in Emails
         \/ /\ pc \in {"resend", "link"} /\ u \in Users /\ e \in Emails /\ AddressOK(acct[u], e)
         \/ /\ pc \in {"count", "write"} /\ u \in Users /\ op \in AdminOps \cup {"erase"}
  PROVE  Inv'
<1> DEFINE q == [Idle EXCEPT !.pc = pc, !.op = op, !.user = u, !.to = e]
<1>1. /\ q.pc = pc /\ q.op = op /\ q.user = u /\ q.to = e
      /\ q \in Request
  BY DEF Idle, Request, Address
<1>2. RequestOK(q, acct)
  BY <1>1 DEF RequestOK
<1> QED
  BY <1>2, ReadStep DEF Started

LEMMA Reads ==
  ASSUME Inv, NEW r \in Requests
  PROVE  /\ \A e \in Emails : RegisterRead(r, e) \/ GoogleRead(r, e) => Inv'
         /\ \A u \in Users : ResendRead(r, u) \/ EraseRead(r, u) => Inv'
         /\ \A u \in Users, e \in Emails : ChangeRead(r, u, e) => Inv'
         /\ \A a, t \in Users, op \in AdminOps : AdminRead(r, a, t, op) => Inv'
<1>1. ASSUME NEW e \in Emails, RegisterRead(r, e) PROVE Inv'
  BY <1>1, StartedOK DEF RegisterRead, AllOps, Address
<1>2. ASSUME NEW e \in Emails, GoogleRead(r, e) PROVE Inv'
  <2>1. ASSUME NEW u \in Users, Linkable(u, e) PROVE AddressOK(acct[u], e)
    BY <2>1 DEF Linkable, Live, AddressOK
  <2>2. CASE \E u \in Users : Linkable(u, e) /\ Started(r, "link", "google", u, e)
    BY <1>2, <2>1, <2>2, StartedOK DEF GoogleRead, AllOps, Address
  <2>3. CASE Started(r, "googleCreate", "google", NoUser, e)
    BY <1>2, <2>3, StartedOK DEF GoogleRead, AllOps, Address
  <2> QED
    BY <1>2, <2>2, <2>3 DEF GoogleRead
<1>3. ASSUME NEW u \in Users, ResendRead(r, u) PROVE Inv'
  <2>1. acct[u].email \in Emails /\ AddressOK(acct[u], acct[u].email)
    BY <1>3, RowFacts DEF ResendRead, Live, RowOK, Account, Address, AddressOK
  <2> QED
    BY <1>3, <2>1, StartedOK DEF ResendRead, AllOps, Address
<1>4. ASSUME NEW u \in Users, EraseRead(r, u) PROVE Inv'
  BY <1>4, StartedOK DEF EraseRead, AllOps, Address
<1>5. ASSUME NEW u \in Users, NEW e \in Emails, ChangeRead(r, u, e) PROVE Inv'
  BY <1>5, StartedOK DEF ChangeRead, AllOps, Address
<1>6. ASSUME NEW a \in Users, NEW t \in Users, NEW op \in AdminOps, AdminRead(r, a, t, op)
      PROVE Inv'
  BY <1>6, StartedOK DEF AdminRead, AllOps, Address
<1> QED
  BY <1>1, <1>2, <1>3, <1>4, <1>5, <1>6

LEMMA VerifyReadOK ==
  ASSUME Inv, NEW r \in Requests, NEW l \in links, VerifyRead(r, l)
  PROVE  Inv'
<1> DEFINE a == acct[l.user]
           q == [pc |-> IF a.expired THEN "expire" ELSE "verify", op |-> "verify",
                 user |-> l.user, to |-> l.to, token |-> l.token,
                 pending |-> a.pending, mixed |-> a.mixed]
<1>1. l \in Link /\ l.user \in Users /\ l.to \in Emails /\ TokenOK(a, l.token, l.to)
  BY DEF Inv, TypeOK, Link
<1>2. a \in Account
  BY <1>1, RowFacts
<1>3. q \in Request
  BY <1>1, <1>2 DEF Request, Account, Link, AllOps, Address
<1>4. RequestOK(q, acct)
  BY <1>1, <1>2, <1>3 DEF RequestOK, VerifyRead, TokenOK, AddressOK, Row, Live, Account
<1> QED
  BY <1>4, ReadStep DEF VerifyRead

LEMMA StepsOK ==
  ASSUME Inv, NEW r \in Requests, ChangeCheck(r) \/ CountAdmins(r) \/ Fail(r)
  PROVE  Inv'
<1>1. CASE Fail(r)
  BY <1>1, DoneStep DEF Fail
<1>2. ASSUME NEW pc, \/ req[r].pc = "changeCheck" /\ pc = "change"
                     \/ req[r].pc = "count" /\ pc = "write"
      PROVE  RequestOK([req[r] EXCEPT !.pc = pc], acct)
  BY <1>2, RequestFacts DEF RequestOK, Request
<1>3. CASE ChangeCheck(r)
  <2>1. req' = [req EXCEPT ![r] = [req[r] EXCEPT !.pc = "change"]]
    BY <1>3 DEF ChangeCheck, Step, Inv, TypeOK
  <2> QED
    BY <1>2, <1>3, <2>1, ReadStep DEF ChangeCheck
<1>4. CASE CountAdmins(r)
  <2>1. req' = [req EXCEPT ![r] = [req[r] EXCEPT !.pc = "write"]]
    BY <1>4 DEF CountAdmins, Step, Inv, TypeOK
  <2> QED
    BY <1>2, <1>4, <2>1, ReadStep DEF CountAdmins
<1> QED
  BY <1>1, <1>3, <1>4

LEMMA SendLinkOK ==
  ASSUME Inv, NEW r \in Requests, SendLink(r)
  PROVE  Inv'
<1> DEFINE l == [user |-> req[r].user, token |-> req[r].token, to |-> req[r].to]
<1>1. l \in Link /\ TokenOK(acct[l.user], l.token, l.to)
  BY RequestFacts DEF SendLink, RequestOK, Request, Link
<1>2. links' = links \cup {l} /\ acct' = acct /\ req' = [req EXCEPT ![r] = Idle]
  BY DEF SendLink, Done
<1>3. links' \subseteq Link /\ \A k \in links' : TokenOK(acct'[k.user], k.token, k.to)
  BY <1>1, <1>2 DEF Inv, TypeOK
<1>4. req' \in [Requests -> Request] /\ \A s \in Requests : RequestOK(req'[s], acct')
  BY <1>2, IdleOK DEF Inv, TypeOK, RequestOK
<1> QED
  BY <1>2, <1>3, <1>4 DEF Inv, TypeOK

(* The request that is to mail token t to the address it holds. *)
LEMMA ToMailOK ==
  ASSUME Inv, NEW r \in Requests, NEW u \in Users, NEW t \in Nat, NEW A,
         req[r].to \in Emails, TokenOK(A[u], t, req[r].to)
  PROVE  RequestOK([req[r] EXCEPT !.pc = "mail", !.user = u, !.token = t], A)
BY RequestFacts DEF RequestOK, Request

LEMMA RegisterCreateOK ==
  ASSUME Inv, NEW r \in Requests, RegisterCreate(r)
  PROVE  Inv'
<1> DEFINE e == req[r].to
           b == [NoAccount EXCEPT !.status = "live", !.password = TRUE,
                                  !.email = e, !.token = 1, !.issued = 1]
<1>1. e \in Emails
  BY RequestFacts DEF RegisterCreate, RequestOK
<1>2. PICK u \in Users : /\ acct[u].status = "none" /\ acct' = [acct EXCEPT ![u] = b]
                         /\ ToMail(r, u)
  BY DEF RegisterCreate
<1>3. /\ b.status = "live" /\ b.email = e /\ b.token = 1 /\ b.issued = 1
      /\ ~b.verified /\ b.pending = NoEmail /\ b \in Account
  BY <1>1 DEF NoAccount, Account, Address
<1> HIDE DEF b
<1>4. RowOK(b) /\ TokenOK(b, 1, e) /\ Keeps(acct[u], b)
  BY <1>1, <1>2, <1>3, AccountConstants, KeepsNone DEF RowOK, TokenOK, Row
<1>5. acct[u].issued = 0
  BY <1>2, RowFacts DEF RowOK
<1>6. req' = [req EXCEPT ![r] = [req[r] EXCEPT !.pc = "mail", !.user = u, !.token = 1]]
  BY <1>2, <1>5 DEF ToMail, Issued, Inv, TypeOK
<1>7. acct'[u] = b
  BY <1>2 DEF Inv, TypeOK
<1>8. RequestOK([req[r] EXCEPT !.pc = "mail", !.user = u, !.token = 1], acct')
  BY <1>1, <1>4, <1>7, ToMailOK
<1> QED
  BY <1>2, <1>4, <1>6, <1>8, WriteStep DEF RegisterCreate

LEMMA IssueRow ==
  ASSUME NEW a \in Account, NEW n \in Nat, NEW e \in Address, NEW m \in BOOLEAN
  PROVE  /\ [a EXCEPT !.token = n, !.issued = n, !.expired = FALSE, !.mixed = m] \in Account
         /\ [a EXCEPT !.pending = e, !.token = n, !.issued = n,
                      !.expired = FALSE, !.mixed = m] \in Account
BY DEF Account

LEMMA ResendWriteOK ==
  ASSUME Inv, NEW r \in Requests, ResendWrite(r)
  PROVE  Inv'
<1> DEFINE u == req[r].user
           a == acct[u]
           b == [a EXCEPT !.token = Issued(u), !.issued = Issued(u),
                          !.expired = FALSE, !.mixed = a.pending # NoEmail]
<1>1. /\ u \in Users /\ req[r].to \in Emails /\ AddressOK(a, req[r].to)
      /\ Row(a) /\ RowOK(a) /\ a \in Account /\ a.issued \in Nat /\ a.issued + 1 \in Nat
  BY RequestFacts, RowFacts DEF ResendWrite, RequestOK, Exists, Row
<1>2. /\ b.status = a.status /\ b.email = a.email /\ b.verified = a.verified
      /\ b.proven = a.proven /\ b.excused = a.excused /\ b.pending = a.pending
      /\ b.token = a.issued + 1 /\ b.issued = a.issued + 1
      /\ ~b.mixed => a.pending = NoEmail
  BY <1>1 DEF Issued, Account
<1>2a. b \in Account
  BY <1>1, IssueRow DEF Issued, Address
<1>3. acct' = [acct EXCEPT ![u] = b]
  BY DEF ResendWrite
<1> HIDE DEF b
<1>4. RowOK(b) /\ Keeps(a, b)
  BY <1>2a, <1>1, <1>2, KeepsIssue
<1>5. TokenOK(b, a.issued + 1, req[r].to)
  BY <1>1, <1>2 DEF TokenOK, AddressOK, Row
<1>6. req' = [req EXCEPT ![r] = [req[r] EXCEPT !.pc = "mail", !.user = u,
                                               !.token = a.issued + 1]]
  BY DEF ResendWrite, ToMail, Issued, Inv, TypeOK
<1>7. acct'[u] = b
  BY <1>1, <1>3 DEF Inv, TypeOK
<1>8. RequestOK([req[r] EXCEPT !.pc = "mail", !.user = u, !.token = a.issued + 1], acct')
  BY <1>1, <1>5, <1>7, ToMailOK
<1> QED
  BY <1>1, <1>3, <1>4, <1>6, <1>8, WriteStep DEF ResendWrite

LEMMA ChangeWriteOK ==
  ASSUME Inv, NEW r \in Requests, ChangeWrite(r)
  PROVE  Inv'
<1> DEFINE u == req[r].user
           a == acct[u]
           e == req[r].to
           b == [a EXCEPT !.pending = e, !.token = Issued(u), !.issued = Issued(u),
                          !.expired = FALSE, !.mixed = FALSE]
<1>1. /\ u \in Users /\ e \in Emails
      /\ Row(a) /\ RowOK(a) /\ a \in Account /\ a.issued \in Nat /\ a.issued + 1 \in Nat
  BY RequestFacts, RowFacts DEF ChangeWrite, RequestOK, Exists, Row
<1>2. /\ b.status = a.status /\ b.email = a.email /\ b.verified = a.verified
      /\ b.proven = a.proven /\ b.excused = a.excused /\ b.pending = e
      /\ b.token = a.issued + 1 /\ b.issued = a.issued + 1
  BY <1>1 DEF Issued, Account
<1>2a. b \in Account
  BY <1>1, IssueRow DEF Issued, Address
<1>3. acct' = [acct EXCEPT ![u] = b]
  BY DEF ChangeWrite
<1> HIDE DEF b
<1>4. RowOK(b) /\ Keeps(a, b)
  BY <1>2a, <1>1, <1>2, KeepsIssue
<1>5. TokenOK(b, a.issued + 1, e)
  BY <1>1, <1>2, AccountConstants DEF TokenOK, Row
<1>6. req' = [req EXCEPT ![r] = [req[r] EXCEPT !.pc = "mail", !.user = u,
                                               !.token = a.issued + 1]]
  BY DEF ChangeWrite, ToMail, Issued, Inv, TypeOK
<1>7. acct'[u] = b
  BY <1>1, <1>3 DEF Inv, TypeOK
<1>8. RequestOK([req[r] EXCEPT !.pc = "mail", !.user = u, !.token = a.issued + 1], acct')
  BY <1>1, <1>5, <1>7, ToMailOK
<1> QED
  BY <1>1, <1>3, <1>4, <1>6, <1>8, WriteStep DEF ChangeWrite

LEMMA VerifyExpiredOK ==
  ASSUME Inv, NEW r \in Requests, VerifyExpired(r)
  PROVE  Inv'
<1> DEFINE u == req[r].user
           a == acct[u]
           b == [a EXCEPT !.token = 0, !.expired = FALSE]
<1>1. u \in Users /\ RowOK(a) /\ a \in Account
  BY RequestFacts, RowFacts DEF VerifyExpired, RequestOK
<1>2. CASE ~Exists(u)
  BY <1>2, DoneStep DEF VerifyExpired
<1>3. CASE Exists(u)
  <2>1. acct' = [acct EXCEPT ![u] = b]
    BY <1>3 DEF VerifyExpired
  <2>2. /\ b \in Account /\ b.status = a.status /\ b.token = 0 /\ b.issued = a.issued
        /\ b.verified = a.verified /\ b.email = a.email /\ b.proven = a.proven
        /\ b.excused = a.excused
    BY <1>1 DEF Account
  <2> HIDE DEF b
  <2>3. RowOK(b) /\ Keeps(a, b)
    BY <1>1, <2>2, KeepsClear DEF RowOK
  <2> QED
    BY <1>1, <2>1, <2>3, IdleOK, WriteStep DEF VerifyExpired, Done
<1> QED
  BY <1>2, <1>3

LEMMA VerifyWriteOK ==
  ASSUME Inv, NEW r \in Requests, VerifyWrite(r)
  PROVE  Inv'
<1> DEFINE u == req[r].user
           p == req[r].pending
           a == acct[u]
           email == IF p # NoEmail THEN p ELSE a.email
           pending == IF p # NoEmail THEN NoEmail ELSE a.pending
           proven == a.proven \cup {req[r].to}
           excused == a.excused \/ req[r].mixed
           b == [a EXCEPT !.verified = TRUE, !.token = 0, !.expired = FALSE,
                          !.email = email, !.pending = pending,
                          !.proven = proven, !.excused = excused]
<1>1. /\ u \in Users /\ RowOK(a) /\ a \in Account /\ Row(a)
      /\ req[r].to \in Emails /\ p \in Address /\ req[r].mixed \in BOOLEAN
      /\ a.email # NoEmail
  BY RequestFacts, RowFacts DEF VerifyWrite, RequestOK, Request, Exists, Row, RowOK
<1>2. acct' = [acct EXCEPT ![u] = b]
  BY DEF VerifyWrite
<1>3. /\ email \in Address /\ email # NoEmail /\ pending \in Address
      /\ proven \in SUBSET Emails /\ excused \in BOOLEAN
  BY <1>1 DEF Account, Address
<1>4. ~excused => email \in proven
  <2>1. ASSUME ~req[r].mixed, p # NoEmail PROVE req[r].to = p
    BY <2>1, RequestFacts DEF VerifyWrite, RequestOK
  <2>2. ASSUME ~req[r].mixed, p = NoEmail PROVE AddressOK(a, req[r].to)
    BY <2>2, RequestFacts DEF VerifyWrite, RequestOK
  <2>3. ASSUME ~req[r].mixed, ~a.excused, p = NoEmail PROVE a.email \in proven
    BY <1>1, <2>2, <2>3 DEF AddressOK, RowOK
  <2> QED
    BY <2>1, <2>3
<1> HIDE DEF email, pending, proven, excused
<1>5. /\ b.status = a.status /\ b.token = 0 /\ b.issued = a.issued
      /\ b.verified = TRUE /\ b.email = email /\ b.proven = proven
      /\ b.excused = excused /\ b \in Account
  BY <1>1, <1>3 DEF Account
<1> HIDE DEF b
<1>6. RowOK(b) /\ Keeps(a, b)
  BY <1>1, <1>3, <1>4, <1>5, KeepsClear
<1> QED
  BY <1>1, <1>2, <1>6, IdleOK, WriteStep DEF VerifyWrite, Done

LEMMA GoogleLinkOK ==
  ASSUME Inv, NEW r \in Requests, GoogleLink(r)
  PROVE  Inv'
<1> DEFINE u == req[r].user
           a == acct[u]
           e == req[r].to
           b == [a EXCEPT !.google = e, !.verified = TRUE, !.proven = a.proven \cup {e}]
<1>1. /\ u \in Users /\ RowOK(a) /\ a \in Account /\ Row(a)
      /\ e \in Emails /\ AddressOK(a, e)
  BY RequestFacts, RowFacts DEF GoogleLink, RequestOK, Exists, Row
<1>2. acct' = [acct EXCEPT ![u] = b]
  BY DEF GoogleLink
<1>3. /\ b.status = a.status /\ b.token = a.token /\ b.issued = a.issued
      /\ b.pending = a.pending /\ b.mixed = a.mixed /\ b.excused = a.excused
      /\ b.verified = TRUE /\ b.email = a.email /\ b.proven = a.proven \cup {e}
  BY <1>1 DEF Account
<1>4. b \in Account
  BY <1>1 DEF Account, Address
<1> HIDE DEF b
<1>5. RowOK(b)
  BY <1>1, <1>3, <1>4 DEF RowOK, AddressOK, Row
<1>6. Keeps(a, b)
  BY <1>1, <1>3 DEF Keeps, TokenOK, AddressOK, Row
<1> QED
  BY <1>1, <1>2, <1>5, <1>6, IdleOK, WriteStep DEF GoogleLink, Done

LEMMA GoogleCreateOK ==
  ASSUME Inv, NEW r \in Requests, GoogleCreate(r)
  PROVE  Inv'
<1> DEFINE e == req[r].to
           b == [NoAccount EXCEPT !.status = "live", !.email = e, !.google = e,
                                  !.verified = TRUE, !.proven = {e}]
<1>1. e \in Emails
  BY RequestFacts DEF GoogleCreate, RequestOK
<1>2. PICK u \in Users : acct[u].status = "none" /\ acct' = [acct EXCEPT ![u] = b]
  BY DEF GoogleCreate
<1>3. /\ b.status = "live" /\ b.email = e /\ b.token = 0 /\ b.issued = 0
      /\ b.proven = {e} /\ b \in Account
  BY <1>1 DEF NoAccount, Account, Address
<1> HIDE DEF b
<1>4. RowOK(b) /\ Keeps(acct[u], b)
  BY <1>1, <1>2, <1>3, AccountConstants, KeepsNone DEF RowOK
<1> QED
  BY <1>2, <1>4, IdleOK, WriteStep DEF GoogleCreate, Done

LEMMA AdminWriteOK ==
  ASSUME Inv, NEW r \in Requests, AdminWrite(r)
  PROVE  Inv'
<1> DEFINE t == req[r].user
           a == acct[t]
           op == req[r].op
           b == Edited(a, op)
<1>1. /\ t \in Users /\ RowOK(a) /\ a \in Account /\ Row(a) /\ a.email # NoEmail
      /\ op \in AdminOps \cup {"erase"}
  BY RequestFacts, RowFacts DEF AdminWrite, RequestOK, Exists, Row, RowOK
<1>2. acct' = [acct EXCEPT ![t] = b]
  BY DEF AdminWrite
<1>3. CASE op # "erase"
  <2>1. /\ b \in Account /\ b.status \in {"live", "deleted"}
        /\ b.email = a.email /\ b.verified = a.verified /\ b.pending = a.pending
        /\ b.token = a.token /\ b.issued = a.issued /\ b.proven = a.proven
        /\ b.mixed = a.mixed /\ b.excused = a.excused
    <3>1. CASE op = "promote"
      BY <1>1, <3>1 DEF Edited, Account, Row
    <3>2. CASE op = "demote"
      BY <1>1, <3>2 DEF Edited, Account, Row
    <3>3. CASE op = "deleteUser"
      BY <1>1, <3>3 DEF Edited, Account, Row
    <3>4. CASE op = "restoreUser"
      BY <1>1, <3>4 DEF Edited, Account, Row
    <3> QED
      BY <1>1, <1>3, <3>1, <3>2, <3>3, <3>4 DEF AdminOps
  <2> HIDE DEF b
  <2>2. RowOK(b) /\ Keeps(a, b)
    BY <1>1, <2>1, KeepsSame
  <2> QED
    BY <1>1, <1>2, <2>2, IdleOK, WriteStep DEF AdminWrite, Done
<1>4. CASE op = "erase"
  <2>1. /\ b \in Account /\ b.status = "gone" /\ b.email = NoEmail
        /\ b.verified = FALSE /\ b.token = 0 /\ b.issued = 0
    BY <1>4, NoAccountType DEF Edited, NoAccount, Account
  <2> HIDE DEF b
  <2>2. RowOK(b) /\ Keeps(a, b)
    BY <1>1, <2>1 DEF RowOK, Keeps, TokenOK, AddressOK, Row
  <2> QED
    BY <1>1, <1>2, <2>2, IdleOK, WriteStep DEF AdminWrite, Done
<1> QED
  BY <1>3, <1>4

LEMMA RowStepsOK ==
  ASSUME Inv, NEW u \in Users, TokenExpires(u) \/ ResetPassword(u)
  PROVE  Inv'
<1> DEFINE a == acct[u]
<1>1. RowOK(a) /\ a \in Account /\ a.status = "live"
  BY RowFacts DEF TokenExpires, ResetPassword, Live
<1>2. ASSUME NEW b \in {[a EXCEPT !.expired = TRUE], [a EXCEPT !.password = TRUE]}
      PROVE  RowOK(b) /\ Keeps(a, b)
  <2>1. /\ b \in Account /\ b.status = "live"
        /\ b.email = a.email /\ b.verified = a.verified /\ b.pending = a.pending
        /\ b.token = a.token /\ b.issued = a.issued /\ b.proven = a.proven
        /\ b.mixed = a.mixed /\ b.excused = a.excused
    BY <1>1, <1>2 DEF Account
  <2> QED
    BY <1>1, <2>1, KeepsSame DEF Row, RowOK
<1>3. CASE TokenExpires(u)
  <2>1. acct' = [acct EXCEPT ![u] = [a EXCEPT !.expired = TRUE]]
    BY <1>3 DEF TokenExpires, Inv, TypeOK
  <2> QED
    BY <1>2, <1>3, <2>1, RowStep DEF TokenExpires
<1>4. CASE ResetPassword(u)
  <2>1. acct' = [acct EXCEPT ![u] = [a EXCEPT !.password = TRUE]]
    BY <1>4 DEF ResetPassword, Inv, TypeOK
  <2> QED
    BY <1>2, <1>4, <2>1, RowStep DEF ResetPassword
<1> QED
  BY <1>3, <1>4

-----------------------------------------------------------------------------
(* The theorems *)

LEMMA InitOK == Init => Inv
<1> SUFFICES ASSUME Init PROVE Inv
  OBVIOUS
<1>1. RowOK(NoAccount)
  BY NoAccountType DEF NoAccount, RowOK
<1>2. ASSUME NEW e0 \in Emails
      PROVE  RowOK([NoAccount EXCEPT !.status = "live", !.role = "ADMIN", !.password = TRUE,
                                     !.email = e0, !.verified = TRUE, !.proven = {e0}])
  <2> DEFINE b == [NoAccount EXCEPT !.status = "live", !.role = "ADMIN", !.password = TRUE,
                                    !.email = e0, !.verified = TRUE, !.proven = {e0}]
  <2>1. /\ b.status = "live" /\ b.email = e0 /\ b.proven = {e0}
        /\ b.token = 0 /\ b.issued = 0 /\ b \in Account
    BY DEF NoAccount, Account, Address
  <2> HIDE DEF b
  <2>2. RowOK(b)
    BY <2>1, AccountConstants DEF RowOK
  <2> QED
    BY <2>2 DEF b
<1>3. acct \in [Users -> Account] /\ \A u \in Users : RowOK(acct[u])
  <2>1. CASE acct = [u \in Users |-> NoAccount]
    BY <1>1, <2>1 DEF RowOK
  <2>2. CASE \E u0 \in Users, e0 \in Emails : acct = Seeded(u0, e0)
    <3>1. PICK u0 \in Users, e0 \in Emails : acct = Seeded(u0, e0)
      BY <2>2
    <3>2. \A u \in Users : RowOK(Seeded(u0, e0)[u])
      BY <1>1, <1>2 DEF Seeded
    <3>3. Seeded(u0, e0) \in [Users -> Account]
      <4>1. \A u \in Users : Seeded(u0, e0)[u] \in Account
        BY <3>2 DEF RowOK
      <4> QED
        BY <4>1 DEF Seeded
    <3> QED
      BY <3>1, <3>2, <3>3
  <2> QED
    BY <2>1, <2>2 DEF Init
<1>4. \A r \in Requests : RequestOK(req[r], acct)
  BY IdleOK DEF Init
<1>5. TypeOK
  BY <1>3, <1>4 DEF Init, TypeOK, RowOK, RequestOK
<1> QED
  BY <1>3, <1>4, <1>5 DEF Init, Inv

LEMMA NextOK == Inv /\ [Next]_vars => Inv'
<1> SUFFICES ASSUME Inv, [Next]_vars PROVE Inv'
  OBVIOUS
<1>1. ASSUME NEW r \in Requests, RequestStep(r) PROVE Inv'
  BY <1>1, RegisterCreateOK, SendLinkOK, ResendWriteOK, ChangeWriteOK, VerifyExpiredOK,
     VerifyWriteOK, GoogleLinkOK, GoogleCreateOK, AdminWriteOK, StepsOK DEF RequestStep
<1>2. CASE UNCHANGED vars
  BY <1>2 DEF vars, Inv, TypeOK
<1> QED
  BY <1>1, <1>2, Reads, VerifyReadOK, RowStepsOK DEF Next

(* The invariant about rows, links and requests holds in every state.      *)
THEOREM InductiveInvariant == Spec => []Inv
BY InitOK, NextOK, PTL DEF Spec

(* Rows, links and requests keep their types, and no account is without an *)
(* address, for any accounts, addresses and requests.                      *)
THEOREM TypeCorrect == Spec => []TypeOK
<1>1. Inv => TypeOK
  BY DEF Inv
<1> QED
  BY <1>1, InductiveInvariant, PTL

(* However register, changeEmail, resendVerification, verifyEmail,         *)
(* googleLogin and the administrators' calls overlap, a verified address   *)
(* was confirmed to its account, except by a token of resendVerification   *)
(* issued while a change of address was pending.                           *)
THEOREM VerifiedTheorem == Spec => []VerifiedProven
<1>1. Inv => VerifiedProven
  BY DEF Inv, RowOK, VerifiedProven
<1> QED
  BY <1>1, InductiveInvariant, PTL


-----------------------------------------------------------------------------
(* Requests that do not overlap *)

(* What takes an administrator away. *)
Demoting == {"demote", "deleteUser", "erase"}

(* A request that comes to demote or delete an administrator leaves        *)
(* another one, as long as no two of them overlapped.                      *)
Leaves(r) ==
  "admin" \notin overlap /\ req[r].pc = "write" /\ req[r].op \in Demoting
    /\ req[r].user \in Admins
      => \E v \in Admins : v # req[r].user

(* A Google identity is linked to an account that has no other one. *)
Links(r) ==
  "link" \notin overlap /\ req[r].pc = "link" =>
    acct[req[r].user].google \in {NoEmail, req[r].to}

Serial ==
  /\ Overlapping \subseteq overlap
  /\ \A r \in Requests : Leaves(r) /\ Links(r)
  /\ \A u \in Users : acct[u].status = "none" => acct[u].google = NoEmail


(* What a step may do to a row. *)
RowChange(u) ==
  \/ /\ acct'[u].status = acct[u].status /\ acct'[u].role = acct[u].role
     /\ acct'[u].google = acct[u].google
  \/ /\ acct[u].status = "none" /\ acct'[u].status # "none" /\ acct'[u].role = "USER"
  \/ /\ acct'[u].status = acct[u].status /\ acct'[u].role = acct[u].role
     /\ acct[u].status # "none"
     /\ \E r \in Requests :
          req[r].pc = "link" /\ req[r].user = u /\ acct'[u].google = req[r].to
  \/ /\ \/ acct'[u].google = acct[u].google
        \/ acct'[u].status = "gone" /\ acct'[u].google = NoEmail
     /\ acct[u].status # "none" /\ acct'[u].status # "none"
     /\ \E r \in Requests :
          /\ req[r].pc = "write" /\ req[r].user = u /\ req'[r].pc = "idle"
          /\ req[r].op \notin Demoting /\ u \in Admins => u \in Admins'

(* What a step may do to a request. *)
RequestChange(q) ==
  \/ req'[q] = req[q]
  \/ req'[q].pc \notin {"write", "link"}
  \/ /\ acct' = acct /\ req'[q].pc = "write"
     /\ req'[q].op \in Demoting /\ req'[q].user \in Admins
          => \E v \in Admins : v # req'[q].user
  \/ /\ acct' = acct /\ req'[q].pc = "link"
     /\ acct[req'[q].user].google \in {NoEmail, req'[q].to}

Classified ==
  /\ \A u \in Users : RowChange(u)
  /\ \A q \in Requests : RequestChange(q)

(* A step that writes row u to b and leaves request r at s. *)
LEMMA ClassifyWrite ==
  ASSUME Inv, NEW u \in Users, NEW b, acct' = [acct EXCEPT ![u] = b],
         acct'[u] = b => RowChange(u),
         NEW r \in Requests, NEW s, req' = [req EXCEPT ![r] = s],
         s.pc \notin {"write", "link"}
  PROVE  Classified
<1>1. \A v \in Users : acct'[v] = IF v = u THEN b ELSE acct[v]
  BY DEF Inv, TypeOK
<1>2. \A q \in Requests : req'[q] = IF q = r THEN s ELSE req[q]
  BY DEF Inv, TypeOK
<1>3. \A v \in Users : RowChange(v)
  BY <1>1 DEF RowChange
<1>4. \A q \in Requests : RequestChange(q)
  BY <1>2 DEF RequestChange
<1> QED
  BY <1>3, <1>4 DEF Classified

(* A step that writes no row and leaves request r at s. *)
LEMMA ClassifyRead ==
  ASSUME Inv, acct' = acct, NEW r \in Requests, NEW s, req' = [req EXCEPT ![r] = s],
         \/ s.pc \notin {"write", "link"}
         \/ /\ s.pc = "write"
            /\ s.op \in Demoting /\ s.user \in Admins => \E v \in Admins : v # s.user
         \/ s.pc = "link" /\ acct[s.user].google \in {NoEmail, s.to}
  PROVE  Classified
<1>2. \A q \in Requests : req'[q] = IF q = r THEN s ELSE req[q]
  BY DEF Inv, TypeOK
<1>3. \A v \in Users : RowChange(v)
  BY DEF RowChange
<1>4. \A q \in Requests : RequestChange(q)
  BY <1>2 DEF RequestChange
<1> QED
  BY <1>3, <1>4 DEF Classified

LEMMA ClassifyStarted ==
  ASSUME Inv, acct' = acct, NEW r \in Requests, NEW pc, NEW op, NEW u, NEW e,
         Started(r, pc, op, u, e),
         \/ pc \notin {"write", "link"}
         \/ /\ pc = "write"
            /\ op \in Demoting /\ u \in Admins => \E v \in Admins : v # u
         \/ pc = "link" /\ acct[u].google \in {NoEmail, e}
  PROVE  Classified
<1> DEFINE s == [Idle EXCEPT !.pc = pc, !.op = op, !.user = u, !.to = e]
<1>1. s.pc = pc /\ s.op = op /\ s.user = u /\ s.to = e
  BY DEF Idle
<1>2. req' = [req EXCEPT ![r] = s]
  BY DEF Started
<1> HIDE DEF s
<1> QED
  BY <1>1, <1>2, ClassifyRead

LEMMA ClassifyDone ==
  ASSUME Inv, acct' = acct, NEW r \in Requests, Done(r)
  PROVE  Classified
<1>1. Idle.pc = "idle"
  BY DEF Idle
<1> QED
  BY <1>1, ClassifyRead DEF Done

LEMMA ClassifyReads ==
  ASSUME Inv, NEW r \in Requests
  PROVE  /\ \A e \in Emails : RegisterRead(r, e) \/ GoogleRead(r, e) => Classified
         /\ \A u \in Users : ResendRead(r, u) \/ EraseRead(r, u) => Classified
         /\ \A u \in Users, e \in Emails : ChangeRead(r, u, e) => Classified
         /\ \A a, t \in Users, op \in AdminOps : AdminRead(r, a, t, op) => Classified
         /\ \A l \in links : VerifyRead(r, l) => Classified
<1>1. ASSUME NEW e \in Emails, RegisterRead(r, e) PROVE Classified
  BY <1>1, ClassifyStarted DEF RegisterRead
<1>2. ASSUME NEW e \in Emails, GoogleRead(r, e) PROVE Classified
  <2>1. CASE \E u \in Users : Linkable(u, e) /\ Started(r, "link", "google", u, e)
    BY <1>2, <2>1, ClassifyStarted DEF GoogleRead, Linkable
  <2>2. CASE Started(r, "googleCreate", "google", NoUser, e)
    BY <1>2, <2>2, ClassifyStarted DEF GoogleRead
  <2> QED
    BY <1>2, <2>1, <2>2 DEF GoogleRead
<1>3. ASSUME NEW u \in Users, ResendRead(r, u) PROVE Classified
  BY <1>3, ClassifyStarted DEF ResendRead
<1>4. ASSUME NEW u \in Users, EraseRead(r, u) PROVE Classified
  BY <1>4, ClassifyStarted DEF EraseRead, Admins
<1>5. ASSUME NEW u \in Users, NEW e \in Emails, ChangeRead(r, u, e) PROVE Classified
  BY <1>5, ClassifyStarted DEF ChangeRead
<1>6. ASSUME NEW a \in Users, NEW t \in Users, NEW op \in AdminOps, AdminRead(r, a, t, op)
      PROVE Classified
  BY <1>6, ClassifyStarted DEF AdminRead, Admins, AdminOps, Demoting
<1>7. ASSUME NEW l \in links, VerifyRead(r, l) PROVE Classified
  <2> DEFINE s == [pc |-> IF acct[l.user].expired THEN "expire" ELSE "verify",
                   op |-> "verify", user |-> l.user, to |-> l.to, token |-> l.token,
                   pending |-> acct[l.user].pending, mixed |-> acct[l.user].mixed]
  <2>1. s.pc \notin {"write", "link"} /\ req' = [req EXCEPT ![r] = s]
    BY <1>7 DEF VerifyRead
  <2> HIDE DEF s
  <2> QED
    BY <1>7, <2>1, ClassifyRead DEF VerifyRead
<1> QED
  BY <1>1, <1>2, <1>3, <1>4, <1>5, <1>6, <1>7

(* The count of administrators leaves one besides the account. *)
LEMMA AnotherAdmin ==
  ASSUME NEW t, Cardinality(Admins) > 1
  PROVE  \E v \in Admins : v # t
<1> SUFFICES ASSUME Admins \subseteq {t} PROVE FALSE
  OBVIOUS
<1>1. IsFiniteSet({t}) /\ Cardinality({t}) = 1
  BY FS_Singleton
<1>2. Cardinality(Admins) <= 1 /\ IsFiniteSet(Admins)
  BY <1>1, FS_Subset
<1>3. Cardinality(Admins) \in Nat
  BY <1>2, FS_CardinalityType
<1> QED
  BY <1>2, <1>3

(* The step to pc, all else of the request kept. *)
LEMMA StepFields ==
  ASSUME Inv, NEW r \in Requests, NEW pc, Step(r, pc)
  PROVE  \E s : /\ req' = [req EXCEPT ![r] = s]
                /\ s.pc = pc /\ s.op = req[r].op /\ s.user = req[r].user
<1> DEFINE s == [req[r] EXCEPT !.pc = pc]
<1>1. s.pc = pc /\ s.op = req[r].op /\ s.user = req[r].user
  BY RequestFacts DEF Request
<1>2. req' = [req EXCEPT ![r] = s]
  BY DEF Step, Inv, TypeOK
<1> HIDE DEF s
<1> QED
  BY <1>1, <1>2

LEMMA ToMailFields ==
  ASSUME Inv, NEW r \in Requests, NEW u, ToMail(r, u)
  PROVE  \E s : req' = [req EXCEPT ![r] = s] /\ s.pc = "mail"
<1> DEFINE s == [req[r] EXCEPT !.pc = "mail", !.user = u, !.token = Issued(u)]
<1>1. s.pc = "mail"
  BY RequestFacts DEF Request
<1>2. req' = [req EXCEPT ![r] = s]
  BY DEF ToMail, Inv, TypeOK
<1> HIDE DEF s
<1> QED
  BY <1>1, <1>2

LEMMA DoneFields ==
  ASSUME NEW r \in Requests, Done(r)
  PROVE  \E s : req' = [req EXCEPT ![r] = s] /\ s.pc = "idle"
<1>1. Idle.pc = "idle"
  BY DEF Idle
<1> QED
  BY <1>1 DEF Done

(* Writes that leave status, role and Google identity alone. *)
LEMMA ClassifySame ==
  ASSUME Inv, NEW r \in Requests,
         ResendWrite(r) \/ ChangeWrite(r) \/ VerifyExpired(r) \/ VerifyWrite(r)
  PROVE  Classified
<1> DEFINE u == req[r].user
<1>1. u \in Users /\ acct[u] \in Account
  BY RequestFacts, RowFacts DEF ResendWrite, ChangeWrite, VerifyExpired, VerifyWrite, RequestOK
<1>2. PICK s : req' = [req EXCEPT ![r] = s] /\ s.pc \notin {"write", "link"}
  BY <1>1, ToMailFields, DoneFields DEF ResendWrite, ChangeWrite, VerifyExpired, VerifyWrite
<1>3. \/ acct' = acct
      \/ \E b : /\ acct' = [acct EXCEPT ![u] = b]
                /\ b.status = acct[u].status /\ b.role = acct[u].role
                /\ b.google = acct[u].google
  <2>1. CASE ResendWrite(r)
    <3> DEFINE b == [acct[u] EXCEPT !.token = Issued(u), !.issued = Issued(u),
                       !.expired = FALSE, !.mixed = acct[u].pending # NoEmail]
    <3>1. /\ b.status = acct[u].status /\ b.role = acct[u].role
          /\ b.google = acct[u].google
      BY <1>1 DEF Account
    <3>2. acct' = [acct EXCEPT ![u] = b]
      BY <2>1 DEF ResendWrite
    <3> QED
      BY <3>1, <3>2
  <2>2. CASE ChangeWrite(r)
    <3> DEFINE b == [acct[u] EXCEPT !.pending = req[r].to, !.token = Issued(u),
                       !.issued = Issued(u), !.expired = FALSE, !.mixed = FALSE]
    <3>1. /\ b.status = acct[u].status /\ b.role = acct[u].role
          /\ b.google = acct[u].google
      BY <1>1 DEF Account
    <3>2. acct' = [acct EXCEPT ![u] = b]
      BY <2>2 DEF ChangeWrite
    <3> QED
      BY <3>1, <3>2
  <2>3. CASE VerifyExpired(r)
    <3> DEFINE b == [acct[u] EXCEPT !.token = 0, !.expired = FALSE]
    <3>1. /\ b.status = acct[u].status /\ b.role = acct[u].role
          /\ b.google = acct[u].google
      BY <1>1 DEF Account
    <3>2. acct' = acct \/ acct' = [acct EXCEPT ![u] = b]
      BY <2>3 DEF VerifyExpired
    <3> QED
      BY <3>1, <3>2
  <2>4. CASE VerifyWrite(r)
    <3> DEFINE p == req[r].pending
               b == [acct[u] EXCEPT
                       !.verified = TRUE, !.token = 0, !.expired = FALSE,
                       !.email = IF p # NoEmail THEN p ELSE acct[u].email,
                       !.pending = IF p # NoEmail THEN NoEmail ELSE acct[u].pending,
                       !.proven = acct[u].proven \cup {req[r].to},
                       !.excused = acct[u].excused \/ req[r].mixed]
    <3>1. /\ b.status = acct[u].status /\ b.role = acct[u].role
          /\ b.google = acct[u].google
      BY <1>1 DEF Account
    <3>2. acct' = [acct EXCEPT ![u] = b]
      BY <2>4 DEF VerifyWrite
    <3> QED
      BY <3>1, <3>2
  <2> QED
    BY <2>1, <2>2, <2>3, <2>4
<1>4. CASE acct' = acct
  BY <1>2, <1>4, ClassifyRead
<1>5. ASSUME NEW b, acct' = [acct EXCEPT ![u] = b],
             b.status = acct[u].status, b.role = acct[u].role, b.google = acct[u].google
      PROVE  Classified
  <2>1. acct'[u] = b => RowChange(u)
    BY <1>5 DEF RowChange
  <2> HIDE DEF u
  <2> QED
    BY <1>1, <1>2, <1>5, <2>1, ClassifyWrite
<1> QED
  BY <1>3, <1>4, <1>5

LEMMA ClassifyCreate ==
  ASSUME Inv, NEW r \in Requests, RegisterCreate(r) \/ GoogleCreate(r)
  PROVE  Classified
<1>1. \E u \in Users : \E b :
         /\ acct' = [acct EXCEPT ![u] = b] /\ acct[u].status = "none"
         /\ b.status = "live" /\ b.role = "USER"
         /\ ToMail(r, u) \/ Done(r)
  <2>1. CASE RegisterCreate(r)
    <3> DEFINE b == [NoAccount EXCEPT !.status = "live", !.password = TRUE,
                       !.email = req[r].to, !.token = 1, !.issued = 1]
    <3>1. b.status = "live" /\ b.role = "USER"
      BY DEF NoAccount
    <3>2. \E u \in Users : /\ acct' = [acct EXCEPT ![u] = b] /\ acct[u].status = "none"
                           /\ ToMail(r, u)
      BY <2>1 DEF RegisterCreate
    <3> HIDE DEF b
    <3> QED
      BY <3>1, <3>2
  <2>2. CASE GoogleCreate(r)
    <3> DEFINE b == [NoAccount EXCEPT !.status = "live", !.email = req[r].to,
                       !.google = req[r].to, !.verified = TRUE, !.proven = {req[r].to}]
    <3>1. b.status = "live" /\ b.role = "USER"
      BY DEF NoAccount
    <3>2. \E u \in Users : acct' = [acct EXCEPT ![u] = b] /\ acct[u].status = "none"
      BY <2>2 DEF GoogleCreate
    <3>3. Done(r)
      BY <2>2 DEF GoogleCreate
    <3> HIDE DEF b
    <3> QED
      BY <3>1, <3>2, <3>3
  <2> QED
    BY <2>1, <2>2
<1>2. PICK u \in Users : \E b :
         /\ acct' = [acct EXCEPT ![u] = b] /\ acct[u].status = "none"
         /\ b.status = "live" /\ b.role = "USER"
         /\ ToMail(r, u) \/ Done(r)
  BY <1>1
<1>2a. PICK b :
         /\ acct' = [acct EXCEPT ![u] = b] /\ acct[u].status = "none"
         /\ b.status = "live" /\ b.role = "USER"
         /\ ToMail(r, u) \/ Done(r)
  BY <1>2
<1>3. PICK s : req' = [req EXCEPT ![r] = s] /\ s.pc \notin {"write", "link"}
  BY <1>2a, ToMailFields, DoneFields
<1>4. acct'[u] = b => RowChange(u)
  BY <1>2a DEF RowChange
<1> QED
  BY <1>2a, <1>3, <1>4, ClassifyWrite

LEMMA ClassifyLink ==
  ASSUME Inv, NEW r \in Requests, GoogleLink(r)
  PROVE  Classified
<1> DEFINE u == req[r].user
           b == [acct[u] EXCEPT !.google = req[r].to, !.verified = TRUE,
                                !.proven = acct[u].proven \cup {req[r].to}]
<1>1. u \in Users /\ acct[u] \in Account /\ acct[u].status # "none" /\ req[r].pc = "link"
  BY RequestFacts, RowFacts DEF GoogleLink, RequestOK, Exists
<1>2. b.status = acct[u].status /\ b.role = acct[u].role /\ b.google = req[r].to
  BY <1>1 DEF Account
<1>3. acct' = [acct EXCEPT ![u] = b]
  BY DEF GoogleLink
<1>4. PICK s : req' = [req EXCEPT ![r] = s] /\ s.pc = "idle"
  BY DoneFields DEF GoogleLink
<1> HIDE DEF b
<1>5. acct'[u] = b => RowChange(u)
  BY <1>1, <1>2 DEF RowChange
<1> QED
  BY <1>1, <1>3, <1>4, <1>5, ClassifyWrite

LEMMA ClassifyAdmin ==
  ASSUME Inv, NEW r \in Requests, AdminWrite(r)
  PROVE  Classified
<1> DEFINE t == req[r].user
           op == req[r].op
           b == Edited(acct[t], op)
<1>1. /\ t \in Users /\ acct[t] \in Account /\ acct[t].status # "none"
      /\ req[r].pc = "write" /\ op \in AdminOps \cup {"erase"}
      /\ acct[t].status \in {"live", "deleted"}
  BY RequestFacts, RowFacts DEF AdminWrite, RequestOK, Exists
<1>2. /\ b.google = acct[t].google \/ (b.status = "gone" /\ b.google = NoEmail)
      /\ b.status # "none"
      /\ op \notin Demoting /\ t \in Admins => b.status = "live" /\ b.role = "ADMIN"
  <2>1. CASE op = "promote"
    BY <1>1, <2>1 DEF Edited, Account, Admins, Live
  <2>2. CASE op = "demote"
    BY <1>1, <2>2 DEF Edited, Account, Demoting
  <2>3. CASE op = "deleteUser"
    BY <1>1, <2>3 DEF Edited, Account, Demoting
  <2>4. CASE op = "restoreUser"
    BY <1>1, <2>4 DEF Edited, Account, Admins, Live
  <2>5. CASE op = "erase"
    BY <1>1, <2>5 DEF Edited, NoAccount, Demoting
  <2> QED
    BY <1>1, <2>1, <2>2, <2>3, <2>4, <2>5 DEF AdminOps
<1>3. acct' = [acct EXCEPT ![t] = b]
  BY DEF AdminWrite
<1>4. PICK s : req' = [req EXCEPT ![r] = s] /\ s.pc = "idle"
  BY DoneFields DEF AdminWrite
<1> HIDE DEF b
<1>4a. req'[r].pc = "idle"
  BY <1>4 DEF Inv, TypeOK
<1>5. acct'[t] = b => RowChange(t)
  BY <1>1, <1>2, <1>4a DEF RowChange, Admins, Live
<1> QED
  BY <1>1, <1>3, <1>4, <1>5, ClassifyWrite

LEMMA ClassifyStep ==
  ASSUME Inv, [Next]_vars
  PROVE  Classified
<1>1. ASSUME NEW r \in Requests, SendLink(r) \/ Fail(r) PROVE Classified
  BY <1>1, ClassifyDone DEF SendLink, Fail
<1>2. ASSUME NEW r \in Requests, ChangeCheck(r) PROVE Classified
  <2>1. PICK s : req' = [req EXCEPT ![r] = s] /\ s.pc = "change"
    BY <1>2, StepFields DEF ChangeCheck
  <2> QED
    BY <1>2, <2>1, ClassifyRead DEF ChangeCheck
<1>3. ASSUME NEW r \in Requests, CountAdmins(r) PROVE Classified
  <2>1. PICK s : req' = [req EXCEPT ![r] = s] /\ s.pc = "write"
    BY <1>3, StepFields DEF CountAdmins
  <2>2. \E v \in Admins : v # s.user
    BY <1>3, AnotherAdmin DEF CountAdmins
  <2> QED
    BY <1>3, <2>1, <2>2, ClassifyRead DEF CountAdmins
<1>4. ASSUME NEW r \in Requests, RequestStep(r) PROVE Classified
  BY <1>1, <1>2, <1>3, <1>4, ClassifySame, ClassifyCreate, ClassifyLink, ClassifyAdmin
  DEF RequestStep
<1>5. ASSUME NEW u \in Users, TokenExpires(u) \/ ResetPassword(u) PROVE Classified
  <2>1. acct[u] \in Account /\ req' = req
    BY <1>5, RowFacts DEF TokenExpires, ResetPassword
  <2>2. \A v \in Users : /\ acct'[v].status = acct[v].status /\ acct'[v].role = acct[v].role
                         /\ acct'[v].google = acct[v].google
    BY <1>5, <2>1 DEF TokenExpires, ResetPassword, Account, Inv, TypeOK
  <2> QED
    BY <2>1, <2>2 DEF Classified, RowChange, RequestChange
<1>6. CASE UNCHANGED vars
  BY <1>6 DEF vars, Classified, RowChange, RequestChange
<1> QED
  BY <1>4, <1>5, <1>6, ClassifyReads DEF Next


(* Without overlap no two requests administer, and no two link an account. *)
LEMMA NoOverlap ==
  ASSUME Inv, Serial, NEW q \in Requests, NEW r \in Requests, q # r
  PROVE  /\ "admin" \notin overlap => ~(Administers(q) /\ Administers(r))
         /\ "link" \notin overlap =>
              ~(Linking(q) /\ Linking(r) /\ req[q].user = req[r].user)
<1>1. ASSUME Administers(q), Administers(r) PROVE "admin" \in Overlapping
  BY <1>1 DEF Overlapping
<1>2. ASSUME Linking(q), Linking(r), req[q].user = req[r].user PROVE "link" \in Overlapping
  BY <1>2 DEF Overlapping
<1> QED
  BY <1>1, <1>2 DEF Serial

(* An administrator is lost to a request that comes to take it away. *)
LEMMA AdminLost ==
  ASSUME Inv, Classified, NEW u \in Admins, u \notin Admins'
  PROVE  \E r \in Requests : req[r].pc = "write" /\ req[r].op \in Demoting /\ req[r].user = u
<1>1. u \in Users /\ acct[u].status = "live" /\ acct[u].role = "ADMIN"
  BY DEF Admins, Live
<1>2. acct'[u].status # "live" \/ acct'[u].role # "ADMIN"
  BY <1>1 DEF Admins, Live
<1> QED
  BY <1>1, <1>2 DEF Classified, RowChange

(* An administrator is made by a request that comes to write the account. *)
LEMMA AdminGained ==
  ASSUME Inv, Classified, NEW u \in Admins', u \notin Admins
  PROVE  \E r \in Requests : req[r].pc = "write" /\ req[r].user = u
<1>1. u \in Users /\ acct'[u].status = "live" /\ acct'[u].role = "ADMIN"
  BY DEF Admins, Live
<1>2. acct[u].status # "live" \/ acct[u].role # "ADMIN"
  BY <1>1 DEF Admins, Live
<1> QED
  BY <1>1, <1>2 DEF Classified, RowChange

LEMMA LeavesOK ==
  ASSUME Inv, Serial, Classified, overlap \subseteq overlap', NEW r \in Requests
  PROVE  Leaves(r)'
<1> SUFFICES ASSUME "admin" \notin overlap', req'[r].pc = "write", req'[r].op \in Demoting,
                    req'[r].user \in Admins'
             PROVE  \E v \in Admins' : v # req'[r].user
  BY DEF Leaves
<1>1. "admin" \notin overlap
  OBVIOUS
<1>2. CASE req'[r] = req[r]
  <2>1. Administers(r)
    BY <1>2 DEF Administers
  <2>2. \A q \in Requests : req[q].pc = "write" => q = r
    BY <1>1, <2>1, NoOverlap DEF Administers
  <2>3. req[r].user \in Admins
    <3> SUFFICES ASSUME req[r].user \notin Admins PROVE FALSE
      OBVIOUS
    <3>1. req[r].user \in Users /\ req[r].pc = "write"
      BY <1>2, RequestFacts DEF RequestOK
    <3>2. RowChange(req[r].user)
      BY <3>1 DEF Classified
    <3>3. /\ acct'[req[r].user].status = "live" /\ acct'[req[r].user].role = "ADMIN"
      BY <1>2 DEF Admins, Live
    <3> QED
      BY <3>1, <3>2, <3>3, <1>2, <2>2 DEF RowChange, Admins, Live
  <2>4. PICK v \in Admins : v # req[r].user
    BY <1>1, <1>2, <2>3 DEF Serial, Leaves
  <2>5. v \in Admins'
    BY <2>2, <2>4, AdminLost
  <2> QED
    BY <1>2, <2>4, <2>5
<1>3. CASE req'[r] # req[r]
  <2>1. acct' = acct /\ (req'[r].user \in Admins => \E v \in Admins : v # req'[r].user)
    BY <1>3 DEF Classified, RequestChange
  <2>2. Admins' = Admins
    BY <2>1 DEF Admins, Live
  <2> QED
    BY <2>1, <2>2
<1> QED
  BY <1>2, <1>3

LEMMA LinksOK ==
  ASSUME Inv, Serial, Classified, overlap \subseteq overlap', NEW r \in Requests
  PROVE  Links(r)'
<1> SUFFICES ASSUME "link" \notin overlap', req'[r].pc = "link"
             PROVE  acct'[req'[r].user].google \in {NoEmail, req'[r].to}
  BY DEF Links
<1>1. "link" \notin overlap
  OBVIOUS
<1>2. CASE req'[r] = req[r]
  <2> DEFINE u == req[r].user
  <2>1. u \in Users /\ req[r].pc = "link" /\ acct[u].status # "none"
    BY <1>2, RequestFacts DEF RequestOK, AddressOK
  <2>2. \A q \in Requests : req[q].pc = "link" /\ req[q].user = u => q = r
    BY <1>1, <2>1, NoOverlap DEF Linking
  <2>3. acct[u].google \in {NoEmail, req[r].to}
    BY <1>1, <2>1 DEF Serial, Links
  <2>4. RowChange(u)
    BY <2>1 DEF Classified
  <2>5. acct'[u].google \in {NoEmail, req[r].to}
    BY <2>1, <2>2, <2>3, <2>4 DEF RowChange
  <2> QED
    BY <1>2, <2>5
<1>3. CASE req'[r] # req[r]
  BY <1>3 DEF Classified, RequestChange
<1> QED
  BY <1>2, <1>3

LEMMA SerialInit == HistoryInit => Serial
<1> SUFFICES ASSUME HistoryInit PROVE Serial
  OBVIOUS
<1>1. \A r \in Requests : req[r] = Idle
  BY DEF HistoryInit, Init
<1>2. Overlapping \subseteq overlap
  BY <1>1 DEF Overlapping, Administers, Linking, Idle
<1>3. \A r \in Requests : Leaves(r) /\ Links(r)
  BY <1>1 DEF Leaves, Links, Idle
<1>4. \A u \in Users : acct[u].status = "none" => acct[u].google = NoEmail
  <2>1. NoAccount.google = NoEmail
    BY DEF NoAccount
  <2>2. ASSUME NEW e0
        PROVE  [NoAccount EXCEPT !.status = "live", !.role = "ADMIN", !.password = TRUE,
                  !.email = e0, !.verified = TRUE, !.proven = {e0}].status = "live"
    BY DEF NoAccount
  <2>3. CASE acct = [u \in Users |-> NoAccount]
    BY <2>1, <2>3
  <2>4. ASSUME NEW u0 \in Users, NEW e0 \in Emails, acct = Seeded(u0, e0)
        PROVE  \A u \in Users : acct[u].status = "none" => acct[u].google = NoEmail
    BY <2>1, <2>2, <2>4 DEF Seeded
  <2> QED
    BY <2>3, <2>4 DEF HistoryInit, Init
<1> QED
  BY <1>2, <1>3, <1>4 DEF Serial

LEMMA SerialNext ==
  Inv /\ Serial /\ [HistoryNext]_<<vars, overlap>> => Serial'
<1> SUFFICES ASSUME Inv, Serial, [HistoryNext]_<<vars, overlap>> PROVE Serial'
  OBVIOUS
<1>1. CASE HistoryNext
  <2>1. Classified
    BY <1>1, ClassifyStep DEF HistoryNext
  <2>2. overlap \subseteq overlap' /\ Overlapping' \subseteq overlap'
    BY <1>1 DEF HistoryNext
  <2>3. \A r \in Requests : Leaves(r)' /\ Links(r)'
    BY <2>1, <2>2, LeavesOK, LinksOK
  <2>4. \A u \in Users : acct'[u].status = "none" => acct'[u].google = NoEmail
    BY <2>1 DEF Classified, RowChange, Serial
  <2> QED
    BY <2>2, <2>3, <2>4 DEF Serial
<1>2. CASE UNCHANGED <<vars, overlap>>
  BY <1>2 DEF vars, Serial, Overlapping, Administers, Linking, Leaves, Links, Admins, Live
<1> QED
  BY <1>1, <1>2

LEMMA SerialInvariant == HistorySpec => [](Inv /\ Serial)
<1>1. HistoryInit => Inv /\ Serial
  BY InitOK, SerialInit DEF HistoryInit
<1>2. [HistoryNext]_<<vars, overlap>> => [Next]_vars
  BY DEF HistoryNext
<1>3. (Inv /\ Serial) /\ [HistoryNext]_<<vars, overlap>> => (Inv /\ Serial)'
  BY <1>2, NextOK, SerialNext
<1> QED
  BY <1>1, <1>3, PTL DEF HistorySpec

(* The behaviours of an instance are histories of Accounts, whatever        *)
(* endpoints it calls together.                                             *)
THEOREM FamiliesAreHistories == MCSpec => HistorySpec
<1>1. MCInit => HistoryInit
  BY DEF MCInit
<1>2. [MCNext]_<<vars, overlap, family>> => [HistoryNext]_<<vars, overlap>>
  BY DEF MCNext
<1> QED
  BY <1>1, <1>2, PTL DEF MCSpec, HistorySpec

(* As long as no two of the administrators' calls and erasures overlapped,  *)
(* no step takes the number of live administrators from one to none, for    *)
(* any accounts and requests.                                               *)
THEOREM LastAdminTheorem == HistorySpec => LastAdminStays
<1>1. ASSUME Inv, Serial, [HistoryNext]_<<vars, overlap>>
      PROVE  Admins # {} /\ "admin" \notin overlap' => Admins' # {}
  <2> SUFFICES ASSUME Admins # {}, "admin" \notin overlap' PROVE Admins' # {}
    OBVIOUS
  <2>1. CASE UNCHANGED <<vars, overlap>>
    BY <2>1 DEF vars, Admins, Live
  <2>2. CASE HistoryNext
    <3>1. Classified /\ "admin" \notin overlap
      BY <1>1, <2>2, ClassifyStep DEF HistoryNext
    <3>2. PICK u \in Admins : TRUE
      OBVIOUS
    <3>3. CASE u \in Admins'
      BY <3>3
    <3>4. CASE u \notin Admins'
      <4>1. PICK r \in Requests :
              req[r].pc = "write" /\ req[r].op \in Demoting /\ req[r].user = u
        BY <1>1, <3>1, <3>4, AdminLost
      <4>2. PICK v \in Admins : v # u
        BY <1>1, <3>1, <4>1 DEF Serial, Leaves
      <4>3. \A q \in Requests : req[q].pc = "write" => q = r
        BY <1>1, <3>1, <4>1, NoOverlap DEF Administers
      <4>4. v \in Admins'
        BY <1>1, <3>1, <4>1, <4>2, <4>3, AdminLost
      <4> QED
        BY <4>4
    <3> QED
      BY <3>3, <3>4
  <2> QED
    BY <1>1, <2>1, <2>2
<1>2. Inv /\ Serial /\ [HistoryNext]_<<vars, overlap>>
        => [Admins # {} /\ "admin" \notin overlap' => Admins' # {}]_<<vars, overlap, family>>
  BY <1>1
<1> QED
  BY <1>2, SerialInvariant, PTL DEF HistorySpec, LastAdminStays

(* As long as no two logins came to link one account at once, no step gives *)
(* an account another Google identity than the one it has, for any accounts,*)
(* addresses and requests.                                                  *)
THEOREM GoogleKeptTheorem == HistorySpec => GoogleKept
<1> DEFINE Kept(u) == acct[u].google # NoEmail /\ "link" \notin overlap =>
                        acct'[u].google = acct[u].google \/ acct'[u].status = "gone"
<1>1. ASSUME Inv, Serial, [HistoryNext]_<<vars, overlap>>, NEW u \in Users
      PROVE  Kept(u)
  <2>1. CASE UNCHANGED <<vars, overlap>>
    BY <2>1 DEF vars
  <2>2. CASE HistoryNext
    <3>1. RowChange(u)
      BY <1>1, <2>2, ClassifyStep DEF HistoryNext, Classified
    <3>2. ASSUME NEW r \in Requests, "link" \notin overlap,
                 req[r].pc = "link", req[r].user = u
          PROVE  acct[u].google \in {NoEmail, req[r].to}
      BY <1>1, <3>2 DEF Serial, Links
    <3> QED
      BY <1>1, <3>1, <3>2 DEF RowChange, Serial
  <2> QED
    BY <1>1, <2>1, <2>2
<1>2. Inv /\ Serial /\ [HistoryNext]_<<vars, overlap>>
        => [\A u \in Users : Kept(u)]_<<vars, overlap, family>>
  BY <1>1
<1> QED
  BY <1>2, SerialInvariant, PTL DEF HistorySpec, GoogleKept
=============================================================================
