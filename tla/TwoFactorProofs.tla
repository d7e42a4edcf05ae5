-------------------------- MODULE TwoFactorProofs ---------------------------
(***************************************************************************)
(* TwoFactor: the type invariant, and that a challenge is exchanged for at *)
(* most one session, for any number of challenges and concurrent requests; *)
(* with the history of MCTwoFactor, by how much the cap on wrong codes may *)
(* be passed and what holds as long as requests do not overlap; and that   *)
(* challenges implement LoginChallenge.                                    *)
(***************************************************************************)
EXTENDS MCTwoFactor, FiniteSetTheorems, TLAPS

Inv == TypeOK /\ CodeInv /\ ClaimInv

-----------------------------------------------------------------------------
(* Types *)

LEMMA IdleType == Idle \in Request
BY TwoFactorConstants DEF Idle, Request, Secret

(* Ending a request keeps the table of requests well typed. *)
LEMMA IdledFacts ==
  ASSUME TypeOK, NEW r \in Requests
  PROVE  /\ Idled(r) \in [Requests -> Request]
         /\ Idled(r)[r] = Idle
         /\ \A q \in Requests : q # r => Idled(r)[q] = req[q]
BY IdleType DEF Idled, TypeOK

LEMMA IdleFields ==
  Idle.pc = "idle" /\ Idle.ch = NoChallenge
BY DEF Idle

(* The updates of a challenge row. *)
LEMMA ChallengeUpdate ==
  ASSUME NEW w \in Challenge
  PROVE  /\ [w EXCEPT !.status = "open"] \in Challenge
         /\ [w EXCEPT !.status = "deleted"] \in Challenge
         /\ [w EXCEPT !.expired = TRUE] \in Challenge
         /\ [w EXCEPT !.used = TRUE] \in Challenge
         /\ [w EXCEPT !.attempts = w.attempts + 1] \in Challenge
         /\ [w EXCEPT !.sessions = w.sessions + 1] \in Challenge
         /\ w.sessions \in Nat
<1>1. /\ [w EXCEPT !.status = "open"] \in Challenge
      /\ [w EXCEPT !.status = "deleted"] \in Challenge
  BY DEF Challenge
<1>2. /\ [w EXCEPT !.expired = TRUE] \in Challenge
      /\ [w EXCEPT !.used = TRUE] \in Challenge
  BY DEF Challenge
<1>3. [w EXCEPT !.attempts = w.attempts + 1] \in Challenge
  BY DEF Challenge
<1>4. [w EXCEPT !.sessions = w.sessions + 1] \in Challenge /\ w.sessions \in Nat
  BY DEF Challenge
<1> QED BY <1>1, <1>2, <1>3, <1>4

-----------------------------------------------------------------------------
(* Steps that neither claim a challenge nor issue a session. *)

(* What such a step may do to request q. *)
Harmless(q) ==
  \/ req'[q] = req[q]
  \/ req'[q].pc \in {"idle", "setup", "enable", "disable", "challenge"}
  \/ /\ req'[q].pc \in {"expired", "count", "claim"} /\ req'[q].ch \in Challenges
     /\ req'[q].pc = "claim" =>
          \/ req'[q].kind = "totp" /\ req'[q].code \in Totp
          \/ req'[q].kind = "backup" /\ req'[q].code \in Backup
  \/ /\ req[q].pc \in {"consume", "stamp"} /\ req'[q].pc \in {"stamp", "issue"}
     /\ req'[q].ch = req[q].ch
     /\ req'[q].kind = req[q].kind /\ req'[q].code = req[q].code

(* It leaves the claims and the sessions of every challenge alone. *)
ClaimsAlone ==
  \A c \in Challenges : ch'[c].used = ch[c].used /\ ch'[c].sessions = ch[c].sessions

LEMMA HarmlessStep ==
  ASSUME Inv, TypeOK', ClaimsAlone, \A q \in Requests : Harmless(q)
  PROVE  Inv'
<1>1. CodeInv'
  BY DEF Inv, CodeInv, Harmless
<1>2. \A q \in Requests :
        req'[q].pc \in {"expired", "count", "claim", "consume", "stamp", "issue"} =>
          req'[q].ch \in Challenges
  BY DEF Inv, ClaimInv, Harmless
<1>3. \A q \in Requests, c \in Challenges : Claims(q, c)' => Claims(q, c)
  BY DEF Harmless, Claims
<1>4. ASSUME NEW c \in Challenges
      PROVE  /\ \A r \in Requests : Claims(r, c)' => ch'[c].used /\ ch'[c].sessions = 0
             /\ \A r, q \in Requests : Claims(r, c)' /\ Claims(q, c)' => r = q
             /\ ~ch'[c].used => ch'[c].sessions = 0
             /\ ch'[c].sessions <= 1
  BY <1>3 DEF Inv, ClaimInv, ClaimsAlone
<1>5. ClaimInv'
  BY <1>2, <1>4 DEF ClaimInv
<1> QED BY <1>1, <1>5 DEF Inv

(* The common case: only r moves, to idle. *)
LEMMA FinishHarmless ==
  ASSUME TypeOK, NEW r \in Requests, req' = Idled(r)
  PROVE  req' \in [Requests -> Request] /\ \A q \in Requests : Harmless(q)
BY IdledFacts, IdleFields DEF Harmless

(* Or it starts, or moves on after its claim. *)
LEMMA MoveHarmless ==
  ASSUME TypeOK, NEW r \in Requests,
         NEW pc \in {"setup", "disable", "challenge", "stamp", "issue"},
         pc \in {"stamp", "issue"} => req[r].pc \in {"consume", "stamp"},
         req' = [req EXCEPT ![r].pc = pc]
  PROVE  req' \in [Requests -> Request] /\ \A q \in Requests : Harmless(q)
<1>1. req[r] \in Request /\ req \in [Requests -> Request]
  BY DEF TypeOK
<1> DEFINE m == [req[r] EXCEPT !.pc = pc]
<1>2. m \in Request /\ m.pc = pc /\ m.ch = req[r].ch /\ m.kind = req[r].kind
      /\ m.code = req[r].code
  BY <1>1 DEF Request
<1>3. req' = [req EXCEPT ![r] = m]
  BY <1>1
<1> HIDE DEF m
<1>4. req' \in [Requests -> Request] /\ req'[r] = m
      /\ \A q \in Requests : q # r => req'[q] = req[q]
  BY <1>1, <1>2, <1>3
<1> QED BY <1>2, <1>4 DEF Harmless

-----------------------------------------------------------------------------
(* The users row keeps its type. *)

LEMMA AccountFacts ==
  ASSUME TypeOK
  PROVE  /\ acct.enabled \in BOOLEAN /\ acct.secret \in Secret
         /\ acct.codes \in SUBSET Backup /\ acct.lastStep \in 0..MaxStep
         /\ acct.fresh \in Secret
         /\ acct.gen \in 0..MaxGen /\ acct.verified \in Secret
BY DEF TypeOK, Account

LEMMA SetupType ==
  ASSUME TypeOK, acct.fresh < MaxSecrets
  PROVE  [acct EXCEPT !.secret = acct.fresh + 1, !.fresh = acct.fresh + 1] \in Account
<1>1. acct.fresh + 1 \in Secret
  BY AccountFacts, TwoFactorConstants DEF Secret
<1> QED BY <1>1 DEF TypeOK, Account

LEMMA EnableType ==
  ASSUME TypeOK, acct.gen < MaxGen, NEW s \in Secret
  PROVE  [acct EXCEPT !.enabled = TRUE, !.gen = acct.gen + 1,
                !.codes = {[gen |-> acct.gen + 1, id |-> i] : i \in Codes},
                !.verified = s] \in Account
<1>1. acct.gen + 1 \in 1..MaxGen
  BY AccountFacts, TwoFactorConstants
<1> DEFINE batch == {[gen |-> acct.gen + 1, id |-> i] : i \in Codes}
<1>2. batch \in SUBSET Backup
  BY <1>1 DEF Backup
<1> HIDE DEF batch
<1>3. acct.gen + 1 \in 0..MaxGen
  BY <1>1
<1> DEFINE w1 == [acct EXCEPT !.enabled = TRUE]
           w2 == [w1 EXCEPT !.gen = acct.gen + 1]
           w3 == [w2 EXCEPT !.codes = batch]
           w4 == [w3 EXCEPT !.verified = s]
<1>4. w1 \in Account
  BY DEF TypeOK, Account
<1> HIDE DEF w1
<1>5. w2 \in Account
  BY <1>3, <1>4 DEF Account
<1> HIDE DEF w2
<1>6. w3 \in Account
  BY <1>2, <1>5 DEF Account
<1> HIDE DEF w3
<1>7. w4 \in Account
  BY <1>6 DEF Account
<1> QED BY <1>7 DEF w1, w2, w3, batch

LEMMA DisableType ==
  ASSUME TypeOK
  PROVE  [acct EXCEPT !.enabled = FALSE, !.secret = 0, !.codes = {}, !.lastStep = 0]
           \in Account
<1>1. 0 \in Secret /\ 0 \in 0..MaxStep /\ {} \in SUBSET Backup
  BY TwoFactorConstants DEF Secret
<1> DEFINE w1 == [acct EXCEPT !.enabled = FALSE]
           w2 == [w1 EXCEPT !.secret = 0]
           w3 == [w2 EXCEPT !.codes = {}]
           w4 == [w3 EXCEPT !.lastStep = 0]
<1>2. w1 \in Account
  BY DEF TypeOK, Account
<1> HIDE DEF w1
<1>3. w2 \in Account
  BY <1>1, <1>2 DEF Account
<1> HIDE DEF w2
<1>4. w3 \in Account
  BY <1>1, <1>3 DEF Account
<1> HIDE DEF w3
<1>5. w4 \in Account
  BY <1>1, <1>4 DEF Account
<1> QED BY <1>5 DEF w1, w2, w3

LEMMA AccountUpdate ==
  ASSUME TypeOK
  PROVE  /\ \A s \in SUBSET Backup : [acct EXCEPT !.codes = s] \in Account
         /\ \A k \in 0..MaxStep : [acct EXCEPT !.lastStep = k] \in Account
BY DEF TypeOK, Account

-----------------------------------------------------------------------------
(* The inductive invariant *)

LEMMA InitInv == Init => Inv
<1> SUFFICES ASSUME Init PROVE Inv
  OBVIOUS
<1>1. acct \in Account
  BY TwoFactorConstants DEF Init, Account, Secret
<1>2. ch \in [Challenges -> Challenge]
  BY DEF Init, Challenge
<1>3. req \in [Requests -> Request] /\ \A r \in Requests : req[r].pc = "idle"
  BY IdleType, IdleFields DEF Init
<1>4. now \in 1..MaxStep
      /\ spent \in [once : SUBSET (Totp \cup Backup), twice : SUBSET (Totp \cup Backup)]
  BY TwoFactorConstants DEF Init
<1>5. TypeOK
  BY <1>1, <1>2, <1>3, <1>4 DEF TypeOK
<1>6. CodeInv
  BY <1>3 DEF CodeInv
<1>7. \A c \in Challenges : ch[c].sessions = 0
  BY DEF Init
<1>8. ClaimInv
  BY <1>3, <1>7 DEF ClaimInv, Claims
<1> QED BY <1>5, <1>6, <1>8 DEF Inv

(* Requests that only start. *)
LEMMA StartInv ==
  ASSUME Inv, NEW r \in Requests, SetupRead(r) \/ DisableRead(r) \/ LoginRead(r)
  PROVE  Inv'
<1>1. TypeOK
  BY DEF Inv
<1>2. \E pc \in {"setup", "disable", "challenge"} : req' = [req EXCEPT ![r].pc = pc]
  BY DEF SetupRead, DisableRead, LoginRead
<1>3. req' \in [Requests -> Request] /\ \A q \in Requests : Harmless(q)
  BY <1>1, <1>2, MoveHarmless
<1>4. UNCHANGED <<acct, ch, now, spent>>
  BY DEF SetupRead, DisableRead, LoginRead
<1>5. TypeOK' /\ ClaimsAlone
  BY <1>1, <1>3, <1>4 DEF TypeOK, ClaimsAlone
<1> QED BY <1>3, <1>5, HarmlessStep

LEMMA EnableReadInv ==
  ASSUME Inv, NEW r \in Requests, EnableRead(r)
  PROVE  Inv'
<1>1. TypeOK /\ req[r] \in Request /\ req \in [Requests -> Request]
  BY DEF Inv, TypeOK
<1> DEFINE m == [req[r] EXCEPT !.pc = "enable", !.secret = acct.secret]
<1>2. m \in Request /\ m.pc = "enable"
  BY <1>1, AccountFacts DEF Request
<1>3. req' = [req EXCEPT ![r] = m]
  BY <1>1 DEF EnableRead
<1> HIDE DEF m
<1>4. req' \in [Requests -> Request] /\ \A q \in Requests : Harmless(q)
  BY <1>1, <1>2, <1>3 DEF Harmless
<1>5. UNCHANGED <<acct, ch, now, spent>>
  BY DEF EnableRead
<1>6. TypeOK' /\ ClaimsAlone
  BY <1>1, <1>4, <1>5 DEF TypeOK, ClaimsAlone
<1> QED BY <1>4, <1>6, HarmlessStep

(* The writes of setup, enable and disable. *)
LEMMA AccountWriteInv ==
  ASSUME Inv, NEW r \in Requests, SetupWrite(r) \/ EnableWrite(r) \/ DisableWrite(r)
  PROVE  Inv'
<1>1. TypeOK /\ req[r].secret \in Secret
  BY DEF Inv, TypeOK, Request
<1>2. acct' \in Account
  <2>1. CASE SetupWrite(r)
    BY <1>1, <2>1, SetupType DEF SetupWrite
  <2>2. CASE EnableWrite(r)
    BY <1>1, <2>2, EnableType DEF EnableWrite
  <2>3. CASE DisableWrite(r)
    BY <1>1, <2>3, DisableType DEF DisableWrite
  <2> QED BY <2>1, <2>2, <2>3
<1>3. req' = Idled(r) /\ UNCHANGED <<ch, now, spent>>
  BY DEF SetupWrite, EnableWrite, DisableWrite
<1>4. req' \in [Requests -> Request] /\ \A q \in Requests : Harmless(q)
  BY <1>1, <1>3, FinishHarmless
<1>5. TypeOK' /\ ClaimsAlone
  BY <1>1, <1>2, <1>3, <1>4 DEF TypeOK, ClaimsAlone
<1> QED BY <1>4, <1>5, HarmlessStep

(* Challenge rows that change without being claimed or exchanged. *)
LEMMA RowKept ==
  ASSUME NEW w \in Challenge, NEW x \in Challenge,
         \/ x = [w EXCEPT !.status = "open"]
         \/ x = [w EXCEPT !.status = "deleted"]
         \/ x = [w EXCEPT !.expired = TRUE]
         \/ x = [w EXCEPT !.attempts = w.attempts + 1]
  PROVE  x.used = w.used /\ x.sessions = w.sessions
BY DEF Challenge

LEMMA ChallengeWriteInv ==
  ASSUME Inv, NEW r \in Requests, CreateChallenge(r) \/ VerifyExpired(r) \/ VerifyCount(r)
  PROVE  Inv'
<1>1. TypeOK /\ ch \in [Challenges -> Challenge]
  BY DEF Inv, TypeOK
<1>2. PICK c : /\ CreateChallenge(r) => c \in Challenges /\ ch' = [ch EXCEPT ![c].status = "open"]
               /\ VerifyExpired(r) \/ VerifyCount(r) => c = req[r].ch
  BY DEF CreateChallenge, VerifyExpired, VerifyCount
<1>3. c \in Challenges
  BY <1>2 DEF Inv, ClaimInv, VerifyExpired, VerifyCount
<1>4. PICK x \in Challenge : /\ ch' = [ch EXCEPT ![c] = x]
                             /\ x.used = ch[c].used /\ x.sessions = ch[c].sessions
  <2>0. ch[c] \in Challenge
    BY <1>1, <1>3
  <2>1. CASE CreateChallenge(r)
    <3> DEFINE x == [ch[c] EXCEPT !.status = "open"]
    <3>1. x \in Challenge
      BY <2>0, ChallengeUpdate
    <3>2. x.used = ch[c].used /\ x.sessions = ch[c].sessions
      BY <2>0, <3>1, RowKept
    <3>3. ch' = [ch EXCEPT ![c] = x]
      BY <1>1, <1>2, <1>3, <2>1
    <3> QED BY <3>1, <3>2, <3>3
  <2>2. CASE VerifyExpired(r)
    <3> DEFINE x == [ch[c] EXCEPT !.status = "deleted"]
    <3>1. x \in Challenge
      BY <2>0, ChallengeUpdate
    <3>2. x.used = ch[c].used /\ x.sessions = ch[c].sessions
      BY <2>0, <3>1, RowKept
    <3>3. ch' = [ch EXCEPT ![c] = x]
      BY <1>1, <1>2, <1>3, <2>2 DEF VerifyExpired
    <3> QED BY <3>1, <3>2, <3>3
  <2>3. CASE VerifyCount(r) /\ ch[c].status = "open"
    <3> DEFINE x == [ch[c] EXCEPT !.attempts = ch[c].attempts + 1]
    <3>1. x \in Challenge
      BY <2>0, ChallengeUpdate
    <3>2. x.used = ch[c].used /\ x.sessions = ch[c].sessions
      BY <2>0, <3>1, RowKept
    <3>3. ch' = [ch EXCEPT ![c] = x]
      BY <1>1, <1>2, <1>3, <2>3 DEF VerifyCount
    <3> QED BY <3>1, <3>2, <3>3
  <2>4. CASE VerifyCount(r) /\ ch[c].status # "open"
    <3>1. ch' = [ch EXCEPT ![c].attempts = ch[c].attempts]
      BY <1>2, <2>4 DEF VerifyCount
    <3>2. ch[c] = [ch[c] EXCEPT !.attempts = ch[c].attempts]
      BY <2>0 DEF Challenge
    <3>3. ch' = [ch EXCEPT ![c] = ch[c]]
      BY <1>1, <1>3, <3>1, <3>2
    <3> QED BY <2>0, <3>3
  <2> QED BY <2>1, <2>2, <2>3, <2>4
<1>5. ch' \in [Challenges -> Challenge] /\ ClaimsAlone
  BY <1>1, <1>3, <1>4 DEF ClaimsAlone
<1>6. req' = Idled(r) /\ UNCHANGED <<acct, now, spent>>
  BY DEF CreateChallenge, VerifyExpired, VerifyCount
<1>7. req' \in [Requests -> Request] /\ \A q \in Requests : Harmless(q)
  BY <1>1, <1>6, FinishHarmless
<1>8. TypeOK'
  BY <1>1, <1>5, <1>6, <1>7 DEF TypeOK
<1> QED BY <1>5, <1>7, <1>8, HarmlessStep

(* verifyChallenge before its first write. *)
LEMMA VerifyReadInv ==
  ASSUME Inv, NEW r \in Requests, NEW c \in Challenges, VerifyRead(r, c)
  PROVE  Inv'
<1>1. TypeOK /\ req \in [Requests -> Request]
  BY DEF Inv, TypeOK
<1>2. PICK pc \in {"expired", "count", "claim"}, kind \in {"none", "totp", "backup"},
           code \in Totp \cup Backup \cup {NoCode} :
        /\ VerifyOutcome(r, c, pc, kind, code)
        /\ pc = "claim" => \/ kind = "totp" /\ code \in Totp
                           \/ kind = "backup" /\ code \in Backup
  BY DEF VerifyRead, TotpCodes, BackupCodes
<1> DEFINE held == IF kind = "backup" THEN acct.codes ELSE {}
           m == [pc |-> pc, ch |-> c, kind |-> kind, code |-> code,
                 secret |-> 0, codes |-> held]
<1>3. m \in Request
  <2>1. held \in SUBSET Backup /\ 0 \in Secret
    BY <1>1, AccountFacts, TwoFactorConstants DEF Secret
  <2> QED BY <1>2, <2>1 DEF Request
<1>4. m.pc = pc /\ m.ch = c /\ m.kind = kind /\ m.code = code
  OBVIOUS
<1>5. req' = [req EXCEPT ![r] = m]
  BY <1>2 DEF VerifyOutcome
<1> HIDE DEF m
<1>6. req' \in [Requests -> Request] /\ req'[r] = m
      /\ \A q \in Requests : q # r => req'[q] = req[q]
  BY <1>1, <1>3, <1>5
<1>7. \A q \in Requests : Harmless(q)
  BY <1>2, <1>4, <1>6 DEF Harmless
<1>8. UNCHANGED <<acct, ch, now, spent>>
  BY DEF VerifyRead
<1>9. TypeOK' /\ ClaimsAlone
  BY <1>1, <1>6, <1>8 DEF TypeOK, ClaimsAlone
<1> QED BY <1>7, <1>9, HarmlessStep

(* The writes to the users row after the claim. *)
LEMMA AfterClaimInv ==
  ASSUME Inv, NEW r \in Requests, VerifyConsume(r) \/ VerifyStamp(r)
  PROVE  Inv'
<1>1. TypeOK
  BY DEF Inv
<1>2. \E pc \in {"stamp", "issue"} : req' = [req EXCEPT ![r].pc = pc]
  BY DEF VerifyConsume, VerifyStamp
<1>3. req[r].pc \in {"consume", "stamp"} /\ UNCHANGED <<ch, now, spent>>
  BY DEF VerifyConsume, VerifyStamp
<1>4. req' \in [Requests -> Request] /\ \A q \in Requests : Harmless(q)
  BY <1>1, <1>2, <1>3, MoveHarmless
<1>5. acct' \in Account
  <2>1. CASE VerifyConsume(r)
    <3>1. req[r].codes \ {req[r].code} \in SUBSET Backup
      BY <1>1 DEF TypeOK, Request
    <3> QED BY <1>1, <2>1, <3>1, AccountUpdate DEF VerifyConsume
  <2>2. CASE VerifyStamp(r) /\ req[r].kind = "totp"
    <3>1. req[r].code \in Totp
      BY <2>2 DEF Inv, CodeInv, VerifyStamp
    <3>2. req[r].code.step \in 0..MaxStep
      BY <3>1, TwoFactorConstants DEF Totp
    <3> QED BY <1>1, <2>2, <3>2, AccountUpdate DEF VerifyStamp
  <2>3. CASE VerifyStamp(r) /\ req[r].kind # "totp"
    BY <1>1, <2>3 DEF VerifyStamp, TypeOK
  <2> QED BY <2>1, <2>2, <2>3
<1>6. TypeOK' /\ ClaimsAlone
  BY <1>1, <1>3, <1>4, <1>5 DEF TypeOK, ClaimsAlone
<1> QED BY <1>4, <1>6, HarmlessStep

(* The claim.  The row it finds open and unused has no claimant and no     *)
(* session, so r becomes its only claimant.                                *)
LEMMA VerifyClaimInv ==
  ASSUME Inv, NEW r \in Requests, VerifyClaim(r)
  PROVE  Inv'
<1>1. TypeOK /\ req \in [Requests -> Request] /\ ch \in [Challenges -> Challenge]
  BY DEF Inv, TypeOK
<1> DEFINE c == req[r].ch
<1>2. c \in Challenges
  BY DEF Inv, ClaimInv, VerifyClaim
<1>u. UNCHANGED <<acct, now, spent>> /\ req[r].pc = "claim"
  BY DEF VerifyClaim
<1>3. CASE ~(ch[c].status = "open" /\ ~ch[c].used)
  <2>1. ch' = ch /\ req' = Idled(r)
    BY <1>3 DEF VerifyClaim
  <2>2. req' \in [Requests -> Request] /\ \A q \in Requests : Harmless(q)
    BY <1>1, <2>1, FinishHarmless
  <2>3. TypeOK' /\ ClaimsAlone
    BY <1>1, <1>u, <2>1, <2>2 DEF TypeOK, ClaimsAlone
  <2> QED BY <2>2, <2>3, HarmlessStep
<1>4. CASE ch[c].status = "open" /\ ~ch[c].used
  <2>1. PICK pc \in {"consume", "stamp"} : req' = [req EXCEPT ![r].pc = pc]
    BY <1>4 DEF VerifyClaim
  <2> DEFINE m == [req[r] EXCEPT !.pc = pc]
             x == [ch[c] EXCEPT !.used = TRUE]
  <2>2. req[r] \in Request /\ ch[c] \in Challenge
    BY <1>1, <1>2
  <2>3. m \in Request /\ m.pc = pc /\ m.ch = c /\ m.kind = req[r].kind
        /\ m.code = req[r].code
    BY <2>1, <2>2 DEF Request
  <2>4. x \in Challenge /\ x.used /\ x.sessions = ch[c].sessions
    BY <2>2 DEF Challenge
  <2>5. req' = [req EXCEPT ![r] = m] /\ ch' = [ch EXCEPT ![c] = x]
    BY <1>1, <1>4, <2>1 DEF VerifyClaim
  <2> HIDE DEF m, x
  <2>6. /\ req' \in [Requests -> Request] /\ req'[r] = m
        /\ \A q \in Requests : q # r => req'[q] = req[q]
    BY <1>1, <2>3, <2>5
  <2>7. /\ ch' \in [Challenges -> Challenge] /\ ch'[c] = x
        /\ \A d \in Challenges : d # c => ch'[d] = ch[d]
    BY <1>1, <1>2, <2>4, <2>5
  <2> HIDE DEF c
  <2>8. TypeOK'
    BY <1>1, <1>u, <2>6, <2>7 DEF TypeOK
  <2>9. CodeInv'
    BY <1>u, <2>1, <2>3, <2>6 DEF Inv, CodeInv
  <2>10. \A q \in Requests : ~Claims(q, c)
    BY <1>2, <1>4 DEF Inv, ClaimInv
  <2>11. ch[c].sessions = 0
    BY <1>2, <1>4 DEF Inv, ClaimInv
  <2>12. \A q \in Requests, d \in Challenges :
           Claims(q, d)' => Claims(q, d) \/ (q = r /\ d = c)
    BY <2>3, <2>6 DEF Claims
  <2>13. \A q \in Requests :
           req'[q].pc \in {"expired", "count", "claim", "consume", "stamp", "issue"} =>
             req'[q].ch \in Challenges
    BY <1>2, <2>3, <2>6 DEF Inv, ClaimInv
  <2>14. ASSUME NEW d \in Challenges
         PROVE  /\ \A p \in Requests : Claims(p, d)' => ch'[d].used /\ ch'[d].sessions = 0
                /\ \A p, q \in Requests : Claims(p, d)' /\ Claims(q, d)' => p = q
                /\ ~ch'[d].used => ch'[d].sessions = 0
                /\ ch'[d].sessions <= 1
    <3>1. CASE d = c
      BY <2>4, <2>7, <2>10, <2>11, <2>12, <3>1
    <3>2. CASE d # c
      BY <2>7, <2>12, <3>2 DEF Inv, ClaimInv
    <3> QED BY <3>1, <3>2
  <2>15. ClaimInv'
    BY <2>13, <2>14 DEF ClaimInv
  <2> QED BY <2>8, <2>9, <2>15 DEF Inv
<1> QED BY <1>3, <1>4

(* The exchange.  r is the only claimant of a row without a session; its   *)
(* claim ends with the step that counts the first one.                     *)
LEMMA VerifyIssueInv ==
  ASSUME Inv, NEW r \in Requests, VerifyIssue(r)
  PROVE  Inv'
<1>1. TypeOK /\ ch \in [Challenges -> Challenge]
  BY DEF Inv, TypeOK
<1>0. PICK c \in Challenges : c = req[r].ch
  BY DEF Inv, ClaimInv, VerifyIssue
<1> DEFINE x == [ch[c] EXCEPT !.sessions = ch[c].sessions + 1]
<1>2. c \in Challenges /\ req[r].pc = "issue"
  BY DEF VerifyIssue
<1>3. Claims(r, c)
  BY <1>0, <1>2 DEF Claims
<1>4. ch[c] \in Challenge /\ ch[c].used /\ ch[c].sessions = 0
  BY <1>1, <1>2, <1>3 DEF Inv, ClaimInv
<1>5. x \in Challenge /\ x.used /\ x.sessions = 1
  BY <1>4 DEF Challenge
<1>6. ch' = [ch EXCEPT ![c] = x]
  BY <1>0, <1>1 DEF VerifyIssue
<1>7. req' = Idled(r) /\ UNCHANGED <<acct, now>>
  BY DEF VerifyIssue
<1>8. spent' \in [once : SUBSET (Totp \cup Backup), twice : SUBSET (Totp \cup Backup)]
  <2>1. req[r].code \in Totp \cup Backup
    BY <1>2 DEF Inv, CodeInv
  <2> QED BY <1>1, <2>1 DEF TypeOK, VerifyIssue
<1> HIDE DEF x
<1>9. /\ ch' \in [Challenges -> Challenge] /\ ch'[c] = x
      /\ \A d \in Challenges : d # c => ch'[d] = ch[d]
  BY <1>1, <1>2, <1>5, <1>6
<1>10. /\ req' \in [Requests -> Request] /\ req'[r] = Idle
       /\ \A q \in Requests : q # r => req'[q] = req[q]
  BY <1>1, <1>7, IdledFacts
<1>11. TypeOK'
  BY <1>1, <1>7, <1>8, <1>9, <1>10 DEF TypeOK
<1>12. CodeInv'
  BY <1>10, IdleFields DEF Inv, CodeInv
<1>13. \A q \in Requests, d \in Challenges : Claims(q, d)' => Claims(q, d) /\ q # r
  BY <1>10, IdleFields DEF Claims
<1>14. \A q \in Requests :
         req'[q].pc \in {"expired", "count", "claim", "consume", "stamp", "issue"} =>
           req'[q].ch \in Challenges
  BY <1>10, IdleFields DEF Inv, ClaimInv
<1>15. \A q \in Requests : ~Claims(q, c)'
  BY <1>2, <1>3, <1>13 DEF Inv, ClaimInv
<1>16. ASSUME NEW d \in Challenges
       PROVE  /\ \A p \in Requests : Claims(p, d)' => ch'[d].used /\ ch'[d].sessions = 0
              /\ \A p, q \in Requests : Claims(p, d)' /\ Claims(q, d)' => p = q
              /\ ~ch'[d].used => ch'[d].sessions = 0
              /\ ch'[d].sessions <= 1
  <2>1. CASE d = c
    BY <1>5, <1>9, <1>15, <2>1
  <2>2. CASE d # c
    BY <1>9, <1>13, <2>2 DEF Inv, ClaimInv
  <2> QED BY <2>1, <2>2
<1>17. ClaimInv'
  BY <1>14, <1>16 DEF ClaimInv
<1> QED BY <1>11, <1>12, <1>17 DEF Inv

(* Failures, clocks and the cleanup job. *)
LEMMA EnvironmentInv ==
  ASSUME Inv, \/ \E r \in Requests : Fail(r)
              \/ \E c \in Challenges : ChallengeExpires(c)
              \/ CleanupChallenges \/ NextStep
              \/ UNCHANGED vars
  PROVE  Inv'
<1>1. TypeOK /\ ch \in [Challenges -> Challenge]
  BY DEF Inv, TypeOK
<1>2. CASE \E r \in Requests : Fail(r)
  <2>1. PICK r \in Requests : Fail(r)
    BY <1>2
  <2>2. req' = Idled(r) /\ UNCHANGED <<acct, ch, now, spent>>
    BY <2>1 DEF Fail
  <2>3. req' \in [Requests -> Request] /\ \A q \in Requests : Harmless(q)
    BY <1>1, <2>2, FinishHarmless
  <2>4. TypeOK' /\ ClaimsAlone
    BY <1>1, <2>2, <2>3 DEF TypeOK, ClaimsAlone
  <2> QED BY <2>3, <2>4, HarmlessStep
<1>3. CASE \E c \in Challenges : ChallengeExpires(c)
  <2>1. PICK c \in Challenges : ChallengeExpires(c)
    BY <1>3
  <2>0. UNCHANGED <<acct, req, now, spent>>
    BY <2>1 DEF ChallengeExpires
  <2> DEFINE x == [ch[c] EXCEPT !.expired = TRUE]
  <2>2. x \in Challenge
    BY <1>1, ChallengeUpdate
  <2>3. x.used = ch[c].used /\ x.sessions = ch[c].sessions
    BY <1>1, <2>2, RowKept
  <2>4. ch' = [ch EXCEPT ![c] = x]
    BY <1>1, <2>1 DEF ChallengeExpires
  <2> HIDE DEF x
  <2>5. ch' \in [Challenges -> Challenge] /\ ClaimsAlone
    BY <1>1, <2>2, <2>3, <2>4 DEF ClaimsAlone
  <2>6. TypeOK' /\ \A q \in Requests : Harmless(q)
    BY <1>1, <2>0, <2>5 DEF TypeOK, Harmless
  <2> QED BY <2>5, <2>6, HarmlessStep
<1>4. CASE CleanupChallenges
  <2>0. UNCHANGED <<acct, req, now, spent>>
    BY <1>4 DEF CleanupChallenges
  <2>1. \A c \in Challenges :
          /\ ch'[c] \in Challenge
          /\ ch'[c].used = ch[c].used /\ ch'[c].sessions = ch[c].sessions
    <3> TAKE c \in Challenges
    <3>1. ch[c] \in Challenge
      BY <1>1
    <3>2. ch'[c] = ch[c] \/ ch'[c] = [ch[c] EXCEPT !.status = "deleted"]
      BY <1>4 DEF CleanupChallenges
    <3>3. ch'[c] \in Challenge
      BY <3>1, <3>2, ChallengeUpdate
    <3> QED BY <3>1, <3>2, <3>3, RowKept
  <2>2. ch' \in [Challenges -> Challenge]
    BY <1>4, <2>1 DEF CleanupChallenges
  <2>3. TypeOK' /\ ClaimsAlone /\ \A q \in Requests : Harmless(q)
    BY <1>1, <2>0, <2>1, <2>2 DEF TypeOK, ClaimsAlone, Harmless
  <2> QED BY <2>3, HarmlessStep
<1>5. CASE NextStep
  <2>1. now' \in 1..MaxStep
    BY <1>1, <1>5, TwoFactorConstants DEF NextStep, TypeOK
  <2>2. TypeOK' /\ ClaimsAlone /\ \A q \in Requests : Harmless(q)
    BY <1>1, <1>5, <2>1 DEF NextStep, TypeOK, ClaimsAlone, Harmless
  <2> QED BY <2>2, HarmlessStep
<1>6. CASE UNCHANGED vars
  <2>1. TypeOK' /\ ClaimsAlone /\ \A q \in Requests : Harmless(q)
    BY <1>1, <1>6 DEF vars, TypeOK, ClaimsAlone, Harmless
  <2> QED BY <2>1, HarmlessStep
<1> QED BY <1>2, <1>3, <1>4, <1>5, <1>6

LEMMA NextInv == Inv /\ [Next]_vars => Inv'
<1> SUFFICES ASSUME Inv, [Next]_vars PROVE Inv'
  OBVIOUS
<1>1. ASSUME NEW r \in Requests, RequestStep(r) PROVE Inv'
  BY <1>1, StartInv, EnableReadInv, AccountWriteInv, ChallengeWriteInv, AfterClaimInv,
     VerifyClaimInv, VerifyIssueInv, EnvironmentInv DEF RequestStep
<1>2. ASSUME NEW r \in Requests, NEW c \in Challenges, VerifyRead(r, c) PROVE Inv'
  BY <1>2, VerifyReadInv
<1>3. CASE (\E c \in Challenges : ChallengeExpires(c)) \/ CleanupChallenges
           \/ NextStep \/ UNCHANGED vars
  BY <1>3, EnvironmentInv
<1> QED BY <1>1, <1>2, <1>3 DEF Next

-----------------------------------------------------------------------------

(* The inductive invariant holds in every reachable state. *)
THEOREM InductiveInvariant == Spec => []Inv
BY InitInv, NextInv, PTL DEF Spec

(* Rows, requests and histories keep their types, whatever overlaps. *)
THEOREM TypeCorrect == Spec => []TypeOK
<1>1. Inv => TypeOK
  BY DEF Inv
<1> QED BY <1>1, InductiveInvariant, PTL

(* verifyChallenge exchanges a challenge for at most one session, for any  *)
(* number of challenges, concurrent requests and failures.                 *)
THEOREM OneSessionTheorem == Spec => []OneSessionPerChallenge
<1>1. Inv => OneSessionPerChallenge
  BY DEF Inv, ClaimInv, OneSessionPerChallenge
<1> QED BY <1>1, InductiveInvariant, PTL

-----------------------------------------------------------------------------
(* The cap on wrong codes. *)

CountingOf(R, c) == {r \in Requests : R[r].pc = "count" /\ R[r].ch = c}

Below(R, H, c) ==
  H[c].attempts + Cardinality(CountingOf(R, c))
    < MAX_CHALLENGE_ATTEMPTS + Cardinality(Requests)

CapInv ==
  /\ \A c \in Challenges : Below(req, ch, c)
  /\ "challenge" \notin overlap =>
       /\ \A q, r \in Requests :
            Counting(q) /\ Counting(r) /\ req[q].ch = req[r].ch => q = r
       /\ \A r \in Requests : Counting(r) => ch[req[r].ch].attempts < MAX_CHALLENGE_ATTEMPTS
       /\ \A c \in Challenges : ch[c].attempts <= MAX_CHALLENGE_ATTEMPTS

LEMMA CountFacts ==
  ASSUME NEW R, NEW c
  PROVE  /\ IsFiniteSet(CountingOf(R, c))
         /\ Cardinality(CountingOf(R, c)) \in Nat
         /\ Cardinality(CountingOf(R, c)) <= Cardinality(Requests)
         /\ Cardinality(Requests) \in Nat
<1>1. CountingOf(R, c) \in SUBSET Requests
  BY DEF CountingOf
<1> QED BY <1>1, FS_Subset, FS_CardinalityType, TwoFactorConstants

(* No request enters "count" for c, and its counter stays. *)
LEMMA BelowKept ==
  ASSUME NEW R, NEW R2, NEW H \in [Challenges -> Challenge], NEW H2, NEW c \in Challenges,
         H2[c].attempts = H[c].attempts,
         CountingOf(R2, c) \subseteq CountingOf(R, c),
         Below(R, H, c)
  PROVE  Below(R2, H2, c)
<1>1. Cardinality(CountingOf(R2, c)) <= Cardinality(CountingOf(R, c))
  BY CountFacts, FS_Subset
<1>2. H[c].attempts \in Nat
  BY DEF Challenge
<1> QED BY <1>1, <1>2, CountFacts, TwoFactorConstants DEF Below

(* A request enters it only while the counter is below the cap. *)
LEMMA BelowAdmitted ==
  ASSUME NEW R, NEW H \in [Challenges -> Challenge], NEW c \in Challenges,
         H[c].attempts < MAX_CHALLENGE_ATTEMPTS
  PROVE  Below(R, H, c)
<1>1. H[c].attempts \in Nat
  BY DEF Challenge
<1> QED BY <1>1, CountFacts, TwoFactorConstants DEF Below

(* And leaves it as the counter is incremented. *)
LEMMA BelowCounted ==
  ASSUME NEW R, NEW R2, NEW H \in [Challenges -> Challenge], NEW H2, NEW c \in Challenges,
         NEW r \in Requests, R[r].pc = "count", R[r].ch = c, R2[r].pc # "count",
         \A q \in Requests : q # r => R2[q] = R[q],
         H2[c].attempts = H[c].attempts + 1,
         Below(R, H, c)
  PROVE  Below(R2, H2, c)
<1>1. CountingOf(R2, c) = CountingOf(R, c) \ {r} /\ r \in CountingOf(R, c)
  BY DEF CountingOf
<1> DEFINE S == CountingOf(R, c)
<1>2. Cardinality(S \ {r}) = Cardinality(S) - 1
  <2>1. IsFiniteSet(S) /\ r \in S
    BY <1>1, CountFacts
  <2> HIDE DEF S
  <2> QED BY <2>1, FS_RemoveElement
<1>3. H[c].attempts \in Nat
  BY DEF Challenge
<1> QED BY <1>1, <1>2, <1>3, CountFacts, TwoFactorConstants DEF Below

(* What a step may do to the counters: nothing, admit a request that has   *)
(* typed a wrong code, or count it.                                        *)
CountersKept ==
  /\ \A c \in Challenges : ch'[c].attempts = ch[c].attempts
  /\ \A r \in Requests :
       req'[r].pc = "count" => req[r].pc = "count" /\ req'[r].ch = req[r].ch

Admits(r, c) ==
  /\ \A d \in Challenges : ch'[d].attempts = ch[d].attempts
  /\ ch[c].attempts < MAX_CHALLENGE_ATTEMPTS
  /\ req'[r].pc = "count" /\ req'[r].ch = c
  /\ \A q \in Requests : q # r => req'[q] = req[q]

Counts(r, c) ==
  /\ req[r].pc = "count" /\ req[r].ch = c /\ req'[r].pc # "count"
  /\ \A q \in Requests : q # r => req'[q] = req[q]
  /\ ch'[c].attempts = ch[c].attempts + 1
  /\ \A d \in Challenges : d # c => ch'[d].attempts = ch[d].attempts

LEMMA CapStep ==
  ASSUME Inv, CapInv,
         \/ CountersKept
         \/ \E r \in Requests, c \in Challenges : Admits(r, c) \/ Counts(r, c),
         "challenge" \notin overlap' =>
           /\ "challenge" \notin overlap
           /\ \A q, r \in Requests :
                Counting(q)' /\ Counting(r)' /\ req'[q].ch = req'[r].ch => q = r
  PROVE  CapInv'
<1>0. /\ ch \in [Challenges -> Challenge] /\ MAX_CHALLENGE_ATTEMPTS \in Nat \ {0}
      /\ \A c \in Challenges : ch[c].attempts \in Nat
      /\ \A r \in Requests : Counting(r) => req[r].ch \in Challenges
  BY TwoFactorConstants DEF Inv, TypeOK, ClaimInv, Counting, Challenge
<1> DEFINE Serial == "challenge" \notin overlap'
<1>1. ASSUME Serial
      PROVE  /\ \A q, r \in Requests :
                  Counting(q)' /\ Counting(r)' /\ req'[q].ch = req'[r].ch => q = r
             /\ \A q, r \in Requests :
                  Counting(q) /\ Counting(r) /\ req[q].ch = req[r].ch => q = r
             /\ \A r \in Requests :
                  Counting(r) => ch[req[r].ch].attempts < MAX_CHALLENGE_ATTEMPTS
             /\ \A c \in Challenges : ch[c].attempts <= MAX_CHALLENGE_ATTEMPTS
  BY <1>1 DEF CapInv
<1> DEFINE After == /\ \A r \in Requests : Counting(r)' =>
                           ch'[req'[r].ch].attempts < MAX_CHALLENGE_ATTEMPTS
                    /\ \A c \in Challenges : ch'[c].attempts <= MAX_CHALLENGE_ATTEMPTS
<1>2. SUFFICES (\A c \in Challenges : Below(req', ch', c)) /\ (Serial => After)
  BY <1>1 DEF CapInv
<1>3. CASE CountersKept
  <2>1. \A c \in Challenges : Below(req', ch', c)
    <3>1. \A c \in Challenges : CountingOf(req', c) \subseteq CountingOf(req, c)
      BY <1>3 DEF CountersKept, CountingOf
    <3> QED BY <1>0, <1>3, <3>1, BelowKept DEF CapInv, CountersKept
  <2>2. ASSUME Serial PROVE After
    BY <1>0, <1>1, <1>3, <2>2 DEF CountersKept, Counting
  <2> QED BY <2>1, <2>2
<1>4. ASSUME NEW r \in Requests, NEW c \in Challenges, Admits(r, c)
      PROVE  (\A d \in Challenges : Below(req', ch', d)) /\ (Serial => After)
  <2>1. ASSUME NEW d \in Challenges, d # c PROVE Below(req', ch', d)
    <3>1. CountingOf(req', d) \subseteq CountingOf(req, d)
      BY <1>4, <2>1 DEF Admits, CountingOf
    <3> QED BY <1>0, <1>4, <3>1, BelowKept DEF CapInv, Admits
  <2>2. CountingOf(req', c) = CountingOf(req', c) /\ ch'[c].attempts = ch[c].attempts
    BY <1>4 DEF Admits
  <2>3. Below(req', ch, c)
    BY <1>0, <1>4, BelowAdmitted DEF Admits
  <2>4. Below(req', ch', c)
    BY <2>2, <2>3 DEF Below
  <2>5. ASSUME Serial PROVE After
    BY <1>0, <1>1, <1>4, <2>5 DEF Admits, Counting
  <2> QED BY <2>1, <2>4, <2>5
<1>5. ASSUME NEW r \in Requests, NEW c \in Challenges, Counts(r, c)
      PROVE  (\A d \in Challenges : Below(req', ch', d)) /\ (Serial => After)
  <2>1. ASSUME NEW d \in Challenges, d # c PROVE Below(req', ch', d)
    <3>1. CountingOf(req', d) = CountingOf(req, d)
      BY <1>5, <2>1 DEF Counts, CountingOf
    <3> QED BY <1>5, <2>1, <3>1 DEF CapInv, Below, Counts
  <2>2. Below(req', ch', c)
    BY <1>0, <1>5, BelowCounted DEF CapInv, Counts
  <2>3. ASSUME Serial PROVE After
    <3>1. \A q \in Requests : Counting(q)' => q # r /\ Counting(q) /\ req'[q] = req[q]
      BY <1>5 DEF Counts, Counting
    <3>2. \A q \in Requests : Counting(q)' => req[q].ch # c
      BY <1>1, <1>5, <2>3, <3>1 DEF Counts, Counting
    <3>3. \A q \in Requests : Counting(q)' =>
            ch'[req'[q].ch].attempts < MAX_CHALLENGE_ATTEMPTS
      BY <1>0, <1>1, <1>5, <2>3, <3>1, <3>2 DEF Counts
    <3>4. ch[c].attempts < MAX_CHALLENGE_ATTEMPTS
      BY <1>1, <1>5, <2>3 DEF Counts, Counting
    <3>5. ch'[c].attempts <= MAX_CHALLENGE_ATTEMPTS
      BY <1>0, <1>5, <3>4 DEF Counts
    <3> QED BY <1>1, <1>5, <2>3, <3>3, <3>5 DEF Counts
  <2> QED BY <2>1, <2>2, <2>3
<1> QED BY <1>3, <1>4, <1>5

(* Where a request is after a step of its own: never at "count", which     *)
(* only VerifyRead enters.                                                 *)
LEMMA OwnStep ==
  ASSUME TypeOK, NEW r \in Requests, RequestStep(r)
  PROVE  /\ \A q \in Requests : q # r => req'[q] = req[q]
         /\ req'[r].pc # "count"
<1>1. req \in [Requests -> Request] /\ req[r] \in Request
  BY DEF TypeOK
<1>2. CASE req' = Idled(r)
  BY <1>2, IdledFacts, IdleFields
<1>3. CASE \E pc \in {"setup", "disable", "challenge", "consume", "stamp", "issue"} :
             req' = [req EXCEPT ![r].pc = pc]
  BY <1>1, <1>3 DEF Request
<1>4. CASE req' = [req EXCEPT ![r].pc = "enable", ![r].secret = acct.secret]
  BY <1>1, <1>4 DEF Request
<1>5. \/ req' = Idled(r)
      \/ \E pc \in {"setup", "disable", "challenge", "consume", "stamp", "issue"} :
           req' = [req EXCEPT ![r].pc = pc]
      \/ req' = [req EXCEPT ![r].pc = "enable", ![r].secret = acct.secret]
  <2>1. CASE VerifyClaim(r)
    BY <2>1 DEF VerifyClaim
  <2> QED BY <2>1 DEF RequestStep, SetupRead, SetupWrite, EnableRead, EnableWrite, DisableRead,
     DisableWrite, LoginRead, CreateChallenge, VerifyExpired, VerifyCount, VerifyConsume,
     VerifyStamp, VerifyIssue, Fail
<1> QED BY <1>2, <1>3, <1>4, <1>5

LEMMA SameAttempts ==
  ASSUME NEW w \in Challenge
  PROVE  /\ [w EXCEPT !.status = "open"].attempts = w.attempts
         /\ [w EXCEPT !.status = "deleted"].attempts = w.attempts
         /\ [w EXCEPT !.expired = TRUE].attempts = w.attempts
         /\ [w EXCEPT !.used = TRUE].attempts = w.attempts
         /\ [w EXCEPT !.sessions = w.sessions + 1].attempts = w.attempts
BY DEF Challenge

LEMMA StepCounters ==
  ASSUME Inv, [Next]_vars
  PROVE  \/ CountersKept
         \/ \E r \in Requests, c \in Challenges : Admits(r, c) \/ Counts(r, c)
<1>1. TypeOK /\ ch \in [Challenges -> Challenge] /\ req \in [Requests -> Request]
  BY DEF Inv, TypeOK
<1>2. ASSUME NEW r \in Requests, RequestStep(r), ~VerifyCount(r)
      PROVE  CountersKept
  <2>1. \A c \in Challenges : ch'[c].attempts = ch[c].attempts
    <3>1. CASE ch' = ch
      BY <3>1
    <3>2. CASE CreateChallenge(r)
      BY <1>1, <3>2, SameAttempts DEF CreateChallenge
    <3>3. CASE VerifyExpired(r)
      BY <1>1, <3>3, SameAttempts DEF VerifyExpired
    <3>4. CASE VerifyClaim(r)
      <4>1. ch' = ch \/ ch' = [ch EXCEPT ![req[r].ch].used = TRUE]
        BY <3>4 DEF VerifyClaim
      <4> QED BY <1>1, <4>1, SameAttempts
    <3>5. CASE VerifyIssue(r)
      BY <1>1, <3>5, SameAttempts DEF VerifyIssue
    <3> QED BY <1>2, <3>1, <3>2, <3>3, <3>4, <3>5 DEF RequestStep, SetupRead, SetupWrite,
       EnableRead, EnableWrite, DisableRead, DisableWrite, LoginRead, VerifyConsume,
       VerifyStamp, Fail
  <2> QED BY <1>1, <1>2, <2>1, OwnStep DEF CountersKept
<1>3. ASSUME NEW r \in Requests, VerifyCount(r)
      PROVE  CountersKept \/ \E c \in Challenges : Counts(r, c)
  <2>1. PICK c \in Challenges : c = req[r].ch
    BY <1>3 DEF Inv, ClaimInv, VerifyCount
  <2>2. (\A q \in Requests : q # r => req'[q] = req[q]) /\ req'[r].pc # "count"
    BY <1>1, <1>3, OwnStep DEF RequestStep
  <2>3. CASE ch[c].status = "open"
    <3>1. ch' = [ch EXCEPT ![c].attempts = ch[c].attempts + 1] /\ req[r].pc = "count"
      BY <1>3, <2>1, <2>3 DEF VerifyCount
    <3>2. ch'[c].attempts = ch[c].attempts + 1
          /\ \A d \in Challenges : d # c => ch'[d].attempts = ch[d].attempts
      BY <1>1, <3>1 DEF Challenge
    <3> QED BY <2>1, <2>2, <3>1, <3>2 DEF Counts
  <2>4. CASE ch[c].status # "open"
    <3>1. ch' = [ch EXCEPT ![c].attempts = ch[c].attempts]
      BY <1>3, <2>1, <2>4 DEF VerifyCount
    <3>2. \A d \in Challenges : ch'[d].attempts = ch[d].attempts
      BY <1>1, <3>1 DEF Challenge
    <3> QED BY <2>2, <3>2 DEF CountersKept
  <2> QED BY <2>3, <2>4
<1>4. ASSUME NEW r \in Requests, NEW c \in Challenges, VerifyRead(r, c)
      PROVE  CountersKept \/ Admits(r, c)
  <2>1. PICK pc, kind, code :
          VerifyOutcome(r, c, pc, kind, code) /\ pc \in {"expired", "count", "claim"}
    BY <1>4 DEF VerifyRead
  <2>2. /\ req'[r].pc = pc /\ req'[r].ch = c
        /\ \A q \in Requests : q # r => req'[q] = req[q]
    BY <1>1, <2>1 DEF VerifyOutcome
  <2>3. ch' = ch /\ ch[c].attempts < MAX_CHALLENGE_ATTEMPTS
    BY <1>4 DEF VerifyRead, VerifyAdmits
  <2>4. CASE pc = "count"
    BY <2>2, <2>3, <2>4 DEF Admits
  <2>5. CASE pc # "count"
    BY <2>2, <2>3, <2>5 DEF CountersKept
  <2> QED BY <2>4, <2>5
<1>5. ASSUME NEW c \in Challenges, ChallengeExpires(c) PROVE CountersKept
  BY <1>1, <1>5, SameAttempts DEF ChallengeExpires, CountersKept
<1>6. CASE CleanupChallenges
  <2>1. \A c \in Challenges : ch'[c] = ch[c] \/ ch'[c] = [ch[c] EXCEPT !.status = "deleted"]
    BY <1>6 DEF CleanupChallenges
  <2> QED BY <1>1, <1>6, <2>1, SameAttempts DEF CleanupChallenges, CountersKept
<1>7. CASE NextStep \/ UNCHANGED vars
  BY <1>7 DEF NextStep, vars, CountersKept
<1> QED BY <1>2, <1>3, <1>4, <1>5, <1>6, <1>7 DEF Next

-----------------------------------------------------------------------------
(* The account, as long as no two requests are between reading and writing *)
(* it: what a request decided on is still so.                              *)

Fits(w, A) ==
  /\ w.pc = "setup" => ~A.enabled
  /\ w.pc = "enable" => ~A.enabled /\ w.secret = A.secret /\ A.secret # 0
  /\ w.pc = "consume" => w.kind = "backup"
  /\ w.pc \in {"claim", "consume"} /\ w.kind = "backup" =>
       w.codes = A.codes /\ w.code \in A.codes
  /\ w.pc \in {"claim", "stamp"} /\ w.kind = "totp" =>
       w.code.secret = A.secret /\ w.code.step > A.lastStep

(* A code that no request will accept again. *)
Dead(x, A) ==
  /\ x \in Backup => x \notin A.codes /\ x.gen <= A.gen
  /\ x \in Totp => /\ x.secret <= A.fresh
                   /\ x.secret = A.secret => x.step <= A.lastStep

Holds(w) == w.pc \in {"claim", "consume", "stamp", "issue"}
Spends(w) == w.pc = "issue" \/ (w.pc = "stamp" /\ w.kind = "backup")

AccountOK(A) ==
  /\ A.secret <= A.fresh
  /\ \A x \in A.codes : x.gen <= A.gen
  /\ A.enabled => A.secret = A.verified /\ A.secret # 0

Serial ==
  /\ \A q, r \in Requests : Deciding(q) /\ Deciding(r) => q = r
  /\ AccountOK(acct)
  /\ \A r \in Requests :
       /\ Fits(req[r], acct)
       /\ Holds(req[r]) => req[r].code \notin spent.once
       /\ Spends(req[r]) => Dead(req[r].code, acct)
  /\ \A q, r \in Requests :
       Holds(req[q]) /\ Holds(req[r]) /\ req[q].code = req[r].code => q = r
  /\ \A x \in spent.once : Dead(x, acct)
  /\ spent.twice = {}

SerialInv == "account" \notin overlap => Serial

LEMMA Disjoint == \A x \in Totp : x \notin Backup
BY DEF Totp, Backup

LEMMA IdleFits == \A A : Fits(Idle, A) /\ ~Holds(Idle) /\ ~Spends(Idle)
BY DEF Idle, Fits, Holds, Spends

(* A code once dead stays so, whatever is written to the account. *)
Ages(A, B) == \A x \in Totp \cup Backup : Dead(x, A) => Dead(x, B)

LEMMA SetupAges ==
  ASSUME NEW A \in Account, NEW B \in Account, B.codes = A.codes, B.gen = A.gen,
         B.fresh = A.fresh + 1, B.secret = A.fresh + 1
  PROVE  Ages(A, B)
<1>1. A.fresh \in Nat /\ B.fresh \in Nat
  BY TwoFactorConstants DEF Account, Secret
<1>2. \A x \in Totp : x.secret \in Nat /\ x.step \in Nat
  BY TwoFactorConstants DEF Totp
<1> QED BY <1>1, <1>2, Disjoint DEF Ages, Dead

LEMMA EnableAges ==
  ASSUME NEW A \in Account, NEW B \in Account, B.gen = A.gen + 1,
         B.codes = {[gen |-> A.gen + 1, id |-> i] : i \in Codes},
         B.fresh = A.fresh, B.secret = A.secret, B.lastStep = A.lastStep
  PROVE  Ages(A, B) /\ \A x \in B.codes : x.gen <= B.gen
<1>1. A.gen \in Nat /\ B.gen \in Nat
  BY TwoFactorConstants DEF Account
<1>2. \A x \in B.codes : x.gen = A.gen + 1
  OBVIOUS
<1>3. \A x \in Backup : x.gen \in Nat
  BY TwoFactorConstants DEF Backup
<1> QED BY <1>1, <1>2, <1>3, Disjoint DEF Ages, Dead

LEMMA DisableAges ==
  ASSUME NEW A \in Account, NEW B \in Account, B.codes = {}, B.gen = A.gen,
         B.fresh = A.fresh, B.secret = 0
  PROVE  Ages(A, B)
<1>1. \A x \in Totp : x.secret # 0
  BY TwoFactorConstants DEF Totp
<1> QED BY <1>1, Disjoint DEF Ages, Dead

LEMMA ConsumeAges ==
  ASSUME NEW A \in Account, NEW B \in Account, B.codes \subseteq A.codes, B.gen = A.gen,
         B.fresh = A.fresh, B.secret = A.secret, B.lastStep = A.lastStep
  PROVE  Ages(A, B)
BY DEF Ages, Dead

LEMMA StampAges ==
  ASSUME NEW A \in Account, NEW B \in Account, B.codes = A.codes, B.gen = A.gen,
         B.fresh = A.fresh, B.secret = A.secret, B.lastStep > A.lastStep
  PROVE  Ages(A, B)
<1>1. A.lastStep \in Nat /\ B.lastStep \in Nat
  BY TwoFactorConstants DEF Account
<1>2. \A x \in Totp : x.step \in Nat
  BY TwoFactorConstants DEF Totp
<1> QED BY <1>1, <1>2 DEF Ages, Dead

(* What a step of request r must show: of the others, which it leaves      *)
(* alone, none is between read and write when r writes the account.        *)
Alone(r) ==
  /\ \A q \in Requests : q # r => req'[q] = req[q]
  /\ acct' = acct \/ Deciding(r)
  /\ \A p, q \in Requests : Deciding(p)' /\ Deciding(q)' => p = q

LEMMA SerialStep ==
  ASSUME Inv, Serial, NEW r \in Requests, Alone(r),
         AccountOK(acct'), Ages(acct, acct'), Fits(req'[r], acct'),
         Spends(req'[r]) => Dead(req'[r].code, acct'),
         Holds(req'[r]) =>
           /\ req'[r].code \notin spent.once
           /\ \A q \in Requests : q # r /\ Holds(req[q]) => req[q].code # req'[r].code,
         \/ spent' = spent
         \/ /\ spent' = [once |-> spent.once \cup {req[r].code},
                         twice |-> spent.twice \cup (spent.once \cap {req[r].code})]
            /\ req[r].pc = "issue" /\ ~Holds(req'[r])
  PROVE  Serial'
<1>1. spent.once \subseteq Totp \cup Backup
  BY DEF Inv, TypeOK
<1>2. \A q \in Requests : Holds(req[q]) => req[q].code \in Totp \cup Backup
  BY DEF Inv, CodeInv, Holds
<1>3. \A q \in Requests : Spends(req[q]) => Holds(req[q])
  BY DEF Spends, Holds
<1>4. \A q \in Requests : Fits(req'[q], acct')
  <2>1. ASSUME NEW q \in Requests, q # r PROVE Fits(req'[q], acct')
    <3>1. req'[q] = req[q]
      BY <2>1 DEF Alone
    <3>2. CASE acct' = acct
      BY <3>1, <3>2 DEF Serial
    <3>3. CASE Deciding(r)
      <4>1. ~Deciding(q)
        BY <2>1, <3>3 DEF Serial
      <4> QED BY <3>1, <4>1 DEF Deciding, Fits
    <3> QED BY <3>2, <3>3 DEF Alone
  <2> QED BY <2>1
<1>5. \A q \in Requests : Spends(req'[q]) => Dead(req'[q].code, acct')
  <2>1. ASSUME NEW q \in Requests, q # r, Spends(req'[q]) PROVE Dead(req'[q].code, acct')
    BY <1>2, <1>3, <2>1 DEF Alone, Serial, Ages
  <2> QED BY <2>1
<1>6. \A p, q \in Requests :
        Holds(req'[p]) /\ Holds(req'[q]) /\ req'[p].code = req'[q].code => p = q
  BY DEF Alone, Serial
<1>7. /\ \A q \in Requests : Holds(req'[q]) => req'[q].code \notin spent'.once
      /\ \A x \in spent'.once : Dead(x, acct')
      /\ spent'.twice = {}
  <2>1. CASE spent' = spent
    BY <1>1, <2>1 DEF Alone, Serial, Ages
  <2>2. CASE spent' # spent
    <3>1. /\ spent'.once = spent.once \cup {req[r].code}
          /\ spent'.twice = spent.twice \cup (spent.once \cap {req[r].code})
          /\ Holds(req[r]) /\ Spends(req[r]) /\ ~Holds(req'[r])
      BY <2>2 DEF Holds, Spends
    <3>2. req[r].code \notin spent.once /\ Dead(req[r].code, acct)
      BY <3>1 DEF Serial
    <3>3. \A q \in Requests : Holds(req'[q]) => req'[q].code \notin spent'.once
      BY <3>1 DEF Alone, Serial
    <3>4. \A x \in spent'.once : Dead(x, acct')
      BY <1>1, <1>2, <3>1, <3>2 DEF Serial, Ages
    <3> QED BY <3>1, <3>2, <3>3, <3>4 DEF Serial
  <2> QED BY <2>1, <2>2
<1> QED BY <1>4, <1>5, <1>6, <1>7 DEF Alone, Serial

OneDecides == \A p, q \in Requests : Deciding(p)' /\ Deciding(q)' => p = q

LEMMA AgesSame == Ages(acct, acct)
BY DEF Ages

(* A request that ends without writing to the account. *)
LEMMA EndsSerial ==
  ASSUME Inv, Serial, OneDecides, NEW r \in Requests,
         req' = Idled(r), acct' = acct, spent' = spent
  PROVE  Serial'
<1>1. req'[r] = Idle /\ \A q \in Requests : q # r => req'[q] = req[q]
  BY IdledFacts DEF Inv
<1>2. Alone(r) /\ AccountOK(acct') /\ Ages(acct, acct')
  BY <1>1, AgesSame DEF Alone, OneDecides, Serial
<1>3. Fits(req'[r], acct') /\ ~Spends(req'[r]) /\ ~Holds(req'[r])
  BY <1>1, IdleFits
<1> QED BY <1>2, <1>3, SerialStep

(* One that starts, having read of the account what Fits asks for. *)
LEMMA StartsSerial ==
  ASSUME Inv, Serial, OneDecides, NEW r \in Requests,
         SetupRead(r) \/ EnableRead(r) \/ DisableRead(r) \/ LoginRead(r)
  PROVE  Serial'
<1>1. req \in [Requests -> Request] /\ req[r] \in Request
  BY DEF Inv, TypeOK
<1>2. acct' = acct /\ spent' = spent /\ \A q \in Requests : q # r => req'[q] = req[q]
  BY <1>1 DEF SetupRead, EnableRead, DisableRead, LoginRead
<1>3. Alone(r) /\ AccountOK(acct') /\ Ages(acct, acct')
  BY <1>2, AgesSame DEF Alone, OneDecides, Serial
<1>4. /\ req'[r].pc \in {"setup", "enable", "disable", "challenge"}
      /\ req'[r].pc = "setup" => ~acct.enabled
      /\ req'[r].pc = "enable" =>
           ~acct.enabled /\ req'[r].secret = acct.secret /\ acct.secret # 0
  <2>1. CASE SetupRead(r) \/ DisableRead(r) \/ LoginRead(r)
    BY <1>1, <2>1 DEF SetupRead, DisableRead, LoginRead, Request
  <2>2. CASE EnableRead(r)
    BY <1>1, <2>2 DEF EnableRead, Request
  <2> QED BY <2>1, <2>2
<1>5. Fits(req'[r], acct') /\ ~Spends(req'[r]) /\ ~Holds(req'[r])
  BY <1>2, <1>4 DEF Fits, Spends, Holds
<1> QED BY <1>2, <1>3, <1>5, SerialStep

(* The three writes of the settings. *)
LEMMA SettingsSerial ==
  ASSUME Inv, TypeOK', Serial, OneDecides, NEW r \in Requests,
         SetupWrite(r) \/ EnableWrite(r) \/ DisableWrite(r)
  PROVE  Serial'
<1>1. req'[r] = Idle /\ \A q \in Requests : q # r => req'[q] = req[q]
  BY IdledFacts DEF Inv, SetupWrite, EnableWrite, DisableWrite
<1>2. Deciding(r) /\ spent' = spent
  BY DEF SetupWrite, EnableWrite, DisableWrite, Deciding
<1>3. Alone(r)
  BY <1>1, <1>2 DEF Alone, OneDecides
<1>4. Fits(req'[r], acct') /\ ~Spends(req'[r]) /\ ~Holds(req'[r])
  BY <1>1, IdleFits
<1>5. acct \in Account /\ acct' \in Account
  BY DEF Inv, TypeOK
<1>6. AccountOK(acct) /\ Fits(req[r], acct)
  BY DEF Serial
<1>7. AccountOK(acct') /\ Ages(acct, acct')
  <2>1. CASE SetupWrite(r)
    <3>1. /\ acct'.codes = acct.codes /\ acct'.gen = acct.gen
          /\ acct'.fresh = acct.fresh + 1 /\ acct'.secret = acct.fresh + 1
          /\ acct'.enabled = acct.enabled
      BY <1>5, <2>1 DEF SetupWrite, Account
    <3>2. ~acct.enabled
      BY <1>6, <2>1 DEF SetupWrite, Fits
    <3>3. acct'.secret <= acct'.fresh
      BY <1>5, <3>1, TwoFactorConstants DEF Account, Secret
    <3> QED BY <1>5, <1>6, <3>1, <3>2, <3>3, SetupAges DEF AccountOK
  <2>2. CASE EnableWrite(r)
    <3>1. /\ acct'.codes = {[gen |-> acct.gen + 1, id |-> i] : i \in Codes}
          /\ acct'.gen = acct.gen + 1 /\ acct'.fresh = acct.fresh
          /\ acct'.secret = acct.secret /\ acct'.lastStep = acct.lastStep
          /\ acct'.verified = req[r].secret
      BY <1>5, <2>2 DEF EnableWrite, Account
    <3>2. req[r].secret = acct.secret /\ acct.secret # 0
      BY <1>6, <2>2 DEF EnableWrite, Fits
    <3>3. Ages(acct, acct') /\ \A x \in acct'.codes : x.gen <= acct'.gen
      BY <1>5, <3>1, EnableAges
    <3>4. acct'.secret <= acct'.fresh
      BY <1>6, <3>1 DEF AccountOK
    <3> QED BY <3>1, <3>2, <3>3, <3>4 DEF AccountOK
  <2>3. CASE DisableWrite(r)
    <3>1. /\ acct'.codes = {} /\ acct'.gen = acct.gen /\ acct'.fresh = acct.fresh
          /\ acct'.secret = 0 /\ acct'.enabled = FALSE
      BY <1>5, <2>3 DEF DisableWrite, Account
    <3>2. acct'.secret <= acct'.fresh
      BY <1>5, <3>1, TwoFactorConstants DEF Account, Secret
    <3> QED BY <1>5, <3>1, <3>2, DisableAges DEF AccountOK
  <2> QED BY <2>1, <2>2, <2>3
<1> QED BY <1>2, <1>3, <1>4, <1>7, SerialStep

(* verifyChallenge accepts a code: no other request holds it, and nobody   *)
(* has spent it.                                                           *)
LEMMA VerifyReadSerial ==
  ASSUME Inv, Serial, OneDecides, NEW r \in Requests, NEW c \in Challenges, VerifyRead(r, c)
  PROVE  Serial'
<1>1. req \in [Requests -> Request] /\ req[r] \in Request
  BY DEF Inv, TypeOK
<1>2. PICK pc, kind, code :
        /\ VerifyOutcome(r, c, pc, kind, code)
        /\ \/ pc \in {"expired", "count"}
           \/ /\ pc = "claim" /\ kind = "totp" /\ code \in TotpCodes
              /\ TotpValid(code, acct.secret, acct.lastStep)
           \/ pc = "claim" /\ kind = "backup" /\ code \in BackupCodes /\ code \in acct.codes
  BY DEF VerifyRead
<1>3. /\ req'[r].pc = pc /\ req'[r].kind = kind /\ req'[r].code = code
      /\ kind = "backup" => req'[r].codes = acct.codes
      /\ \A q \in Requests : q # r => req'[q] = req[q]
  BY <1>1, <1>2 DEF VerifyOutcome
<1>4. acct' = acct /\ spent' = spent
  BY DEF VerifyRead
<1>5. Alone(r) /\ AccountOK(acct') /\ Ages(acct, acct')
  BY <1>3, <1>4, AgesSame DEF Alone, OneDecides, Serial
<1>6. Fits(req'[r], acct') /\ ~Spends(req'[r])
  BY <1>2, <1>3, <1>4 DEF Fits, Spends, TotpValid
<1>7. ASSUME pc = "claim" PROVE ~Dead(code, acct)
  <2>1. CASE kind = "backup" /\ code \in BackupCodes /\ code \in acct.codes
    BY <2>1 DEF BackupCodes, Dead
  <2>2. CASE kind = "totp" /\ code \in TotpCodes /\ TotpValid(code, acct.secret, acct.lastStep)
    <3>1. /\ code \in Totp /\ code.secret = acct.secret /\ code.step > acct.lastStep
      BY <2>2 DEF TotpCodes, TotpValid
    <3>2. code.step \in Nat /\ acct.lastStep \in Nat
      BY <3>1, TwoFactorConstants DEF Inv, TypeOK, Account, Totp
    <3> QED BY <3>1, <3>2 DEF Dead
  <2> QED BY <1>2, <1>7, <2>1, <2>2
<1>8. ASSUME Holds(req'[r])
      PROVE  /\ req'[r].code \notin spent.once
             /\ \A q \in Requests : q # r /\ Holds(req[q]) => req[q].code # req'[r].code
  <2>1. pc = "claim"
    BY <1>2, <1>3, <1>8 DEF Holds
  <2>2. code \notin spent.once
    BY <1>7, <2>1 DEF Serial
  <2>3. ASSUME NEW q \in Requests, q # r, Holds(req[q]), req[q].code = code PROVE FALSE
    <3>1. Deciding(r)'
      BY <1>3, <2>1 DEF Deciding
    <3>2. ~Deciding(q)
      BY <1>3, <2>3, <3>1 DEF OneDecides, Deciding
    <3>3. Spends(req[q])
      BY <2>3, <3>2 DEF Holds, Deciding, Spends
    <3> QED BY <1>7, <2>1, <2>3, <3>3 DEF Serial
  <2> QED BY <1>3, <2>2, <2>3
<1> QED BY <1>4, <1>5, <1>6, <1>8, SerialStep

(* The steps after it: the claim, the two writes to the account, and the   *)
(* session.                                                                *)
LEMMA ClaimSerial ==
  ASSUME Inv, Serial, OneDecides, NEW r \in Requests, VerifyClaim(r)
  PROVE  Serial'
<1>1. req \in [Requests -> Request] /\ req[r] \in Request
  BY DEF Inv, TypeOK
<1>2. acct' = acct /\ spent' = spent /\ req[r].pc = "claim"
  BY DEF VerifyClaim
<1>3. CASE req' = Idled(r)
  BY <1>2, <1>3, EndsSerial
<1>4. CASE req' = [req EXCEPT ![r].pc = IF req[r].kind = "backup" THEN "consume" ELSE "stamp"]
  <2>1. /\ req'[r].pc = IF req[r].kind = "backup" THEN "consume" ELSE "stamp"
        /\ req'[r].kind = req[r].kind /\ req'[r].code = req[r].code
        /\ req'[r].codes = req[r].codes
        /\ \A q \in Requests : q # r => req'[q] = req[q]
    BY <1>1, <1>4 DEF Request
  <2>2. Alone(r) /\ AccountOK(acct') /\ Ages(acct, acct')
    BY <1>2, <2>1, AgesSame DEF Alone, OneDecides, Serial
  <2>3. Fits(req[r], acct) /\ req[r].code \notin spent.once
    BY <1>2 DEF Serial, Holds
  <2>4. Fits(req'[r], acct')
    BY <1>2, <2>1, <2>3 DEF Fits
  <2>5. ~Spends(req'[r])
    BY <2>1 DEF Spends
  <2>6. \A q \in Requests : q # r /\ Holds(req[q]) => req[q].code # req'[r].code
    BY <1>2, <2>1 DEF Serial, Holds
  <2> QED BY <1>2, <2>1, <2>2, <2>3, <2>4, <2>5, <2>6, SerialStep
<1> QED BY <1>3, <1>4 DEF VerifyClaim

LEMMA WritesSerial ==
  ASSUME Inv, TypeOK', Serial, OneDecides, NEW r \in Requests, VerifyConsume(r) \/ VerifyStamp(r)
  PROVE  Serial'
<1>1. req \in [Requests -> Request] /\ req[r] \in Request /\ acct \in Account /\ acct' \in Account
  BY DEF Inv, TypeOK
<1>2. /\ req'[r].pc = IF req[r].pc = "consume" THEN "stamp" ELSE "issue"
      /\ req'[r].kind = req[r].kind /\ req'[r].code = req[r].code
      /\ \A q \in Requests : q # r => req'[q] = req[q]
      /\ req[r].pc \in {"consume", "stamp"} /\ spent' = spent
  BY <1>1 DEF VerifyConsume, VerifyStamp, Request
<1>3. Alone(r) /\ AccountOK(acct) /\ Fits(req[r], acct)
  BY <1>2 DEF Alone, OneDecides, Serial, Deciding
<1>4. /\ req'[r].code \notin spent.once
      /\ \A q \in Requests : q # r /\ Holds(req[q]) => req[q].code # req'[r].code
  BY <1>2 DEF Serial, Holds
<1>5. \/ req[r].kind = "totp" /\ req[r].code \in Totp
      \/ req[r].kind = "backup" /\ req[r].code \in Backup
  BY <1>2 DEF Inv, CodeInv
<1>6. /\ AccountOK(acct') /\ Ages(acct, acct') /\ Fits(req'[r], acct')
      /\ Dead(req[r].code, acct')
  <2>1. CASE VerifyConsume(r)
    <3>1. /\ acct'.codes = acct.codes \ {req[r].code} /\ acct'.gen = acct.gen
          /\ acct'.fresh = acct.fresh /\ acct'.secret = acct.secret
          /\ acct'.lastStep = acct.lastStep /\ acct'.verified = acct.verified
          /\ acct'.enabled = acct.enabled
          /\ req[r].kind = "backup" /\ req[r].code \in acct.codes /\ req[r].pc = "consume"
      BY <1>1, <1>3, <2>1 DEF VerifyConsume, Account, Fits
    <3>2. AccountOK(acct')
      BY <1>3, <3>1 DEF AccountOK
    <3>3. Ages(acct, acct')
      BY <1>1, <3>1, ConsumeAges
    <3>4. Fits(req'[r], acct')
      BY <1>2, <3>1 DEF Fits
    <3>5. Dead(req[r].code, acct')
      BY <1>3, <1>5, <3>1, Disjoint DEF AccountOK, Dead
    <3> QED BY <3>2, <3>3, <3>4, <3>5
  <2>2. CASE VerifyStamp(r) /\ req[r].kind = "totp"
    <3>1. /\ acct'.codes = acct.codes /\ acct'.gen = acct.gen
          /\ acct'.fresh = acct.fresh /\ acct'.secret = acct.secret
          /\ acct'.lastStep = req[r].code.step /\ acct'.verified = acct.verified
          /\ acct'.enabled = acct.enabled
          /\ req[r].code.secret = acct.secret /\ req[r].code.step > acct.lastStep
          /\ req[r].pc = "stamp"
      BY <1>1, <1>3, <2>2 DEF VerifyStamp, Account, Fits
    <3>2. AccountOK(acct')
      BY <1>3, <3>1 DEF AccountOK
    <3>3. Ages(acct, acct')
      BY <1>1, <3>1, StampAges
    <3>4. Fits(req'[r], acct')
      BY <1>2, <3>1 DEF Fits
    <3>5. req[r].code \in Totp /\ req[r].code \notin Backup /\ acct.secret <= acct.fresh
      BY <1>3, <1>5, <2>2, Disjoint DEF AccountOK
    <3>6. req[r].code.step <= req[r].code.step
      BY <3>5, TwoFactorConstants DEF Totp
    <3>7. Dead(req[r].code, acct')
      BY <3>1, <3>5, <3>6 DEF Dead
    <3> QED BY <3>2, <3>3, <3>4, <3>7
  <2>3. CASE VerifyStamp(r) /\ req[r].kind # "totp"
    <3>1. acct' = acct /\ req[r].pc = "stamp" /\ req[r].kind = "backup"
      BY <1>5, <2>3 DEF VerifyStamp
    <3>2. Dead(req[r].code, acct)
      BY <3>1 DEF Serial, Spends
    <3>3. Fits(req'[r], acct')
      BY <1>2, <3>1 DEF Fits
    <3> QED BY <1>3, <3>1, <3>2, <3>3, AgesSame
  <2> QED BY <2>1, <2>2, <2>3
<1> QED BY <1>2, <1>3, <1>4, <1>6, SerialStep

LEMMA IssueSerial ==
  ASSUME Inv, Serial, OneDecides, NEW r \in Requests, VerifyIssue(r)
  PROVE  Serial'
<1>1. req'[r] = Idle /\ \A q \in Requests : q # r => req'[q] = req[q]
  BY IdledFacts DEF Inv, VerifyIssue
<1>2. acct' = acct /\ req[r].pc = "issue"
  BY DEF VerifyIssue
<1>3. Alone(r) /\ AccountOK(acct') /\ Ages(acct, acct')
  BY <1>1, <1>2, AgesSame DEF Alone, OneDecides, Serial
<1>4. Fits(req'[r], acct') /\ ~Spends(req'[r]) /\ ~Holds(req'[r])
  BY <1>1, IdleFits
<1>5. spent' = [once |-> spent.once \cup {req[r].code},
                twice |-> spent.twice \cup (spent.once \cap {req[r].code})]
  BY DEF VerifyIssue
<1> QED BY <1>2, <1>3, <1>4, <1>5, SerialStep

LEMMA SerialNext ==
  ASSUME Inv, Inv', Serial, OneDecides, [Next]_vars
  PROVE  Serial'
<1>1. ASSUME NEW r \in Requests, RequestStep(r) PROVE Serial'
  <2>1. CASE CreateChallenge(r) \/ VerifyExpired(r) \/ VerifyCount(r) \/ Fail(r)
    <3>1. req' = Idled(r) /\ acct' = acct /\ spent' = spent
      BY <2>1 DEF CreateChallenge, VerifyExpired, VerifyCount, Fail
    <3> QED BY <3>1, EndsSerial
  <2> QED BY <1>1, <2>1, StartsSerial, SettingsSerial, ClaimSerial, WritesSerial, IssueSerial
          DEF RequestStep, Inv
<1>2. ASSUME NEW r \in Requests, NEW c \in Challenges, VerifyRead(r, c) PROVE Serial'
  BY <1>2, VerifyReadSerial
<1>3. CASE UNCHANGED <<acct, req, spent>>
  BY <1>3 DEF Serial, Deciding
<1> QED BY <1>1, <1>2, <1>3 DEF Next, ChallengeExpires, CleanupChallenges, NextStep, vars

-----------------------------------------------------------------------------

MCInv == Inv /\ CapInv /\ SerialInv

LEMMA MCInitInv == MCInit => MCInv
<1> SUFFICES ASSUME MCInit PROVE MCInv
  OBVIOUS
<1>1. Inv /\ \A r \in Requests : req[r] = Idle
  BY InitInv DEF MCInit, Init
<1>2. CapInv
  <2>1. ch \in [Challenges -> Challenge] /\ MAX_CHALLENGE_ATTEMPTS \in Nat \ {0}
    BY <1>1, TwoFactorConstants DEF Inv, TypeOK
  <2>2. \A c \in Challenges : ch[c].attempts = 0
    BY DEF MCInit, Init
  <2>3. \A c \in Challenges : Below(req, ch, c)
    BY <2>1, <2>2, BelowAdmitted
  <2>4. \A c \in Challenges : ch[c].attempts <= MAX_CHALLENGE_ATTEMPTS
    BY <2>1, <2>2
  <2>5. \A r \in Requests : ~Counting(r)
    BY <1>1, IdleFields DEF Counting
  <2> QED BY <2>3, <2>4, <2>5 DEF CapInv
<1>3. Serial
  <2>1. \A r \in Requests : ~Deciding(r)
    BY <1>1, IdleFields DEF Deciding
  <2>2. AccountOK(acct)
    BY DEF MCInit, Init, AccountOK
  <2>3. spent.once = {} /\ spent.twice = {}
    BY DEF MCInit, Init
  <2> QED BY <1>1, <2>1, <2>2, <2>3, IdleFits DEF Serial
<1> QED BY <1>1, <1>2, <1>3 DEF MCInv, SerialInv

LEMMA MCStepInv == MCInv /\ [MCNext]_<<vars, overlap>> => MCInv'
<1> SUFFICES ASSUME MCInv, [MCNext]_<<vars, overlap>> PROVE MCInv'
  OBVIOUS
<1>1. Inv' /\ [Next]_vars
  BY NextInv DEF MCInv, MCNext, vars
<1>2. CASE MCNext
  <2>1. ASSUME "challenge" \notin overlap'
        PROVE  /\ "challenge" \notin overlap
               /\ \A q, r \in Requests :
                    Counting(q)' /\ Counting(r)' /\ req'[q].ch = req'[r].ch => q = r
    BY <1>2, <2>1 DEF MCNext, Overlapping
  <2>2. ASSUME "account" \notin overlap' PROVE "account" \notin overlap /\ OneDecides
    BY <1>2, <2>2 DEF MCNext, Overlapping, OneDecides
  <2>3. CapInv'
    BY <1>1, <2>1, StepCounters, CapStep DEF MCInv
  <2>4. SerialInv'
    BY <1>1, <2>2, SerialNext DEF MCInv, SerialInv
  <2> QED BY <1>1, <2>3, <2>4 DEF MCInv
<1>3. CASE UNCHANGED <<vars, overlap>>
  <2>1. CapInv'
    BY <1>3 DEF MCInv, CapInv, Below, CountingOf, Counting, vars
  <2>2. SerialInv'
    BY <1>3 DEF MCInv, SerialInv, Serial, Deciding, vars
  <2> QED BY <1>1, <2>1, <2>2 DEF MCInv
<1> QED BY <1>2, <1>3

LEMMA MCInvariance == MCSpec => []MCInv
BY MCInitInv, MCStepInv, PTL DEF MCSpec

(* Wrong codes pass the cap by less than the number of requests, and not   *)
(* at all if no two were counted against one challenge at once.            *)
THEOREM AttemptsCappedTheorem == MCSpec => []AttemptsCapped
<1>1. MCInv => AttemptsCapped
  BY DEF MCInv, CapInv, Below, CountingOf, AttemptsCapped, AttemptsOvershoot
<1> QED BY <1>1, MCInvariance, PTL

(* No code opens two sessions, over any number of secrets, batches and     *)
(* time steps, as long as no two requests are between reading and writing  *)
(* the account.                                                            *)
THEOREM CodesSpentOnceTheorem == MCSpec => []CodesSpentOnce
<1>1. MCInv => CodesSpentOnce
  BY DEF MCInv, SerialInv, Serial, CodesSpentOnce, BackupCodeSingleUse
<1> QED BY <1>1, MCInvariance, PTL

(* Under the same condition the secret of an enabled factor is one whose   *)
(* code was checked.                                                       *)
THEOREM EnabledSecretTheorem == MCSpec => []EnabledSecretVerified
<1>1. MCInv => EnabledSecretVerified
  BY DEF MCInv, SerialInv, Serial, AccountOK, EnabledSecretVerified
<1> QED BY <1>1, MCInvariance, PTL


-----------------------------------------------------------------------------
(* The challenges implement LoginChallenge: what a request that has read a *)
(* challenge may still do to it is counted before it does it.              *)

Trying(R, c) == {r \in Requests : R[r].pc \in {"count", "claim"} /\ R[r].ch = c}
Guesses(w) == w.attempts + IF w.used THEN 1 ELSE 0

Few(R, H, c) ==
  Guesses(H[c]) + Cardinality(Trying(R, c)) < MAX_CHALLENGE_ATTEMPTS + Cardinality(Requests)

RefInv ==
  /\ Inv
  /\ \A c \in Challenges : Few(req, ch, c)
  /\ \A r \in Requests : req[r].pc = "expired" => ch[req[r].ch].status # "unused"

LEMMA TryingFacts ==
  ASSUME NEW R, NEW c
  PROVE  /\ IsFiniteSet(Trying(R, c))
         /\ Cardinality(Trying(R, c)) \in Nat
         /\ Cardinality(Trying(R, c)) <= Cardinality(Requests)
         /\ Cardinality(Requests) \in Nat
<1>1. Trying(R, c) \in SUBSET Requests
  BY DEF Trying
<1> QED BY <1>1, FS_Subset, FS_CardinalityType, TwoFactorConstants

LEMMA GuessesNat == \A w \in Challenge : w.attempts \in Nat /\ Guesses(w) \in Nat
BY DEF Guesses, Challenge

(* No request is admitted to c, and no code counted for it. *)
LEMMA FewKept ==
  ASSUME NEW R, NEW R2, NEW H \in [Challenges -> Challenge],
         NEW H2 \in [Challenges -> Challenge], NEW c \in Challenges,
         Guesses(H2[c]) = Guesses(H[c]),
         Trying(R2, c) \subseteq Trying(R, c),
         Few(R, H, c)
  PROVE  Few(R2, H2, c)
<1>1. Cardinality(Trying(R2, c)) <= Cardinality(Trying(R, c))
  BY TryingFacts, FS_Subset
<1> QED BY <1>1, GuessesNat, TryingFacts, TwoFactorConstants DEF Few

(* One is admitted, below the cap and before the claim. *)
LEMMA FewAdmitted ==
  ASSUME NEW R, NEW H \in [Challenges -> Challenge], NEW c \in Challenges,
         H[c].attempts < MAX_CHALLENGE_ATTEMPTS, ~H[c].used
  PROVE  Few(R, H, c)
<1>1. Guesses(H[c]) = H[c].attempts /\ H[c].attempts \in Nat
  BY GuessesNat DEF Guesses
<1> QED BY <1>1, TryingFacts, TwoFactorConstants DEF Few

(* One that was admitted has its code counted or accepted. *)
LEMMA FewTried ==
  ASSUME NEW R, NEW R2, NEW H \in [Challenges -> Challenge],
         NEW H2 \in [Challenges -> Challenge], NEW c \in Challenges,
         NEW r \in Trying(R, c), Trying(R2, c) = Trying(R, c) \ {r},
         Guesses(H2[c]) = Guesses(H[c]) + 1,
         Few(R, H, c)
  PROVE  Few(R2, H2, c) /\ Guesses(H[c]) < MAX_CHALLENGE_ATTEMPTS + Cardinality(Requests) - 1
<1> DEFINE S == Trying(R, c)
<1>1. Cardinality(S \ {r}) = Cardinality(S) - 1
  <2>1. IsFiniteSet(S) /\ r \in S
    BY TryingFacts
  <2> HIDE DEF S
  <2> QED BY <2>1, FS_RemoveElement
<1>2. Cardinality(S) \in Nat /\ Cardinality(S \ {r}) \in Nat
  BY TryingFacts
<1> QED BY <1>1, <1>2, GuessesNat, TryingFacts, TwoFactorConstants DEF Few


(* What a step may do to a row and to a request, as far as the promise     *)
(* goes: nothing, or one of the moves below.                               *)
SameRow(c) ==
  /\ ch'[c].status = ch[c].status /\ ch'[c].used = ch[c].used
  /\ ch'[c].attempts = ch[c].attempts /\ ch'[c].sessions = ch[c].sessions
SameRows == \A c \in Challenges : SameRow(c)
OtherRows(c) == \A d \in Challenges : d # c => SameRow(d)

CalmRequest(q) ==
  \/ req'[q] = req[q]
  \/ /\ req'[q].pc \notin {"count", "claim", "expired"}
     /\ \A c \in Challenges : Claims(q, c)' <=> Claims(q, c)
CalmRequests == \A q \in Requests : CalmRequest(q)
OtherRequests(r) == \A q \in Requests : q # r => req'[q] = req[q]

Admitted(r, c) ==
  /\ SameRows /\ OtherRequests(r)
  /\ ch[c].status = "open" /\ ~ch[c].used /\ ch[c].attempts < MAX_CHALLENGE_ATTEMPTS
  /\ req[r].pc = "idle" /\ req'[r].ch = c /\ req'[r].pc \in {"expired", "count", "claim"}

Created(c) ==
  /\ OtherRows(c) /\ CalmRequests
  /\ ch[c].status = "unused" /\ ch'[c].status = "open"
  /\ ch'[c].used = ch[c].used
  /\ ch'[c].attempts = ch[c].attempts /\ ch'[c].sessions = ch[c].sessions

Voided ==
  /\ CalmRequests
  /\ \A c \in Challenges :
       \/ SameRow(c)
       \/ /\ ch[c].status # "unused" /\ ch'[c].status = "deleted"
          /\ ch'[c].used = ch[c].used
          /\ ch'[c].attempts = ch[c].attempts /\ ch'[c].sessions = ch[c].sessions

Counted(r, c) ==
  /\ OtherRows(c) /\ OtherRequests(r)
  /\ req[r].pc = "count" /\ req[r].ch = c /\ req'[r].pc = "idle"
  /\ ch[c].status = "open" /\ ch'[c].status = "open"
  /\ ch'[c].attempts = ch[c].attempts + 1
  /\ ch'[c].used = ch[c].used /\ ch'[c].sessions = ch[c].sessions

Claimed(r, c) ==
  /\ OtherRows(c) /\ OtherRequests(r)
  /\ req[r].pc = "claim" /\ req[r].ch = c /\ req'[r].pc \in {"consume", "stamp"}
  /\ req'[r].ch = c
  /\ ch[c].status = "open" /\ ch'[c].status = "open"
  /\ ~ch[c].used /\ ch'[c].used
  /\ ch'[c].attempts = ch[c].attempts /\ ch'[c].sessions = ch[c].sessions

Granted(r, c) ==
  /\ OtherRows(c) /\ OtherRequests(r)
  /\ Claims(r, c) /\ req'[r].pc = "idle"
  /\ ch'[c].sessions = ch[c].sessions + 1
  /\ ch'[c].status = ch[c].status /\ ch'[c].used = ch[c].used
  /\ ch'[c].attempts = ch[c].attempts

Abandoned(r, c) ==
  /\ SameRows /\ OtherRequests(r)
  /\ Claims(r, c) /\ req'[r].pc = "idle"

Moved ==
  \/ SameRows /\ CalmRequests
  \/ Voided
  \/ \E c \in Challenges : Created(c)
  \/ \E r \in Requests, c \in Challenges :
       Admitted(r, c) \/ Counted(r, c) \/ Claimed(r, c) \/ Granted(r, c) \/ Abandoned(r, c)

(* The fields of a row after an update. *)
LEMMA RowUpdates ==
  ASSUME NEW w \in Challenge
  PROVE  /\ \A s : LET u == [w EXCEPT !.status = s] IN
              u.status = s /\ u.used = w.used /\ u.attempts = w.attempts
              /\ u.sessions = w.sessions
         /\ LET u == [w EXCEPT !.expired = TRUE] IN
              u.status = w.status /\ u.used = w.used /\ u.attempts = w.attempts
              /\ u.sessions = w.sessions
         /\ LET u == [w EXCEPT !.used = TRUE] IN
              u.status = w.status /\ u.used = TRUE /\ u.attempts = w.attempts
              /\ u.sessions = w.sessions
         /\ LET u == [w EXCEPT !.attempts = w.attempts + 1] IN
              u.status = w.status /\ u.used = w.used /\ u.attempts = w.attempts + 1
              /\ u.sessions = w.sessions
         /\ LET u == [w EXCEPT !.sessions = w.sessions + 1] IN
              u.status = w.status /\ u.used = w.used /\ u.attempts = w.attempts
              /\ u.sessions = w.sessions + 1
BY DEF Challenge

LEMMA RowDeleted ==
  ASSUME TypeOK, NEW c \in Challenges, ch'[c] = [ch[c] EXCEPT !.status = "deleted"]
  PROVE  /\ ch'[c].status = "deleted" /\ ch'[c].used = ch[c].used
         /\ ch'[c].attempts = ch[c].attempts /\ ch'[c].sessions = ch[c].sessions
<1>1. ch[c] \in Challenge
  BY DEF TypeOK
<1> QED BY <1>1, RowUpdates

(* A request that only ends, before its claim, or moves on outside of it. *)
LEMMA CalmStep ==
  ASSUME TypeOK, NEW r \in Requests,
         \/ req' = Idled(r) /\ req[r].pc \notin {"consume", "stamp", "issue"}
         \/ \E pc \in {"setup", "disable", "challenge"} :
              req' = [req EXCEPT ![r].pc = pc] /\ req[r] = Idle
         \/ req' = [req EXCEPT ![r].pc = "enable", ![r].secret = acct.secret] /\ req[r] = Idle
         \/ req' = [req EXCEPT ![r].pc = "stamp"] /\ req[r].pc = "consume"
         \/ req' = [req EXCEPT ![r].pc = "issue"] /\ req[r].pc = "stamp"
  PROVE  CalmRequests
<1>1. req \in [Requests -> Request] /\ req[r] \in Request
  BY DEF TypeOK
<1>2. CASE req' = Idled(r) /\ req[r].pc \notin {"consume", "stamp", "issue"}
  BY <1>2, IdledFacts, IdleFields DEF CalmRequests, CalmRequest, Claims
<1>3. ASSUME NEW pc \in {"setup", "disable", "challenge"},
             req' = [req EXCEPT ![r].pc = pc], req[r] = Idle
      PROVE  CalmRequests
  <2>1. OtherRequests(r) /\ req'[r].pc = pc
    BY <1>1, <1>3 DEF OtherRequests, Request
  <2> QED BY <1>3, <2>1, IdleFields DEF OtherRequests, CalmRequests, CalmRequest, Claims
<1>4. CASE req' = [req EXCEPT ![r].pc = "enable", ![r].secret = acct.secret] /\ req[r] = Idle
  <2>1. OtherRequests(r) /\ req'[r].pc = "enable"
    BY <1>1, <1>4 DEF OtherRequests, Request
  <2> QED BY <1>4, <2>1, IdleFields DEF OtherRequests, CalmRequests, CalmRequest, Claims
<1>5. ASSUME NEW from \in {"consume", "stamp"}, NEW to \in {"stamp", "issue"},
             req' = [req EXCEPT ![r].pc = to], req[r].pc = from
      PROVE  CalmRequests
  <2>1. OtherRequests(r) /\ req'[r].pc = to /\ req'[r].ch = req[r].ch
    BY <1>1, <1>5 DEF OtherRequests, Request
  <2> QED BY <1>5, <2>1 DEF OtherRequests, CalmRequests, CalmRequest, Claims
<1> QED BY <1>2, <1>3, <1>4, <1>5


(* The steps that leave every row as it is. *)
LEMMA QuietMoved ==
  ASSUME TypeOK, NEW r \in Requests,
         \/ SetupRead(r) \/ SetupWrite(r) \/ EnableRead(r) \/ EnableWrite(r)
         \/ DisableRead(r) \/ DisableWrite(r) \/ LoginRead(r)
         \/ VerifyConsume(r) \/ VerifyStamp(r)
  PROVE  Moved
<1>1. SameRows
  BY DEF SameRows, SameRow, SetupRead, SetupWrite, EnableRead, EnableWrite, DisableRead,
         DisableWrite, LoginRead, VerifyConsume, VerifyStamp
<1>2. \/ req' = Idled(r) /\ req[r].pc \in {"setup", "enable", "disable"}
      \/ \E pc \in {"setup", "disable", "challenge"} :
           req' = [req EXCEPT ![r].pc = pc] /\ req[r] = Idle
      \/ req' = [req EXCEPT ![r].pc = "enable", ![r].secret = acct.secret] /\ req[r] = Idle
      \/ req' = [req EXCEPT ![r].pc = "stamp"] /\ req[r].pc = "consume"
      \/ req' = [req EXCEPT ![r].pc = "issue"] /\ req[r].pc = "stamp"
  BY DEF SetupRead, SetupWrite, EnableRead, EnableWrite, DisableRead, DisableWrite,
         LoginRead, VerifyConsume, VerifyStamp
<1>3. CalmRequests
  BY <1>2, CalmStep
<1> QED BY <1>1, <1>3 DEF Moved

(* Creating a challenge, and deleting those that have expired. *)
LEMMA LifeMoved ==
  ASSUME RefInv, \/ \E r \in Requests : CreateChallenge(r) \/ VerifyExpired(r)
                 \/ CleanupChallenges
  PROVE  Moved
<1>1. TypeOK /\ ch \in [Challenges -> Challenge] /\ req \in [Requests -> Request]
  BY DEF RefInv, Inv, TypeOK
<1>2. ASSUME NEW r \in Requests, CreateChallenge(r) PROVE Moved
  <2>1. PICK c \in Challenges : ch[c].status = "unused" /\ ch' = [ch EXCEPT ![c].status = "open"]
    BY <1>2 DEF CreateChallenge
  <2>2. ch'[c] = [ch[c] EXCEPT !.status = "open"] /\ \A d \in Challenges : d # c => ch'[d] = ch[d]
    BY <1>1, <2>1
  <2>3. CalmRequests
    BY <1>1, <1>2, CalmStep DEF CreateChallenge
  <2>4. Created(c)
    BY <1>1, <2>1, <2>2, <2>3, RowUpdates DEF Created, OtherRows, SameRow
  <2> QED BY <2>4 DEF Moved
<1>3. ASSUME NEW r \in Requests, VerifyExpired(r) PROVE Moved
  <2>1. PICK c \in Challenges : c = req[r].ch /\ ch[c].status # "unused"
    BY <1>3 DEF VerifyExpired, RefInv, Inv, ClaimInv
  <2>2. ch'[c] = [ch[c] EXCEPT !.status = "deleted"]
        /\ \A d \in Challenges : d # c => ch'[d] = ch[d]
    BY <1>1, <1>3, <2>1 DEF VerifyExpired
  <2>3. CalmRequests
    BY <1>1, <1>3, CalmStep DEF VerifyExpired
  <2>4. Voided
    BY <1>1, <2>1, <2>2, <2>3, RowDeleted DEF Voided, SameRow
  <2> QED BY <2>4 DEF Moved
<1>4. CASE CleanupChallenges
  <2>1. \A c \in Challenges :
          \/ ch'[c] = ch[c]
          \/ ch[c].status = "open" /\ ch'[c] = [ch[c] EXCEPT !.status = "deleted"]
    BY <1>4 DEF CleanupChallenges
  <2>2. CalmRequests
    BY <1>4 DEF CleanupChallenges, CalmRequests, CalmRequest
  <2>3. Voided
    BY <1>1, <2>1, <2>2, RowDeleted DEF Voided, SameRow
  <2> QED BY <2>3 DEF Moved
<1> QED BY <1>2, <1>3, <1>4

(* Reading a challenge, and counting a wrong code. *)
LEMMA TryMoved ==
  ASSUME RefInv, NEW r \in Requests,
         (\E c \in Challenges : VerifyRead(r, c)) \/ VerifyCount(r)
  PROVE  Moved
<1>1. TypeOK /\ ch \in [Challenges -> Challenge] /\ req \in [Requests -> Request]
  BY DEF RefInv, Inv, TypeOK
<1>2. ASSUME NEW c \in Challenges, VerifyRead(r, c) PROVE Moved
  <2>1. PICK pc, kind, code :
          VerifyOutcome(r, c, pc, kind, code) /\ pc \in {"expired", "count", "claim"}
    BY <1>2 DEF VerifyRead
  <2>2. OtherRequests(r) /\ req'[r].pc = pc /\ req'[r].ch = c
    BY <1>1, <2>1 DEF VerifyOutcome, OtherRequests
  <2>3. Admitted(r, c)
    BY <1>2, <2>1, <2>2, IdleFields
       DEF VerifyRead, VerifyAdmits, Admitted, SameRows, SameRow
  <2> QED BY <2>3 DEF Moved
<1>3. CASE VerifyCount(r)
  <2>1. PICK c \in Challenges : c = req[r].ch
    BY <1>3 DEF RefInv, Inv, ClaimInv, VerifyCount
  <2>2. OtherRequests(r) /\ req'[r].pc = "idle" /\ req[r].pc = "count"
    BY <1>1, <1>3, IdledFacts, IdleFields DEF VerifyCount, OtherRequests
  <2>3. CASE ch[c].status = "open"
    <3>1. ch'[c] = [ch[c] EXCEPT !.attempts = ch[c].attempts + 1]
          /\ \A d \in Challenges : d # c => ch'[d] = ch[d]
      BY <1>1, <1>3, <2>1, <2>3 DEF VerifyCount
    <3>2. Counted(r, c)
      BY <1>1, <2>1, <2>2, <2>3, <3>1, RowUpdates DEF Counted, OtherRows, SameRow
    <3> QED BY <3>2 DEF Moved
  <2>4. CASE ch[c].status # "open"
    <3>1. ch' = [ch EXCEPT ![c].attempts = ch[c].attempts]
      BY <1>3, <2>1, <2>4 DEF VerifyCount
    <3>2. SameRows
      BY <1>1, <3>1 DEF SameRows, SameRow, Challenge
    <3>3. CalmRequests
      BY <1>1, <1>3, CalmStep DEF VerifyCount
    <3> QED BY <3>2, <3>3 DEF Moved
  <2> QED BY <2>3, <2>4
<1> QED BY <1>2, <1>3

(* The claim, and what becomes of it. *)
LEMMA ClaimMoved ==
  ASSUME RefInv, NEW r \in Requests, VerifyClaim(r) \/ VerifyIssue(r) \/ Fail(r)
  PROVE  Moved
<1>1. TypeOK /\ ch \in [Challenges -> Challenge] /\ req \in [Requests -> Request]
  BY DEF RefInv, Inv, TypeOK
<1>2. CASE VerifyClaim(r)
  <2>1. PICK c \in Challenges : c = req[r].ch
    BY <1>2 DEF RefInv, Inv, ClaimInv, VerifyClaim
  <2>2. CASE ch[c].status = "open" /\ ~ch[c].used
    <3>1. PICK pc \in {"consume", "stamp"} : req' = [req EXCEPT ![r].pc = pc]
      BY <1>2, <2>1, <2>2 DEF VerifyClaim
    <3>2. OtherRequests(r) /\ req'[r].pc = pc /\ req'[r].ch = c
      BY <1>1, <2>1, <3>1 DEF OtherRequests, Request
    <3>3. ch'[c] = [ch[c] EXCEPT !.used = TRUE] /\ \A d \in Challenges : d # c => ch'[d] = ch[d]
      BY <1>1, <1>2, <2>1, <2>2 DEF VerifyClaim
    <3>4. req[r].pc = "claim"
      BY <1>2 DEF VerifyClaim
    <3>5. Claimed(r, c)
      BY <1>1, <2>1, <2>2, <3>2, <3>3, <3>4, RowUpdates DEF Claimed, OtherRows, SameRow
    <3> QED BY <3>5 DEF Moved
  <2>3. CASE ~(ch[c].status = "open" /\ ~ch[c].used)
    <3>1. ch' = ch /\ req' = Idled(r) /\ req[r].pc = "claim"
      BY <1>2, <2>1, <2>3 DEF VerifyClaim
    <3>2. CalmRequests
      BY <1>1, <3>1, CalmStep
    <3> QED BY <3>1, <3>2 DEF Moved, SameRows, SameRow
  <2> QED BY <2>2, <2>3
<1>3. CASE VerifyIssue(r)
  <2>1. PICK c \in Challenges : c = req[r].ch
    BY <1>3 DEF RefInv, Inv, ClaimInv, VerifyIssue
  <2>2. OtherRequests(r) /\ req'[r].pc = "idle" /\ Claims(r, c)
    BY <1>1, <1>3, <2>1, IdledFacts, IdleFields DEF VerifyIssue, OtherRequests, Claims
  <2>3. ch'[c] = [ch[c] EXCEPT !.sessions = ch[c].sessions + 1]
        /\ \A d \in Challenges : d # c => ch'[d] = ch[d]
    BY <1>1, <1>3, <2>1 DEF VerifyIssue
  <2>4. Granted(r, c)
    BY <1>1, <2>2, <2>3, RowUpdates DEF Granted, OtherRows, SameRow
  <2> QED BY <2>4 DEF Moved
<1>4. CASE Fail(r)
  <2>1. SameRows /\ req' = Idled(r)
    BY <1>4 DEF Fail, SameRows, SameRow
  <2>2. CASE req[r].pc \in {"consume", "stamp", "issue"}
    <3>1. PICK c \in Challenges : Claims(r, c)
      BY <2>2 DEF RefInv, Inv, ClaimInv, Claims
    <3>2. Abandoned(r, c)
      BY <1>1, <2>1, <3>1, IdledFacts, IdleFields DEF Abandoned, OtherRequests
    <3> QED BY <3>2 DEF Moved
  <2>3. CASE req[r].pc \notin {"consume", "stamp", "issue"}
    BY <1>1, <2>1, <2>3, CalmStep DEF Moved
  <2> QED BY <2>2, <2>3
<1> QED BY <1>2, <1>3, <1>4

LEMMA StepMoved ==
  ASSUME RefInv, [Next]_vars
  PROVE  Moved
<1>1. TypeOK /\ ch \in [Challenges -> Challenge]
  BY DEF RefInv, Inv, TypeOK
<1>2. ASSUME NEW r \in Requests, RequestStep(r) PROVE Moved
  BY <1>1, <1>2, QuietMoved, LifeMoved, TryMoved, ClaimMoved DEF RequestStep
<1>3. ASSUME NEW r \in Requests, NEW c \in Challenges, VerifyRead(r, c) PROVE Moved
  BY <1>3, TryMoved
<1>4. ASSUME NEW c \in Challenges, ChallengeExpires(c) PROVE Moved
  <2>1. ch'[c] = [ch[c] EXCEPT !.expired = TRUE] /\ req' = req
        /\ \A d \in Challenges : d # c => ch'[d] = ch[d]
    BY <1>1, <1>4 DEF ChallengeExpires
  <2>2. SameRow(c)
    <3>1. ch[c] \in Challenge
      BY <1>1
    <3> QED BY <2>1, <3>1, RowUpdates DEF SameRow
  <2> QED BY <2>1, <2>2 DEF Moved, SameRows, SameRow, CalmRequests, CalmRequest
<1>5. CASE NextStep \/ UNCHANGED vars
  BY <1>5 DEF NextStep, vars, Moved, SameRows, SameRow, CalmRequests, CalmRequest
<1> QED BY <1>2, <1>3, <1>4, <1>5, LifeMoved DEF Next


LEMMA GuessesSame ==
  ASSUME NEW v, NEW w, v.attempts = w.attempts, v.used = w.used
  PROVE  Guesses(v) = Guesses(w)
BY DEF Guesses

LEMMA CalmTrying ==
  ASSUME CalmRequests, NEW c \in Challenges
  PROVE  /\ Trying(req', c) \subseteq Trying(req, c)
         /\ \A q \in Requests : Claims(q, c)' <=> Claims(q, c)
<1>1. \A q \in Requests : req'[q].pc \in {"count", "claim"} => req'[q] = req[q]
  BY DEF CalmRequests, CalmRequest
<1>2. \A q \in Requests : Claims(q, c)' <=> Claims(q, c)
  BY DEF CalmRequests, CalmRequest, Claims
<1> QED BY <1>1, <1>2 DEF Trying

(* One code is tried: counted as wrong, or accepted. *)
LEMMA TriedFew ==
  ASSUME RefInv, Inv', NEW r \in Requests, NEW c \in Challenges,
         Counted(r, c) \/ Claimed(r, c)
  PROVE  /\ Guesses(ch'[c]) = Guesses(ch[c]) + 1
         /\ Guesses(ch[c]) < MAX_CHALLENGE_ATTEMPTS + Cardinality(Requests) - 1
         /\ Few(req', ch', c)
         /\ \A d \in Challenges : d # c => Few(req', ch', d)
<1>1. ch \in [Challenges -> Challenge] /\ ch' \in [Challenges -> Challenge]
  BY DEF RefInv, Inv, TypeOK
<1>2. ch[c] \in Challenge /\ ch[c].attempts \in Nat
  BY <1>1, GuessesNat
<1>3. Guesses(ch'[c]) = Guesses(ch[c]) + 1
  BY <1>2 DEF Counted, Claimed, Guesses
<1>4. r \in Trying(req, c) /\ Trying(req', c) = Trying(req, c) \ {r}
  BY DEF Counted, Claimed, OtherRequests, Trying
<1>5. Few(req, ch, c)
  BY DEF RefInv
<1>6. /\ Guesses(ch[c]) < MAX_CHALLENGE_ATTEMPTS + Cardinality(Requests) - 1
      /\ Few(req', ch', c)
  BY <1>1, <1>3, <1>4, <1>5, FewTried
<1>7. ASSUME NEW d \in Challenges, d # c PROVE Few(req', ch', d)
  <2>1. Trying(req', d) \subseteq Trying(req, d)
    BY <1>7 DEF Counted, Claimed, OtherRequests, Trying
  <2>2. Guesses(ch'[d]) = Guesses(ch[d])
    BY <1>7, GuessesSame DEF Counted, Claimed, OtherRows, SameRow
  <2> QED BY <1>1, <2>1, <2>2, FewKept DEF RefInv
<1> QED BY <1>3, <1>6, <1>7

LEMMA FewStep ==
  ASSUME RefInv, Inv', Moved
  PROVE  \A c \in Challenges : Few(req', ch', c)
<1>1. ch \in [Challenges -> Challenge] /\ ch' \in [Challenges -> Challenge]
  BY DEF RefInv, Inv, TypeOK
<1>2. ASSUME NEW d \in Challenges, ch'[d].attempts = ch[d].attempts, ch'[d].used = ch[d].used,
             Trying(req', d) \subseteq Trying(req, d)
      PROVE  Few(req', ch', d)
  <2>1. Guesses(ch'[d]) = Guesses(ch[d])
    BY <1>2, GuessesSame
  <2> QED BY <1>1, <1>2, <2>1, FewKept DEF RefInv
<1>3. ASSUME CalmRequests, \A d \in Challenges : ch'[d].attempts = ch[d].attempts
                                              /\ ch'[d].used = ch[d].used
      PROVE  \A d \in Challenges : Few(req', ch', d)
  BY <1>2, <1>3, CalmTrying
<1>4. CASE SameRows /\ CalmRequests
  BY <1>3, <1>4 DEF SameRows, SameRow
<1>5. CASE Voided
  BY <1>3, <1>5 DEF Voided, SameRow
<1>6. ASSUME NEW c \in Challenges, Created(c) PROVE \A d \in Challenges : Few(req', ch', d)
  BY <1>3, <1>6 DEF Created, OtherRows, SameRow
<1>7. ASSUME NEW r \in Requests, NEW c \in Challenges, Granted(r, c) \/ Abandoned(r, c)
      PROVE  \A d \in Challenges : Few(req', ch', d)
  <2>1. \A d \in Challenges : ch'[d].attempts = ch[d].attempts /\ ch'[d].used = ch[d].used
    BY <1>7 DEF Granted, Abandoned, OtherRows, SameRows, SameRow
  <2>2. \A d \in Challenges : Trying(req', d) \subseteq Trying(req, d)
    BY <1>7 DEF Granted, Abandoned, OtherRequests, Trying
  <2> QED BY <1>2, <2>1, <2>2
<1>8. ASSUME NEW r \in Requests, NEW c \in Challenges, Admitted(r, c)
      PROVE  \A d \in Challenges : Few(req', ch', d)
  <2>1. Few(req', ch', c)
    <3>1. ch'[c].attempts < MAX_CHALLENGE_ATTEMPTS /\ ~ch'[c].used
      BY <1>8 DEF Admitted, SameRows, SameRow
    <3> QED BY <1>1, <3>1, FewAdmitted
  <2>2. ASSUME NEW d \in Challenges, d # c PROVE Few(req', ch', d)
    <3>1. Trying(req', d) \subseteq Trying(req, d)
      BY <1>8, <2>2 DEF Admitted, OtherRequests, Trying
    <3> QED BY <1>2, <1>8, <3>1 DEF Admitted, SameRows, SameRow
  <2> QED BY <2>1, <2>2
<1>9. ASSUME NEW r \in Requests, NEW c \in Challenges, Counted(r, c) \/ Claimed(r, c)
      PROVE  \A d \in Challenges : Few(req', ch', d)
  BY <1>9, TriedFew
<1> QED BY <1>4, <1>5, <1>6, <1>7, <1>8, <1>9 DEF Moved

LEMMA ExpiredStep ==
  ASSUME RefInv, Moved
  PROVE  \A r \in Requests : req'[r].pc = "expired" => ch'[req'[r].ch].status # "unused"
<1>1. \A r \in Requests : req[r].pc = "expired" => req[r].ch \in Challenges
  BY DEF RefInv, Inv, ClaimInv
<1>2. \A c \in Challenges : ch[c].status # "unused" => ch'[c].status # "unused"
  BY DEF Moved, SameRows, SameRow, Voided, Created, OtherRows, Admitted, Counted, Claimed,
         Granted, Abandoned
<1>3. \A r \in Requests : req'[r].pc = "expired" =>
        \/ req[r].pc = "expired" /\ req'[r].ch = req[r].ch
        \/ req'[r].ch \in Challenges /\ ch[req'[r].ch].status # "unused"
  BY DEF Moved, CalmRequests, CalmRequest, Voided, Created, OtherRequests, Admitted, Counted,
         Claimed, Granted, Abandoned
<1> QED BY <1>1, <1>2, <1>3 DEF RefInv

LEMMA RefInvStep == RefInv /\ [Next]_vars => RefInv'
<1> SUFFICES ASSUME RefInv, [Next]_vars PROVE RefInv'
  OBVIOUS
<1>1. Inv' /\ Moved
  BY NextInv, StepMoved DEF RefInv
<1>2. (\A c \in Challenges : Few(req, ch, c))'
  BY <1>1, FewStep
<1>3. (\A r \in Requests : req[r].pc = "expired" => ch[req[r].ch].status # "unused")'
  BY <1>1, ExpiredStep
<1> QED BY <1>1, <1>2, <1>3 DEF RefInv

LEMMA RefInvInit == Init => RefInv
<1> SUFFICES ASSUME Init PROVE RefInv
  OBVIOUS
<1>1. Inv
  BY InitInv
<1>2. \A r \in Requests : req[r].pc = "idle"
  BY IdleFields DEF Init
<1>3. \A c \in Challenges : ch[c].attempts = 0 /\ ch[c].used = FALSE
  BY DEF Init
<1>4. \A c \in Challenges : Few(req, ch, c)
  BY <1>1, <1>3, FewAdmitted, TwoFactorConstants DEF Inv, TypeOK
<1> QED BY <1>1, <1>2, <1>4 DEF RefInv


(* The phase of a challenge, of a table of requests and a row. *)
Held(R, c) == \E r \in Requests : R[r].ch = c /\ R[r].pc \in {"consume", "stamp", "issue"}
PhaseOf(h, w) ==
  IF w.sessions > 0 THEN "granted"
  ELSE IF h THEN "claimed"
  ELSE IF w.used THEN "spent"
  ELSE IF w.status = "deleted" THEN "void"
  ELSE IF w.status = "open" THEN "open"
  ELSE "none"

LEMMA Mapped ==
  /\ phase = [c \in Challenges |-> PhaseOf(Held(req, c), ch[c])]
  /\ phase' = [c \in Challenges |-> PhaseOf(Held(req', c), ch'[c])]
  /\ guesses = [c \in Challenges |-> Guesses(ch[c])]
  /\ guesses' = [c \in Challenges |-> Guesses(ch'[c])]
  /\ sessions = [c \in Challenges |-> ch[c].sessions]
  /\ sessions' = [c \in Challenges |-> ch'[c].sessions]
<1>1. phase = [c \in Challenges |-> PhaseOf(Held(req, c), ch[c])]
  BY DEF phase, PhaseOf, Held, Claims
<1>2. phase' = [c \in Challenges |-> PhaseOf(Held(req', c), ch'[c])]
  BY DEF phase, PhaseOf, Held, Claims
<1>3. /\ guesses = [c \in Challenges |-> Guesses(ch[c])]
      /\ guesses' = [c \in Challenges |-> Guesses(ch'[c])]
  BY DEF guesses, Guesses
<1>4. /\ sessions = [c \in Challenges |-> ch[c].sessions]
      /\ sessions' = [c \in Challenges |-> ch'[c].sessions]
  BY DEF sessions
<1> QED BY <1>1, <1>2, <1>3, <1>4

LEMMA SamePhase ==
  ASSUME NEW g, NEW h, NEW v, NEW w, g = h,
         v.status = w.status, v.used = w.used, v.sessions = w.sessions
  PROVE  PhaseOf(g, v) = PhaseOf(h, w)
BY DEF PhaseOf

(* A function that changes at one point. *)
LEMMA OnePoint ==
  ASSUME NEW S, NEW f, NEW g, NEW c \in S,
         f = [d \in S |-> f[d]], g = [d \in S |-> g[d]],
         \A d \in S : d # c => g[d] = f[d]
  PROVE  g = [f EXCEPT ![c] = g[c]]
OBVIOUS

(* Nothing happens to a challenge that the promise tells apart. *)
SameMapped(d) ==
  phase'[d] = phase[d] /\ guesses'[d] = guesses[d] /\ sessions'[d] = sessions[d]

LEMMA MappedKept ==
  ASSUME NEW d \in Challenges, SameRow(d), \A q \in Requests : Claims(q, d)' <=> Claims(q, d)
  PROVE  SameMapped(d)
<1>1. Held(req', d) = Held(req, d)
  BY DEF Held, Claims
<1>2. PhaseOf(Held(req', d), ch'[d]) = PhaseOf(Held(req, d), ch[d])
  BY <1>1, SamePhase DEF SameRow
<1>3. Guesses(ch'[d]) = Guesses(ch[d])
  BY GuessesSame DEF SameRow
<1> QED BY <1>2, <1>3, Mapped DEF SameMapped, SameRow

LEMMA AllKept ==
  ASSUME \A d \in Challenges : SameMapped(d)
  PROVE  UNCHANGED OneShot!vars
<1>1. phase' = phase
  BY Mapped DEF SameMapped
<1>2. guesses' = guesses /\ sessions' = sessions
  BY Mapped DEF SameMapped
<1> QED BY <1>1, <1>2 DEF OneShot!vars

(* A move of one challenge. *)
LEMMA OneMoves ==
  ASSUME NEW c \in Challenges, \A d \in Challenges : d # c => SameMapped(d)
  PROVE  /\ phase' = [phase EXCEPT ![c] = phase'[c]]
         /\ guesses' = [guesses EXCEPT ![c] = guesses'[c]]
         /\ sessions' = [sessions EXCEPT ![c] = sessions'[c]]
         /\ phase'[c] = phase[c] => phase' = phase
         /\ guesses'[c] = guesses[c] => guesses' = guesses
         /\ sessions'[c] = sessions[c] => sessions' = sessions
<1>1. /\ phase = [d \in Challenges |-> phase[d]] /\ phase' = [d \in Challenges |-> phase'[d]]
      /\ guesses = [d \in Challenges |-> guesses[d]]
      /\ guesses' = [d \in Challenges |-> guesses'[d]]
      /\ sessions = [d \in Challenges |-> sessions[d]]
      /\ sessions' = [d \in Challenges |-> sessions'[d]]
  BY DEF phase, guesses, sessions
<1>2. /\ phase' = [phase EXCEPT ![c] = phase'[c]]
      /\ \A d \in Challenges : d # c => phase'[d] = phase[d]
  BY <1>1, OnePoint DEF SameMapped
<1>3. /\ guesses' = [guesses EXCEPT ![c] = guesses'[c]]
      /\ \A d \in Challenges : d # c => guesses'[d] = guesses[d]
  BY <1>1, OnePoint DEF SameMapped
<1>4. /\ sessions' = [sessions EXCEPT ![c] = sessions'[c]]
      /\ \A d \in Challenges : d # c => sessions'[d] = sessions[d]
  BY <1>1, OnePoint DEF SameMapped
<1>5. phase'[c] = phase[c] => phase' = phase
  BY <1>1, <1>2
<1>6. guesses'[c] = guesses[c] => guesses' = guesses
  BY <1>1, <1>3
<1>7. sessions'[c] = sessions[c] => sessions' = sessions
  BY <1>1, <1>4
<1> QED BY <1>2, <1>3, <1>4, <1>5, <1>6, <1>7


(* What is known of a challenge in each phase. *)
LEMMA PhaseFacts ==
  ASSUME Inv, NEW c \in Challenges
  PROVE  /\ phase[c] = PhaseOf(Held(req, c), ch[c])
         /\ phase'[c] = PhaseOf(Held(req', c), ch'[c])
         /\ guesses[c] = Guesses(ch[c]) /\ guesses'[c] = Guesses(ch'[c])
         /\ sessions[c] = ch[c].sessions /\ sessions'[c] = ch'[c].sessions
         /\ ch[c].sessions \in Nat
         /\ ~ch[c].used => ch[c].sessions = 0 /\ ~Held(req, c)
         /\ Held(req, c) => ch[c].sessions = 0
         /\ \A r \in Requests : Claims(r, c) => Held(req, c)
<1>1. \A r \in Requests : Claims(r, c) => ch[c].used /\ ch[c].sessions = 0
  BY DEF Inv, ClaimInv
<1>2. ch[c].sessions \in Nat /\ (~ch[c].used => ch[c].sessions = 0)
  BY DEF Inv, TypeOK, ClaimInv, Challenge
<1>3. Held(req, c) => \E r \in Requests : Claims(r, c)
  BY DEF Held, Claims
<1>4. \A r \in Requests : Claims(r, c) => Held(req, c)
  BY DEF Held, Claims
<1> QED BY <1>1, <1>2, <1>3, <1>4, Mapped

LEMMA OthersMapped ==
  ASSUME NEW r \in Requests, NEW c \in Challenges, OtherRows(c), OtherRequests(r),
         \A d \in Challenges : d # c => ~Claims(r, d) /\ ~Claims(r, d)'
  PROVE  \A d \in Challenges : d # c => SameMapped(d)
<1>1. ASSUME NEW d \in Challenges, d # c PROVE SameMapped(d)
  <2>1. \A q \in Requests : Claims(q, d)' <=> Claims(q, d)
    BY <1>1 DEF OtherRequests, Claims
  <2>2. SameRow(d)
    BY <1>1 DEF OtherRows
  <2> QED BY <2>1, <2>2, MappedKept
<1> QED BY <1>1

LEMMA CreatedRefines ==
  ASSUME RefInv, NEW c \in Challenges, Created(c)
  PROVE  OneShot!Create(c) \/ UNCHANGED OneShot!vars
<1>1. \A q \in Requests, d \in Challenges : Claims(q, d)' <=> Claims(q, d)
  BY CalmTrying DEF Created
<1>2. \A d \in Challenges : d # c => SameMapped(d)
  BY <1>1, MappedKept DEF Created, OtherRows
<1>3. Held(req', c) = Held(req, c)
  BY <1>1 DEF Held, Claims
<1>4. guesses'[c] = guesses[c] /\ sessions'[c] = sessions[c]
  BY PhaseFacts, GuessesSame DEF RefInv, Created
<1>5. CASE ch[c].used
  <2>1. phase'[c] = phase[c]
    BY <1>3, <1>5, PhaseFacts DEF RefInv, Created, PhaseOf
  <2> QED BY <1>2, <1>4, <2>1, AllKept DEF SameMapped
<1>6. CASE ~ch[c].used
  <2>1. phase[c] = "none" /\ phase'[c] = "open"
    BY <1>3, <1>6, PhaseFacts DEF RefInv, Created, PhaseOf
  <2> QED BY <1>2, <1>4, <2>1, OneMoves DEF OneShot!Create, OneShot!Moves
<1> QED BY <1>5, <1>6

LEMMA VoidedRefines ==
  ASSUME RefInv, Voided
  PROVE  OneShot!Void
<1> DEFINE S == {c \in Challenges : phase[c] = "open" /\ phase'[c] = "void"}
<1>1. \A q \in Requests, d \in Challenges : Claims(q, d)' <=> Claims(q, d)
  BY CalmTrying DEF Voided
<1>2. ASSUME NEW d \in Challenges
      PROVE  /\ guesses'[d] = guesses[d] /\ sessions'[d] = sessions[d]
             /\ phase'[d] = IF d \in S THEN "void" ELSE phase[d]
  <2>1. CASE SameRow(d)
    <3>1. SameMapped(d)
      BY <1>1, <2>1, MappedKept
    <3> QED BY <3>1 DEF SameMapped
  <2>2. CASE /\ ch[d].status # "unused" /\ ch'[d].status = "deleted"
             /\ ch'[d].used = ch[d].used
             /\ ch'[d].attempts = ch[d].attempts /\ ch'[d].sessions = ch[d].sessions
    <3>1. guesses'[d] = guesses[d] /\ sessions'[d] = sessions[d]
      BY <2>2, PhaseFacts, GuessesSame DEF RefInv
    <3>2. Held(req', d) = Held(req, d)
      BY <1>1 DEF Held, Claims
    <3>3. ch[d].status \in {"open", "deleted"}
      BY <2>2 DEF RefInv, Inv, TypeOK, Challenge
    <3>4. phase'[d] = phase[d] \/ (phase[d] = "open" /\ phase'[d] = "void")
      BY <2>2, <3>2, <3>3, PhaseFacts DEF RefInv, PhaseOf
    <3> QED BY <3>1, <3>4
  <2> QED BY <2>1, <2>2 DEF Voided
<1>3. guesses' = guesses /\ sessions' = sessions
  BY <1>2, Mapped
<1>4. phase' = [c \in Challenges |-> IF c \in S THEN "void" ELSE phase[c]]
  <2>1. phase' = [c \in Challenges |-> phase'[c]]
    BY DEF phase
  <2> HIDE DEF S
  <2> QED BY <1>2, <2>1
<1>5. S \in SUBSET {c \in Challenges : phase[c] = "open"}
  OBVIOUS
<1> QED BY <1>3, <1>4, <1>5 DEF OneShot!Void

LEMMA TriedRefines ==
  ASSUME RefInv, Inv', NEW r \in Requests, NEW c \in Challenges
  PROVE  /\ Counted(r, c) => OneShot!Wrong(c)
         /\ Claimed(r, c) => OneShot!Claim(c)
<1>1. ASSUME Counted(r, c) \/ Claimed(r, c)
      PROVE  /\ \A d \in Challenges : d # c => SameMapped(d)
             /\ guesses[c] < MAX_CHALLENGE_ATTEMPTS + Cardinality(Requests) - 1
             /\ guesses'[c] = guesses[c] + 1 /\ sessions'[c] = sessions[c]
  <2>1. OtherRows(c) /\ OtherRequests(r)
        /\ \A d \in Challenges : d # c => ~Claims(r, d) /\ ~Claims(r, d)'
    BY <1>1 DEF Counted, Claimed, Claims
  <2>2. \A d \in Challenges : d # c => SameMapped(d)
    BY <2>1, OthersMapped
  <2>3. /\ Guesses(ch'[c]) = Guesses(ch[c]) + 1
        /\ Guesses(ch[c]) < MAX_CHALLENGE_ATTEMPTS + Cardinality(Requests) - 1
    BY <1>1, TriedFew
  <2>4. ch'[c].sessions = ch[c].sessions
    BY <1>1 DEF Counted, Claimed
  <2> QED BY <2>2, <2>3, <2>4, PhaseFacts DEF RefInv
<1>2. ASSUME Counted(r, c) PROVE OneShot!Wrong(c)
  <2>1. Held(req', c) = Held(req, c)
    BY <1>2 DEF Counted, OtherRequests, Held
  <2>2. phase'[c] = phase[c] /\ phase[c] \notin {"none", "void"}
    BY <1>2, <2>1, PhaseFacts DEF RefInv, Counted, PhaseOf
  <2> QED BY <1>1, <1>2, <2>2, OneMoves DEF OneShot!Wrong, OneShot!Tries
<1>3. ASSUME Claimed(r, c) PROVE OneShot!Claim(c)
  <2>1. Held(req', c)
    BY <1>3 DEF Claimed, Held
  <2>2. phase[c] = "open" /\ phase'[c] = "claimed"
    BY <1>3, <2>1, PhaseFacts DEF RefInv, Claimed, PhaseOf
  <2> QED BY <1>1, <1>3, <2>2, OneMoves DEF OneShot!Claim, OneShot!Moves, OneShot!Tries
<1> QED BY <1>2, <1>3

(* The claim is held by one request: it ends with it. *)
LEMMA EndedRefines ==
  ASSUME RefInv, NEW r \in Requests, NEW c \in Challenges
  PROVE  /\ Granted(r, c) => OneShot!Grant(c)
         /\ Abandoned(r, c) => OneShot!Abandon(c)
<1>1. ASSUME Granted(r, c) \/ Abandoned(r, c)
      PROVE  /\ \A d \in Challenges : d # c => SameMapped(d)
             /\ guesses'[c] = guesses[c]
             /\ phase[c] = "claimed" /\ ch[c].used /\ ch[c].sessions = 0
             /\ ~Held(req', c)
  <2>1. OtherRows(c) /\ OtherRequests(r) /\ Claims(r, c) /\ req'[r].pc = "idle"
        /\ \A d \in Challenges : d # c => ~Claims(r, d) /\ ~Claims(r, d)'
    BY <1>1 DEF Granted, Abandoned, SameRows, OtherRows, Claims
  <2>2. \A d \in Challenges : d # c => SameMapped(d)
    BY <2>1, OthersMapped
  <2>3. ch'[c].attempts = ch[c].attempts /\ ch'[c].used = ch[c].used
    BY <1>1 DEF Granted, Abandoned, SameRows, SameRow
  <2>4. ch[c].used /\ ch[c].sessions = 0 /\ \A q \in Requests : Claims(q, c) => q = r
    BY <2>1 DEF RefInv, Inv, ClaimInv
  <2>5. ~Held(req', c)
    BY <2>1, <2>4 DEF Held, OtherRequests, Claims
  <2>6. phase[c] = "claimed"
    BY <2>1, <2>4, PhaseFacts DEF RefInv, PhaseOf
  <2> QED BY <2>2, <2>3, <2>4, <2>5, <2>6, PhaseFacts, GuessesSame DEF RefInv
<1>2. ASSUME Granted(r, c) PROVE OneShot!Grant(c)
  <2>1. ch'[c].sessions = 1 /\ sessions'[c] = sessions[c] + 1
    BY <1>1, <1>2, PhaseFacts DEF RefInv, Granted
  <2>2. phase'[c] = "granted"
    BY <2>1, PhaseFacts DEF RefInv, PhaseOf
  <2> QED BY <1>1, <1>2, <2>1, <2>2, OneMoves DEF OneShot!Grant, OneShot!Moves
<1>3. ASSUME Abandoned(r, c) PROVE OneShot!Abandon(c)
  <2>1. ch'[c].sessions = 0 /\ ch'[c].used /\ sessions'[c] = sessions[c]
    BY <1>1, <1>3, PhaseFacts DEF RefInv, Abandoned, SameRows, SameRow
  <2>2. phase'[c] = "spent"
    BY <1>1, <1>3, <2>1, PhaseFacts DEF RefInv, PhaseOf
  <2> QED BY <1>1, <1>3, <2>1, <2>2, OneMoves DEF OneShot!Abandon, OneShot!Moves
<1> QED BY <1>2, <1>3

LEMMA StepRefines ==
  ASSUME RefInv, RefInv', [Next]_vars
  PROVE  [OneShot!Next]_(OneShot!vars)
<1>1. Moved /\ Inv'
  BY StepMoved DEF RefInv
<1>2. CASE SameRows /\ CalmRequests
  BY <1>2, CalmTrying, MappedKept, AllKept DEF SameRows
<1>3. CASE Voided
  BY <1>3, VoidedRefines DEF OneShot!Next
<1>4. ASSUME NEW c \in Challenges, Created(c) PROVE [OneShot!Next]_(OneShot!vars)
  BY <1>4, CreatedRefines DEF OneShot!Next
<1>5. ASSUME NEW r \in Requests, NEW c \in Challenges, Admitted(r, c)
      PROVE  UNCHANGED OneShot!vars
  <2>1. ASSUME NEW d \in Challenges PROVE SameMapped(d)
    <3>1. \A q \in Requests : Claims(q, d)' <=> Claims(q, d)
      BY <1>5 DEF Admitted, OtherRequests, Claims
    <3>2. SameRow(d)
      BY <1>5 DEF Admitted, SameRows
    <3> QED BY <3>1, <3>2, MappedKept
  <2> QED BY <2>1, AllKept
<1>6. ASSUME NEW r \in Requests, NEW c \in Challenges,
             Counted(r, c) \/ Claimed(r, c) \/ Granted(r, c) \/ Abandoned(r, c)
      PROVE  OneShot!Next
  BY <1>1, <1>6, TriedRefines, EndedRefines DEF OneShot!Next
<1> QED BY <1>1, <1>2, <1>3, <1>4, <1>5, <1>6 DEF Moved

LEMMA InitRefines == Init => OneShot!Init
<1> SUFFICES ASSUME Init PROVE OneShot!Init
  OBVIOUS
<1>1. Inv
  BY InitInv
<1>2. ASSUME NEW c \in Challenges
      PROVE  phase[c] = "none" /\ guesses[c] = 0 /\ sessions[c] = 0
  <2>1. ch[c].status = "unused" /\ ch[c].used = FALSE /\ ch[c].attempts = 0
        /\ ch[c].sessions = 0
    BY DEF Init
  <2>2. ~Held(req, c)
    BY IdleFields DEF Init, Held
  <2> QED BY <1>1, <2>1, <2>2, Mapped DEF PhaseOf, Guesses
<1>3. /\ phase = [c \in Challenges |-> phase[c]] /\ guesses = [c \in Challenges |-> guesses[c]]
      /\ sessions = [c \in Challenges |-> sessions[c]]
  BY DEF phase, guesses, sessions
<1> QED BY <1>2, <1>3 DEF OneShot!Init

(* verifyChallenge, createChallenge and cleanupTwoFactorChallenges, run by *)
(* any number of requests that overlap, fail and retry, do to a challenge  *)
(* only what LoginChallenge promises: one claim, one session or none, a    *)
(* bounded number of codes tried, and no way back.                         *)
THEOREM ChallengeRefinement == Spec => ChallengeOneShot
<1>1. RefInv /\ RefInv' /\ [Next]_vars => [OneShot!Next]_(OneShot!vars)
  BY StepRefines
<1>2. Spec => []RefInv
  BY RefInvInit, RefInvStep, PTL DEF Spec
<1> QED
  BY <1>1, <1>2, InitRefines, PTL DEF Spec, ChallengeOneShot, OneShot!Spec
=============================================================================
