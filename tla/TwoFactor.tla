----------------------------- MODULE TwoFactor ------------------------------
(***************************************************************************)
(* The second factor of one account: set-up, enabling and disabling it,    *)
(* and the login challenges that are answered with a TOTP or backup code.  *)
(* Every query is keyed by the account's or the challenge's id, so one     *)
(* account is enough.                                                      *)
(*                                                                         *)
(* As in Sessions, a request stops at every await of a database call and   *)
(* keeps in its record what it read before.  The secret, the backup codes  *)
(* and the codes a client types are identities: a TOTP code is the pair of *)
(* the secret and the time step it was computed for.  The gates for        *)
(* banned, suspended and deleted accounts refuse a request without a       *)
(* write: such a request is one that is not started.                       *)
(***************************************************************************)
EXTENDS Naturals, FiniteSets

CONSTANTS
  Codes,       \* positions in a batch of backup codes (BACKUP_CODE_COUNT)
  Challenges,  \* identities of two_factor_challenges rows
  NoChallenge,
  Requests,    \* request slots
  Ops,         \* endpoints called in this instance
  MAX_CHALLENGE_ATTEMPTS,
  MaxSecrets,  \* bound: secrets generated
  MaxGen,      \* bound: times the second factor is enabled
  MaxStep      \* bound: TOTP time steps

AllOps == {"setup", "enable", "disable", "login", "verify"}

ASSUME TwoFactorConstants ==
  /\ NoChallenge \notin Challenges
  /\ Ops \subseteq AllOps
  /\ MAX_CHALLENGE_ATTEMPTS \in Nat \ {0}
  /\ {MaxSecrets, MaxGen} \subseteq Nat /\ MaxStep \in Nat \ {0}
  /\ IsFiniteSet(Requests)

VARIABLES
  acct,     \* the users row
  ch,       \* two_factor_challenges rows
  req,      \* requests in flight
  now,      \* the current TOTP time step
  spent     \* history: how the codes were spent

vars == <<acct, ch, req, now, spent>>

-----------------------------------------------------------------------------
(* Types *)

(* Secret 0 is null, time step 0 is null. *)
Secret == 0..MaxSecrets
Totp == [secret : 1..MaxSecrets, step : 1..MaxStep]
Backup == [gen : 1..MaxGen, id : Codes]
NoCode == [gen |-> 0, id |-> 0]

(* fresh and gen number the secrets and the batches of backup codes.       *)
Account == [enabled : BOOLEAN, secret : Secret, codes : SUBSET Backup,
            lastStep : 0..MaxStep,
            fresh : Secret, gen : 0..MaxGen,
            verified : Secret]  \* history: secret whose code enabled the factor

Challenge == [status : {"unused", "open", "deleted"}, used : BOOLEAN,
              attempts : Nat, expired : BOOLEAN,
              sessions : Nat]   \* history: sessions it was exchanged for

(* kind and code: what the typed code was found to be. *)
Request == [pc : {"idle", "setup", "enable", "disable", "challenge", "expired",
                  "count", "claim", "consume", "stamp", "issue"},
            ch : Challenges \cup {NoChallenge},
            kind : {"none", "totp", "backup"}, code : Totp \cup Backup \cup {NoCode},
            secret : Secret, codes : SUBSET Backup]

Idle == [pc |-> "idle", ch |-> NoChallenge, kind |-> "none", code |-> NoCode,
         secret |-> 0, codes |-> {}]

TypeOK ==
  /\ acct \in Account
  /\ ch \in [Challenges -> Challenge]
  /\ req \in [Requests -> Request]
  /\ now \in 1..MaxStep
  /\ spent \in [once : SUBSET (Totp \cup Backup), twice : SUBSET (Totp \cup Backup)]

-----------------------------------------------------------------------------
(* Codes *)

(* otplib verify with epochTolerance [30, 0]: the current step or the one  *)
(* before, later than afterTimeStep if one is given.                       *)
TotpValid(code, secret, afterStep) ==
  /\ code.secret = secret
  /\ code.step \in {now, now - 1}
  /\ code.step > afterStep

(* The codes a client can have: computed from a secret it was shown, for a *)
(* step that has begun, or printed when the factor was enabled.            *)
TotpCodes == {c \in Totp : c.secret <= acct.fresh /\ c.step <= now}
BackupCodes == {c \in Backup : c.gen <= acct.gen}

Idled(r) == [req EXCEPT ![r] = Idle]

-----------------------------------------------------------------------------
(* Set-up, enabling, disabling: read, then an unconditional write.         *)

(* Mutant: setup does not look at twoFactorEnabled. *)
SetupReadAnytime(r) ==
  /\ "setup" \in Ops /\ req[r] = Idle
  /\ req' = [req EXCEPT ![r].pc = "setup"]
  /\ UNCHANGED <<acct, ch, now, spent>>

SetupRead(r) ==
  /\ "setup" \in Ops /\ req[r] = Idle
  /\ ~acct.enabled
  /\ req' = [req EXCEPT ![r].pc = "setup"]
  /\ UNCHANGED <<acct, ch, now, spent>>

SetupWrite(r) ==
  /\ req[r].pc = "setup" /\ acct.fresh < MaxSecrets
  /\ acct' = [acct EXCEPT !.secret = acct.fresh + 1, !.fresh = acct.fresh + 1]
  /\ req' = Idled(r)
  /\ UNCHANGED <<ch, now, spent>>

(* The code is checked against the secret that was read. *)
EnableRead(r) ==
  /\ "enable" \in Ops /\ req[r] = Idle
  /\ ~acct.enabled /\ acct.secret # 0
  /\ \E c \in TotpCodes : TotpValid(c, acct.secret, 0)
  /\ req' = [req EXCEPT ![r].pc = "enable", ![r].secret = acct.secret]
  /\ UNCHANGED <<acct, ch, now, spent>>

(* One transaction; the revocation of sessions is module Sessions'.        *)
EnableWrite(r) ==
  /\ req[r].pc = "enable" /\ acct.gen < MaxGen
  /\ acct' = [acct EXCEPT !.enabled = TRUE, !.gen = acct.gen + 1,
                !.codes = {[gen |-> acct.gen + 1, id |-> i] : i \in Codes},
                !.verified = req[r].secret]
  /\ req' = Idled(r)
  /\ UNCHANGED <<ch, now, spent>>

DisableRead(r) ==
  /\ "disable" \in Ops /\ req[r] = Idle
  /\ acct.enabled
  /\ req' = [req EXCEPT ![r].pc = "disable"]
  /\ UNCHANGED <<acct, ch, now, spent>>

DisableWrite(r) ==
  /\ req[r].pc = "disable"
  /\ acct' = [acct EXCEPT !.enabled = FALSE, !.secret = 0, !.codes = {},
                          !.lastStep = 0]
  /\ req' = Idled(r)
  /\ UNCHANGED <<ch, now, spent>>

-----------------------------------------------------------------------------
(* Challenges *)

(* login and googleLogin saw twoFactorEnabled: createChallenge. *)
LoginRead(r) ==
  /\ "login" \in Ops /\ req[r] = Idle
  /\ acct.enabled
  /\ req' = [req EXCEPT ![r].pc = "challenge"]
  /\ UNCHANGED <<acct, ch, now, spent>>

CreateChallenge(r) ==
  /\ req[r].pc = "challenge"
  /\ \E c \in Challenges :
       /\ ch[c].status = "unused"
       /\ ch' = [ch EXCEPT ![c].status = "open"]
  /\ req' = Idled(r)
  /\ UNCHANGED <<acct, now, spent>>

(* verifyChallenge reads the challenge with its user, refuses, or decides  *)
(* what the typed code is: a TOTP code, else a backup code, else wrong.    *)
(* An account whose secret is null accepts no TOTP code (verify throws).   *)
VerifyOutcome(r, c, pc, kind, code) ==
  req' = [req EXCEPT ![r] = [pc |-> pc, ch |-> c, kind |-> kind, code |-> code,
                             secret |-> 0,
                             codes |-> IF kind = "backup" THEN acct.codes ELSE {}]]

(* The refusals before the code is looked at that write nothing.  Mutant:  *)
(* the number of attempts is not looked at.                                *)
VerifyAdmitsTired(c) == ch[c].status = "open" /\ ~ch[c].used
VerifyAdmits(c) ==
  /\ ch[c].status = "open" /\ ~ch[c].used
  /\ ch[c].attempts < MAX_CHALLENGE_ATTEMPTS

VerifyRead(r, c) ==
  /\ "verify" \in Ops /\ req[r] = Idle /\ VerifyAdmits(c)
  /\ \/ ch[c].expired /\ VerifyOutcome(r, c, "expired", "none", NoCode)
     \/ /\ ~ch[c].expired
        /\ \/ VerifyOutcome(r, c, "count", "none", NoCode)
           \/ \E code \in TotpCodes : /\ TotpValid(code, acct.secret, acct.lastStep)
                                      /\ VerifyOutcome(r, c, "claim", "totp", code)
           \/ \E code \in BackupCodes : /\ code \in acct.codes
                                        /\ VerifyOutcome(r, c, "claim", "backup", code)
  /\ UNCHANGED <<acct, ch, now, spent>>

(* The expired challenge is deleted. *)
VerifyExpired(r) ==
  /\ req[r].pc = "expired"
  /\ ch' = [ch EXCEPT ![req[r].ch].status = "deleted"]
  /\ req' = Idled(r)
  /\ UNCHANGED <<acct, now, spent>>

(* A wrong code: attempts is incremented by the database.  The update      *)
(* fails when cleanup has taken the row.  Mutant: it is decremented.       *)
VerifyCountDown(r) ==
  /\ req[r].pc = "count"
  /\ ch' = [ch EXCEPT ![req[r].ch].attempts = @ - 1]
  /\ req' = Idled(r)
  /\ UNCHANGED <<acct, now, spent>>

VerifyCount(r) ==
  LET c == req[r].ch IN
  /\ req[r].pc = "count"
  /\ ch' = [ch EXCEPT ![c].attempts = IF ch[c].status = "open" THEN @ + 1 ELSE @]
  /\ req' = Idled(r)
  /\ UNCHANGED <<acct, now, spent>>

(* Mutant: the claim does not look at used. *)
VerifyClaimUnguarded(r) ==
  /\ req[r].pc = "claim"
  /\ ch' = [ch EXCEPT ![req[r].ch].used = TRUE]
  /\ req' = [req EXCEPT ![r].pc = IF req[r].kind = "backup" THEN "consume" ELSE "stamp"]
  /\ UNCHANGED <<acct, now, spent>>

(* updateMany where used: false; count 0 ends the request. *)
VerifyClaim(r) ==
  LET c == req[r].ch IN
  /\ req[r].pc = "claim"
  /\ IF ch[c].status = "open" /\ ~ch[c].used
       THEN /\ ch' = [ch EXCEPT ![c].used = TRUE]
            /\ req' = [req EXCEPT ![r].pc = IF req[r].kind = "backup"
                                              THEN "consume" ELSE "stamp"]
       ELSE ch' = ch /\ req' = Idled(r)
  /\ UNCHANGED <<acct, now, spent>>

(* Mutant: the matched code stays in the list. *)
VerifyConsumeKeeping(r) ==
  /\ req[r].pc = "consume"
  /\ req' = [req EXCEPT ![r].pc = "stamp"]
  /\ UNCHANGED <<acct, ch, now, spent>>

(* The remaining codes are computed from the list read with the challenge. *)
VerifyConsume(r) ==
  /\ req[r].pc = "consume"
  /\ acct' = [acct EXCEPT !.codes = req[r].codes \ {req[r].code}]
  /\ req' = [req EXCEPT ![r].pc = "stamp"]
  /\ UNCHANGED <<ch, now, spent>>

(* Mutant: the time step is not pinned. *)
VerifyStampNothing(r) ==
  /\ req[r].pc = "stamp"
  /\ req' = [req EXCEPT ![r].pc = "issue"]
  /\ UNCHANGED <<acct, ch, now, spent>>

(* A TOTP match pins its time step. *)
VerifyStamp(r) ==
  /\ req[r].pc = "stamp"
  /\ acct' = IF req[r].kind = "totp"
               THEN [acct EXCEPT !.lastStep = req[r].code.step] ELSE acct
  /\ req' = [req EXCEPT ![r].pc = "issue"]
  /\ UNCHANGED <<ch, now, spent>>

(* The session is created and returned (its tokens are module Sessions').  *)
VerifyIssue(r) ==
  LET code == req[r].code IN
  /\ req[r].pc = "issue"
  /\ ch' = [ch EXCEPT ![req[r].ch].sessions = @ + 1]
  /\ spent' = [once |-> spent.once \cup {code},
               twice |-> spent.twice \cup (spent.once \cap {code})]
  /\ req' = Idled(r)
  /\ UNCHANGED <<acct, now>>

-----------------------------------------------------------------------------
(* The rest of the environment *)

ChallengeExpires(c) ==
  /\ ch[c].status = "open" /\ ~ch[c].expired
  /\ ch' = [ch EXCEPT ![c].expired = TRUE]
  /\ UNCHANGED <<acct, req, now, spent>>

(* cleanupTwoFactorChallenges: every expired challenge. *)
CleanupChallenges ==
  /\ \E c \in Challenges : ch[c].status = "open" /\ ch[c].expired
  /\ ch' = [c \in Challenges |-> IF ch[c].status = "open" /\ ch[c].expired
                                   THEN [ch[c] EXCEPT !.status = "deleted"] ELSE ch[c]]
  /\ UNCHANGED <<acct, req, now, spent>>

NextStep ==
  /\ now < MaxStep
  /\ now' = now + 1
  /\ UNCHANGED <<acct, ch, req, spent>>

(* An error or a crash between two awaits ends the request; nothing it     *)
(* wrote is undone.                                                        *)
Fail(r) ==
  /\ req[r] # Idle
  /\ req' = Idled(r)
  /\ UNCHANGED <<acct, ch, now, spent>>

Init ==
  /\ acct = [enabled |-> FALSE, secret |-> 0, codes |-> {}, lastStep |-> 0,
             fresh |-> 0, gen |-> 0, verified |-> 0]
  /\ ch = [c \in Challenges |-> [status |-> "unused", used |-> FALSE,
             attempts |-> 0, expired |-> FALSE, sessions |-> 0]]
  /\ req = [r \in Requests |-> Idle]
  /\ now = 1
  /\ spent = [once |-> {}, twice |-> {}]

RequestStep(r) ==
  \/ SetupRead(r) \/ SetupWrite(r) \/ EnableRead(r) \/ EnableWrite(r)
  \/ DisableRead(r) \/ DisableWrite(r) \/ LoginRead(r) \/ CreateChallenge(r)
  \/ VerifyExpired(r) \/ VerifyCount(r) \/ VerifyClaim(r) \/ VerifyConsume(r)
  \/ VerifyStamp(r) \/ VerifyIssue(r) \/ Fail(r)

Next ==
  \/ \E r \in Requests : RequestStep(r)
  \/ \E r \in Requests, c \in Challenges : VerifyRead(r, c)
  \/ \E c \in Challenges : ChallengeExpires(c)
  \/ CleanupChallenges
  \/ NextStep

Spec == Init /\ [][Next]_vars

-----------------------------------------------------------------------------
(* Properties *)

(* Request r has claimed challenge c and not yet answered. *)
Claims(r, c) == req[r].ch = c /\ req[r].pc \in {"consume", "stamp", "issue"}

(* Inductive strengthening of OneSessionPerChallenge: at most one request  *)
(* holds the claim of a challenge, which is then marked used and has no    *)
(* session yet, and an unused challenge has none.                          *)
ClaimInv ==
  /\ \A r \in Requests :
       req[r].pc \in {"expired", "count", "claim", "consume", "stamp", "issue"} =>
         req[r].ch \in Challenges
  /\ \A c \in Challenges :
       /\ \A r \in Requests : Claims(r, c) => ch[c].used /\ ch[c].sessions = 0
       /\ \A r, q \in Requests : Claims(r, c) /\ Claims(q, c) => r = q
       /\ ~ch[c].used => ch[c].sessions = 0
       /\ ch[c].sessions <= 1

(* A request that answers with a code holds one of the kind it says. *)
CodeInv ==
  \A r \in Requests :
    req[r].pc \in {"claim", "consume", "stamp", "issue"} =>
      \/ req[r].kind = "totp" /\ req[r].code \in Totp
      \/ req[r].kind = "backup" /\ req[r].code \in Backup

(* A challenge is exchanged for at most one session, however many requests *)
(* answer it at once: the claim lets one of them through.                  *)
OneSessionPerChallenge == \A c \in Challenges : ch[c].sessions <= 1

(* The cap on wrong codes may be overshot only by requests that had read   *)
(* the challenge before the cap was reached: by one per further request in *)
(* flight at most.                                                         *)
AttemptsOvershoot ==
  \A c \in Challenges :
    ch[c].attempts + Cardinality({r \in Requests : req[r].pc = "count" /\ req[r].ch = c})
      < MAX_CHALLENGE_ATTEMPTS + Cardinality(Requests)

(* Backup codes are single use.  Holds when requests do not overlap.       *)
BackupCodeSingleUse == spent.twice \cap Backup = {}


-----------------------------------------------------------------------------
(* The refinement of LoginChallenge *)

phase ==
  [c \in Challenges |->
     IF ch[c].sessions > 0 THEN "granted"
     ELSE IF \E r \in Requests : Claims(r, c) THEN "claimed"
     ELSE IF ch[c].used THEN "spent"
     ELSE IF ch[c].status = "deleted" THEN "void"
     ELSE IF ch[c].status = "open" THEN "open"
     ELSE "none"]
guesses == [c \in Challenges |-> ch[c].attempts + IF ch[c].used THEN 1 ELSE 0]
sessions == [c \in Challenges |-> ch[c].sessions]
OneShot == INSTANCE LoginChallenge
  WITH MaxGuesses <- MAX_CHALLENGE_ATTEMPTS + Cardinality(Requests) - 1

(* Whatever requests, expiry and cleanup do in between, a challenge is     *)
(* claimed by one request, exchanged for one session at most, never opens  *)
(* again, and is tried with no more codes than the cap and one per further *)
(* request in flight, the accepted one included.                           *)
ChallengeOneShot == OneShot!Spec
=============================================================================
