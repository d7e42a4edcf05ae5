# Verification of the SaaS backend

TLA+ models of the stateful parts of this Express/Prisma backend, TLC runs that
check them on small instances, and TLAPS proofs that hold for every instance.

## The system

A stateless Node process (several may run) answers HTTP requests. All shared
state is in PostgreSQL through Prisma; Stripe calls back through a webhook; BullMQ
workers send mail and prune tables. Every `await` is a point where other requests
run. A single query and a `$transaction` are atomic; everything wider (read a
row, decide, write) is not. That is the subject of this project: what the
check-then-act sequences of the services guarantee when requests overlap, fail
half-way, or arrive in another order.

| Component | State | Operations | What is hard |
|---|---|---|---|
| Sessions (`auth.service.js`, `session.service.js`, `auth.middleware.js`) | `users.tokenVersion`, `refresh_tokens` | login, Google login, refresh with rotation and reuse detection, password change and reset, logout, revocation, cleanup | a token issued by a request that a revoke-all overtook; stale `tokenVersion` |
| Two-factor (`twofa.service.js`) | secret, backup codes, last time step, `two_factor_challenges` | setup, enable, disable, challenge, verify | several answers at once; lost updates |
| Lockout (`auth.service.js` login) | `failedLoginAttempts`, `lockedUntil` | failed and successful logins | counter and lock are two writes; unconditional resets |
| Billing (`billing.service.js`) | `subscriptions`, `processed_webhook_events`; Stripe | checkout, cancel, webhook, prune; deletion of the owner | at-least-once, unordered delivery; partial failure |
| Organizations (`org.service.js`, `tenant.middleware.js`) | `organizations`, `organization_members` | create, delete, restore, roles, remove, transfer | role checked in a middleware, used later |
| Invitations (`invitation.service.js`) | `organization_invitations` | invite, accept, decline, cancel, expire, prune | concurrent answers; unique pending invitation |
| Erasure (`gdpr.service.js`) | all of the above | `deleteAccount` | checks, Stripe calls, then a cascading delete |
| Administration (`admin.service.js`) | `users` | ban, suspend, delete, restore, roles | last-admin check |
| Registration and email change (`auth.service.js`) | verification tokens, `pendingEmail` | register, verify, resend, change | tokens that outlive the address they were sent to |
| Jobs (`jobs/`, `worker.js`, `server.js`) | BullMQ queues, `failed_jobs`, the two processes | enqueue, process, retry, dead letter, sweeps, start and shutdown | crashes and stalls; the dead letter is written after BullMQ has given the job up, and nobody awaits it |
| Notifications (`notification.service.js`) | `notifications`, `notification_preferences` | create, read, delete, preferences | find-then-create; muting while a notification is created |
| Feature flags (`featureflag.*`) | `feature_flags`, `organization_feature_flags` | administration, evaluation at the endpoint and as a gate | an evaluation is two queries; several subscriptions, several notions of "the plan" |
| API keys (`apikey.*`) | `api_keys` | create, revoke, delete, restore, authenticate | look up, then write by id |
| Projects and gates (`project.*`, `subscription.middleware.js`) | `projects` | every route behind its chain of guards | each guard reads at another await |

They interact through rows: login consults the second factor, erasure cancels
subscriptions and cascades into organizations, deleting an organization cancels its
subscriptions, the cleanup jobs remove rows that requests have read, a cancellation
comes back as a webhook, and a project route consults accounts, memberships,
subscriptions, flags or keys before it touches a project.

Properties that make each correct: a revoke-all leaves no older session (Sessions);
one session per challenge, codes used once (TwoFactor); the maximum of failures
locks and only time or success unlocks (Lockout); a row agrees with Stripe once
deliveries settle, an event counts once, nobody deleted is billed (Billing); one
owner, final answers, no dangling references, erasure harms nobody else
(Organization); a verified address was proven by its owner, an administrator remains,
a Google identity is not replaced (Accounts); an accepted job is settled once, a failed
one leaves a row or a named reason, shutdown ends (Jobs); muting is respected
(Notifications); what a request was let through with was true while it ran (Access).

## Modules

| Module | Models |
|---|---|
| `Sessions` | refresh-token rows, access tokens, `tokenVersion`, and the requests that issue, rotate and revoke |
| `LoginChallenge` | what the second step of a login promises about a challenge: one claim, one session or none, a bounded number of codes tried, no way back |
| `TwoFactor` | one account's second factor, its challenges and codes; implements `LoginChallenge` |
| `Lockout` | one account's failure counter and lock |
| `Billing` | Stripe, the webhook ledger, the subscription rows of one owner and the deletion of that owner |
| `Organization` | one organization, its members and invitations, and the accounts behind them |
| `Accounts` | `users` rows from registration to erasure: addresses and their proof, Google identities, roles |
| `Delivery` | what the queues promise about a job: pending until it is settled, once, as done, dead or lost |
| `Jobs` | both queues, the worker process, dead letters, and the shutdown of worker and API; implements `Delivery` |
| `Notifications` | notifications and preferences, with the requests on them |
| `Maintenance` | `Jobs` and `Notifications` composed: a maintenance job sweeps the rows that requests use |
| `Tenants` | the rows that guards read, and every committed write to them as the guards see it |
| `FeatureFlags` | flags, overrides, their administration and evaluation, over `Tenants` |
| `ApiKeys` | keys and the calls of their owners, over `Tenants` |
| `Access` | `Tenants`, `FeatureFlags` and `ApiKeys` composed with requests on the project routes and the evaluation endpoint |
| `MC<X>` | symmetry and families for TLC, histories of what overlapped (`HistorySpec` is `<X>` with them, before any family), and the properties that need them; `MC<X>_<run>.cfg` gives the constants |
| `<X>Proofs` | theorems about `<X>` and about the histories of `MC<X>` |

Conventions shared by all of them:

- A request is a record in `req` (a `pc` in `Lockout`) with what it read before its
  last await. The first action of a request does the reads and takes the early returns;
  one action follows per awaited write. A request that is refused without a write does
  not start.
- Every next-state relation interleaves all requests, and a request may stay where it is.
  `Fail` (`Stop` in `Lockout`) moreover ends a request at any await: a database or Stripe error,
  a violated constraint, the end of the process. Nothing written before is undone,
  because the code has no compensation.
- `Ops` restricts an instance to some endpoints, which keeps instances small; the
  theorems hold for every `Ops`.
- Definitions marked *Mutant* are plausible faults of the definition that follows them.
  Nothing uses them, except that replacing the definition by one makes a property fail.
- Variables marked *history*, and those an `MC` module adds, are read by properties only.
  `overlap` records that two requests were between their reads and their writes at once.

Correspondence, by module (`PROJECT.json`, "map", has every definition and its lines):

- **Sessions.** `user` is the part of `users` that sessions depend on; `blocked` stands
  for banned or suspended, which every gate treats alike. `rt[t]` is a `refresh_tokens`
  row together with the access token issued beside it. `LoginRead`/`GoogleRead`/
  `VerifyRead` are the gates, `IssueToken` is `createRefreshTokenRecord` and the
  signature, `RefreshRead`, `RefreshRotate`, `RefreshRetire`, `RefreshReuse` the branches
  of `refresh`, `Kill` the transaction that bumps `tokenVersion` and revokes every row.
  `epoch` counts revoke-alls; `crossed` marks a token whose request, or an ancestor's, was
  overtaken by one; `late` a version that was read by a session already crossed.
- **TwoFactor.** A TOTP code is a pair of secret and time step; a backup code a pair of
  generation and number. `VerifyRead` decides; `VerifyCount`, `VerifyClaim`,
  `VerifyConsume`, `VerifyStamp`, `VerifyIssue` are the writes in the order of the code.
- **Lockout.** `LoginRead`, `ResetExpiredLock`, `WrongPassword`, `LockAccount`,
  `LoginSucceeds` are the five queries of `login` on the counter; `verifyChallenge` resets
  it as well.
- **Billing.** Stripe (`stripe`, `clock`, `sent`, `acked`, `lapsed`) is external.
  `Receive` inserts the ledger row and dispatches; `UpsertUpdate` and `UpsertCreate` are
  the two queries of `upsertSubscription`; `SubscriptionDeleted` the other handler;
  `CancelRead`, `CancelAtStripe`, `CancelWrite` an API cancellation; `CloseRead` to
  `CloseOwner` the common shape of `deleteOrganization` and `deleteAccount`.
- **Organization.** `Authorize` is `authenticate`, `requireTenant` and `requireOrgRole`;
  the role it saw stays with the request. `member[u].id` tells a membership row from a
  later one of the same user, since updates go by row id. The partial unique index on
  pending invitations and the foreign keys are guards of the writes. `EraseAccount`
  cascades as the schema says.
- **Accounts.** `acct[u]` is a `users` row; `links` are the mails that
  `queueVerificationEmail` sent, each a token with the address it went to. The three
  partial unique indexes (live rows only) guard the writes: `EmailFree`, `PendingFree`,
  `GoogleFree`. `AdminRead`, `CountAdmins`, `AdminWrite` are `updateUser` (role),
  `deleteUser` and `restoreUser`, the last two also `deleteAccount`. `proven`, `mixed` and
  `excused` are history: which addresses were confirmed to the account, and whether by a
  token of `resendVerification` issued while a change of address was pending.
- **Jobs.** BullMQ and Resend are external: `Take`, `Complete`, `Recover`, `GiveUpStalled`
  and the retry in `FailAttempt` are BullMQ's contract as `queues.js` and the workers
  configure it. `processEmailJob` and `processMaintenanceJob` are the two processors;
  `handleJobFailure` is the "failed" listener, which starts a write that
  `WriteLetter` or `WriteLetterFails` finishes. `proc.worker` are the module variables of
  the worker files; `shutdown`, `stopWorker`, `closeRedisConnection`, `Disconnect`, `Exit`
  and `forceExit` follow `worker.js`, the `Server...` actions `server.js`. An endpoint between
  its row and its job is in `api.open`.
- **Notifications.** One action per query. `updatePreferences` and `markAllAsRead` are one
  query each. `allowed` and `chosen` are history.
- **Maintenance.** `Sweep` is `processMaintenanceJob` with the rows it removes; of the tables
  swept, the dead letters and the notifications are in this composition, the others are
  swept in the module of their table.
- **Access.** `Chain` gives each route its middleware and handler in the order of the
  routers; a request is at one `step` of it, and every guard and query is one action.
  A subscription list is oldest first, since the gates take the newest active row.
  `seen` is history: the guards that held since the request began, the answers its flag
  had between the two queries, and whether anything was written. `Reference`, `Holds` and
  `Entitled` say in one moment what the chain works out over several; `SwitchedOn`, under
  `Reference`, says what each type of flag means (a percentage switches on the buckets below
  it) without the code's case distinctions in `evaluateByType` and `InRollout`.

Assumptions: `findUnique` with `include` is read as one snapshot; an email address does
not change while its invitation is open; Stripe stops delivering an event before the
ledger's retention period ends (`Lapse`); a cleanup's retention period is longer than a
request; there is one owner per `Billing` instance.

## Runs

A run takes between a few seconds and about two minutes on two cores.

| Run | Instance | Checks |
|---|---|---|
| sessions_overlap | 2 accounts, 2 tokens, 2 requests, 2 revoke-alls | `RevokeAllContained`, `KillSwitchContained`, `OneSuccessorSerial`, `RevokeAllSerial`, `RevocationPermanent`, `OnlyOwnSessionsRevoked` |
| twofactor_overlap | 2 challenges, 2 requests, cap 1, 2 secrets, 2 generations of codes, 2 time steps | `ChallengeOneShot`, `AttemptsCapped`, `CodesSpentOnce`, `EnabledSecretVerified` |
| lockout_overlap | 4 logins, maximum 5, crashes | `CapLocks`, `Overshoot`, `LockJustified`, `LockHolds` |
| billing_overlap | 2 subscriptions, 2 requests, 3 events in any order, pruning, failures, deletion of the owner | `HandledOnce`, `Converged`, `SkippedIsOlder`, `CanceledAtStripe`, `CloseCancelsAll` |
| billing_live | 1 subscription, 2 requests, fairness | `EventHandled` |
| org_overlap | 2 users, 2 invitations, 2 requests | `OneOwnerSerial`, `OthersKeepOrg`, `OnePending`, `TerminalStays`, `StaleChangeMisses` |
| accounts_overlap | 2 users, 2 addresses, 2 requests, 3 tokens per account | `VerifiedProven`, `LastAdminStays`, `GoogleKept` |
| jobs | a job per queue, 2 attempts, 1 recovery, 2 ends of the worker; 1 user and notification, 2 requests; fairness | `DeadLetters`, `CarriedOut`, `OrderlyExit`, `ShutdownEnds`, `Delivers`, `MutedRespected`, `PreferencesKept` |
| access | 2 users, 2 organizations, 3 projects, 2 flag ids, 1 key, 2 requests, up to 4 writes between their awaits | `GuardsHeld`, `AnswerExact`, `EvaluateLinear`, `RevokedRefused`, `ProjectWrites` |
| twofactor_backup | 2 challenges, 2 requests | `BackupCodeSingleUse`, violated |
| billing_resurrect | 1 subscription, 3 events in any order | `CanceledStays`, violated |

The type invariants are not in the runs: they are proved, for every instance.

Why the bounds are enough: the races are between two requests, so two slots reach them
(four where the number of requests is the question, as in `Lockout`); a rotation needs
two tokens, and a third changes nothing about who is overtaken; an order of events
needs three; a cap of one shows the same boundary as five; an account needs three
tokens to register, change its address and ask for a link again; a job with two
attempts and one recovery has a first, a last and a recovered attempt; two writes are
what it takes to make an evaluation answer for no moment, and four to cross a
revocation with a deletion and a restoration. Bounds are named constants (`MaxEpoch`,
`MaxEvents`, `MaxAttempts`, `MaxSecrets`, `MaxGen`, `MaxStep`, `MaxTokens`, `MaxExits`,
`MaxWrites`). Deadlock is not checked where the instance really may stop (tokens, events,
invitations, exits or writes used up).

Several runs split their behaviours into *families*: the first state picks one, and it
restricts which endpoints are called, so that each family is small enough to explore
completely with all its interleavings. A family only removes behaviours; what two
families have in common is in both, and endpoints that write the same fields are kept
together. What a family leaves out is said where it is defined: in `MCSessions` the operations
of one account apart from those that name a token of another; in `MCBilling` any events of
one subscription in any order apart from the end of an owner with two; in
`MCOrganization` members, a member who leaves and joins again while a change waits to write, and
invitations; in `MCAccess` the table that is written while
requests run; in `MCMaintenance` the ends of the worker, those of the API and the requests on
notifications, which meet only in the jobs. The theorems do not know families: `FamiliesAreHistories` proves that the behaviours
TLC explores are among those the theorems speak of.

### What overlapping requests can do

The code does not lock the rows it reads. Properties whose name or comment says "as
long as nothing overlaps" are exact in the sense that the unconditional statement is
false in the model, for the reasons below. The conditions of `OneOwnerSerial`, `OthersKeepOrg`
and `GoogleKept` name the pairs of steps that can break the property (`MembersCross`,
`ErasureCrosses`, `Linking`); every other overlap is covered. Two unconditional statements are
kept as runs that are expected to be violated, because they contradict a comment and the
README of the repository directly:

- `twofactor_backup`: `verifyChallenge` computes the remaining backup codes from the list
  it read. Two challenges answered at once with one code both succeed. The comment at the
  consumption (`twofa.service.js:279`) argues from the claim, which is per challenge.
- `billing_resurrect`: `handleSubscriptionDeleted` writes CANCELED and leaves
  `stripeEventCreatedAt` as it was, so the guard compares the next event with one from before
  the deletion. Events 1 (created), 2 (updated to `past_due`) and 3 (deleted), handled in the
  order 1, 3, 2, take the row from ACTIVE to CANCELED and then to PAST_DUE: it is live again,
  for a subscription that Stripe has ended. The comment at `billing.service.js:468` and
  README:232 exclude this case. A second way, which a stamp would not close and which
  `CanceledStays` does not speak of: a deletion that is handled while there is no row writes
  nothing, and an older event that arrives later creates a live row (`UpsertCreate`).

The others, found while the conditions were being worked out. Each reappears when the
condition on `overlap`, `disorder`, `crashed`, `excused`, `lost`, `changes` or `deleted` is
dropped from the property; the rows that name `Lockout`, `CloseCancelsAll`, `Authorize`,
`FlagWrite` and `updateProject` can be read off the actions:

| Where | What happens |
|---|---|
| `auth.service.js:339` (`RevokeAllSerial`) | a refresh that read its row before a revoke-all creates a live token after it; README:325 says sessions do not survive enabling 2FA |
| `auth.service.js:334` (`OneSuccessorSerial`) | two refreshes of one token both rotate it |
| `twofa.service.js:236` (`CodesSpentOnce`) | one time step accepted for two challenges |
| `twofa.service.js:207` (`AttemptsCapped`) | overlapping wrong codes count past the cap, by at most the requests in flight |
| `auth.service.js:178` (`LockHolds`) | the reset of an expired lock, read earlier, clears a newer lock |
| `auth.service.js:202` (`Lockout`) | failures of an account without a password count, although the comment at 199 says otherwise |
| `billing.service.js:504` (`SkippedIsOlder`) | two first events at once: the older creates the row, the newer is dropped on P2002 |
| `billing.service.js:475` (`Converged`) | `created` counts seconds and the guard is `lte`: within one second the last delivered wins |
| `gdpr.service.js:233` (`CloseCancelsAll`) | a subscription whose first webhook was not processed has no row and is not canceled |
| `org.service.js:244` (`OneOwnerSerial`) | two transfers leave two OWNERs, one of them not `ownerId` |
| `gdpr.service.js:259` (`OthersKeepOrg`) | a member who joins between the check and the delete loses the organization |
| `org.router.js:73` (`Authorize`) | ADMIN may change roles; README:207 says OWNER |
| `auth.service.js:395` (`VerifiedProven`, `excused`) | a link sent by `resendVerification` to the old address confirms the pending new one, without any overlap; README:182 says the new address is verified before switching |
| `admin.service.js:117` (`LastAdminStays`) | two administrators who demote or delete each other both count two |
| `deadLetter.js:14` (`DeadLetters`, `lost`) | a job given up for stalling has attempts left, so it gets no dead letter, although its queue has dropped it |
| `deadLetter.js:37` (`DeadLetters`, `lost`) | the write of the row fails, or the worker exits before it: nothing awaits it |
| `worker.js:50` (`OrderlyExit`) | `stopWorker` swallows a rejection of `close()`, and the process exits with code 0 while jobs run |
| `featureflag.service.js:155` (`EvaluateLinear`) | flag and override are two queries: a deletion of the flag, or two writes, in between give an answer that was true at no moment |
| `featureflag.service.js:83` (`FlagWrite`) | a new type keeps the old value: a PLAN flag without plans is on for everybody |
| `project.service.js:83` (`updateProject`) | an update that found the project alive still writes it after its deletion |

### Fairness

- `billing_live`. A started handler goes on (weak fairness of its steps): Node runs every
  ready continuation. Stripe delivers until it is answered, and the server can always
  take one more request; the slots of the model are busy only for a while, hence strong
  fairness of the delivery of each event. `EventHandled` needs that no handler fails after
  it recorded its event: the redelivery of such an event is answered as a duplicate and
  never handled.
- `jobs`. A worker that is down is started again (by `docker-compose.yml` after a failure, by
  the next deployment after an orderly stop) and takes the next waiting job, a processor ends one way or the other, BullMQ's stalled
  check runs, and the two timers fire (weak fairness each). Nothing is assumed of clients,
  cron, signals and failures: no shutdown step but the timer is fair, so `ShutdownEnds`
  says that the timer alone is enough. The worker ends `MaxExits` times at most on its own or by
  signal; a worker that dies for ever delivers nothing, and no code could help.

### Refinement

`TwoFactor` implements `LoginChallenge` under the mapping `phase`, `guesses`, `sessions` at its end
(`OneShot == INSTANCE LoginChallenge WITH ...`). The row does not say who holds the claim: a
challenge is claimed while a request between `VerifyClaim` and `VerifyIssue` has it, and spent once
that request has failed. Codes tried are the wrong ones counted and the right one accepted;
`MaxGuesses` is the cap and one per further request, which the run `twofactor_overlap` reaches.
`ChallengeOneShot` is checked by that run and proved for every instance by `ChallengeRefinement`;
one session per challenge is also proved directly, as the invariant `OneSessionPerChallenge`.

`Jobs` implements `Delivery` under the mapping `status`, `effect` at the end of `Jobs`
(`Promise == INSTANCE Delivery WITH ...`): a job in whatever state of BullMQ is pending until it is
completed, has its row, or is lost. `Delivers` is all of `Promise!Spec`, its liveness included,
and is checked by the run `jobs` under fairness; `SafeDelivery` proves the safety part for every
instance, and `SettledForGood` what follows for the code that hands a job over: what became of a
settled job never changes, and work carried out stays so. `Composition` proves that `Maintenance` behaves as `Jobs` when the notifications are
hidden, so that what holds of the queues alone holds of them with the tables they sweep.

## Proofs

`tlapm` checks every leaf. The constants are arbitrary sets and numbers, with the
`ASSUME` of each module. Where a property or a foreign key counts rows or requests, the set
is assumed finite (the requests of `Lockout` and `TwoFactor`, the users of `Organization`,
the subscriptions of `Billing`), and `SeedsUnique` says of the first rows of `Access` what
the schema does: no two live flags have one key.

Every safety property that a passing run checks is stated by a theorem. What holds of a
module whatever overlaps is proved of its `Spec`. What holds as long as requests do not
overlap is proved of the module with its history variables: `HistorySpec` in `MCSessions`,
`MCOrganization`, `MCAccounts` and `MCBilling`, from which the families only take behaviours away
(`FamiliesAreHistories`), and `MCSpec` in `MCLockout` and `MCTwoFactor`, which have no families.

- **Sessions**: `TypeCorrect`, `RevokeAllTheorem`, `KillSwitchTheorem`, `RevocationPermanentTheorem`,
  `OnlyOwnTheorem`; `RevokeAllSerialTheorem`, `OneSuccessorTheorem`. The first properties speak
  of tokens, but a token inherits its history from the request that issues it, so the
  inductive invariant `IndInv` says the same of requests in flight: one that was not
  overtaken carries the current epoch (`RequestOK`), and one that would sign the current
  version has seen the last bump. `Overtaken` re-establishes it at every revoke-all.
  `RevocationPermanentTheorem` and `OnlyOwnTheorem` are about steps: `Changed` lists what any step may
  do to a row. That a rotation ends no session of another account needs `Presented`: the
  token a refresh holds is still of the account it was read with. For accounts without
  overlap `Serial` adds that no request is overtaken, that a refresh about to issue has
  retired its token, and that a token with a successor is not live and has no other.
- **TwoFactor**: `TypeCorrect`, `OneSessionTheorem`, `ChallengeRefinement`; `AttemptsCappedTheorem`,
  `CodesSpentOnceTheorem`, `EnabledSecretTheorem`. `ClaimInv`: at most one request holds
  the claim of a challenge; while it does, the challenge is used and has no session.
  `CapInv` counts the answers that are still to be counted together with those that were.
  For the refinement `RefInv` counts the answers that may still be accepted as well (`Few`), and
  `Moved` lists what any step may be to a row and to a request: each of its moves is a step of
  `LoginChallenge` or none.
  `Serial` says what a request has read is what the account still holds, and that a code
  that opened a session is dead: of an older secret or generation, of a time step that has
  passed, or no longer in the list.
- **Lockout**: `TypeCorrect`, `CapLocksTheorem`; `OvershootTheorem`, `LockJustifiedTheorem`,
  `LockHoldsTheorem`. `CapLocks` is inductive with the types. The bound needs `Late`: as long as
  there is no lock, the failures beyond the maximum are paid for by requests that are
  about to lock. `Alone` says where a single login may be under each state of the lock.
- **Billing**: `TypeCorrect`, `CanceledTheorem`, `HandledOnceTheorem`, `CloseTheorem`,
  `StampTheorem`; `SkippedIsOlderTheorem`, `ConvergedTheorem`. The invariant adds that "canceled" is
  final at Stripe, that a request about to write CANCELED has canceled or seen it canceled,
  that a delivery being handled is in the ledger and not yet lapsed, and that what is lapsed
  was answered. `History` is what convergence needs: events are numbered and timed as
  emitted (`Clocked`) and every state of Stripe is told by one (`Told`); what a delivery is
  about to write was true when its event was emitted, unless a later event says more
  (`Delivering`); so a row that disagrees with Stripe has an event to come, which will not be
  dropped: in order since the earlier ones are processed (`Ordered`), one at a time in any order since
  its stamp is newer than the row's (`Alone`).
- **Accounts**: `TypeCorrect`, `VerifiedTheorem`; `LastAdminTheorem`, `GoogleKeptTheorem`. A
  verified address is written by a request
  that decided earlier, so the invariant follows tokens: a link, or a mail about to be sent,
  whose token is the stored one confirms what that token will confirm (`TokenOK`); a request
  that will set `emailVerified` holds the address it confirms (`AddressOK`). `Keeps` states
  what a write to a row must preserve for both, and every action is shown to. Without
  overlap, a request that comes to take an administrator away leaves another (`Leaves`),
  and one that comes to link an identity finds no other (`Links`).
- **Jobs and Maintenance**: `TypeCorrect`, `DeadLettersHold`, `CarriedOutHolds`,
  `OrderlyExitHolds`, `SafeDelivery`, `SettledForGood`, `Composition`, `MutedRespectedHolds`,
  `PreferencesKeptHolds`. The inductive invariant bounds the attempts of a job by its state
  (one that may still run has attempts left, one that is being recorded has none) and
  counts what was carried out against attempts and recoveries (`Counted`); a job with a row
  is failed and not being recorded again. The refinement follows step by step: every action
  maps to one of `Delivery`, `Ended` to `LoseSome`, which is why that action loses a set.
  For the notifications, `chosen` agrees with the row, or with the defaults as long as there is none.
- **Access**: `TypeCorrect`, `GuardsHeldHolds`, `RevokedRefusedHolds`, `ProjectWritesHold`;
  `EvaluateLinearHolds`, `AnswerExactHolds`. The
  invariant says that a request at a given step of its chain has passed the guards before
  that step (`Passed`), and that what holds now is in its history (`HeldNow`): a guard that
  passes adds nothing, it was recorded when the row was written. `revoked` is never
  reset, so a key that was revoked as the request began is refused at its only guard.
  The other two compare the chain with the reference evaluation; `ByType` shows that the
  code's branches give what a type means, for every percentage including 0, 100 and those
  outside the range. `StepIs` says once what a step
  may be to a request; over it, `Torn` keeps between the two queries that the flag read is
  the only live one of its key (`Unique`) and, until something is written, unchanged, and that after one write
  the second query still gives the answer of before or after it, since only a deletion
  changes both a flag and its overrides (`FlagWriteDoes`). `Known` lists what a request has learned at each step of
  each route; as long as nothing is written it stays true, and at the end of every chain
  it adds up to `Entitled`.
- **Organization**: `TypeCorrect`, `OnePendingHolds`, `StaleChangeMissesTheorem`; `OneOwnerTheorem`,
  `OthersKeepOrgTheorem`, `TerminalStaysTheorem`. The first properties speak of
  rows that are written from what a request remembers. `Rows` joins them with the types: what
  exists names users (`Owned`), and two pending invitations of one address are the same
  row (`Unique`, from which the cardinality follows). `Remembers` says that a request past its
  first read names users and invitations of the instance. That these are still there is
  not an invariant, and need not be: the foreign keys and the index are guards of the
  writes, and each deletion is shown to take along what refers to the deleted row.
  For `StaleChangeMissesTheorem` the id that a request holds is compared with the member's
  at the write. As long as the pairs named by `Overlapping` did not cross, `Serial` says that what a
  request has read about the owner, the other members or its invitation is still so when it
  writes (`Knows`, `Alone`, `Waits`).

Only model-checked: `EventHandled`, `ShutdownEnds` and the liveness of `Delivers`, since they need
fairness. The two disagreements above are counterexamples of TLC.

## Not modelled, and the plan

Left out, with the reason:

- Read-only endpoints and pagination, the text of mails and errors, templates, validation
  schemas, hashing and signatures, sanitizing, i18n, the OpenAPI document: no state, or
  none that the properties tell apart.
- The audit log: appended to without being awaited, and read by nobody but its own list.
- Rate limiting: express-rate-limit and its Redis store are library code.
- `updateOrganization` (name, slug): no other state depends on them.
- `lastUsedAt` of a key, which carries no authorization; the evaluation of a flag
  without an organization, which takes no plan and no override.
- `JOB_QUEUE_DISABLED` and a missing `RESEND_API_KEY`, settings of tests and development in
  which jobs are not enqueued and mails are logged.
- The rows that go with a hard-deleted organization (projects, overrides): the cascade is
  PostgreSQL's, `Organization` shows when it is triggered.

Next:

1. Composition of `Sessions` and `TwoFactor`: challenges across a password change.
2. A mirror of Stripe as an abstract specification, which `Billing` refines for ordered
   delivery, and the proof of that refinement.
