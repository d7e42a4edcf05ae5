------------------------------ MODULE Billing -------------------------------
(***************************************************************************)
(* The subscriptions of one billing owner (a user, or an organization and  *)
(* the user who owns it) and the Stripe webhooks that keep the local rows  *)
(* in step with Stripe.                                                    *)
(*                                                                         *)
(* Stripe is external: it keeps the real subscriptions, emits an event per *)
(* change and delivers every event at least once, in any order.  A slot of *)
(* Requests runs one webhook delivery or API call; it stops at every await *)
(* that other requests can see.  Times are the seconds of event.created.   *)
(***************************************************************************)
EXTENDS Naturals, FiniteSets

CONSTANTS
  Subs,          \* Stripe subscription ids
  NoEvent,
  Requests,      \* request slots
  Ops,           \* endpoints and outside changes in this instance
  LiveStatuses,  \* Stripe statuses before "canceled" used in this instance
  MaxEvents,     \* bound: events emitted, cancellations by the API aside
  InOrder,       \* deliver an event only after the earlier ones were answered
  Coarse         \* two events may carry the same second

AllOps == {"update", "portal", "other", "cancel", "deleteOrg", "deleteAccount",
           "fail", "cleanup"}

(* "paused" stands for the statuses mapStripeStatus does not know. *)
StripeLive == {"active", "trialing", "past_due", "incomplete",
               "incomplete_expired", "unpaid", "paused"}

ASSUME BillingConstants ==
  /\ IsFiniteSet(Subs)
  /\ Ops \subseteq AllOps
  /\ "active" \in LiveStatuses /\ LiveStatuses \subseteq StripeLive
  /\ MaxEvents \in Nat
  /\ InOrder \in BOOLEAN /\ Coarse \in BOOLEAN

VARIABLES
  stripe,   \* external: subscriptions and their checkout sessions
  clock,    \* external: events emitted so far, and the time of the last
  sent,     \* external: events emitted
  acked,    \* external: events answered with a 2xx
  lapsed,   \* external: answered events older than the retention period
  ledger,   \* processed_webhook_events rows
  row,      \* subscriptions rows
  owner,    \* live, soft deleted, or gone
  req,      \* requests in flight
  handled,  \* history: events whose handler ran to its end
  skipped   \* history: events dropped on P2002

external == <<stripe, clock, sent, acked, lapsed>>
vars == <<external, ledger, row, owner, req, handled, skipped>>

-----------------------------------------------------------------------------
(* Types *)

Status == {"ACTIVE", "TRIALING", "PAST_DUE", "CANCELED", "INCOMPLETE",
           "INCOMPLETE_EXPIRED", "UNPAID"}
StripeStatus == StripeLive \cup {"none", "canceled"}
LIVE_SUBSCRIPTION_STATUSES == {"ACTIVE", "TRIALING", "PAST_DUE"}

StripeSub == [status : StripeStatus, session : {"none", "open", "paid", "done"}]

(* status: the subscription in the event, as it was when it was emitted. *)
Event == [id : Nat, kind : {"updated", "checkout", "deleted", "other"},
          sub : Subs, created : Nat, status : StripeStatus]

(* stamp: stripeEventCreatedAt, 0 for null.  born orders rows by createdAt. *)
Row == [exists : BOOLEAN, status : Status, stamp : Nat, born : Nat]
NoRow == [exists |-> FALSE, status |-> "INCOMPLETE", stamp |-> 0, born |-> 0]

(* ev: the delivery being handled; status: the subscription it writes;     *)
(* live: subscriptions read by an API call; todo: those not yet canceled.  *)
Request == [pc : {"idle", "retrieve", "update", "create", "deleted",
                  "cancel", "cancelWrite", "closing", "closeWrite", "close"},
            op : Ops \cup {"webhook", "none"},
            ev : Event \cup {NoEvent}, status : StripeStatus,
            live : SUBSET Subs, todo : SUBSET Subs]
Idle == [pc |-> "idle", op |-> "none", ev |-> NoEvent, status |-> "none",
         live |-> {}, todo |-> {}]

TypeOK ==
  /\ stripe \in [Subs -> StripeSub]
  /\ clock \in [count : Nat, time : Nat]
  /\ sent \subseteq Event
  /\ acked \subseteq sent /\ lapsed \subseteq acked
  /\ ledger \subseteq sent /\ handled \subseteq sent /\ skipped \subseteq handled
  /\ row \in [Subs -> Row]
  /\ owner \in {"live", "deleted", "gone"}
  /\ req \in [Requests -> Request]

Idled(r) == [req EXCEPT ![r] = Idle]

Live(s) == row[s].exists /\ row[s].status \in LIVE_SUBSCRIPTION_STATUSES

(* Mutant: the status is stored as Stripe spells it. *)
mapStripeStatusRaw(st) == st

mapStripeStatus(st) ==
  CASE st = "active" -> "ACTIVE"
    [] st = "trialing" -> "TRIALING"
    [] st = "past_due" -> "PAST_DUE"
    [] st = "canceled" -> "CANCELED"
    [] st = "incomplete_expired" -> "INCOMPLETE_EXPIRED"
    [] st = "unpaid" -> "UNPAID"
    [] OTHER -> "INCOMPLETE"

-----------------------------------------------------------------------------
(* Stripe *)

(* The bound on events leaves room for one cancellation per subscription.  *)
Room == clock.count < MaxEvents

Emit(kind, s, status) ==
  /\ \E t \in {clock.time + 1} \cup (IF Coarse /\ clock.time > 0 THEN {clock.time} ELSE {}) :
       /\ clock' = [count |-> clock.count + 1, time |-> t]
       /\ sent' = sent \cup {[id |-> clock.count + 1, kind |-> kind, sub |-> s,
                              created |-> t, status |-> status]}
  /\ UNCHANGED <<acked, lapsed>>

(* createCheckoutSession and createOrgCheckoutSession: a session the       *)
(* customer may pay for at any time after.                                 *)
CreateCheckout(s) ==
  /\ owner = "live" /\ stripe[s].session = "none"
  /\ stripe' = [stripe EXCEPT ![s].session = "open"]
  /\ UNCHANGED <<clock, sent, acked, lapsed, ledger, row, owner, req, handled, skipped>>

(* Stripe sends customer.subscription.created, then                        *)
(* checkout.session.completed.                                             *)
Subscribe(s) ==
  /\ Room /\ stripe[s].session = "open"
  /\ stripe' = [stripe EXCEPT ![s] = [status |-> "active", session |-> "paid"]]
  /\ Emit("updated", s, "active")
  /\ UNCHANGED <<ledger, row, owner, req, handled, skipped>>

CheckoutCompleted(s) ==
  /\ Room /\ stripe[s].session = "paid"
  /\ stripe' = [stripe EXCEPT ![s].session = "done"]
  /\ Emit("checkout", s, stripe[s].status)
  /\ UNCHANGED <<ledger, row, owner, req, handled, skipped>>

(* Renewals, failed payments, plan changes. *)
StripeUpdate(s, status) ==
  /\ "update" \in Ops /\ Room
  /\ stripe[s].status \in LiveStatuses \ {status}
  /\ stripe' = [stripe EXCEPT ![s].status = status]
  /\ Emit("updated", s, status)
  /\ UNCHANGED <<ledger, row, owner, req, handled, skipped>>

(* A subscription ends for good, by a call of this API or outside it.      *)
StripeCancels(s) ==
  /\ stripe[s].status \in LiveStatuses
  /\ stripe' = [stripe EXCEPT ![s].status = "canceled"]
  /\ Emit("deleted", s, "canceled")

CanceledOutside(s) ==
  /\ "portal" \in Ops /\ Room
  /\ StripeCancels(s)
  /\ UNCHANGED <<ledger, row, owner, req, handled, skipped>>

(* An event the handler has no case for, or one without metadata. *)
StripeOther(s) ==
  /\ "other" \in Ops /\ Room
  /\ stripe[s].status \in LiveStatuses
  /\ Emit("other", s, stripe[s].status)
  /\ UNCHANGED <<stripe, ledger, row, owner, req, handled, skipped>>

-----------------------------------------------------------------------------
(* handleWebhook *)

(* What Stripe may deliver now. *)
Deliverable(e) ==
  /\ e \in sent \ lapsed
  /\ InOrder => \A d \in sent : d.id < e.id => d \in acked

Ack(e) == acked' = acked \cup {e} /\ UNCHANGED <<stripe, clock, sent, lapsed>>

(* The ledger row exists: P2002, answered at once. *)
SkipDuplicate(e) ==
  /\ Deliverable(e) /\ e \in ledger
  /\ Ack(e)
  /\ UNCHANGED <<ledger, row, owner, req, handled, skipped>>

FirstStep(kind) ==
  CASE kind = "checkout" -> "retrieve"
    [] kind = "updated" -> "update"
    [] kind = "deleted" -> "deleted"

Handling(e) == [pc |-> FirstStep(e.kind), op |-> "webhook", ev |-> e,
                status |-> e.status, live |-> {}, todo |-> {}]

(* The event is recorded first, then dispatched. *)
Receive(r, e) ==
  /\ req[r] = Idle /\ Deliverable(e) /\ e \notin ledger /\ e.kind # "other"
  /\ ledger' = ledger \cup {e}
  /\ req' = [req EXCEPT ![r] = Handling(e)]
  /\ UNCHANGED <<external, row, owner, handled, skipped>>

ReceiveOther(e) ==
  /\ Deliverable(e) /\ e \notin ledger /\ e.kind = "other"
  /\ ledger' = ledger \cup {e}
  /\ Ack(e)
  /\ handled' = handled \cup {e}
  /\ UNCHANGED <<row, owner, req, skipped>>

(* handleCheckoutCompleted writes the subscription as Stripe has it now.   *)
Retrieve(r) ==
  /\ req[r].pc = "retrieve"
  /\ req' = [req EXCEPT ![r].pc = "update", ![r].status = stripe[req[r].ev.sub].status]
  /\ UNCHANGED <<external, ledger, row, owner, handled, skipped>>

(* The handler ends and the delivery is answered. *)
Answer(r) ==
  /\ Ack(req[r].ev)
  /\ handled' = handled \cup {req[r].ev}
  /\ req' = Idled(r)

(* Mutant: the update does not look at the stamp. *)
NotNewerAlways(s, created) == row[s].exists

(* Mutant: the comparison is the wrong way round. *)
NotNewerReversed(s, created) ==
  row[s].exists /\ (row[s].stamp = 0 \/ row[s].stamp >= created)

(* The where clause of upsertSubscription's updateMany. *)
NotNewer(s, created) ==
  row[s].exists /\ (row[s].stamp = 0 \/ row[s].stamp <= created)

UpsertUpdate(r) ==
  LET e == req[r].ev  s == e.sub IN
  /\ req[r].pc = "update"
  /\ IF NotNewer(s, e.created)
       THEN /\ row' = [row EXCEPT ![s].status = mapStripeStatus(req[r].status),
                                  ![s].stamp = e.created]
            /\ Answer(r)
       ELSE /\ req' = [req EXCEPT ![r].pc = "create"]
            /\ UNCHANGED <<external, row, handled>>
  /\ UNCHANGED <<ledger, owner, skipped>>

(* A row of a user who is gone violates its foreign key: see Fail.         *)
UpsertCreate(r) ==
  LET e == req[r].ev  s == e.sub IN
  /\ req[r].pc = "create" /\ owner # "gone"
  /\ IF row[s].exists
       THEN skipped' = skipped \cup {e} /\ row' = row
       ELSE /\ row' = [row EXCEPT ![s] =
                 [exists |-> TRUE, status |-> mapStripeStatus(req[r].status),
                  stamp |-> e.created,
                  born |-> 1 + Cardinality({x \in Subs : row[x].exists})]]
            /\ skipped' = skipped
  /\ Answer(r)
  /\ UNCHANGED <<ledger, owner>>

(* Mutant: a missing row is an error; the delivery fails. *)
SubscriptionDeletedStrict(r) ==
  LET s == req[r].ev.sub IN
  /\ req[r].pc = "deleted"
  /\ IF row[s].exists
       THEN row' = [row EXCEPT ![s].status = "CANCELED"] /\ Answer(r)
       ELSE req' = Idled(r) /\ UNCHANGED <<external, row, handled>>
  /\ UNCHANGED <<ledger, owner, skipped>>

(* Mutant: the row is left to run to the end of its period. *)
SubscriptionDeletedLazy(r) ==
  /\ req[r].pc = "deleted"
  /\ Answer(r)
  /\ UNCHANGED <<ledger, row, owner, skipped>>

(* handleSubscriptionDeleted leaves the stamp alone. *)
SubscriptionDeleted(r) ==
  LET s == req[r].ev.sub IN
  /\ req[r].pc = "deleted"
  /\ row' = [row EXCEPT ![s].status = IF row[s].exists THEN "CANCELED" ELSE @]
  /\ Answer(r)
  /\ UNCHANGED <<ledger, owner, skipped>>

(* Mutant: the whole ledger is emptied. *)
CleanupEverything ==
  /\ "cleanup" \in Ops /\ ledger # {}
  /\ ledger' = {}
  /\ UNCHANGED <<external, row, owner, req, handled, skipped>>

(* cleanupProcessedWebhookEvents, past WEBHOOK_EVENT_RETENTION_DAYS, which *)
(* is longer than Stripe goes on delivering an event.                      *)
CleanupProcessedWebhookEvents ==
  /\ "cleanup" \in Ops /\ ledger \cap lapsed # {}
  /\ ledger' = ledger \ lapsed
  /\ UNCHANGED <<external, row, owner, req, handled, skipped>>

Lapse(e) ==
  /\ "cleanup" \in Ops /\ e \in acked \ lapsed
  /\ lapsed' = lapsed \cup {e}
  /\ UNCHANGED <<stripe, clock, sent, acked, ledger, row, owner, req, handled, skipped>>

-----------------------------------------------------------------------------
(* cancelSubscription, cancelOrgSubscription *)

ApiCall(pc, op, live) == [pc |-> pc, op |-> op, ev |-> NoEvent, status |-> "none",
                          live |-> live, todo |-> live]

(* The most recent row that is active or trialing. *)
Cancelable(s) == row[s].exists /\ row[s].status \in {"ACTIVE", "TRIALING"}

CancelRead(r, s) ==
  /\ "cancel" \in Ops /\ req[r] = Idle /\ owner = "live"
  /\ Cancelable(s) /\ \A x \in Subs : Cancelable(x) => row[x].born <= row[s].born
  /\ req' = [req EXCEPT ![r] = ApiCall("cancel", "cancel", {s})]
  /\ UNCHANGED <<external, ledger, row, owner, handled, skipped>>

(* Mutant: the row is written before Stripe is asked. *)
CancelAtStripeLate(r) ==
  /\ req[r].pc = "cancel"
  /\ row' = [s \in Subs |-> IF s \in req[r].live THEN [row[s] EXCEPT !.status = "CANCELED"]
                                                 ELSE row[s]]
  /\ req' = [req EXCEPT ![r].pc = "cancelWrite"]
  /\ UNCHANGED <<external, ledger, owner, handled, skipped>>

(* Stripe refuses to cancel a subscription twice: see Fail. *)
CancelAtStripe(r) ==
  /\ req[r].pc = "cancel"
  /\ \E s \in req[r].live : StripeCancels(s)
  /\ req' = [req EXCEPT ![r].pc = "cancelWrite"]
  /\ UNCHANGED <<ledger, row, owner, handled, skipped>>

(* The rows a request read, as far as they still exist. *)
CanceledRows(r) ==
  [s \in Subs |-> IF s \in req[r].live /\ row[s].exists
                    THEN [row[s] EXCEPT !.status = "CANCELED"] ELSE row[s]]

CancelWrite(r) ==
  /\ req[r].pc = "cancelWrite"
  /\ row' = CanceledRows(r)
  /\ req' = Idled(r)
  /\ UNCHANGED <<external, ledger, owner, handled, skipped>>

-----------------------------------------------------------------------------
(* deleteOrganization, restoreOrganization, deleteAccount *)

CloseRead(r, op) ==
  /\ op \in Ops \cap {"deleteOrg", "deleteAccount"} /\ req[r] = Idle /\ owner # "gone"
  /\ op = "deleteOrg" => owner = "live"
  /\ LET live == {s \in Subs : Live(s)} IN
     req' = [req EXCEPT ![r] = ApiCall("closing", op, live)]
  /\ UNCHANGED <<external, ledger, row, owner, handled, skipped>>

(* One iteration of the loop.  An error ends the request: see Fail.        *)
CloseCancel(r) ==
  /\ req[r].pc = "closing"
  /\ \E s \in req[r].todo : /\ StripeCancels(s)
                            /\ req' = [req EXCEPT ![r].todo = @ \ {s}]
  /\ UNCHANGED <<ledger, row, owner, handled, skipped>>

(* Mutant: an error of one cancellation is logged and the loop goes on. *)
CloseLoopEndAnyway(r) ==
  /\ req[r].pc = "closing"
  /\ req' = [req EXCEPT ![r].pc = IF req[r].op = "deleteOrg" THEN "closeWrite" ELSE "close"]
  /\ UNCHANGED <<external, ledger, row, owner, handled, skipped>>

CloseLoopEnd(r) ==
  /\ req[r].pc = "closing" /\ req[r].todo = {}
  /\ req' = [req EXCEPT ![r].pc = IF req[r].op = "deleteOrg" THEN "closeWrite" ELSE "close"]
  /\ UNCHANGED <<external, ledger, row, owner, handled, skipped>>

CloseWrite(r) ==
  /\ req[r].pc = "closeWrite"
  /\ row' = CanceledRows(r)
  /\ req' = [req EXCEPT ![r].pc = "close"]
  /\ UNCHANGED <<external, ledger, owner, handled, skipped>>

(* The organization is marked deleted; the user's rows go with the user.   *)
CloseOwner(r) ==
  /\ req[r].pc = "close" /\ owner # "gone"
  /\ IF req[r].op = "deleteOrg"
       THEN owner' = "deleted" /\ row' = row
       ELSE owner' = "gone" /\ row' = [s \in Subs |-> NoRow]
  /\ req' = Idled(r)
  /\ UNCHANGED <<external, ledger, handled, skipped>>

RestoreOrganization ==
  /\ owner = "deleted"
  /\ owner' = "live"
  /\ UNCHANGED <<external, ledger, row, req, handled, skipped>>

-----------------------------------------------------------------------------

(* Stripe or the database refuses, or the process stops: the request ends, *)
(* a delivery without its 2xx.  Nothing written before is undone.          *)
Fail(r) ==
  /\ req[r] # Idle
  /\ \/ "fail" \in Ops
     \/ req[r].pc = "create" /\ owner = "gone"
     \/ req[r].pc = "close" /\ owner = "gone"
     \/ /\ req[r].pc = "cancel"
        /\ \E s \in req[r].live : stripe[s].status = "canceled"
     \/ /\ req[r].pc = "closing"
        /\ \E s \in req[r].todo : stripe[s].status = "canceled"
  /\ req' = Idled(r)
  /\ UNCHANGED <<external, ledger, row, owner, handled, skipped>>

Init ==
  /\ stripe = [s \in Subs |-> [status |-> "none", session |-> "none"]]
  /\ clock = [count |-> 0, time |-> 0]
  /\ sent = {} /\ acked = {} /\ lapsed = {} /\ ledger = {}
  /\ row = [s \in Subs |-> NoRow]
  /\ owner = "live"
  /\ req = [r \in Requests |-> Idle]
  /\ handled = {} /\ skipped = {}

(* The steps of a request that has started. *)
Continue(r) ==
  \/ Retrieve(r) \/ UpsertUpdate(r) \/ UpsertCreate(r) \/ SubscriptionDeleted(r)
  \/ CancelAtStripe(r) \/ CancelWrite(r)
  \/ CloseCancel(r) \/ CloseLoopEnd(r) \/ CloseWrite(r) \/ CloseOwner(r)

StripeStep(s) ==
  \/ CreateCheckout(s) \/ Subscribe(s) \/ CheckoutCompleted(s) \/ CanceledOutside(s)
  \/ StripeOther(s) \/ \E status \in LiveStatuses : StripeUpdate(s, status)

Next ==
  \/ \E s \in Subs : StripeStep(s)
  \/ \E e \in sent : SkipDuplicate(e) \/ ReceiveOther(e) \/ Lapse(e)
  \/ \E r \in Requests, e \in sent : Receive(r, e)
  \/ \E r \in Requests : Continue(r) \/ Fail(r)
  \/ \E r \in Requests, s \in Subs : CancelRead(r, s)
  \/ \E r \in Requests, op \in {"deleteOrg", "deleteAccount"} : CloseRead(r, op)
  \/ CleanupProcessedWebhookEvents
  \/ RestoreOrganization

Spec == Init /\ [][Next]_vars

EventIds == 1..(MaxEvents + Cardinality(Subs))

(* A started handler goes on; Stripe redelivers until it is answered, and  *)
(* the server always has room for one more request.                        *)
Fairness ==
  /\ \A r \in Requests : WF_vars(Continue(r) \/ Fail(r))
  /\ \A n \in EventIds :
       SF_vars(\E e \in sent : e.id = n /\ (ReceiveOther(e) \/ \E r \in Requests : Receive(r, e)))

FairSpec == Spec /\ Fairness

-----------------------------------------------------------------------------
(* Properties *)

(* A redelivered event is never processed a second time, nor by two        *)
(* requests at once, even while the ledger is pruned.                      *)
HandledOnce ==
  \A r \in Requests : req[r].op = "webhook" =>
    /\ req[r].ev \notin handled
    /\ \A q \in Requests \ {r} : req[q].op = "webhook" => req[q].ev # req[r].ev

(* A row says CANCELED only of a subscription that Stripe has ended: the   *)
(* API never cuts off a customer who is still charged.                     *)
CanceledAtStripe ==
  \A s \in Subs : row[s].exists /\ row[s].status = "CANCELED" =>
    stripe[s].status = "canceled"

(* deleteOrganization and deleteAccount reach their deletion only once     *)
(* every live subscription they found is canceled at Stripe.               *)
CloseCancelsAll ==
  \A r \in Requests : req[r].pc \in {"closeWrite", "close"} =>
    \A s \in req[r].live : stripe[s].status = "canceled"

(* The stamp of a row never goes back: the ordering guard of               *)
(* upsertSubscription, whatever order events arrive in.                    *)
StampMonotone ==
  [][\A s \in Subs : row[s].exists /\ row'[s].exists => row[s].stamp <= row'[s].stamp]_vars

(* A row that the processed deletion left CANCELED is never written live   *)
(* again: an older event that arrives late does not resurrect it, although *)
(* handleSubscriptionDeleted leaves no stamp for the guard to compare.     *)
CanceledStays ==
  [][\A e \in handled : LET s == e.sub IN
       /\ e.kind = "deleted"
       /\ row[s].exists /\ row[s].status = "CANCELED" /\ row'[s].exists
       => row'[s].status = "CANCELED"]_vars

(* Every event Stripe emits is processed in the end.  Holds when no        *)
(* delivery fails after it was recorded.                                   *)
EventHandled ==
  \A n \in EventIds : (\E e \in sent : e.id = n) ~> (\E e \in handled : e.id = n)
=============================================================================
