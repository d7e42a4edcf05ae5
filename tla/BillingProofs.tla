--------------------------- MODULE BillingProofs ----------------------------
(***************************************************************************)
(* Billing, for any number of subscriptions, concurrent deliveries, API    *)
(* calls and failures: rows say CANCELED only of subscriptions that have   *)
(* ended at Stripe, owners are deleted only after what was found live was  *)
(* canceled, no event is processed twice, and stamps never go back.        *)
(*                                                                         *)
(* With the histories of MCBilling: an event is dropped only if the row    *)
(* holds something as new, and once every event was processed the rows     *)
(* agree with Stripe.                                                      *)
(*                                                                         *)
(* The argument: a subscription canceled at Stripe stays canceled, and     *)
(* everything a request carries that says "canceled" was true when it was  *)
(* read, so it is still true when it is written.  A row that disagrees     *)
(* with Stripe has an event to come that will set it right: in order since *)
(* the last change is reported last, in any order since its stamp is older *)
(* than that of the event.                                                 *)
(***************************************************************************)
EXTENDS MCBilling, FiniteSetTheorems, TLAPS

WebhookPcs == {"retrieve", "update", "create", "deleted"}
Ended(s) == stripe[s].status = "canceled"

(* What an event says about its subscription. *)
EventOK(e) == (e.status = "canceled" \/ e.kind = "deleted") => Ended(e.sub)

(* What a request in flight knows. *)
RequestOK(m) ==
  /\ m.op = "webhook" <=> m.pc \in WebhookPcs
  /\ m.pc \in WebhookPcs => m.ev \in sent
  /\ m.pc \in WebhookPcs /\ m.status = "canceled" => Ended(m.ev.sub)
  /\ m.pc = "deleted" => Ended(m.ev.sub)
  /\ m.pc = "cancel" => \E s \in Subs : m.live = {s}
  /\ m.pc \in {"cancelWrite", "closeWrite", "close"} => \A s \in m.live : Ended(s)
  /\ m.pc = "closing" => \A s \in m.live \ m.todo : Ended(s)

RequestsOK == \A r \in Requests : RequestOK(req[r])

(* An unpaid session has no subscription. *)
SessionsOK == \A s \in Subs : stripe[s].session \in {"none", "open"} => stripe[s].status = "none"

(* An event that was begun is recorded until Stripe stops delivering it. *)
LedgerOK ==
  /\ handled \subseteq ledger \cup lapsed
  /\ \A r \in Requests : req[r].op = "webhook" => req[r].ev \in ledger \cup lapsed

Inv ==
  /\ TypeOK
  /\ \A e \in sent : EventOK(e)
  /\ RequestsOK
  /\ SessionsOK
  /\ CanceledAtStripe
  /\ LedgerOK
  /\ HandledOnce

-----------------------------------------------------------------------------

LEMMA IdleFacts ==
  /\ Idle \in Request
  /\ Idle.pc = "idle" /\ Idle.op = "none" /\ Idle.live = {} /\ Idle.todo = {}
BY DEF Idle, Request, StripeStatus

LEMMA IdleOK == RequestOK(Idle)
BY IdleFacts DEF RequestOK, WebhookPcs

LEMMA MapStatus ==
  ASSUME NEW st \in StripeStatus
  PROVE  /\ mapStripeStatus(st) \in Status
         /\ mapStripeStatus(st) = "CANCELED" => st = "canceled"
BY DEF mapStripeStatus, Status

LEMMA NoRowType == NoRow \in Row /\ ~NoRow.exists
BY DEF NoRow, Row, Status

(* Only sent grows, and what ended stays ended. *)
Grows ==
  /\ sent \subseteq sent'
  /\ \A s \in Subs : Ended(s) => Ended(s)'

(* What a request knows stays true while nothing is undone. *)
LEMMA RequestMonotone ==
  ASSUME TypeOK, NEW m \in Request, RequestOK(m), Grows
  PROVE  RequestOK(m)'
<1>1. m.pc \in WebhookPcs => m.ev \in sent /\ m.ev.sub \in Subs
  BY DEF RequestOK, TypeOK, Event
<1>2. m.live \subseteq Subs
  BY DEF Request
<1>3. /\ m.op = "webhook" <=> m.pc \in WebhookPcs
      /\ m.pc \in WebhookPcs => m.ev \in sent'
      /\ m.pc = "cancel" => \E s \in Subs : m.live = {s}
  BY DEF RequestOK, Grows
<1>4. /\ m.pc \in WebhookPcs /\ m.status = "canceled" => stripe'[m.ev.sub].status = "canceled"
      /\ m.pc = "deleted" => stripe'[m.ev.sub].status = "canceled"
  BY <1>1 DEF RequestOK, Grows, Ended, WebhookPcs
<1>5. /\ m.pc \in {"cancelWrite", "closeWrite", "close"} =>
           \A s \in m.live : stripe'[s].status = "canceled"
      /\ m.pc = "closing" => \A s \in m.live \ m.todo : stripe'[s].status = "canceled"
  BY <1>2 DEF RequestOK, Grows, Ended
<1> QED BY <1>3, <1>4, <1>5 DEF RequestOK, Ended, WebhookPcs

LEMMA EventMonotone ==
  ASSUME TypeOK, NEW e \in sent, EventOK(e), Grows
  PROVE  EventOK(e)'
BY DEF EventOK, Grows, Ended, TypeOK, Event

(* A request stays, ends, or moves on with the same delivery. *)
SameDelivery(q) ==
  \/ req'[q] = req[q]
  \/ req'[q].op # "webhook"
  \/ req[q].op = "webhook" /\ req'[q].op = "webhook" /\ req'[q].ev = req[q].ev

LEMMA LedgerFrame ==
  ASSUME Inv, handled' = handled, ledger \cup lapsed \subseteq ledger' \cup lapsed',
         \A q \in Requests : SameDelivery(q)
  PROVE  LedgerOK' /\ HandledOnce'
<1>1. \A q \in Requests : req'[q].op = "webhook" =>
        req[q].op = "webhook" /\ req'[q].ev = req[q].ev
  BY DEF SameDelivery
<1>2. LedgerOK'
  BY <1>1 DEF Inv, LedgerOK
<1>3. HandledOnce'
  BY <1>1 DEF Inv, HandledOnce
<1> QED BY <1>2, <1>3

LEMMA RequestsFrame ==
  ASSUME Inv, Grows,
         \A q \in Requests : req'[q] = req[q] \/ RequestOK(req[q])'
  PROVE  RequestsOK'
<1> SUFFICES ASSUME NEW q \in Requests PROVE RequestOK(req[q])'
  BY DEF RequestsOK
<1>1. CASE req'[q] = req[q]
  <2>1. PICK m \in Request : m = req[q]
    BY DEF Inv, TypeOK
  <2>2. RequestOK(m)
    BY <2>1 DEF Inv, RequestsOK
  <2>3. RequestOK(m)'
    BY <2>2, RequestMonotone DEF Inv
  <2>4. req'[q] = m
    BY <1>1, <2>1
  <2> QED BY <2>3, <2>4 DEF RequestOK, Ended
<1> QED BY <1>1

(* Everything but the part that a step really changes. *)
LEMMA Frame ==
  ASSUME Inv, TypeOK', Grows,
         \A e \in sent' \ sent : EventOK(e)',
         \A q \in Requests : req'[q] = req[q] \/ RequestOK(req[q])',
         SessionsOK', CanceledAtStripe', LedgerOK', HandledOnce'
  PROVE  Inv'
<1>1. RequestsOK'
  BY RequestsFrame
<1>2. ASSUME NEW e \in sent' PROVE EventOK(e)'
  <2>1. CASE e \in sent
    BY <2>1, EventMonotone DEF Inv
  <2> QED BY <2>1
<1> QED BY <1>1, <1>2 DEF Inv

LEMMA RowsFrame ==
  ASSUME Inv, Grows, row' = row
  PROVE  CanceledAtStripe'
BY DEF Inv, CanceledAtStripe, Grows, Ended

-----------------------------------------------------------------------------
(* Stripe *)

(* One more event. *)
LEMMA EmitFacts ==
  ASSUME TypeOK, NEW kind \in {"updated", "checkout", "deleted", "other"}, NEW s \in Subs,
         NEW status \in StripeStatus, Emit(kind, s, status)
  PROVE  /\ clock' \in [count : Nat, time : Nat]
         /\ sent' \subseteq Event /\ sent \subseteq sent'
         /\ \A e \in sent' \ sent : e.kind = kind /\ e.sub = s /\ e.status = status
         /\ acked' = acked /\ lapsed' = lapsed
<1>1. clock.count \in Nat /\ clock.time \in Nat
  BY DEF TypeOK
<1>2. PICK t \in {clock.time + 1} \cup (IF Coarse /\ clock.time > 0 THEN {clock.time} ELSE {}) :
        /\ clock' = [count |-> clock.count + 1, time |-> t]
        /\ sent' = sent \cup {[id |-> clock.count + 1, kind |-> kind, sub |-> s,
                               created |-> t, status |-> status]}
  BY DEF Emit
<1>3. t \in Nat /\ clock.count + 1 \in Nat
  BY <1>1
<1>4. [id |-> clock.count + 1, kind |-> kind, sub |-> s, created |-> t,
       status |-> status] \in Event
  BY <1>3 DEF Event
<1>5. clock' \in [count : Nat, time : Nat]
  BY <1>2, <1>3
<1>6. sent' \subseteq Event /\ sent \subseteq sent'
  BY <1>2, <1>4 DEF TypeOK
<1>7. \A e \in sent' \ sent : e.kind = kind /\ e.sub = s /\ e.status = status
  BY <1>2
<1>8. acked' = acked /\ lapsed' = lapsed
  BY DEF Emit
<1> QED BY <1>5, <1>6, <1>7, <1>8

(* A subscription that changes without ending, or that ends. *)
LEMMA StripeSubUpdate ==
  ASSUME NEW w \in StripeSub, NEW st \in StripeStatus
  PROVE  /\ [w EXCEPT !.status = st] \in StripeSub
         /\ [w EXCEPT !.status = st].status = st
         /\ [w EXCEPT !.status = st].session = w.session
         /\ [w EXCEPT !.session = "open"] \in StripeSub
         /\ [w EXCEPT !.session = "open"].status = w.status
         /\ [w EXCEPT !.session = "done"] \in StripeSub
         /\ [w EXCEPT !.session = "done"].status = w.status
         /\ [w EXCEPT !.session = "done"].session = "done"
BY DEF StripeSub

(* What the steps of Stripe have in common. *)
LEMMA StripeFrame ==
  ASSUME Inv, NEW s \in Subs, NEW w \in StripeSub,
         stripe' = [stripe EXCEPT ![s] = w],
         Ended(s) => w.status = "canceled",
         w.session \in {"none", "open"} => w.status = "none",
         clock' \in [count : Nat, time : Nat],
         sent' \subseteq Event, sent \subseteq sent',
         \A e \in sent' \ sent : e.sub = s /\
           (e.status = "canceled" \/ e.kind = "deleted" => w.status = "canceled"),
         acked' = acked, lapsed' = lapsed
  PROVE  /\ Grows
         /\ \A e \in sent' \ sent : EventOK(e)'
         /\ SessionsOK'
         /\ stripe' \in [Subs -> StripeSub]
         /\ \A d \in Subs \ {s} : stripe'[d] = stripe[d]
         /\ stripe'[s] = w
<1>1. stripe \in [Subs -> StripeSub]
  BY DEF Inv, TypeOK
<1>2. /\ stripe' \in [Subs -> StripeSub] /\ stripe'[s] = w
      /\ \A d \in Subs \ {s} : stripe'[d] = stripe[d]
  BY <1>1
<1>3. Grows
  BY <1>2 DEF Grows, Ended
<1>4. \A e \in sent' \ sent : EventOK(e)'
  BY <1>2 DEF EventOK, Ended
<1>5. SessionsOK'
  BY <1>2 DEF Inv, SessionsOK, Ended
<1> QED BY <1>2, <1>3, <1>4, <1>5

(* Stripe's own changes leave the database and the requests alone. *)
LEMMA OutsideFrame ==
  ASSUME Inv, Grows, \A e \in sent' \ sent : EventOK(e)', SessionsOK',
         stripe' \in [Subs -> StripeSub], clock' \in [count : Nat, time : Nat],
         sent' \subseteq Event, UNCHANGED <<acked, lapsed, ledger, row, owner, req, handled, skipped>>
  PROVE  Inv'
<1>1. TypeOK'
  BY DEF Inv, TypeOK, Grows
<1>2. LedgerOK' /\ HandledOnce'
  BY LedgerFrame DEF SameDelivery
<1>3. CanceledAtStripe'
  BY RowsFrame
<1> QED BY <1>1, <1>2, <1>3, Frame

LEMMA LiveStatus ==
  ASSUME NEW st \in LiveStatuses PROVE st \in StripeStatus \ {"none", "canceled"}
BY BillingConstants DEF StripeStatus, StripeLive

(* A cancellation, by whoever asks for it. *)
LEMMA CancelFacts ==
  ASSUME Inv, NEW s \in Subs, StripeCancels(s)
  PROVE  /\ Grows /\ (\A e \in sent' \ sent : EventOK(e)') /\ SessionsOK'
         /\ stripe' \in [Subs -> StripeSub] /\ clock' \in [count : Nat, time : Nat]
         /\ sent' \subseteq Event /\ UNCHANGED <<acked, lapsed>>
         /\ stripe'[s].status = "canceled"
<1>0. TypeOK /\ stripe \in [Subs -> StripeSub] /\ stripe[s] \in StripeSub
      /\ "canceled" \in StripeStatus
  BY DEF Inv, TypeOK, StripeStatus
<1> DEFINE w == [stripe[s] EXCEPT !.status = "canceled"]
<1>1. w \in StripeSub /\ w.status = "canceled" /\ w.session = stripe[s].session
  BY <1>0, StripeSubUpdate
<1>2. stripe' = [stripe EXCEPT ![s] = w] /\ Emit("deleted", s, "canceled")
      /\ stripe[s].status \in LiveStatuses
  BY <1>0 DEF StripeCancels
<1> HIDE DEF w
<1>3. PICK kind \in {"updated", "checkout", "deleted", "other"}, st \in StripeStatus :
        kind = "deleted" /\ st = "canceled"
  BY <1>0
<1>4. /\ clock' \in [count : Nat, time : Nat]
      /\ sent' \subseteq Event /\ sent \subseteq sent'
      /\ \A e \in sent' \ sent : e.kind = kind /\ e.sub = s /\ e.status = st
      /\ acked' = acked /\ lapsed' = lapsed
  BY <1>0, <1>2, <1>3, EmitFacts
<1>5. w.session \notin {"none", "open"}
  BY <1>1, <1>2, LiveStatus DEF Inv, SessionsOK
<1>6. /\ Grows /\ (\A e \in sent' \ sent : EventOK(e)') /\ SessionsOK'
      /\ stripe' \in [Subs -> StripeSub] /\ stripe'[s] = w
  BY <1>1, <1>2, <1>4, <1>5, StripeFrame
<1> QED BY <1>1, <1>4, <1>6

LEMMA OutsideInv ==
  ASSUME Inv, NEW s \in Subs, StripeStep(s)
  PROVE  Inv'
<1>0. /\ TypeOK /\ stripe \in [Subs -> StripeSub] /\ stripe[s] \in StripeSub
      /\ "canceled" \in StripeStatus /\ clock \in [count : Nat, time : Nat] /\ sent \subseteq Event
  BY DEF Inv, TypeOK, StripeStatus
<1>s. stripe[s].status \in StripeStatus /\ (stripe[s].session \in {"none", "open"} => stripe[s].status = "none")
  BY <1>0 DEF Inv, SessionsOK, StripeSub
<1>1. CASE CreateCheckout(s)
  <2> DEFINE w == [stripe[s] EXCEPT !.session = "open"]
  <2>1. w \in StripeSub /\ w.status = stripe[s].status
    BY <1>0, StripeSubUpdate
  <2>2. stripe' = [stripe EXCEPT ![s] = w] /\ stripe[s].session = "none"
        /\ UNCHANGED <<clock, sent, acked, lapsed, ledger, row, owner, req, handled, skipped>>
    BY <1>0, <1>1 DEF CreateCheckout
  <2> HIDE DEF w
  <2>3. w.status = "none" /\ ~Ended(s)
    BY <1>s, <2>1, <2>2 DEF Ended
  <2>4. Grows /\ (\A e \in sent' \ sent : EventOK(e)') /\ SessionsOK'
        /\ stripe' \in [Subs -> StripeSub]
    BY <1>0, <1>s, <2>1, <2>2, <2>3, StripeFrame
  <2> QED BY <1>0, <2>2, <2>4, OutsideFrame
<1>2. CASE Subscribe(s)
  <2> DEFINE w == [status |-> "active", session |-> "paid"]
  <2>1. w \in StripeSub /\ w.status = "active" /\ w.session = "paid"
    BY DEF StripeSub, StripeStatus, StripeLive
  <2>2. stripe' = [stripe EXCEPT ![s] = w] /\ stripe[s].session = "open"
        /\ Emit("updated", s, "active") /\ UNCHANGED <<ledger, row, owner, req, handled, skipped>>
    BY <1>2 DEF Subscribe
  <2> HIDE DEF w
  <2>3. PICK kind \in {"updated", "checkout", "deleted", "other"}, st \in StripeStatus :
          kind = "updated" /\ st = "active"
    BY DEF StripeStatus, StripeLive
  <2>4. /\ clock' \in [count : Nat, time : Nat]
        /\ sent' \subseteq Event /\ sent \subseteq sent'
        /\ \A e \in sent' \ sent : e.kind = kind /\ e.sub = s /\ e.status = st
        /\ acked' = acked /\ lapsed' = lapsed
    BY <1>0, <2>2, <2>3, EmitFacts
  <2>5. Grows /\ (\A e \in sent' \ sent : EventOK(e)') /\ SessionsOK'
        /\ stripe' \in [Subs -> StripeSub]
    <3>1. ~Ended(s)
      BY <1>s, <2>2 DEF Ended
    <3> QED BY <2>1, <2>2, <2>3, <2>4, <3>1, StripeFrame
  <2> QED BY <2>2, <2>4, <2>5, OutsideFrame
<1>3. CASE CheckoutCompleted(s)
  <2> DEFINE w == [stripe[s] EXCEPT !.session = "done"]
  <2>1. w \in StripeSub /\ w.status = stripe[s].status /\ w.session = "done"
    BY <1>0, StripeSubUpdate
  <2>2. stripe' = [stripe EXCEPT ![s] = w]
        /\ Emit("checkout", s, stripe[s].status)
        /\ UNCHANGED <<ledger, row, owner, req, handled, skipped>>
    BY <1>0, <1>3 DEF CheckoutCompleted
  <2> HIDE DEF w
  <2>3. PICK kind \in {"updated", "checkout", "deleted", "other"}, st \in StripeStatus :
          kind = "checkout" /\ st = stripe[s].status
    BY <1>s
  <2>4. /\ clock' \in [count : Nat, time : Nat]
        /\ sent' \subseteq Event /\ sent \subseteq sent'
        /\ \A e \in sent' \ sent : e.kind = kind /\ e.sub = s /\ e.status = st
        /\ acked' = acked /\ lapsed' = lapsed
    BY <1>0, <2>2, <2>3, EmitFacts
  <2>5. Grows /\ (\A e \in sent' \ sent : EventOK(e)') /\ SessionsOK'
        /\ stripe' \in [Subs -> StripeSub]
    <3>1. Ended(s) => w.status = "canceled"
      BY <2>1 DEF Ended
    <3>2. \A e \in sent' \ sent : e.sub = s /\
            (e.status = "canceled" \/ e.kind = "deleted" => w.status = "canceled")
      BY <2>1, <2>3, <2>4
    <3> QED BY <2>1, <2>2, <2>4, <3>1, <3>2, StripeFrame
  <2> QED BY <2>2, <2>4, <2>5, OutsideFrame
<1>4. CASE \E status \in LiveStatuses : StripeUpdate(s, status)
  <2>0. PICK status \in LiveStatuses : StripeUpdate(s, status)
    BY <1>4
  <2>l. status \in StripeStatus /\ status # "canceled"
    BY LiveStatus
  <2> DEFINE w == [stripe[s] EXCEPT !.status = status]
  <2>1. w \in StripeSub /\ w.status = status /\ w.session = stripe[s].session
    BY <1>0, <2>l, StripeSubUpdate
  <2>2. stripe' = [stripe EXCEPT ![s] = w]
        /\ Emit("updated", s, status)
        /\ UNCHANGED <<ledger, row, owner, req, handled, skipped>>
        /\ stripe[s].status \in LiveStatuses
    BY <1>0, <2>0 DEF StripeUpdate
  <2> HIDE DEF w
  <2>n. ~Ended(s) /\ w.session \notin {"none", "open"}
    BY <1>s, <2>1, <2>2, LiveStatus DEF Ended
  <2>3. PICK kind \in {"updated", "checkout", "deleted", "other"}, st \in StripeStatus :
          kind = "updated" /\ st = status
    BY <2>l
  <2>4. /\ clock' \in [count : Nat, time : Nat]
        /\ sent' \subseteq Event /\ sent \subseteq sent'
        /\ \A e \in sent' \ sent : e.kind = kind /\ e.sub = s /\ e.status = st
        /\ acked' = acked /\ lapsed' = lapsed
    BY <1>0, <2>2, <2>3, EmitFacts
  <2>5. Grows /\ (\A e \in sent' \ sent : EventOK(e)') /\ SessionsOK'
        /\ stripe' \in [Subs -> StripeSub]
    BY <1>0, <2>l, <2>n, <2>1, <2>2, <2>3, <2>4, StripeFrame
  <2> QED BY <2>2, <2>4, <2>5, OutsideFrame
<1>5. CASE CanceledOutside(s)
  <2>1. StripeCancels(s) /\ UNCHANGED <<ledger, row, owner, req, handled, skipped>>
    BY <1>5 DEF CanceledOutside
  <2>2. /\ Grows /\ (\A e \in sent' \ sent : EventOK(e)') /\ SessionsOK'
        /\ stripe' \in [Subs -> StripeSub] /\ clock' \in [count : Nat, time : Nat]
        /\ sent' \subseteq Event /\ UNCHANGED <<acked, lapsed>>
    BY <2>1, CancelFacts
  <2> QED BY <2>1, <2>2, OutsideFrame
<1>6. CASE StripeOther(s)
  <2>1. /\ stripe' = stripe /\ Emit("other", s, stripe[s].status)
        /\ UNCHANGED <<ledger, row, owner, req, handled, skipped>>
    BY <1>6 DEF StripeOther
  <2>2. PICK kind \in {"updated", "checkout", "deleted", "other"}, st \in StripeStatus :
          kind = "other" /\ st = stripe[s].status
    BY <1>s
  <2>3. /\ clock' \in [count : Nat, time : Nat]
        /\ sent' \subseteq Event /\ sent \subseteq sent'
        /\ \A e \in sent' \ sent : e.kind = kind /\ e.sub = s /\ e.status = st
        /\ acked' = acked /\ lapsed' = lapsed
    BY <1>0, <2>1, <2>2, EmitFacts
  <2>4. Grows /\ SessionsOK' /\ \A e \in sent' \ sent : EventOK(e)'
    BY <1>0, <2>1, <2>2, <2>3 DEF Inv, Grows, Ended, SessionsOK, EventOK
  <2> QED BY <1>0, <2>1, <2>3, <2>4, OutsideFrame
<1> QED BY <1>1, <1>2, <1>3, <1>4, <1>5, <1>6 DEF StripeStep

-----------------------------------------------------------------------------
(* Deliveries *)

LEMMA HandlingFacts ==
  ASSUME Inv, NEW e \in sent, e.kind # "other"
  PROVE  /\ Handling(e) \in Request /\ RequestOK(Handling(e))
         /\ Handling(e).op = "webhook" /\ Handling(e).ev = e
<1>1. e \in Event /\ EventOK(e) /\ e.kind \in {"updated", "checkout", "deleted"}
  BY DEF Inv, TypeOK, Event
<1>2. PICK pc \in WebhookPcs : pc = FirstStep(e.kind) /\ (pc = "deleted" => e.kind = "deleted")
  BY <1>1 DEF FirstStep, WebhookPcs
<1>3. e.status \in StripeStatus
  BY <1>1 DEF Event
<1> DEFINE m == [pc |-> pc, op |-> "webhook", ev |-> e, status |-> e.status,
                 live |-> {}, todo |-> {}]
<1>4. Handling(e) = m
  BY <1>2 DEF Handling
<1>5. m \in Request
  BY <1>1, <1>2, <1>3 DEF Request, WebhookPcs
<1>6. m.pc = pc /\ m.op = "webhook" /\ m.ev = e /\ m.status = e.status
  OBVIOUS
<1> HIDE DEF m
<1>7. RequestOK(m)
  BY <1>1, <1>2, <1>6 DEF RequestOK, WebhookPcs, EventOK
<1> QED BY <1>4, <1>5, <1>6, <1>7

LEMMA ReceiveInv ==
  ASSUME Inv, NEW r \in Requests, NEW e \in sent, Receive(r, e)
  PROVE  Inv'
<1>1. /\ e \notin ledger \cup lapsed /\ e.kind # "other"
      /\ ledger' = ledger \cup {e}
      /\ UNCHANGED <<stripe, clock, sent, acked, lapsed, row, owner, handled, skipped>>
  BY DEF Receive, Deliverable, external
<1>2. PICK m \in Request : /\ m = Handling(e) /\ RequestOK(m)
                           /\ m.op = "webhook" /\ m.ev = e
  BY <1>1, HandlingFacts
<1>3. req' = [req EXCEPT ![r] = m]
  BY <1>2 DEF Receive
<1>4. /\ req' \in [Requests -> Request] /\ req'[r] = m
      /\ \A q \in Requests : q # r => req'[q] = req[q]
  BY <1>2, <1>3 DEF Inv, TypeOK
<1>5. TypeOK'
  BY <1>1, <1>4 DEF Inv, TypeOK
<1>6. Grows /\ sent' \ sent = {} /\ SessionsOK'
  BY <1>1 DEF Inv, Grows, Ended, SessionsOK
<1>7. \A q \in Requests : req'[q] = req[q] \/ RequestOK(req[q])'
  BY <1>1, <1>2, <1>4 DEF RequestOK, Ended
<1>8. LedgerOK'
  BY <1>1, <1>2, <1>4 DEF Inv, LedgerOK
<1>9. e \notin handled /\ \A q \in Requests : req[q].op = "webhook" => req[q].ev # e
  BY <1>1 DEF Inv, LedgerOK
<1>10. HandledOnce'
  BY <1>1, <1>2, <1>4, <1>9 DEF Inv, HandledOnce
<1>11. CanceledAtStripe'
  BY <1>1, <1>6, RowsFrame
<1> QED BY <1>5, <1>6, <1>7, <1>8, <1>10, <1>11, Frame

LEMMA DeliveryInv ==
  ASSUME Inv, \/ \E e \in sent : SkipDuplicate(e) \/ ReceiveOther(e) \/ Lapse(e)
              \/ CleanupProcessedWebhookEvents
  PROVE  Inv'
<1>1. UNCHANGED <<stripe, clock, sent, row, owner, req, skipped>>
  BY DEF SkipDuplicate, ReceiveOther, Lapse, CleanupProcessedWebhookEvents, Ack, external
<1>2. Grows /\ sent' \ sent = {} /\ SessionsOK' /\ \A q \in Requests : req'[q] = req[q]
  BY <1>1 DEF Inv, Grows, Ended, SessionsOK
<1>3. CanceledAtStripe'
  BY <1>1, <1>2, RowsFrame
<1>4. TypeOK' /\ LedgerOK' /\ HandledOnce'
  <2>1. ASSUME NEW e \in sent, SkipDuplicate(e) PROVE TypeOK' /\ LedgerOK' /\ HandledOnce'
    <3>1. acked' = acked \cup {e} /\ UNCHANGED <<lapsed, ledger, handled>>
      BY <2>1 DEF SkipDuplicate, Ack
    <3> QED BY <1>1, <3>1 DEF Inv, TypeOK, LedgerOK, HandledOnce
  <2>2. ASSUME NEW e \in sent, ReceiveOther(e) PROVE TypeOK' /\ LedgerOK' /\ HandledOnce'
    <3>1. /\ acked' = acked \cup {e} /\ lapsed' = lapsed /\ ledger' = ledger \cup {e}
          /\ handled' = handled \cup {e} /\ e \notin ledger \cup lapsed
      BY <2>2 DEF ReceiveOther, Ack, Deliverable
    <3>2. TypeOK' /\ LedgerOK'
      BY <1>1, <3>1 DEF Inv, TypeOK, LedgerOK
    <3>3. \A q \in Requests : req[q].op = "webhook" => req[q].ev # e
      BY <3>1 DEF Inv, LedgerOK
    <3>4. HandledOnce'
      BY <1>1, <3>1, <3>3 DEF Inv, HandledOnce
    <3> QED BY <3>2, <3>4
  <2>3. ASSUME NEW e \in sent, Lapse(e) PROVE TypeOK' /\ LedgerOK' /\ HandledOnce'
    <3>1. /\ UNCHANGED <<acked, ledger, handled>> /\ lapsed' = lapsed \cup {e} /\ e \in acked
      BY <2>3 DEF Lapse
    <3> QED BY <1>1, <3>1 DEF Inv, TypeOK, LedgerOK, HandledOnce
  <2>4. CASE CleanupProcessedWebhookEvents
    <3>1. UNCHANGED <<acked, lapsed, handled>> /\ ledger' = ledger \ lapsed
      BY <2>4 DEF CleanupProcessedWebhookEvents, external
    <3> QED BY <1>1, <3>1 DEF Inv, TypeOK, LedgerOK, HandledOnce
  <2> QED BY <2>1, <2>2, <2>3, <2>4
<1> QED BY <1>2, <1>3, <1>4, Frame

-----------------------------------------------------------------------------
(* Handlers *)

(* The handler of r ends with an answer. *)
LEMMA AnswerFacts ==
  ASSUME Inv, NEW r \in Requests, req[r].pc \in WebhookPcs, Answer(r), ledger' = ledger
  PROVE  /\ req[r].ev \in sent /\ req[r].ev \in Event
         /\ req' \in [Requests -> Request]
         /\ acked' \subseteq sent /\ lapsed' \subseteq acked' /\ handled' \subseteq sent
         /\ handled' = handled \cup {req[r].ev}
         /\ UNCHANGED <<stripe, clock, sent, lapsed>>
         /\ Grows /\ sent' \ sent = {} /\ SessionsOK'
         /\ \A q \in Requests : req'[q] = req[q] \/ RequestOK(req[q])'
         /\ LedgerOK' /\ HandledOnce'
<1>1. RequestOK(req[r]) /\ TypeOK
  BY DEF Inv, RequestsOK
<1>2. req[r].ev \in sent /\ req[r].op = "webhook"
  BY <1>1 DEF RequestOK
<1>3. /\ acked' = acked \cup {req[r].ev} /\ handled' = handled \cup {req[r].ev}
      /\ req' = Idled(r) /\ UNCHANGED <<stripe, clock, sent, lapsed>>
  BY DEF Answer, Ack
<1>4. /\ req' \in [Requests -> Request] /\ req'[r] = Idle
      /\ \A q \in Requests : q # r => req'[q] = req[q]
  BY <1>1, <1>3, IdleFacts DEF Idled, TypeOK
<1>5. /\ acked' \subseteq sent /\ lapsed' \subseteq acked' /\ handled' \subseteq sent
      /\ req[r].ev \in Event
  BY <1>1, <1>2, <1>3 DEF TypeOK
<1>6. Grows /\ sent' \ sent = {} /\ SessionsOK'
  BY <1>3 DEF Inv, Grows, Ended, SessionsOK
<1>7. RequestOK(Idle)'
  BY IdleFacts DEF RequestOK, WebhookPcs
<1>8. \A q \in Requests : req'[q] = req[q] \/ RequestOK(req[q])'
  BY <1>4, <1>7 DEF RequestOK, Ended
<1>9. LedgerOK'
  BY <1>2, <1>3, <1>4, IdleFacts DEF Inv, LedgerOK
<1>10. HandledOnce'
  BY <1>2, <1>3, <1>4, IdleFacts DEF Inv, HandledOnce
<1> QED BY <1>2, <1>3, <1>4, <1>5, <1>6, <1>8, <1>9, <1>10

(* r moves to m, with the delivery it has or with none. *)
LEMMA MoveFacts ==
  ASSUME Inv, NEW r \in Requests, NEW m \in Request, req' = [req EXCEPT ![r] = m],
         m.op # "webhook" \/ (req[r].op = "webhook" /\ m.ev = req[r].ev),
         RequestOK(m)'
  PROVE  /\ req' \in [Requests -> Request]
         /\ \A q \in Requests : SameDelivery(q)
         /\ \A q \in Requests : req'[q] = req[q] \/ RequestOK(req[q])'
<1>1. /\ req' \in [Requests -> Request] /\ req'[r] = m
      /\ \A q \in Requests : q # r => req'[q] = req[q]
  BY DEF Inv, TypeOK
<1>2. \A q \in Requests : SameDelivery(q)
  BY <1>1 DEF SameDelivery
<1>3. \A q \in Requests : req'[q] = req[q] \/ RequestOK(req[q])'
  BY <1>1 DEF RequestOK, Ended
<1> QED BY <1>1, <1>2, <1>3

(* A step that only moves r and perhaps cancels at Stripe, rows aside. *)
LEMMA MoveInv ==
  ASSUME Inv, NEW r \in Requests, NEW m \in Request, req' = [req EXCEPT ![r] = m],
         m.op # "webhook" \/ (req[r].op = "webhook" /\ m.ev = req[r].ev),
         RequestOK(m)', CanceledAtStripe', row' \in [Subs -> Row],
         owner' \in {"live", "deleted", "gone"},
         Grows, \A e \in sent' \ sent : EventOK(e)', SessionsOK',
         stripe' \in [Subs -> StripeSub], clock' \in [count : Nat, time : Nat],
         sent' \subseteq Event, UNCHANGED <<acked, lapsed, ledger, handled, skipped>>
  PROVE  Inv'
<1>1. /\ req' \in [Requests -> Request]
      /\ \A q \in Requests : SameDelivery(q)
      /\ \A q \in Requests : req'[q] = req[q] \/ RequestOK(req[q])'
  BY MoveFacts
<1>2. TypeOK'
  BY <1>1 DEF Inv, TypeOK, Grows
<1>3. LedgerOK' /\ HandledOnce'
  BY <1>1, LedgerFrame
<1> QED BY <1>1, <1>2, <1>3, Frame

(* The same, with Stripe left alone. *)
LEMMA LocalInv ==
  ASSUME Inv, NEW r \in Requests, NEW m \in Request, req' = [req EXCEPT ![r] = m],
         m.op # "webhook" \/ (req[r].op = "webhook" /\ m.ev = req[r].ev),
         RequestOK(m), CanceledAtStripe', row' \in [Subs -> Row],
         owner' \in {"live", "deleted", "gone"},
         UNCHANGED <<stripe, clock, sent, acked, lapsed, ledger, handled, skipped>>
  PROVE  Inv'
<1>1. /\ Grows /\ sent' \ sent = {} /\ SessionsOK'
      /\ stripe' \in [Subs -> StripeSub] /\ clock' \in [count : Nat, time : Nat]
      /\ sent' \subseteq Event
  BY DEF Inv, TypeOK, Grows, Ended, SessionsOK
<1>2. RequestOK(m)'
  BY DEF RequestOK, Ended
<1> QED BY <1>1, <1>2, MoveInv

(* The step of a request, from a record to its next. *)
LEMMA PcUpdate ==
  ASSUME NEW w \in Request, NEW pc,
         pc \in {"update", "create", "cancelWrite", "closeWrite", "close"}
  PROVE  \E m \in Request : /\ m = [w EXCEPT !.pc = pc] /\ m.pc = pc /\ m.op = w.op
                            /\ m.ev = w.ev /\ m.status = w.status /\ m.live = w.live
<1> DEFINE m == [w EXCEPT !.pc = pc]
<1>1. /\ m \in Request /\ m.pc = pc /\ m.op = w.op /\ m.ev = w.ev
      /\ m.status = w.status /\ m.live = w.live
  BY DEF Request
<1> HIDE DEF m
<1>2. \E n \in Request : /\ n = m /\ n.pc = pc /\ n.op = w.op
                         /\ n.ev = w.ev /\ n.status = w.status /\ n.live = w.live
  BY <1>1
<1> QED BY <1>2 DEF m

LEMMA RetrieveInv ==
  ASSUME Inv, NEW r \in Requests, Retrieve(r)
  PROVE  Inv'
<1>1. /\ TypeOK /\ req[r] \in Request /\ req \in [Requests -> Request]
      /\ RequestOK(req[r]) /\ req[r].pc = "retrieve"
  BY DEF Inv, TypeOK, RequestsOK, Retrieve
<1>2. req[r].ev \in sent /\ req[r].ev.sub \in Subs /\ req[r].op = "webhook"
  BY <1>1 DEF RequestOK, WebhookPcs, TypeOK, Event
<1>3. PICK st \in StripeStatus : st = stripe[req[r].ev.sub].status
  BY <1>1, <1>2 DEF TypeOK, StripeSub
<1>4. PICK m \in Request : /\ m = [req[r] EXCEPT !.pc = "update", !.status = st]
                           /\ m.pc = "update" /\ m.op = req[r].op /\ m.ev = req[r].ev
                           /\ m.status = st
  <2> DEFINE n == [req[r] EXCEPT !.pc = "update", !.status = st]
  <2>1. /\ n \in Request /\ n.pc = "update" /\ n.op = req[r].op /\ n.ev = req[r].ev
        /\ n.status = st
    BY <1>1, <1>3 DEF Request
  <2> HIDE DEF n
  <2>2. \E m \in Request : /\ m = n /\ m.pc = "update" /\ m.op = req[r].op
                           /\ m.ev = req[r].ev /\ m.status = st
    BY <2>1
  <2> QED BY <2>2 DEF n
<1>5. req' = [req EXCEPT ![r] = m]
  BY <1>1, <1>3, <1>4 DEF Retrieve
<1>6. UNCHANGED <<stripe, clock, sent, acked, lapsed, ledger, row, owner, handled, skipped>>
  BY DEF Retrieve, external
<1>7. RequestOK(m)
  BY <1>2, <1>3, <1>4 DEF RequestOK, WebhookPcs, Ended
<1>8. CanceledAtStripe' /\ row' \in [Subs -> Row] /\ owner' \in {"live", "deleted", "gone"}
  BY <1>1, <1>6 DEF Inv, CanceledAtStripe, TypeOK
<1> QED BY <1>2, <1>4, <1>5, <1>6, <1>7, <1>8, LocalInv

LEMMA RowUpdate ==
  ASSUME NEW w \in Row, NEW st \in Status, NEW n \in Nat
  PROVE  /\ [w EXCEPT !.status = st] \in Row
         /\ [w EXCEPT !.status = st].exists = w.exists
         /\ [w EXCEPT !.status = st].status = st
         /\ [w EXCEPT !.status = st].stamp = w.stamp
         /\ [w EXCEPT !.status = st, !.stamp = n] \in Row
         /\ [w EXCEPT !.status = st, !.stamp = n].exists = w.exists
         /\ [w EXCEPT !.status = st, !.stamp = n].status = st
         /\ [w EXCEPT !.status = st, !.stamp = n].stamp = n
BY DEF Row

(* A handler that writes row s, truthfully, and answers. *)
LEMMA WriteInv ==
  ASSUME Inv, NEW r \in Requests, req[r].pc \in WebhookPcs, Answer(r),
         UNCHANGED <<ledger, owner>>, NEW s \in Subs, NEW x \in Row,
         row' = [row EXCEPT ![s] = x], x.exists /\ x.status = "CANCELED" => Ended(s),
         skipped' = skipped \/ skipped' = skipped \cup {req[r].ev}
  PROVE  Inv'
<1>1. /\ req[r].ev \in sent /\ req' \in [Requests -> Request]
      /\ acked' \subseteq sent /\ lapsed' \subseteq acked' /\ handled' \subseteq sent
      /\ handled' = handled \cup {req[r].ev}
      /\ UNCHANGED <<stripe, clock, sent, lapsed>>
      /\ Grows /\ sent' \ sent = {} /\ SessionsOK'
      /\ \A q \in Requests : req'[q] = req[q] \/ RequestOK(req[q])'
      /\ LedgerOK' /\ HandledOnce'
  BY AnswerFacts
<1>2. TypeOK'
  BY <1>1 DEF Inv, TypeOK
<1>3. /\ row'[s] = x
      /\ \A d \in Subs \ {s} : row'[d] = row[d]
  BY DEF Inv, TypeOK
<1>4. CanceledAtStripe'
  BY <1>1, <1>3 DEF Inv, CanceledAtStripe, Ended
<1> QED BY <1>1, <1>2, <1>4, Frame

LEMMA UpsertUpdateInv ==
  ASSUME Inv, NEW r \in Requests, UpsertUpdate(r)
  PROVE  Inv'
<1>1. /\ TypeOK /\ req[r] \in Request /\ req \in [Requests -> Request]
      /\ RequestOK(req[r]) /\ req[r].pc = "update" /\ UNCHANGED <<ledger, owner, skipped>>
  BY DEF Inv, TypeOK, RequestsOK, UpsertUpdate
<1>2. /\ req[r].pc \in WebhookPcs /\ req[r].ev \in sent /\ req[r].op = "webhook"
      /\ req[r].ev \in Event /\ req[r].status \in StripeStatus
  BY <1>1 DEF RequestOK, WebhookPcs, TypeOK, Request
<1>3. PICK s \in Subs, n \in Nat : s = req[r].ev.sub /\ n = req[r].ev.created
  BY <1>2 DEF Event
<1>4. CASE NotNewer(s, n)
  <2>1. PICK st \in Status : /\ st = mapStripeStatus(req[r].status)
                             /\ st = "CANCELED" => Ended(s)
    BY <1>1, <1>2, <1>3, MapStatus DEF RequestOK
  <2> DEFINE x == [row[s] EXCEPT !.status = st, !.stamp = n]
  <2>2. row \in [Subs -> Row] /\ row[s] \in Row
    BY <1>1 DEF TypeOK
  <2>3. x \in Row /\ x.status = st
    BY <1>3, <2>1, <2>2 DEF Row
  <2>4. row' = [row EXCEPT ![s].status = st, ![s].stamp = n] /\ Answer(r)
    BY <1>3, <1>4, <2>1 DEF UpsertUpdate
  <2>5. row' = [row EXCEPT ![s] = x]
    BY <2>2, <2>4
  <2> HIDE DEF x
  <2> QED BY <1>1, <1>2, <2>1, <2>3, <2>4, <2>5, WriteInv
<1>5. CASE ~NotNewer(s, n)
  <2>1. /\ req' = [req EXCEPT ![r].pc = "create"]
        /\ UNCHANGED <<stripe, clock, sent, acked, lapsed, row, handled>>
    BY <1>3, <1>5 DEF UpsertUpdate, external
  <2>2. PICK m \in Request : /\ m = [req[r] EXCEPT !.pc = "create"] /\ m.pc = "create"
                             /\ m.op = req[r].op /\ m.ev = req[r].ev
                             /\ m.status = req[r].status /\ m.live = req[r].live
    BY <1>1, PcUpdate
  <2>3. req' = [req EXCEPT ![r] = m]
    BY <1>1, <2>1, <2>2
  <2>4. RequestOK(m)
    BY <1>1, <1>2, <2>2 DEF RequestOK, WebhookPcs
  <2>5. CanceledAtStripe' /\ row' \in [Subs -> Row] /\ owner' \in {"live", "deleted", "gone"}
    BY <1>1, <2>1 DEF Inv, CanceledAtStripe, TypeOK
  <2> QED BY <1>1, <1>2, <2>1, <2>2, <2>3, <2>4, <2>5, LocalInv
<1> QED BY <1>4, <1>5

LEMMA UpsertCreateInv ==
  ASSUME Inv, NEW r \in Requests, UpsertCreate(r)
  PROVE  Inv'
<1>1. /\ TypeOK /\ req[r] \in Request /\ RequestOK(req[r]) /\ req[r].pc = "create"
      /\ UNCHANGED <<ledger, owner>> /\ Answer(r)
  BY DEF Inv, TypeOK, RequestsOK, UpsertCreate
<1>2. /\ req[r].pc \in WebhookPcs /\ req[r].ev \in sent
      /\ req[r].ev \in Event /\ req[r].status \in StripeStatus
  BY <1>1 DEF RequestOK, WebhookPcs, TypeOK, Request
<1>3. PICK s \in Subs, n \in Nat : s = req[r].ev.sub /\ n = req[r].ev.created
  BY <1>2 DEF Event
<1>4. row \in [Subs -> Row]
  BY <1>1 DEF TypeOK
<1>5. CASE row[s].exists
  <2>1. row' = row /\ skipped' = skipped \cup {req[r].ev}
    BY <1>3, <1>5 DEF UpsertCreate
  <2>2. row' = [row EXCEPT ![s] = row[s]]
    BY <1>4, <2>1
  <2>3. row[s] \in Row /\ (row[s].exists /\ row[s].status = "CANCELED" => Ended(s))
    BY <1>4 DEF Inv, CanceledAtStripe, Ended
  <2> QED BY <1>1, <1>2, <2>1, <2>2, <2>3, WriteInv
<1>6. CASE ~row[s].exists
  <2>1. PICK st \in Status : /\ st = mapStripeStatus(req[r].status)
                             /\ st = "CANCELED" => Ended(s)
    BY <1>1, <1>2, <1>3, MapStatus DEF RequestOK
  <2>2. PICK b \in Nat : b = 1 + Cardinality({x \in Subs : row[x].exists})
    <3>1. Cardinality({x \in Subs : row[x].exists}) \in Nat
      BY BillingConstants, FS_Subset, FS_CardinalityType
    <3> QED BY <3>1
  <2> DEFINE x == [exists |-> TRUE, status |-> st, stamp |-> n, born |-> b]
  <2>3. x \in Row /\ x.status = st
    BY DEF Row
  <2>4. row' = [row EXCEPT ![s] = x] /\ skipped' = skipped
    BY <1>3, <1>6, <2>1, <2>2 DEF UpsertCreate
  <2> HIDE DEF x
  <2> QED BY <1>1, <1>2, <2>1, <2>3, <2>4, WriteInv
<1> QED BY <1>5, <1>6

LEMMA SubscriptionDeletedInv ==
  ASSUME Inv, NEW r \in Requests, SubscriptionDeleted(r)
  PROVE  Inv'
<1>1. /\ TypeOK /\ req[r] \in Request /\ RequestOK(req[r]) /\ req[r].pc = "deleted"
      /\ UNCHANGED <<ledger, owner, skipped>> /\ Answer(r)
  BY DEF Inv, TypeOK, RequestsOK, SubscriptionDeleted
<1>2. /\ req[r].pc \in WebhookPcs /\ req[r].ev \in sent
      /\ req[r].ev \in Event
  BY <1>1 DEF RequestOK, WebhookPcs, TypeOK
<1>3. PICK s \in Subs : s = req[r].ev.sub
  BY <1>2 DEF Event
<1>4. row \in [Subs -> Row] /\ row[s] \in Row /\ "CANCELED" \in Status /\ row[s].status \in Status
  BY <1>1 DEF TypeOK, Row, Status
<1>5. PICK st \in Status : st = IF row[s].exists THEN "CANCELED" ELSE row[s].status
  BY <1>4
<1> DEFINE x == [row[s] EXCEPT !.status = st]
<1>6. x \in Row
  BY <1>4, <1>5, RowUpdate
<1>7. row' = [row EXCEPT ![s].status = st]
  BY <1>3, <1>5 DEF SubscriptionDeleted
<1>8. row' = [row EXCEPT ![s] = x]
  BY <1>4, <1>7
<1> HIDE DEF x
<1>9. Ended(s)
  BY <1>1, <1>3 DEF RequestOK
<1> QED BY <1>1, <1>2, <1>6, <1>8, <1>9, WriteInv

-----------------------------------------------------------------------------
(* API calls *)

LEMMA ApiCallFacts ==
  ASSUME Inv, NEW pc, NEW op, NEW live \in SUBSET Subs,
         op \in Ops,
         (pc = "cancel" /\ \E s \in Subs : live = {s}) \/ pc = "closing"
  PROVE  \E m \in Request : m = ApiCall(pc, op, live) /\ RequestOK(m) /\ m.op # "webhook"
<1> DEFINE m == ApiCall(pc, op, live)
<1>1. op # "webhook"
  BY BillingConstants DEF AllOps
<1>2. m \in Request
  BY DEF ApiCall, Request, StripeStatus
<1>3. m.pc = pc /\ m.op = op /\ m.live = live /\ m.todo = live
  BY DEF ApiCall
<1> HIDE DEF m
<1>4. RequestOK(m)
  BY <1>1, <1>3 DEF RequestOK, WebhookPcs
<1>5. \E n \in Request : n = m /\ RequestOK(n) /\ n.op # "webhook"
  BY <1>1, <1>2, <1>3, <1>4
<1> QED BY <1>5 DEF m

LEMMA ApiReadInv ==
  ASSUME Inv, NEW r \in Requests,
         \/ \E s \in Subs : CancelRead(r, s)
         \/ \E op \in {"deleteOrg", "deleteAccount"} : CloseRead(r, op)
  PROVE  Inv'
<1>1. UNCHANGED <<stripe, clock, sent, acked, lapsed, ledger, row, owner, handled, skipped>>
  BY DEF CancelRead, CloseRead, external
<1>2. PICK m \in Request : req' = [req EXCEPT ![r] = m] /\ RequestOK(m) /\ m.op # "webhook"
  <2>1. ASSUME NEW s \in Subs, CancelRead(r, s)
        PROVE  \E m \in Request : req' = [req EXCEPT ![r] = m] /\ RequestOK(m) /\ m.op # "webhook"
    <3>1. "cancel" \in Ops /\ req' = [req EXCEPT ![r] = ApiCall("cancel", "cancel", {s})]
      BY <2>1 DEF CancelRead
    <3>2. \E m \in Request : /\ m = ApiCall("cancel", "cancel", {s}) /\ RequestOK(m)
                             /\ m.op # "webhook"
      BY <3>1, ApiCallFacts
    <3> QED BY <3>1, <3>2
  <2>2. ASSUME NEW op \in {"deleteOrg", "deleteAccount"}, CloseRead(r, op)
        PROVE  \E m \in Request : req' = [req EXCEPT ![r] = m] /\ RequestOK(m) /\ m.op # "webhook"
    <3>1. PICK live \in SUBSET Subs : req' = [req EXCEPT ![r] = ApiCall("closing", op, live)]
      BY <2>2 DEF CloseRead
    <3>2. op \in Ops
      BY <2>2 DEF CloseRead
    <3>3. \E m \in Request : /\ m = ApiCall("closing", op, live) /\ RequestOK(m)
                             /\ m.op # "webhook"
      BY <3>2, ApiCallFacts
    <3> QED BY <3>1, <3>3
  <2> QED BY <2>1, <2>2
<1>3. CanceledAtStripe' /\ row' \in [Subs -> Row] /\ owner' \in {"live", "deleted", "gone"}
  BY <1>1 DEF Inv, CanceledAtStripe, TypeOK
<1> QED BY <1>1, <1>2, <1>3, LocalInv

LEMMA CancelAtStripeInv ==
  ASSUME Inv, NEW r \in Requests, CancelAtStripe(r)
  PROVE  Inv'
<1>1. /\ req[r] \in Request /\ req \in [Requests -> Request]
      /\ RequestOK(req[r]) /\ req[r].pc = "cancel"
      /\ UNCHANGED <<ledger, row, owner, handled, skipped>>
  BY DEF Inv, TypeOK, RequestsOK, CancelAtStripe
<1>2. PICK s \in Subs : req[r].live = {s}
  BY <1>1 DEF RequestOK
<1>3. StripeCancels(s)
  BY <1>2 DEF CancelAtStripe
<1>4. /\ Grows /\ (\A e \in sent' \ sent : EventOK(e)') /\ SessionsOK'
      /\ stripe' \in [Subs -> StripeSub] /\ clock' \in [count : Nat, time : Nat]
      /\ sent' \subseteq Event /\ UNCHANGED <<acked, lapsed>>
      /\ stripe'[s].status = "canceled"
  BY <1>3, CancelFacts
<1>5. PICK m \in Request : /\ m = [req[r] EXCEPT !.pc = "cancelWrite"] /\ m.pc = "cancelWrite"
                           /\ m.op = req[r].op /\ m.ev = req[r].ev
                           /\ m.status = req[r].status /\ m.live = req[r].live
  BY <1>1, PcUpdate
<1>6. req' = [req EXCEPT ![r] = m]
  BY <1>1, <1>5 DEF CancelAtStripe
<1>7. m.op # "webhook"
  BY <1>1, <1>5 DEF RequestOK, WebhookPcs
<1>8. RequestOK(m)'
  BY <1>2, <1>4, <1>5, <1>7 DEF RequestOK, WebhookPcs, Ended
<1>9. CanceledAtStripe' /\ row' \in [Subs -> Row] /\ owner' \in {"live", "deleted", "gone"}
  BY <1>1, <1>4, RowsFrame DEF Inv, TypeOK
<1> QED BY <1>1, <1>4, <1>6, <1>7, <1>8, <1>9, MoveInv

(* Writing CANCELED to rows whose subscriptions have ended. *)
LEMMA CanceledRowsFacts ==
  ASSUME Inv, NEW r \in Requests, \A s \in req[r].live : Ended(s), stripe' = stripe,
         row' = CanceledRows(r)
  PROVE  /\ CanceledAtStripe' /\ row' \in [Subs -> Row]
         /\ \A s \in Subs : row'[s].stamp = row[s].stamp
<1>1. \A s \in Subs : /\ row'[s] \in Row
                      /\ row'[s].stamp = row[s].stamp
                      /\ row'[s].exists /\ row'[s].status = "CANCELED" => Ended(s)
  <2> TAKE s \in Subs
  <2>1. row[s] \in Row /\ "CANCELED" \in Status
    BY DEF Inv, TypeOK, Status
  <2>2. CASE s \in req[r].live /\ row[s].exists
    <3>1. row'[s] = [row[s] EXCEPT !.status = "CANCELED"]
      BY <2>2 DEF CanceledRows
    <3>2. [row[s] EXCEPT !.status = "CANCELED"] \in Row
          /\ [row[s] EXCEPT !.status = "CANCELED"].stamp = row[s].stamp
      BY <2>1 DEF Row
    <3> QED BY <2>2, <3>1, <3>2
  <2>3. CASE ~(s \in req[r].live /\ row[s].exists)
    <3>1. row'[s] = row[s]
      BY <2>3 DEF CanceledRows
    <3> QED BY <2>1, <3>1 DEF Inv, CanceledAtStripe, Ended
  <2> QED BY <2>2, <2>3
<1>2. row' \in [Subs -> Row]
  BY <1>1 DEF CanceledRows
<1>3. CanceledAtStripe'
  BY <1>1 DEF CanceledAtStripe, Ended
<1> QED BY <1>1, <1>2, <1>3

LEMMA RowWriteInv ==
  ASSUME Inv, NEW r \in Requests, CancelWrite(r) \/ CloseWrite(r)
  PROVE  Inv'
<1>1. /\ req[r] \in Request /\ req \in [Requests -> Request]
      /\ RequestOK(req[r]) /\ req[r].pc \in {"cancelWrite", "closeWrite"}
      /\ UNCHANGED <<stripe, clock, sent, acked, lapsed, ledger, owner, handled, skipped>>
      /\ row' = CanceledRows(r)
  BY DEF Inv, TypeOK, RequestsOK, CancelWrite, CloseWrite, external
<1>2. \A s \in req[r].live : Ended(s)
  BY <1>1 DEF RequestOK
<1>3. CanceledAtStripe' /\ row' \in [Subs -> Row] /\ owner' \in {"live", "deleted", "gone"}
  BY <1>1, <1>2, CanceledRowsFacts DEF Inv, TypeOK
<1>4. CASE CancelWrite(r)
  <2>1. PICK m \in Request : m = Idle /\ RequestOK(m) /\ m.op # "webhook"
    BY IdleFacts, IdleOK
  <2>2. req' = [req EXCEPT ![r] = m]
    BY <1>4, <2>1 DEF CancelWrite, Idled
  <2> QED BY <1>1, <1>3, <2>1, <2>2, LocalInv
<1>5. CASE CloseWrite(r)
  <2>1. PICK m \in Request : /\ m = [req[r] EXCEPT !.pc = "close"] /\ m.pc = "close"
                             /\ m.op = req[r].op /\ m.ev = req[r].ev
                             /\ m.status = req[r].status /\ m.live = req[r].live
    BY <1>1, PcUpdate
  <2>2. req' = [req EXCEPT ![r] = m]
    BY <1>1, <1>5, <2>1 DEF CloseWrite
  <2>3. RequestOK(m) /\ m.op # "webhook"
    BY <1>1, <1>2, <2>1 DEF RequestOK, WebhookPcs
  <2> QED BY <1>1, <1>3, <2>2, <2>3, LocalInv
<1> QED BY <1>4, <1>5

LEMMA CloseCancelInv ==
  ASSUME Inv, NEW r \in Requests, CloseCancel(r)
  PROVE  Inv'
<1>1. /\ req[r] \in Request /\ req \in [Requests -> Request]
      /\ RequestOK(req[r]) /\ req[r].pc = "closing" /\ req[r].live \subseteq Subs
      /\ UNCHANGED <<ledger, row, owner, handled, skipped>>
  BY DEF Inv, TypeOK, RequestsOK, CloseCancel, Request
<1>2. PICK s \in req[r].todo : StripeCancels(s) /\ req' = [req EXCEPT ![r].todo = @ \ {s}]
  BY DEF CloseCancel
<1>3. s \in Subs
  BY <1>1, <1>2 DEF Request
<1>4. /\ Grows /\ (\A e \in sent' \ sent : EventOK(e)') /\ SessionsOK'
      /\ stripe' \in [Subs -> StripeSub] /\ clock' \in [count : Nat, time : Nat]
      /\ sent' \subseteq Event /\ UNCHANGED <<acked, lapsed>>
      /\ stripe'[s].status = "canceled"
  BY <1>2, <1>3, CancelFacts
<1> DEFINE n == [req[r] EXCEPT !.todo = req[r].todo \ {s}]
<1>5. /\ n \in Request /\ n.pc = "closing" /\ n.op = req[r].op
      /\ n.live = req[r].live /\ n.todo = req[r].todo \ {s}
  BY <1>1 DEF Request
<1>6. req' = [req EXCEPT ![r] = n]
  BY <1>1, <1>2
<1> HIDE DEF n
<1>7. PICK m \in Request : /\ m = n /\ m.pc = "closing" /\ m.op = req[r].op
                           /\ m.live = req[r].live /\ m.todo = req[r].todo \ {s}
  BY <1>5
<1>8. m.op # "webhook"
  BY <1>1, <1>7 DEF RequestOK, WebhookPcs
<1>9. \A d \in m.live \ m.todo : stripe'[d].status = "canceled"
  <2> TAKE d \in m.live \ m.todo
  <2>1. CASE d = s
    BY <1>4, <2>1
  <2>2. CASE d # s
    <3>1. d \in Subs /\ Ended(d)
      BY <1>1, <1>7, <2>2 DEF RequestOK
    <3> QED BY <1>4, <3>1 DEF Grows, Ended
  <2> QED BY <2>1, <2>2
<1>10. RequestOK(m)'
  BY <1>7, <1>8, <1>9 DEF RequestOK, WebhookPcs, Ended
<1>11. CanceledAtStripe' /\ row' \in [Subs -> Row] /\ owner' \in {"live", "deleted", "gone"}
  BY <1>1, <1>4, RowsFrame DEF Inv, TypeOK
<1> QED BY <1>1, <1>4, <1>6, <1>7, <1>8, <1>10, <1>11, MoveInv

LEMMA CloseLoopEndInv ==
  ASSUME Inv, NEW r \in Requests, CloseLoopEnd(r)
  PROVE  Inv'
<1>1. /\ req[r] \in Request /\ req \in [Requests -> Request]
      /\ RequestOK(req[r]) /\ req[r].pc = "closing" /\ req[r].todo = {}
      /\ UNCHANGED <<stripe, clock, sent, acked, lapsed, ledger, row, owner, handled, skipped>>
  BY DEF Inv, TypeOK, RequestsOK, CloseLoopEnd, external
<1>2. PICK pc \in {"closeWrite", "close"} : req' = [req EXCEPT ![r].pc = pc]
  BY DEF CloseLoopEnd
<1>3. PICK m \in Request : /\ m = [req[r] EXCEPT !.pc = pc] /\ m.pc = pc
                           /\ m.op = req[r].op /\ m.ev = req[r].ev
                           /\ m.status = req[r].status /\ m.live = req[r].live
  BY <1>1, <1>2, PcUpdate
<1>4. req' = [req EXCEPT ![r] = m]
  BY <1>1, <1>2, <1>3
<1>5. m.op # "webhook" /\ m.pc \in {"closeWrite", "close"} /\ \A s \in m.live : Ended(s)
  BY <1>1, <1>2, <1>3 DEF RequestOK, WebhookPcs
<1>6. RequestOK(m)
  BY <1>5 DEF RequestOK, WebhookPcs
<1>7. CanceledAtStripe' /\ row' \in [Subs -> Row] /\ owner' \in {"live", "deleted", "gone"}
  BY <1>1 DEF Inv, CanceledAtStripe, TypeOK
<1> QED BY <1>1, <1>4, <1>5, <1>6, <1>7, LocalInv

LEMMA CloseOwnerInv ==
  ASSUME Inv, NEW r \in Requests, CloseOwner(r) \/ Fail(r)
  PROVE  Inv'
<1>1. /\ req' = Idled(r)
      /\ UNCHANGED <<stripe, clock, sent, acked, lapsed, ledger, handled, skipped>>
  BY DEF CloseOwner, Fail, external
<1>2. PICK m \in Request : m = Idle /\ RequestOK(m) /\ m.op # "webhook"
  BY IdleFacts, IdleOK
<1>3. req' = [req EXCEPT ![r] = m]
  BY <1>1, <1>2 DEF Idled
<1>4. (row' = row \/ row' = [s \in Subs |-> NoRow]) /\ owner' \in {"live", "deleted", "gone"}
  BY DEF CloseOwner, Fail, Inv, TypeOK
<1>5. CanceledAtStripe' /\ row' \in [Subs -> Row]
  BY <1>1, <1>4, NoRowType DEF Inv, CanceledAtStripe, TypeOK
<1> QED BY <1>1, <1>2, <1>3, <1>4, <1>5, LocalInv

LEMMA RestInv ==
  ASSUME Inv, RestoreOrganization \/ UNCHANGED vars
  PROVE  Inv'
<1>1. /\ UNCHANGED <<stripe, clock, sent, acked, lapsed, ledger, row, req, handled, skipped>>
      /\ owner' \in {"live", "deleted", "gone"}
  BY DEF RestoreOrganization, vars, external, Inv, TypeOK
<1>2. TypeOK' /\ Grows /\ sent' \ sent = {} /\ SessionsOK' /\ CanceledAtStripe'
  BY <1>1 DEF Inv, TypeOK, Grows, Ended, SessionsOK, CanceledAtStripe
<1>3. LedgerOK' /\ HandledOnce'
  BY <1>1 DEF Inv, LedgerOK, HandledOnce
<1> QED BY <1>1, <1>2, <1>3, Frame

-----------------------------------------------------------------------------
(* The inductive invariant *)

LEMMA InitInv == Init => Inv
<1> SUFFICES ASSUME Init PROVE Inv
  OBVIOUS
<1>1. /\ stripe \in [Subs -> StripeSub] /\ clock \in [count : Nat, time : Nat]
      /\ \A s \in Subs : stripe[s].status = "none"
  BY DEF Init, StripeSub, StripeStatus
<1>2. row \in [Subs -> Row] /\ \A s \in Subs : ~row[s].exists
  BY NoRowType DEF Init
<1>3. /\ req \in [Requests -> Request]
      /\ \A r \in Requests : req[r] = Idle /\ req[r].op # "webhook" /\ RequestOK(req[r])
  BY IdleFacts, IdleOK DEF Init
<1>4. TypeOK
  BY <1>1, <1>2, <1>3 DEF Init, TypeOK
<1>5. RequestsOK /\ SessionsOK /\ CanceledAtStripe
  BY <1>1, <1>2, <1>3 DEF RequestsOK, SessionsOK, CanceledAtStripe
<1>6. LedgerOK /\ HandledOnce /\ sent = {}
  BY <1>3 DEF Init, LedgerOK, HandledOnce
<1> QED BY <1>4, <1>5, <1>6 DEF Inv

LEMMA NextInv == Inv /\ [Next]_vars => Inv'
<1> SUFFICES ASSUME Inv, [Next]_vars PROVE Inv'
  OBVIOUS
<1>1. ASSUME NEW r \in Requests, Continue(r) PROVE Inv'
  BY <1>1, RetrieveInv, UpsertUpdateInv, UpsertCreateInv, SubscriptionDeletedInv,
     CancelAtStripeInv, RowWriteInv, CloseCancelInv, CloseLoopEndInv, CloseOwnerInv
     DEF Continue
<1>2. ASSUME NEW r \in Requests, Fail(r) PROVE Inv'
  BY <1>2, CloseOwnerInv
<1>3. ASSUME NEW s \in Subs, StripeStep(s) PROVE Inv'
  BY <1>3, OutsideInv
<1>4. ASSUME NEW r \in Requests, NEW e \in sent, Receive(r, e) PROVE Inv'
  BY <1>4, ReceiveInv
<1>5. CASE (\E e \in sent : SkipDuplicate(e) \/ ReceiveOther(e) \/ Lapse(e))
           \/ CleanupProcessedWebhookEvents
  BY <1>5, DeliveryInv
<1>6. ASSUME NEW r \in Requests,
             \/ \E s \in Subs : CancelRead(r, s)
             \/ \E op \in {"deleteOrg", "deleteAccount"} : CloseRead(r, op)
      PROVE  Inv'
  BY <1>6, ApiReadInv
<1>7. CASE RestoreOrganization \/ UNCHANGED vars
  BY <1>7, RestInv
<1> QED BY <1>1, <1>2, <1>3, <1>4, <1>5, <1>6, <1>7 DEF Next

-----------------------------------------------------------------------------

(* The inductive invariant holds in every reachable state. *)
THEOREM InductiveInvariant == Spec => []Inv
BY InitInv, NextInv, PTL DEF Spec

(* Rows, events and requests keep their types, and the sets of recorded,   *)
(* answered and processed events stay within what Stripe has sent.         *)
THEOREM TypeCorrect == Spec => []TypeOK
<1>1. Inv => TypeOK
  BY DEF Inv
<1> QED BY <1>1, InductiveInvariant, PTL

(* No webhook, cancellation or deletion, in any order, with any failures,  *)
(* leaves a row CANCELED whose subscription still runs at Stripe.          *)
THEOREM CanceledTheorem == Spec => []CanceledAtStripe
<1>1. Inv => CanceledAtStripe
  BY DEF Inv
<1> QED BY <1>1, InductiveInvariant, PTL

(* No delivery is processed a second time. *)
THEOREM HandledOnceTheorem == Spec => []HandledOnce
<1>1. Inv => HandledOnce
  BY DEF Inv
<1> QED BY <1>1, InductiveInvariant, PTL

(* An owner is deleted only after every subscription found live has ended. *)
THEOREM CloseTheorem == Spec => []CloseCancelsAll
<1>1. Inv => CloseCancelsAll
  BY DEF Inv, RequestsOK, RequestOK, Ended, CloseCancelsAll
<1> QED BY <1>1, InductiveInvariant, PTL

-----------------------------------------------------------------------------
(* The ordering guard *)

(* A step that replaces row s by x. *)
LEMMA StampRow ==
  ASSUME TypeOK, NEW s \in Subs, NEW x \in Row, row' = [row EXCEPT ![s] = x],
         row[s].exists => row[s].stamp <= x.stamp
  PROVE  \A d \in Subs : row[d].exists /\ row'[d].exists => row[d].stamp <= row'[d].stamp
<1>1. row \in [Subs -> Row]
  BY DEF TypeOK
<1>2. \A d \in Subs : row[d].stamp \in Nat
  BY <1>1 DEF Row
<1> QED BY <1>1, <1>2

LEMMA StampStep ==
  ASSUME Inv, [Next]_vars
  PROVE  \A d \in Subs : row[d].exists /\ row'[d].exists => row[d].stamp <= row'[d].stamp
<1>0. TypeOK /\ row \in [Subs -> Row] /\ \A d \in Subs : row[d].stamp \in Nat
  BY DEF Inv, TypeOK, Row
<1>1. ASSUME NEW r \in Requests, UpsertUpdate(r), row' # row
      PROVE  \A d \in Subs : row[d].exists /\ row'[d].exists => row[d].stamp <= row'[d].stamp
  <2>1. req[r].ev \in Event /\ req[r].status \in StripeStatus
    BY <1>1 DEF Inv, TypeOK, RequestsOK, RequestOK, WebhookPcs, UpsertUpdate, Request
  <2>2. PICK s \in Subs, n \in Nat : s = req[r].ev.sub /\ n = req[r].ev.created
    BY <2>1 DEF Event
  <2>3. PICK st \in Status : st = mapStripeStatus(req[r].status)
    BY <2>1, MapStatus
  <2>4. NotNewer(s, n) /\ row' = [row EXCEPT ![s].status = st, ![s].stamp = n]
    BY <1>1, <2>2, <2>3 DEF UpsertUpdate
  <2> DEFINE x == [row[s] EXCEPT !.status = st, !.stamp = n]
  <2>5. x \in Row /\ x.stamp = n
    BY <1>0, <2>2, <2>3 DEF Row
  <2>6. row' = [row EXCEPT ![s] = x]
    BY <1>0, <2>4
  <2>7. row[s].stamp <= n
    BY <1>0, <2>2, <2>4 DEF NotNewer
  <2> HIDE DEF x
  <2> QED BY <1>0, <2>5, <2>6, <2>7, StampRow
<1>2. ASSUME NEW r \in Requests, UpsertCreate(r), row' # row
      PROVE  \A d \in Subs : row[d].exists /\ row'[d].exists => row[d].stamp <= row'[d].stamp
  <2>1. req[r].ev \in Event
    BY <1>2 DEF Inv, TypeOK, RequestsOK, RequestOK, WebhookPcs, UpsertCreate
  <2>2. PICK s \in Subs : s = req[r].ev.sub
    BY <2>1 DEF Event
  <2>3. ~row[s].exists /\ \A d \in Subs \ {s} : row'[d] = row[d]
    BY <1>0, <1>2, <2>2 DEF UpsertCreate
  <2> QED BY <1>0, <2>3
<1>3. ASSUME NEW r \in Requests, SubscriptionDeleted(r)
      PROVE  \A d \in Subs : row[d].exists /\ row'[d].exists => row[d].stamp <= row'[d].stamp
  <2>1. req[r].ev \in Event
    BY <1>3 DEF Inv, TypeOK, RequestsOK, RequestOK, WebhookPcs, SubscriptionDeleted
  <2>2. PICK s \in Subs : s = req[r].ev.sub
    BY <2>1 DEF Event
  <2>3. row[s] \in Row /\ "CANCELED" \in Status /\ row[s].status \in Status
    BY <1>0 DEF Row, Status
  <2>4. PICK st \in Status : st = IF row[s].exists THEN "CANCELED" ELSE row[s].status
    BY <2>3
  <2>5. row' = [row EXCEPT ![s].status = st]
    BY <1>3, <2>2, <2>4 DEF SubscriptionDeleted
  <2> DEFINE x == [row[s] EXCEPT !.status = st]
  <2>6. x \in Row /\ x.stamp = row[s].stamp
    BY <2>3, <2>4 DEF Row
  <2>7. row' = [row EXCEPT ![s] = x]
    BY <1>0, <2>5
  <2> HIDE DEF x
  <2> QED BY <1>0, <2>6, <2>7, StampRow
<1>4. ASSUME NEW r \in Requests, CancelWrite(r) \/ CloseWrite(r)
      PROVE  \A d \in Subs : row[d].exists /\ row'[d].exists => row[d].stamp <= row'[d].stamp
  <2>1. RequestOK(req[r]) /\ req[r].pc \in {"cancelWrite", "closeWrite"}
        /\ stripe' = stripe /\ row' = CanceledRows(r)
    BY <1>4 DEF Inv, RequestsOK, CancelWrite, CloseWrite, external
  <2>2. \A s \in req[r].live : Ended(s)
    BY <2>1 DEF RequestOK
  <2>3. \A d \in Subs : row'[d].stamp = row[d].stamp
    BY <2>1, <2>2, CanceledRowsFacts
  <2> QED BY <1>0, <2>3
<1>5. ASSUME NEW r \in Requests, CloseOwner(r)
      PROVE  \A d \in Subs : row[d].exists /\ row'[d].exists => row[d].stamp <= row'[d].stamp
  <2>1. row' = row \/ \A d \in Subs : ~row'[d].exists
    BY <1>5, NoRowType DEF CloseOwner
  <2> QED BY <1>0, <2>1
<1>6. CASE row' = row
  BY <1>0, <1>6
<1>7. ASSUME NEW r \in Requests, Continue(r), row' # row
      PROVE  \A d \in Subs : row[d].exists /\ row'[d].exists => row[d].stamp <= row'[d].stamp
  <2>1. UpsertUpdate(r) \/ UpsertCreate(r) \/ SubscriptionDeleted(r) \/ CancelWrite(r)
        \/ CloseWrite(r) \/ CloseOwner(r)
    BY <1>7 DEF Continue, Retrieve, CancelAtStripe, CloseCancel, CloseLoopEnd
  <2> QED BY <1>1, <1>2, <1>3, <1>4, <1>5, <1>7, <2>1
<1>8. row' = row \/ \E r \in Requests : Continue(r)
  BY DEF Next, StripeStep, CreateCheckout, Subscribe, CheckoutCompleted, StripeUpdate,
         CanceledOutside, StripeOther, SkipDuplicate, ReceiveOther, Lapse, Receive, Fail,
         CancelRead, CloseRead, CleanupProcessedWebhookEvents, RestoreOrganization, vars
<1> QED BY <1>6, <1>7, <1>8

(* upsertSubscription never lets an older event set the stamp of a row     *)
(* back, for any interleaving of deliveries.                               *)
THEOREM StampTheorem == Spec => StampMonotone
<1>1. Inv /\ [Next]_vars =>
        [\A s \in Subs : row[s].exists /\ row'[s].exists => row[s].stamp <= row'[s].stamp]_vars
  BY StampStep
<1> QED BY <1>1, InductiveInvariant, PTL DEF Spec, StampMonotone


-----------------------------------------------------------------------------
(* What the histories of MCBilling tell                                     *)

Changes(e) == e.kind \in {"updated", "deleted"}
Upserts(e) == e.kind \in {"updated", "checkout"}

(* A later event says how the subscription of e went on. *)
Later(e) == \E d \in sent : d.sub = e.sub /\ d.id > e.id /\ Changes(d)

(* Events are numbered and timed in the order Stripe emits them. *)
Clocked ==
  /\ \A e \in sent : e.id <= clock.count /\ e.created <= clock.time
  /\ \A d, e \in sent : d.id = e.id => d = e
  /\ \A d, e \in sent : d.id < e.id => d.created <= e.created

(* What events say of their subscription, unless a later one says more. *)
Told ==
  /\ \A e \in sent : e.status = stripe[e.sub].status \/ Later(e)
  /\ \A s \in Subs : stripe[s].status # "none" => \E d \in sent : d.sub = s /\ d.kind = "updated"
  /\ \A s \in Subs : Ended(s) => \E d \in sent : d.sub = s /\ d.kind = "deleted"
  /\ \A e \in sent : e.kind = "deleted" =>
       \E d \in sent : d.sub = e.sub /\ d.id < e.id /\ d.kind = "updated"

(* What a delivery is about to write. *)
Delivering ==
  \A r \in Requests :
    /\ req[r].pc \in {"retrieve", "update", "create"} => Upserts(req[r].ev)
    /\ req[r].pc = "deleted" => req[r].ev.kind = "deleted"
    /\ req[r].pc \in {"update", "create"} =>
         req[r].status = stripe[req[r].ev.sub].status \/ Later(req[r].ev)

(* Where the rows come from. *)
Written ==
  /\ \A s \in Subs : row[s].exists => \E h \in handled : h.sub = s /\ h.created = row[s].stamp
  /\ \A h \in handled : Upserts(h) /\ owner # "gone" => row[h.sub].exists
  /\ \A e \in skipped : Upserts(e)
  /\ owner = "gone" => \A s \in Subs : ~row[s].exists

Agrees(s) == row[s].exists /\ row[s].status = mapStripeStatus(stripe[s].status)
Known(s) == owner # "gone" /\ stripe[s].status # "none"

(* Events taken up in order: the earlier ones are processed, so that none  *)
(* is dropped, and a row that disagrees with Stripe has an event to come.  *)
Ordered ==
  ~disorder =>
    /\ \A h \in handled, d \in sent : d.id < h.id => d \in handled
    /\ \A r \in Requests : Webhook(r) =>
         \A d \in sent : d.id < req[r].ev.id => d \in handled
    /\ \A r \in Requests : req[r].pc = "create" => ~row[req[r].ev.sub].exists
    /\ \A s \in Subs : Known(s) =>
         Agrees(s) \/ \E d \in sent \ handled : d.sub = s /\ Changes(d)

(* Nothing was canceled, and no two events share a second. *)
Plain ==
  /\ \A e \in sent : e.kind # "deleted"
  /\ \A d, e \in sent : d.created = e.created => d = e

(* An event to come that will bring the row of s up to date. *)
Coming(s) ==
  \E d \in sent \ handled : /\ d.sub = s /\ d.kind = "updated"
                            /\ row[s].exists => d.created > row[s].stamp

(* One delivery at a time, in any order: a row is as new as every event    *)
(* processed.                                                              *)
Alone ==
  ~overlap =>
    /\ \A q, r \in Requests : q # r => ~(Webhook(q) /\ Webhook(r))
    /\ \A r \in Requests : req[r].pc = "create" /\ row[req[r].ev.sub].exists =>
         row[req[r].ev.sub].stamp >= req[r].ev.created
    /\ \A h \in handled : Upserts(h) /\ row[h.sub].exists => row[h.sub].stamp >= h.created
    /\ Plain => \A s \in Subs : Known(s) => Agrees(s) \/ Coming(s)

History == Clocked /\ Told /\ Delivering /\ Written /\ Ordered /\ Alone

-----------------------------------------------------------------------------
(* What a step may do *)

(* Stripe emits e. *)
Emits(e) ==
  /\ e \in Event /\ sent' = sent \cup {e}
  /\ e.id = clock.count + 1 /\ clock'.count = e.id
  /\ clock.time <= e.created /\ clock'.time = e.created
  /\ \A s \in Subs \ {e.sub} : stripe'[s].status = stripe[s].status
  /\ stripe'[e.sub].status = e.status
  /\ stripe[e.sub].status = e.status \/ Changes(e)
  /\ e.kind = "deleted" => stripe[e.sub].status # "none"
  /\ e.status = "canceled" => e.kind = "deleted" \/ Ended(e.sub)
  /\ e.status # "none" /\ stripe[e.sub].status = "none" => e.kind = "updated"

Still == UNCHANGED <<sent, clock>> /\ \A s \in Subs : stripe'[s].status = stripe[s].status

RowsKept == UNCHANGED <<row, handled, skipped>> /\ (owner' = "gone" <=> owner = "gone")

(* Nothing begins or moves on but calls of the API. *)
NoDelivery == \A q \in Requests : req'[q] = req[q] \/ req'[q].op # "webhook"

Telling ==
  \/ Still
  \/ (\E e \in Event : Emits(e)) /\ RowsKept /\ NoDelivery

RequestMove(q) ==
  \/ req'[q] = req[q]
  \/ req'[q].op # "webhook"
  \/ /\ \E e \in sent : /\ req'[q] = Handling(e) /\ e.kind # "other"
                        /\ e \notin ledger /\ e \in ledger'
     /\ Still /\ RowsKept
  \/ /\ req[q].pc = "retrieve" /\ req'[q].pc = "update" /\ req'[q].ev = req[q].ev
     /\ req'[q].status = stripe[req[q].ev.sub].status
     /\ Still /\ RowsKept
  \/ /\ req[q].pc = "update" /\ req'[q].pc = "create" /\ req'[q].ev = req[q].ev
     /\ req'[q].status = req[q].status
     /\ ~NotNewer(req[q].ev.sub, req[q].ev.created)
     /\ Still /\ RowsKept

(* The handler of r ends. *)
Answered(r) ==
  LET x == req[r].ev  s == x.sub IN
  /\ req[r].pc \in WebhookPcs /\ req'[r].op # "webhook"
  /\ owner' = owner /\ handled' = handled \cup {x}
  /\ Still
  /\ \A d \in Subs \ {s} : row'[d] = row[d]
  /\ \/ /\ req[r].pc \in {"update", "create"} /\ skipped' = skipped
        /\ row[s].exists => row[s].stamp <= x.created
        /\ row[s].exists \/ owner # "gone"
        /\ row'[s].exists /\ row'[s].stamp = x.created
        /\ row'[s].status = mapStripeStatus(req[r].status)
     \/ /\ req[r].pc = "create" /\ skipped' = skipped \cup {x}
        /\ row[s].exists /\ row'[s] = row[s]
     \/ /\ req[r].pc = "deleted" /\ skipped' = skipped
        /\ row'[s].exists = row[s].exists /\ row'[s].stamp = row[s].stamp
        /\ row[s].exists => row'[s].status = "CANCELED"

Ignored(e) ==
  /\ e.kind = "other" /\ e \notin ledger /\ e \in ledger'
  /\ handled' = handled \cup {e}
  /\ UNCHANGED <<row, skipped, owner, req>> /\ Still

RowsMove ==
  \/ RowsKept
  \/ /\ UNCHANGED <<handled, skipped, owner>>
     /\ \A s \in Subs :
          \/ row'[s] = row[s]
          \/ /\ row[s].exists /\ row'[s].exists /\ row'[s].stamp = row[s].stamp
             /\ row'[s].status = "CANCELED" /\ Ended(s)
     /\ Still
  \/ owner' = "gone" /\ UNCHANGED <<handled, skipped>> /\ \A s \in Subs : ~row'[s].exists
  \/ \E r \in Requests : Answered(r)
  \/ \E e \in sent : Ignored(e)

Classified == Telling /\ RowsMove /\ \A q \in Requests : RequestMove(q)

LEMMA EmitsEvent ==
  ASSUME Inv, NEW s \in Subs, NEW kind \in {"updated", "checkout", "deleted", "other"},
         NEW status \in StripeStatus, Emit(kind, s, status),
         NEW w, stripe' = [stripe EXCEPT ![s] = w], w.status = status,
         stripe[s].status = status \/ kind \in {"updated", "deleted"},
         kind = "deleted" => stripe[s].status # "none",
         status = "canceled" => kind = "deleted" \/ Ended(s),
         status # "none" /\ stripe[s].status = "none" => kind = "updated"
  PROVE  \E e \in Event : Emits(e)
<1>1. clock.count \in Nat /\ clock.time \in Nat /\ stripe \in [Subs -> StripeSub]
  BY DEF Inv, TypeOK
<1>2. PICK t \in {clock.time + 1} \cup (IF Coarse /\ clock.time > 0 THEN {clock.time} ELSE {}) :
        /\ clock' = [count |-> clock.count + 1, time |-> t]
        /\ sent' = sent \cup {[id |-> clock.count + 1, kind |-> kind, sub |-> s,
                               created |-> t, status |-> status]}
  BY DEF Emit
<1>3. t \in Nat /\ clock.time <= t /\ clock.count + 1 \in Nat
  BY <1>1
<1> DEFINE e == [id |-> clock.count + 1, kind |-> kind, sub |-> s, created |-> t,
                 status |-> status]
<1>4. e \in Event
  BY <1>3 DEF Event
<1>5. /\ e.id = clock.count + 1 /\ e.kind = kind /\ e.sub = s /\ e.created = t
      /\ e.status = status /\ sent' = sent \cup {e}
      /\ clock'.count = clock.count + 1 /\ clock'.time = t
  BY <1>2
<1>6. stripe'[s].status = status /\ \A d \in Subs \ {s} : stripe'[d].status = stripe[d].status
  BY <1>1
<1> HIDE DEF e
<1>7. Emits(e)
  BY <1>3, <1>4, <1>5, <1>6 DEF Emits, Changes
<1> QED BY <1>4, <1>7

LEMMA CancelEmits ==
  ASSUME Inv, NEW s \in Subs, StripeCancels(s)
  PROVE  \E e \in Event : Emits(e)
<1>1. stripe \in [Subs -> StripeSub] /\ stripe[s] \in StripeSub
  BY DEF Inv, TypeOK
<1> DEFINE w == [stripe[s] EXCEPT !.status = "canceled"]
<1>2. w.status = "canceled"
  BY <1>1 DEF StripeSub
<1>3. stripe' = [stripe EXCEPT ![s] = w] /\ Emit("deleted", s, "canceled")
      /\ stripe[s].status # "none"
  BY <1>1, LiveStatus DEF StripeCancels
<1>4. "canceled" \in StripeStatus
  BY DEF StripeStatus
<1> HIDE DEF w
<1> QED BY <1>2, <1>3, <1>4, EmitsEvent

LEMMA ClassifyStripe ==
  ASSUME Inv, NEW s \in Subs, StripeStep(s)
  PROVE  Classified
<1>0. /\ stripe \in [Subs -> StripeSub] /\ stripe[s] \in StripeSub
      /\ stripe[s].status \in StripeStatus
      /\ UNCHANGED <<ledger, row, owner, req, handled, skipped>>
  BY DEF Inv, TypeOK, StripeSub, StripeStep, CreateCheckout, Subscribe, CheckoutCompleted,
         CanceledOutside, StripeOther, StripeUpdate
<1>1. (\E e \in Event : Emits(e)) \/ Still => Classified
  BY <1>0 DEF Classified, Telling, RowsKept, NoDelivery, RowsMove, RequestMove
<1>2. CASE CreateCheckout(s)
  <2> DEFINE w == [stripe[s] EXCEPT !.session = "open"]
  <2>1. w.status = stripe[s].status
    BY <1>0 DEF StripeSub
  <2>2. stripe' = [stripe EXCEPT ![s] = w] /\ UNCHANGED <<clock, sent>>
    BY <1>0, <1>2 DEF CreateCheckout
  <2> HIDE DEF w
  <2> QED BY <1>0, <1>1, <2>1, <2>2 DEF Still
<1>3. CASE Subscribe(s)
  <2> DEFINE w == [status |-> "active", session |-> "paid"]
  <2>1. w.status = "active" /\ "active" \in StripeStatus
    BY DEF StripeStatus, StripeLive
  <2>2. stripe' = [stripe EXCEPT ![s] = w] /\ Emit("updated", s, "active")
    BY <1>3 DEF Subscribe
  <2> HIDE DEF w
  <2> QED BY <1>1, <2>1, <2>2, EmitsEvent
<1>4. CASE CheckoutCompleted(s)
  <2> DEFINE w == [stripe[s] EXCEPT !.session = "done"]
  <2>1. w.status = stripe[s].status
    BY <1>0 DEF StripeSub
  <2>2. stripe' = [stripe EXCEPT ![s] = w] /\ Emit("checkout", s, stripe[s].status)
    BY <1>0, <1>4 DEF CheckoutCompleted
  <2> HIDE DEF w
  <2>3. PICK st \in StripeStatus : st = stripe[s].status
    BY <1>0
  <2> QED BY <1>1, <2>1, <2>2, <2>3, EmitsEvent DEF Ended
<1>5. ASSUME NEW status \in LiveStatuses, StripeUpdate(s, status) PROVE Classified
  <2> DEFINE w == [stripe[s] EXCEPT !.status = status]
  <2>1. w.status = status /\ status \in StripeStatus /\ status # "canceled"
    BY <1>0, LiveStatus DEF StripeSub
  <2>2. stripe' = [stripe EXCEPT ![s] = w] /\ Emit("updated", s, status)
    BY <1>0, <1>5 DEF StripeUpdate
  <2> HIDE DEF w
  <2> QED BY <1>1, <2>1, <2>2, EmitsEvent
<1>6. CASE CanceledOutside(s)
  BY <1>1, <1>6, CancelEmits DEF CanceledOutside
<1>7. CASE StripeOther(s)
  <2>1. stripe' = [stripe EXCEPT ![s] = stripe[s]] /\ Emit("other", s, stripe[s].status)
        /\ stripe[s].status # "none"
    BY <1>0, <1>7, LiveStatus DEF StripeOther
  <2>2. PICK st \in StripeStatus : st = stripe[s].status
    BY <1>0
  <2> QED BY <1>1, <2>1, <2>2, EmitsEvent DEF Ended
<1> QED BY <1>2, <1>3, <1>4, <1>5, <1>6, <1>7 DEF StripeStep


LEMMA MovesOne ==
  ASSUME Inv, NEW r \in Requests, NEW m, req' = [req EXCEPT ![r] = m],
         req'[r] = m => RequestMove(r)
  PROVE  (\A q \in Requests : RequestMove(q)) /\ req'[r] = m
<1>1. req'[r] = m /\ \A q \in Requests : q # r => req'[q] = req[q]
  BY DEF Inv, TypeOK
<1> QED BY <1>1 DEF RequestMove

LEMMA Idles ==
  ASSUME Inv, NEW r \in Requests, req' = Idled(r)
  PROVE  (\A q \in Requests : RequestMove(q)) /\ req'[r].op # "webhook" /\ NoDelivery
<1>1. req'[r] = Idle /\ \A q \in Requests : q # r => req'[q] = req[q]
  BY DEF Inv, TypeOK, Idled
<1> QED BY <1>1, IdleFacts DEF RequestMove, NoDelivery

LEMMA ClassifyDelivery ==
  ASSUME Inv
  PROVE  /\ \A e \in sent : SkipDuplicate(e) \/ ReceiveOther(e) \/ Lapse(e) => Classified
         /\ \A r \in Requests, e \in sent : Receive(r, e) => Classified
         /\ CleanupProcessedWebhookEvents => Classified
         /\ RestoreOrganization \/ UNCHANGED vars => Classified
<1>1. ASSUME UNCHANGED <<stripe, clock, sent, row, handled, skipped, req>>,
             owner' = "gone" <=> owner = "gone"
      PROVE  Classified
  BY <1>1 DEF Classified, Telling, Still, RowsMove, RowsKept, RequestMove
<1>2. ASSUME NEW e \in sent, SkipDuplicate(e) \/ Lapse(e) PROVE Classified
  <2>1. UNCHANGED <<stripe, clock, sent, row, handled, skipped, req, owner>>
    BY <1>2 DEF SkipDuplicate, Lapse, Ack
  <2> QED BY <1>1, <2>1
<1>3. ASSUME NEW e \in sent, ReceiveOther(e) PROVE Classified
  <2>1. /\ UNCHANGED <<stripe, clock, sent, row, skipped, req, owner>>
        /\ e.kind = "other" /\ e \notin ledger /\ e \in ledger' /\ handled' = handled \cup {e}
    BY <1>3 DEF ReceiveOther, Ack
  <2>2. Still /\ Ignored(e)
    BY <2>1 DEF Still, Ignored
  <2> QED BY <2>1, <2>2 DEF Classified, Telling, RowsMove, RequestMove
<1>4. ASSUME NEW r \in Requests, NEW e \in sent, Receive(r, e) PROVE Classified
  <2>1. /\ UNCHANGED <<stripe, clock, sent, row, handled, skipped, owner>>
        /\ e.kind # "other" /\ e \notin ledger /\ e \in ledger'
        /\ req' = [req EXCEPT ![r] = Handling(e)]
    BY <1>4 DEF Receive, external
  <2>2. Still /\ RowsKept
    BY <2>1 DEF Still, RowsKept
  <2>3. req'[r] = Handling(e) => RequestMove(r)
    BY <2>1, <2>2 DEF RequestMove
  <2>4. \A q \in Requests : RequestMove(q)
    BY <2>1, <2>3, MovesOne
  <2> QED BY <2>2, <2>4 DEF Classified, Telling, RowsMove
<1>5. CASE CleanupProcessedWebhookEvents
  BY <1>1, <1>5 DEF CleanupProcessedWebhookEvents, external
<1>6. CASE RestoreOrganization \/ UNCHANGED vars
  BY <1>1, <1>6 DEF RestoreOrganization, vars, external
<1> QED BY <1>2, <1>3, <1>4, <1>5, <1>6

(* What a webhook request is. *)
LEMMA DeliveryFacts ==
  ASSUME Inv, NEW r \in Requests, req[r].pc \in WebhookPcs
  PROVE  /\ req[r].op = "webhook" /\ req[r].ev \in sent /\ req[r].ev \in Event
         /\ req[r].ev.sub \in Subs /\ req[r].ev.id \in Nat /\ req[r].ev.created \in Nat
         /\ req[r].ev \notin handled /\ req[r] \in Request /\ req[r].status \in StripeStatus
<1>1. RequestOK(req[r]) /\ TypeOK
  BY DEF Inv, RequestsOK
<1>2. req[r].op = "webhook" /\ req[r].ev \in sent /\ req[r].ev \in Event
  BY <1>1 DEF RequestOK, TypeOK
<1>3. req[r].ev \notin handled
  BY <1>2 DEF Inv, HandledOnce
<1>4. req[r] \in Request
  BY <1>1 DEF TypeOK
<1> QED BY <1>2, <1>3, <1>4 DEF Event, Request

LEMMA ClassifyHandler ==
  ASSUME Inv, NEW r \in Requests,
         Retrieve(r) \/ UpsertUpdate(r) \/ UpsertCreate(r) \/ SubscriptionDeleted(r)
  PROVE  Classified
<1> DEFINE x == req[r].ev
           s == x.sub
<1>0. /\ req[r].pc \in WebhookPcs /\ s \in Subs /\ x.created \in Nat /\ req[r] \in Request
      /\ row \in [Subs -> Row] /\ row[s] \in Row /\ row[s].stamp \in Nat
  <2>1. req[r].pc \in WebhookPcs
    BY DEF Retrieve, UpsertUpdate, UpsertCreate, SubscriptionDeleted, WebhookPcs
  <2>2. s \in Subs /\ x.created \in Nat /\ req[r] \in Request
    BY <2>1, DeliveryFacts
  <2>3. row \in [Subs -> Row]
    BY DEF Inv, TypeOK
  <2> QED BY <2>1, <2>2, <2>3 DEF Row
<1>a. ASSUME Answer(r), owner' = owner
      PROVE  /\ Still /\ handled' = handled \cup {x} /\ req'[r].op # "webhook"
             /\ \A q \in Requests : RequestMove(q)
  <2>1. UNCHANGED <<stripe, clock, sent>> /\ handled' = handled \cup {x} /\ req' = Idled(r)
    BY <1>a DEF Answer, Ack
  <2> QED BY <2>1, Idles DEF Still
<1>b. ASSUME Answer(r), owner' = owner, Answered(r) PROVE Classified
  BY <1>a, <1>b DEF Classified, Telling, RowsMove
<1>1. CASE Retrieve(r)
  <2> DEFINE m == [req[r] EXCEPT !.pc = "update", !.status = stripe[s].status]
  <2>1. m.pc = "update" /\ m.ev = x /\ m.status = stripe[s].status
    BY <1>0 DEF Request
  <2>2. /\ req' = [req EXCEPT ![r] = m] /\ req[r].pc = "retrieve"
        /\ UNCHANGED <<stripe, clock, sent, row, handled, skipped, owner>>
    BY <1>0, <1>1 DEF Retrieve, external, Inv, TypeOK
  <2> HIDE DEF m
  <2>3. Still /\ RowsKept
    BY <2>2 DEF Still, RowsKept
  <2>4. req'[r] = m => RequestMove(r)
    BY <2>1, <2>2, <2>3 DEF RequestMove
  <2>5. \A q \in Requests : RequestMove(q)
    BY <2>2, <2>4, MovesOne
  <2> QED BY <2>3, <2>5 DEF Classified, Telling, RowsMove
<1>2. CASE UpsertUpdate(r) /\ NotNewer(s, x.created)
  <2> DEFINE n == [row[s] EXCEPT !.status = mapStripeStatus(req[r].status), !.stamp = x.created]
  <2>1. /\ n.exists = row[s].exists /\ n.status = mapStripeStatus(req[r].status)
        /\ n.stamp = x.created
    BY <1>0 DEF Row
  <2>2. /\ row' = [row EXCEPT ![s] = n] /\ Answer(r) /\ req[r].pc = "update"
        /\ UNCHANGED <<owner, skipped>>
    BY <1>0, <1>2 DEF UpsertUpdate
  <2> HIDE DEF n
  <2>3. row'[s] = n /\ \A d \in Subs \ {s} : row'[d] = row[d]
    BY <1>0, <2>2
  <2>4. row[s].exists /\ row[s].stamp <= x.created
    BY <1>0, <1>2 DEF NotNewer
  <2>5. Answered(r)
    BY <1>0, <1>a, <2>1, <2>2, <2>3, <2>4 DEF Answered
  <2> QED BY <1>b, <2>2, <2>5
<1>3. CASE UpsertUpdate(r) /\ ~NotNewer(s, x.created)
  <2> DEFINE m == [req[r] EXCEPT !.pc = "create"]
  <2>1. m.pc = "create" /\ m.ev = x /\ m.status = req[r].status
    BY <1>0 DEF Request
  <2>2. /\ req' = [req EXCEPT ![r] = m] /\ req[r].pc = "update"
        /\ UNCHANGED <<stripe, clock, sent, row, handled, skipped, owner>>
    BY <1>0, <1>3 DEF UpsertUpdate, external, Inv, TypeOK
  <2> HIDE DEF m
  <2>3. Still /\ RowsKept
    BY <2>2 DEF Still, RowsKept
  <2>4. req'[r] = m => RequestMove(r)
    BY <1>3, <2>1, <2>2, <2>3 DEF RequestMove
  <2>5. \A q \in Requests : RequestMove(q)
    BY <2>2, <2>4, MovesOne
  <2> QED BY <2>3, <2>5 DEF Classified, Telling, RowsMove
<1>4. CASE UpsertCreate(r) /\ row[s].exists
  <2>1. /\ Answer(r) /\ req[r].pc = "create" /\ skipped' = skipped \cup {x}
        /\ row' = row /\ owner' = owner
    BY <1>4 DEF UpsertCreate
  <2>2. Answered(r)
    BY <1>0, <1>4, <1>a, <2>1 DEF Answered
  <2> QED BY <1>b, <2>1, <2>2
<1>5. CASE UpsertCreate(r) /\ ~row[s].exists
  <2> DEFINE n == [exists |-> TRUE, status |-> mapStripeStatus(req[r].status),
                   stamp |-> x.created,
                   born |-> 1 + Cardinality({d \in Subs : row[d].exists})]
  <2>1. n.exists /\ n.status = mapStripeStatus(req[r].status) /\ n.stamp = x.created
    OBVIOUS
  <2>2. /\ row' = [row EXCEPT ![s] = n] /\ Answer(r) /\ req[r].pc = "create"
        /\ UNCHANGED <<owner, skipped>> /\ owner # "gone"
    BY <1>5 DEF UpsertCreate
  <2> HIDE DEF n
  <2>3. row'[s] = n /\ \A d \in Subs \ {s} : row'[d] = row[d]
    BY <1>0, <2>2
  <2>4. Answered(r)
    BY <1>0, <1>5, <1>a, <2>1, <2>2, <2>3 DEF Answered
  <2> QED BY <1>b, <2>2, <2>4
<1>6. CASE SubscriptionDeleted(r)
  <2> DEFINE n == [row[s] EXCEPT !.status = IF row[s].exists THEN "CANCELED" ELSE row[s].status]
  <2>1. /\ n.exists = row[s].exists /\ n.stamp = row[s].stamp
        /\ row[s].exists => n.status = "CANCELED"
    BY <1>0 DEF Row
  <2>2. /\ row' = [row EXCEPT ![s] = n] /\ Answer(r) /\ req[r].pc = "deleted"
        /\ UNCHANGED <<owner, skipped>>
    BY <1>0, <1>6 DEF SubscriptionDeleted
  <2> HIDE DEF n
  <2>3. row'[s] = n /\ \A d \in Subs \ {s} : row'[d] = row[d]
    BY <1>0, <2>2
  <2>4. Answered(r)
    BY <1>0, <1>a, <2>1, <2>2, <2>3 DEF Answered
  <2> QED BY <1>b, <2>2, <2>4
<1> QED BY <1>1, <1>2, <1>3, <1>4, <1>5, <1>6

(* A call of the API moves on, with the subscriptions it has read. *)
LEMMA ApiMoves ==
  ASSUME Inv, NEW r \in Requests,
         \/ CancelAtStripe(r) \/ CancelWrite(r) \/ CloseCancel(r) \/ CloseLoopEnd(r)
         \/ CloseWrite(r) \/ CloseOwner(r) \/ Fail(r)
         \/ \E s \in Subs : CancelRead(r, s)
         \/ \E op \in {"deleteOrg", "deleteAccount"} : CloseRead(r, op)
  PROVE  (\A q \in Requests : RequestMove(q)) /\ NoDelivery
<1>1. req[r] \in Request /\ RequestOK(req[r]) /\ req \in [Requests -> Request]
  BY DEF Inv, TypeOK, RequestsOK
<1>2. ASSUME NEW m, req' = [req EXCEPT ![r] = m], m.op # "webhook"
      PROVE  (\A q \in Requests : RequestMove(q)) /\ NoDelivery
  <2>1. req'[r] = m /\ \A q \in Requests : q # r => req'[q] = req[q]
    BY <1>1, <1>2
  <2> QED BY <1>2, <2>1 DEF RequestMove, NoDelivery
<1>3. CASE req' = Idled(r)
  BY <1>3, Idles
<1>4. ASSUME NEW pc, req[r].pc \notin WebhookPcs, req' = [req EXCEPT ![r].pc = pc]
      PROVE  (\A q \in Requests : RequestMove(q)) /\ NoDelivery
  <2> DEFINE m == [req[r] EXCEPT !.pc = pc]
  <2>1. m.op = req[r].op /\ req' = [req EXCEPT ![r] = m]
    BY <1>1, <1>4 DEF Request
  <2>2. req[r].op # "webhook"
    BY <1>1, <1>4 DEF RequestOK
  <2> HIDE DEF m
  <2> QED BY <1>2, <2>1, <2>2
<1>5. CASE CloseCancel(r)
  <2>1. PICK s : req' = [req EXCEPT ![r].todo = @ \ {s}]
    BY <1>5 DEF CloseCancel
  <2> DEFINE m == [req[r] EXCEPT !.todo = @ \ {s}]
  <2>2. m.op = req[r].op /\ req' = [req EXCEPT ![r] = m]
    BY <1>1, <2>1 DEF Request
  <2>3. req[r].op # "webhook"
    BY <1>1, <1>5 DEF RequestOK, CloseCancel, WebhookPcs
  <2> HIDE DEF m
  <2> QED BY <1>2, <2>2, <2>3
<1>6. ASSUME NEW pc, NEW op, op # "webhook", NEW live,
             req' = [req EXCEPT ![r] = ApiCall(pc, op, live)]
      PROVE  (\A q \in Requests : RequestMove(q)) /\ NoDelivery
  <2>1. ApiCall(pc, op, live).op # "webhook"
    BY <1>6 DEF ApiCall
  <2> QED BY <1>2, <1>6, <2>1
<1>7. CASE CancelAtStripe(r)
  BY <1>4, <1>7 DEF CancelAtStripe, WebhookPcs
<1>8. CASE CloseLoopEnd(r)
  BY <1>4, <1>8 DEF CloseLoopEnd, WebhookPcs
<1>9. CASE CloseWrite(r)
  BY <1>4, <1>9 DEF CloseWrite, WebhookPcs
<1>10. CASE CancelWrite(r) \/ CloseOwner(r) \/ Fail(r)
  BY <1>3, <1>10 DEF CancelWrite, CloseOwner, Fail
<1>11. CASE \E s \in Subs : CancelRead(r, s)
  BY <1>6, <1>11 DEF CancelRead
<1>12. CASE \E op \in {"deleteOrg", "deleteAccount"} : CloseRead(r, op)
  BY <1>6, <1>12 DEF CloseRead
<1> QED BY <1>5, <1>7, <1>8, <1>9, <1>10, <1>11, <1>12

LEMMA ClassifyApi ==
  ASSUME Inv, NEW r \in Requests,
         \/ CancelAtStripe(r) \/ CancelWrite(r) \/ CloseCancel(r) \/ CloseLoopEnd(r)
         \/ CloseWrite(r) \/ CloseOwner(r) \/ Fail(r)
         \/ \E s \in Subs : CancelRead(r, s)
         \/ \E op \in {"deleteOrg", "deleteAccount"} : CloseRead(r, op)
  PROVE  Classified
<1>1. (\A q \in Requests : RequestMove(q)) /\ NoDelivery
  BY ApiMoves
<1>2. ASSUME UNCHANGED <<stripe, clock, sent>> PROVE Still
  BY <1>2 DEF Still
<1>3. CASE CancelAtStripe(r) \/ CloseCancel(r)
  <2>1. RowsKept
    BY <1>3 DEF CancelAtStripe, CloseCancel, RowsKept
  <2>2. \E s \in Subs : StripeCancels(s)
    BY <1>3 DEF CancelAtStripe, CloseCancel, Inv, TypeOK, Request
  <2> QED BY <1>1, <2>1, <2>2, CancelEmits DEF Classified, Telling, RowsMove
<1>4. CASE CancelWrite(r) \/ CloseWrite(r)
  <2>1. /\ Still /\ row' = CanceledRows(r) /\ UNCHANGED <<handled, skipped, owner>>
        /\ \A s \in req[r].live : Ended(s)
    BY <1>2, <1>4 DEF CancelWrite, CloseWrite, external, Inv, RequestsOK, RequestOK
  <2>2. \A s \in Subs :
          \/ row'[s] = row[s]
          \/ /\ row[s].exists /\ row'[s].exists /\ row'[s].stamp = row[s].stamp
             /\ row'[s].status = "CANCELED" /\ Ended(s)
    <3> TAKE s \in Subs
    <3>1. row[s] \in Row
      BY DEF Inv, TypeOK
    <3>2. row'[s] = IF s \in req[r].live /\ row[s].exists
                    THEN [row[s] EXCEPT !.status = "CANCELED"] ELSE row[s]
      BY <2>1 DEF CanceledRows
    <3> QED BY <2>1, <3>1, <3>2 DEF Row
  <2> QED BY <1>1, <2>1, <2>2 DEF Classified, Telling, RowsMove
<1>5. CASE CloseOwner(r)
  <2>1. Still /\ UNCHANGED <<handled, skipped>> /\ owner # "gone"
    BY <1>2, <1>5 DEF CloseOwner, external
  <2>2. \/ owner' = "deleted" /\ row' = row
        \/ owner' = "gone" /\ \A s \in Subs : ~row'[s].exists
    BY <1>5, NoRowType DEF CloseOwner
  <2> QED BY <1>1, <2>1, <2>2 DEF Classified, Telling, RowsMove, RowsKept
<1>6. CASE \/ CloseLoopEnd(r) \/ Fail(r) \/ \E s \in Subs : CancelRead(r, s)
           \/ \E op \in {"deleteOrg", "deleteAccount"} : CloseRead(r, op)
  <2>1. UNCHANGED <<stripe, clock, sent, row, owner, handled, skipped>>
    BY <1>6 DEF CloseLoopEnd, Fail, CancelRead, CloseRead, external
  <2> QED BY <1>1, <1>2, <2>1 DEF Classified, Telling, RowsMove, RowsKept
<1> QED BY <1>3, <1>4, <1>5, <1>6

LEMMA ClassifyStep ==
  ASSUME Inv, [Next]_vars
  PROVE  Classified
<1>1. ASSUME NEW r \in Requests, Continue(r) \/ Fail(r) PROVE Classified
  BY <1>1, ClassifyHandler, ClassifyApi DEF Continue
<1>2. ASSUME NEW r \in Requests,
             \/ \E s \in Subs : CancelRead(r, s)
             \/ \E op \in {"deleteOrg", "deleteAccount"} : CloseRead(r, op)
      PROVE  Classified
  BY <1>2, ClassifyApi
<1> QED BY <1>1, <1>2, ClassifyStripe, ClassifyDelivery DEF Next


-----------------------------------------------------------------------------
(* The histories under a step *)

LEMMA EventType ==
  ASSUME Inv, NEW e \in sent
  PROVE  e \in Event /\ e.sub \in Subs /\ e.id \in Nat /\ e.created \in Nat
BY DEF Inv, TypeOK, Event

LEMMA SentGrows ==
  ASSUME Telling
  PROVE  sent \subseteq sent'
BY DEF Telling, Still, Emits

LEMMA LaterGrows ==
  ASSUME Telling, NEW e, Later(e)
  PROVE  Later(e)'
BY SentGrows DEF Later

(* A new event has a number of its own. *)
LEMMA NewEvent ==
  ASSUME Inv, Clocked, NEW e \in Event, Emits(e)
  PROVE  /\ \A d \in sent : d.id < e.id /\ d.created <= e.created /\ d # e
         /\ e \notin sent /\ e \in sent' /\ e.sub \in Subs
         /\ \A d \in sent' : d \in sent \/ d = e
<1>1. clock.count \in Nat /\ clock.time \in Nat /\ e.created \in Nat /\ e.id = clock.count + 1
  BY DEF Inv, TypeOK, Emits, Event
<1>2. clock.time <= e.created
  BY DEF Emits
<1>3. ASSUME NEW d \in sent PROVE d.id < e.id /\ d.created <= e.created /\ d # e
  <2>1. d.id \in Nat /\ d.created \in Nat /\ d.id <= clock.count /\ d.created <= clock.time
    BY EventType DEF Clocked
  <2> QED BY <1>1, <1>2, <2>1
<1> QED BY <1>3 DEF Emits, Event

LEMMA ClockedNext ==
  ASSUME Inv, Clocked, Telling
  PROVE  Clocked'
<1>1. CASE Still
  BY <1>1 DEF Still, Clocked
<1>2. ASSUME NEW e \in Event, Emits(e) PROVE Clocked'
  <2>0. /\ sent' = sent \cup {e} /\ clock'.count = e.id /\ clock'.time = e.created
        /\ e.id \in Nat /\ e.created \in Nat
    BY <1>2 DEF Emits, Event
  <2>1. \A d \in sent : d.id < e.id /\ d.created <= e.created /\ d.id \in Nat /\ d.created \in Nat
    BY <1>2, NewEvent, EventType
  <2>2. \A d \in sent' : d.id <= clock'.count /\ d.created <= clock'.time
    BY <2>0, <2>1
  <2>3. \A d, f \in sent' : d.id = f.id => d = f
    BY <2>0, <2>1 DEF Clocked
  <2>4. \A d, f \in sent' : d.id < f.id => d.created <= f.created
    BY <2>0, <2>1 DEF Clocked
  <2> QED BY <2>2, <2>3, <2>4 DEF Clocked
<1> QED BY <1>1, <1>2 DEF Telling

(* What is known of e stays known: its status still holds, or a later      *)
(* event says more.                                                        *)
LEMMA TellsOn ==
  ASSUME Inv, Clocked, Telling, NEW e \in sent, NEW st,
         st = stripe[e.sub].status \/ Later(e)
  PROVE  st = stripe'[e.sub].status \/ Later(e)'
<1>1. CASE Later(e)
  BY <1>1, LaterGrows
<1>2. CASE st = stripe[e.sub].status /\ Still
  BY <1>2, EventType DEF Still
<1>3. ASSUME NEW n \in Event, Emits(n), st = stripe[e.sub].status
      PROVE  st = stripe'[e.sub].status \/ Later(e)'
  <2>1. CASE n.sub # e.sub
    BY <1>3, <2>1, EventType DEF Emits
  <2>2. CASE n.sub = e.sub /\ ~Changes(n)
    BY <1>3, <2>2 DEF Emits
  <2>3. CASE n.sub = e.sub /\ Changes(n)
    <3>1. e.id < n.id /\ n \in sent' /\ n.id \in Nat /\ e.id \in Nat
      BY <1>3, NewEvent, EventType DEF Event
    <3> QED BY <2>3, <3>1 DEF Later, Changes
  <2> QED BY <2>1, <2>2, <2>3
<1> QED BY <1>1, <1>2, <1>3 DEF Telling

LEMMA ToldNext ==
  ASSUME Inv, Clocked, Told, Telling
  PROVE  Told'
<1>1. CASE Still
  <2>1. sent' = sent /\ \A s \in Subs : stripe'[s].status = stripe[s].status
    BY <1>1 DEF Still
  <2>2. \A e \in sent' : e.status = stripe'[e.sub].status \/ Later(e)'
    BY <2>1, TellsOn DEF Told
  <2> QED BY <2>1, <2>2 DEF Told, Ended
<1>2. ASSUME NEW n \in Event, Emits(n) PROVE Told'
  <2>1. /\ sent' = sent \cup {n} /\ n.sub \in Subs /\ stripe'[n.sub].status = n.status
        /\ \A s \in Subs \ {n.sub} : stripe'[s].status = stripe[s].status
    BY <1>2, NewEvent DEF Emits
  <2>2. \A e \in sent' : e.status = stripe'[e.sub].status \/ Later(e)'
    <3>1. \A e \in sent : e.status = stripe'[e.sub].status \/ Later(e)'
      BY TellsOn DEF Told
    <3> QED BY <2>1, <3>1
  <2>3. ASSUME NEW s \in Subs, stripe'[s].status # "none"
        PROVE  \E d \in sent' : d.sub = s /\ d.kind = "updated"
    <3>1. CASE stripe[s].status # "none"
      BY <2>1, <3>1 DEF Told
    <3>2. CASE stripe[s].status = "none"
      <4>1. s = n.sub
        BY <2>1, <2>3, <3>2
      <4>2. n.kind = "updated"
        BY <1>2, <2>1, <2>3, <3>2, <4>1 DEF Emits
      <4> QED BY <2>1, <4>1, <4>2
    <3> QED BY <3>1, <3>2
  <2>4. ASSUME NEW s \in Subs, stripe'[s].status = "canceled"
        PROVE  \E d \in sent' : d.sub = s /\ d.kind = "deleted"
    <3>1. CASE Ended(s)
      BY <2>1, <3>1 DEF Told
    <3>2. CASE ~Ended(s)
      <4>1. s = n.sub
        BY <2>1, <2>4, <3>2 DEF Ended
      <4>2. n.kind = "deleted"
        BY <1>2, <2>1, <2>4, <3>2, <4>1 DEF Emits
      <4> QED BY <2>1, <4>1, <4>2
    <3> QED BY <3>1, <3>2
  <2>5. ASSUME NEW e \in sent', e.kind = "deleted"
        PROVE  \E d \in sent' : d.sub = e.sub /\ d.id < e.id /\ d.kind = "updated"
    <3>1. CASE e \in sent
      BY <2>1, <2>5, <3>1 DEF Told
    <3>2. CASE e = n
      <4>1. stripe[n.sub].status # "none"
        BY <1>2, <2>5, <3>2 DEF Emits
      <4>2. PICK d \in sent : d.sub = n.sub /\ d.kind = "updated"
        BY <2>1, <4>1 DEF Told
      <4>3. d.id < n.id
        BY <1>2, NewEvent
      <4> QED BY <2>1, <3>2, <4>2, <4>3
    <3> QED BY <2>1, <3>1, <3>2
  <2> QED BY <2>2, <2>3, <2>4, <2>5 DEF Told, Ended
<1> QED BY <1>1, <1>2 DEF Telling

LEMMA HandlingSteps ==
  ASSUME Inv, NEW e \in sent, e.kind # "other"
  PROVE  LET m == Handling(e) IN
         /\ m.op = "webhook" /\ m.ev = e /\ m.status = e.status
         /\ m.pc \in {"retrieve", "update"} => Upserts(e)
         /\ m.pc = "deleted" => e.kind = "deleted"
         /\ m.pc # "create"
<1>1. e.kind \in {"updated", "checkout", "deleted"}
  BY DEF Inv, TypeOK, Event
<1>2. /\ Handling(e).pc = FirstStep(e.kind) /\ Handling(e).op = "webhook"
      /\ Handling(e).ev = e /\ Handling(e).status = e.status
  BY DEF Handling
<1> QED BY <1>1, <1>2 DEF FirstStep, Upserts

(* A delivery in flight was in flight before, with the same event, or is   *)
(* begun by this step.                                                     *)
LEMMA InFlight ==
  ASSUME Inv, Inv', NEW q \in Requests, RequestMove(q), req'[q].pc \in WebhookPcs
  PROVE  \/ req'[q] = req[q] /\ req[q].pc \in WebhookPcs
         \/ req[q].pc \in WebhookPcs /\ req'[q].ev = req[q].ev /\ Still /\ RowsKept
         \/ /\ req'[q].ev \in sent /\ req'[q].ev.kind # "other"
            /\ req'[q].ev \in ledger' \ ledger /\ req'[q] = Handling(req'[q].ev)
            /\ Still /\ RowsKept
<1>1. req'[q].op = "webhook"
  BY DEF Inv, RequestsOK, RequestOK
<1>2. ASSUME NEW e \in sent, e.kind # "other" PROVE Handling(e).ev = e
  BY DEF Handling
<1> QED BY <1>1, <1>2 DEF RequestMove, WebhookPcs

LEMMA DeliveringNext ==
  ASSUME Inv, Inv', Clocked, Told, Delivering, Classified
  PROVE  Delivering'
<1> DEFINE Right(q, x) ==
             /\ req'[q].pc \in {"retrieve", "update", "create"} => Upserts(x)
             /\ req'[q].pc = "deleted" => x.kind = "deleted"
             /\ req'[q].pc \in {"update", "create"} =>
                  \/ req'[q].status = stripe'[x.sub].status
                  \/ \E d \in sent' : d.sub = x.sub /\ d.id > x.id /\ Changes(d)
<1> SUFFICES ASSUME NEW q \in Requests, req'[q].pc \in WebhookPcs, NEW x, x = req'[q].ev
             PROVE  Right(q, x)
  BY DEF Delivering, WebhookPcs, Upserts, Later, Changes
<1>0. RequestMove(q) /\ Telling /\ req'[q].op = "webhook"
  BY DEF Classified, Inv, RequestsOK, RequestOK
<1>1. CASE req'[q] = req[q]
  <2>1. x = req[q].ev /\ x \in sent
    BY <1>1, DeliveryFacts
  <2>2. req[q].pc \in {"update", "create"} => req[q].status = stripe'[x.sub].status \/ Later(x)'
    BY <1>0, <2>1, TellsOn DEF Delivering
  <2> QED BY <1>1, <2>1, <2>2 DEF Delivering, Later
<1>2. ASSUME NEW e \in sent, req'[q] = Handling(e), e.kind # "other"
      PROVE  Right(q, x)
  <2>1. e.status = stripe'[e.sub].status \/ Later(e)'
    BY <1>0, TellsOn DEF Told
  <2>2. /\ x = e /\ req'[q].status = e.status
        /\ req'[q].pc \in {"retrieve", "update"} => Upserts(e)
        /\ req'[q].pc = "deleted" => e.kind = "deleted"
        /\ req'[q].pc # "create"
    BY <1>2, HandlingSteps
  <2> QED BY <2>1, <2>2 DEF Later
<1>3. CASE /\ req[q].pc = "retrieve" /\ req'[q].pc = "update" /\ req'[q].ev = req[q].ev
           /\ req'[q].status = stripe[req[q].ev.sub].status /\ Still
  <2>1. x.sub \in Subs
    BY <1>3, DeliveryFacts DEF WebhookPcs
  <2> QED BY <1>3, <2>1 DEF Still, Delivering
<1>4. CASE /\ req[q].pc = "update" /\ req'[q].pc = "create" /\ req'[q].ev = req[q].ev
           /\ req'[q].status = req[q].status
  <2>1. x = req[q].ev /\ x \in sent
    BY <1>4, DeliveryFacts DEF WebhookPcs
  <2>2. req[q].status = stripe'[x.sub].status \/ Later(x)'
    BY <1>0, <1>4, <2>1, TellsOn DEF Delivering
  <2> QED BY <1>4, <2>1, <2>2 DEF Delivering, Later
<1> HIDE DEF Right
<1> QED BY <1>0, <1>1, <1>2, <1>3, <1>4 DEF RequestMove

(* How the handler of r may end. *)
Writes(r) ==
  LET x == req[r].ev  s == x.sub IN
  /\ req[r].pc \in {"update", "create"} /\ Upserts(x) /\ skipped' = skipped
  /\ row[s].exists => row[s].stamp <= x.created
  /\ row[s].exists \/ owner # "gone"
  /\ row'[s].exists /\ row'[s].stamp = x.created
  /\ row'[s].status = mapStripeStatus(req[r].status)

Drops(r) ==
  LET x == req[r].ev  s == x.sub IN
  /\ req[r].pc = "create" /\ Upserts(x) /\ skipped' = skipped \cup {x}
  /\ row[s].exists /\ row'[s] = row[s]

Closes(r) ==
  LET x == req[r].ev  s == x.sub IN
  /\ req[r].pc = "deleted" /\ x.kind = "deleted" /\ skipped' = skipped
  /\ row'[s].exists = row[s].exists /\ row'[s].stamp = row[s].stamp
  /\ row[s].exists => row'[s].status = "CANCELED"

LEMMA AnsweredFacts ==
  ASSUME Inv, Delivering, NEW r \in Requests, Answered(r)
  PROVE  LET x == req[r].ev IN
         /\ x \in sent /\ x.sub \in Subs /\ x \notin handled /\ x.id \in Nat /\ x.created \in Nat
         /\ req[r].pc \in WebhookPcs /\ req'[r].op # "webhook"
         /\ owner' = owner /\ handled' = handled \cup {x} /\ Still
         /\ \A d \in Subs \ {x.sub} : row'[d] = row[d]
         /\ Writes(r) \/ Drops(r) \/ Closes(r)
<1>1. req[r].pc \in WebhookPcs
  BY DEF Answered
<1>2. /\ req[r].pc \in {"retrieve", "update", "create"} => Upserts(req[r].ev)
      /\ req[r].pc = "deleted" => req[r].ev.kind = "deleted"
  BY DEF Delivering
<1>3. Writes(r) \/ Drops(r) \/ Closes(r)
  BY <1>2 DEF Answered, Writes, Drops, Closes
<1>4. /\ req'[r].op # "webhook" /\ owner' = owner /\ handled' = handled \cup {req[r].ev} /\ Still
      /\ \A d \in Subs \ {req[r].ev.sub} : row'[d] = row[d]
  BY DEF Answered
<1> QED BY <1>1, <1>3, <1>4, DeliveryFacts

LEMMA UpsertsOnly ==
  ASSUME NEW e, Upserts(e)
  PROVE  e.kind # "deleted" /\ e.kind # "other"
BY DEF Upserts

LEMMA WrittenNext ==
  ASSUME Inv, Written, Delivering, Classified
  PROVE  Written'
<1>0. \A h \in handled : h \in sent /\ h.sub \in Subs
  BY DEF Inv, TypeOK, Event
<1>1. CASE RowsKept
  BY <1>1 DEF RowsKept, Written, Upserts
<1>2. CASE /\ UNCHANGED <<handled, skipped, owner>>
           /\ \A s \in Subs :
                \/ row'[s] = row[s]
                \/ row[s].exists /\ row'[s].exists /\ row'[s].stamp = row[s].stamp
  BY <1>0, <1>2 DEF Written, Upserts
<1>3. CASE owner' = "gone" /\ UNCHANGED <<handled, skipped>> /\ \A s \in Subs : ~row'[s].exists
  BY <1>3 DEF Written, Upserts
<1>4. ASSUME NEW e \in sent, Ignored(e) PROVE Written'
  <2>1. /\ e.kind = "other" /\ handled' = handled \cup {e}
        /\ row' = row /\ skipped' = skipped /\ owner' = owner
    BY <1>4 DEF Ignored
  <2>2. \A s \in Subs : row'[s].exists => \E h \in handled' : h.sub = s /\ h.created = row'[s].stamp
    BY <2>1 DEF Written
  <2>3. \A h \in handled' : Upserts(h) /\ owner' # "gone" => row'[h.sub].exists
    BY <2>1, UpsertsOnly DEF Written
  <2> QED BY <2>1, <2>2, <2>3 DEF Written, Upserts
<1>5. ASSUME NEW r \in Requests, Answered(r) PROVE Written'
  <2> DEFINE x == req[r].ev
  <2>1. /\ x \in sent /\ x.sub \in Subs /\ handled' = handled \cup {x} /\ owner' = owner
        /\ \A d \in Subs \ {x.sub} : row'[d] = row[d]
        /\ Writes(r) \/ Drops(r) \/ Closes(r)
    BY <1>5, AnsweredFacts
  <2>2. /\ \A d \in Subs : row[d].exists => row'[d].exists
        /\ \A d \in Subs : row'[d].exists => row[d].exists \/ (d = x.sub /\ owner # "gone")
        /\ row'[x.sub].exists \/ ~Upserts(x)
    <3>1. \/ row'[x.sub].exists /\ (row[x.sub].exists \/ owner # "gone")
          \/ (row'[x.sub].exists <=> row[x.sub].exists) /\ ~Upserts(x)
      <4>1. ASSUME Closes(r)
            PROVE  (row'[x.sub].exists <=> row[x.sub].exists) /\ x.kind = "deleted"
        BY <4>1 DEF Closes
      <4>2. ASSUME Writes(r) PROVE row'[x.sub].exists /\ (row[x.sub].exists \/ owner # "gone")
        BY <4>2 DEF Writes
      <4>3. ASSUME Drops(r) PROVE row'[x.sub].exists /\ row[x.sub].exists
        BY <4>3 DEF Drops
      <4> HIDE DEF x
      <4> QED BY <2>1, <4>1, <4>2, <4>3 DEF Upserts
    <3> HIDE DEF x
    <3>2. ASSUME NEW d \in Subs
          PROVE  /\ row[d].exists => row'[d].exists
                 /\ row'[d].exists => row[d].exists \/ (d = x.sub /\ owner # "gone")
      <4>1. CASE d = x.sub
        BY <3>1, <4>1
      <4>2. CASE d # x.sub
        BY <2>1, <4>2
      <4> QED BY <4>1, <4>2
    <3> QED BY <3>1, <3>2
  <2>3. ASSUME NEW s \in Subs, row'[s].exists
        PROVE  \E h \in handled' : h.sub = s /\ h.created = row'[s].stamp
    <3>1. CASE row'[s].stamp = row[s].stamp /\ row[s].exists
      BY <2>1, <3>1 DEF Written
    <3>2. CASE s = x.sub /\ row'[s].stamp = x.created
      BY <2>1, <3>2
    <3> QED BY <2>1, <2>3, <3>1, <3>2 DEF Writes, Drops, Closes
  <2>4. ASSUME NEW h \in handled', Upserts(h), owner' # "gone" PROVE row'[h.sub].exists
    BY <1>0, <2>1, <2>2, <2>4 DEF Written
  <2>5. \A e \in skipped' : Upserts(e)
    BY <2>1 DEF Written, Writes, Drops, Closes
  <2>6. owner' = "gone" => \A s \in Subs : ~row'[s].exists
    BY <2>1, <2>2 DEF Written
  <2> HIDE DEF x
  <2> QED BY <2>3, <2>4, <2>5, <2>6 DEF Written, Upserts
<1> QED BY <1>1, <1>2, <1>3, <1>4, <1>5 DEF Classified, RowsMove

LEMMA HandledGrows ==
  ASSUME Inv, Classified
  PROVE  handled \subseteq handled'
BY DEF Classified, RowsMove, RowsKept, Answered, Ignored

(* Events sent before an event that is known are known. *)
LEMMA OldEvent ==
  ASSUME Inv, Clocked, Telling, NEW x \in sent, NEW d \in sent', d.id < x.id
  PROVE  d \in sent
<1>1. CASE Still
  BY <1>1 DEF Still
<1>2. ASSUME NEW n \in Event, Emits(n), d \notin sent PROVE FALSE
  <2>1. d = n /\ x.id < n.id /\ x.id \in Nat /\ n.id \in Nat
    BY <1>2, NewEvent, EventType DEF Event
  <2> QED BY <2>1
<1> QED BY <1>1, <1>2 DEF Telling

(* Two events that are taken up at different times. *)
LEMMA EventOrder ==
  ASSUME Inv, Clocked, NEW d \in sent, NEW e \in sent, d # e
  PROVE  d.id < e.id \/ e.id < d.id
BY EventType DEF Clocked

(* In order, one delivery ends before the next begins. *)
LEMMA InOrderAlone ==
  ASSUME Inv, Clocked, Ordered, ~disorder, NEW q \in Requests, NEW r \in Requests,
         req[q].pc \in WebhookPcs, req[r].pc \in WebhookPcs
  PROVE  q = r
<1> SUFFICES ASSUME q # r PROVE FALSE
  OBVIOUS
<1>1. /\ req[q].ev \in sent /\ req[r].ev \in sent
      /\ req[q].ev \notin handled /\ req[r].ev \notin handled /\ Webhook(q) /\ Webhook(r)
  BY DeliveryFacts DEF Webhook
<1>2. req[q].ev # req[r].ev
  BY <1>1 DEF Inv, HandledOnce, Webhook
<1>3. req[q].ev.id < req[r].ev.id \/ req[r].ev.id < req[q].ev.id
  BY <1>1, <1>2, EventOrder
<1> QED BY <1>1, <1>3 DEF Ordered

(* The premises of a step taken in order. *)
InOrderStep ==
  /\ Inv /\ Inv' /\ Clocked /\ Told /\ Delivering /\ Written /\ Ordered /\ Classified
  /\ ~disorder
  /\ \A e \in ledger' \ ledger : \A d \in sent : d.id < e.id => d \in handled

LEMMA OrderedHandled ==
  ASSUME InOrderStep, NEW h \in handled', NEW d \in sent', d.id < h.id
  PROVE  d \in handled'
<1>0. Inv /\ Clocked /\ Telling /\ Delivering /\ Classified /\ handled \subseteq handled'
      /\ handled \subseteq sent
  BY HandledGrows DEF InOrderStep, Classified, Inv, TypeOK
<1>1. CASE h \in handled
  <2>1. d \in sent
    BY <1>0, <1>1, OldEvent
  <2> QED BY <1>0, <1>1, <2>1 DEF InOrderStep, Ordered
<1>2. ASSUME NEW r \in Requests, Answered(r), h = req[r].ev PROVE d \in handled'
  <2>1. h \in sent /\ req[r].pc \in WebhookPcs
    BY <1>0, <1>2, AnsweredFacts
  <2>2. d \in sent /\ Webhook(r)
    BY <1>0, <2>1, OldEvent, DeliveryFacts DEF Webhook
  <2> QED BY <1>0, <1>2, <2>2 DEF InOrderStep, Ordered
<1>3. ASSUME NEW e \in sent, Ignored(e), h = e PROVE d \in handled'
  <2>1. d \in sent /\ e \in ledger' \ ledger
    BY <1>0, <1>3, OldEvent DEF Ignored
  <2> QED BY <1>0, <1>3, <2>1 DEF InOrderStep
<1> QED BY <1>0, <1>1, <1>2, <1>3 DEF Classified, RowsMove, RowsKept, Answered, Ignored

LEMMA OrderedFlight ==
  ASSUME InOrderStep, NEW q \in Requests, Webhook(q)', NEW x, x = req'[q].ev,
         NEW d \in sent', d.id < x.id
  PROVE  d \in handled'
<1>0. /\ Inv /\ Inv' /\ Clocked /\ Telling /\ Classified /\ handled \subseteq handled'
      /\ RequestMove(q)
  BY HandledGrows DEF InOrderStep, Classified
<1>1. req'[q].pc \in WebhookPcs
  BY <1>0 DEF Webhook, Inv, RequestsOK, RequestOK
<1>2. CASE req[q].pc \in WebhookPcs /\ x = req[q].ev
  <2>1. x \in sent /\ Webhook(q)
    BY <1>0, <1>2, DeliveryFacts DEF Webhook
  <2>2. d \in sent
    BY <1>0, <2>1, OldEvent
  <2> QED BY <1>0, <1>2, <2>1, <2>2 DEF InOrderStep, Ordered
<1>3. CASE x \in sent /\ x \in ledger' \ ledger
  <2>1. d \in sent
    BY <1>0, <1>3, OldEvent
  <2> QED BY <1>0, <1>3, <2>1 DEF InOrderStep
<1> QED BY <1>0, <1>1, <1>2, <1>3, InFlight

LEMMA OrderedCreate ==
  ASSUME InOrderStep, NEW q \in Requests, req'[q].pc = "create", NEW x, x = req'[q].ev
  PROVE  ~row'[x.sub].exists
<1>0. Inv /\ Inv' /\ Clocked /\ Delivering /\ Classified /\ RequestMove(q) /\ RowsMove
      /\ Ordered /\ ~disorder /\ Written
  BY DEF InOrderStep, Classified
<1>1. req'[q].op = "webhook"
  BY <1>0 DEF WebhookPcs, Inv, RequestsOK, RequestOK
<1>2. CASE req'[q] = req[q]
  <2>1. req[q].pc \in WebhookPcs /\ x = req[q].ev /\ x.sub \in Subs
    BY <1>0, <1>2, DeliveryFacts DEF WebhookPcs
  <2>2. ~row[x.sub].exists
    BY <1>0, <1>2, <2>1 DEF Ordered
  <2>3. ASSUME NEW r \in Requests, Answered(r) PROVE FALSE
    <3>1. req[r].pc \in WebhookPcs /\ req'[r].op # "webhook"
      BY <2>3 DEF Answered
    <3> QED BY <1>0, <1>1, <2>1, <3>1, InOrderAlone
  <2> QED BY <1>0, <2>1, <2>2, <2>3 DEF RowsMove, RowsKept, Ignored
<1>3. CASE /\ req[q].pc = "update" /\ x = req[q].ev /\ RowsKept
           /\ ~NotNewer(x.sub, x.created)
  <2>1. x \in sent /\ x \notin handled /\ x.sub \in Subs /\ x.created \in Nat
    BY <1>0, <1>3, DeliveryFacts DEF WebhookPcs
  <2> SUFFICES ASSUME row[x.sub].exists PROVE FALSE
    BY <1>3 DEF RowsKept
  <2>2. PICK h \in handled : h.sub = x.sub /\ h.created = row[x.sub].stamp
    BY <1>0, <2>1 DEF Written
  <2>3. h \in sent /\ h.created \in Nat /\ h # x
    BY <1>0, <2>1, EventType DEF Inv, TypeOK
  <2>4. ~(h.created <= x.created)
    BY <1>3, <2>2 DEF NotNewer
  <2>5. x.id < h.id
    BY <1>0, <2>1, <2>3, <2>4, EventOrder DEF Clocked
  <2> QED BY <1>0, <2>1, <2>5 DEF Ordered
<1>4. ASSUME NEW e \in sent, req'[q] = Handling(e), e.kind # "other" PROVE FALSE
  BY <1>0, <1>4, HandlingSteps
<1> QED BY <1>0, <1>1, <1>2, <1>3, <1>4 DEF RequestMove

(* Known subscriptions were known before, or are new with an event to come. *)
LEMMA KnownBefore ==
  ASSUME Inv, Clocked, Classified, NEW s \in Subs, Known(s)'
  PROVE  \/ Known(s) /\ stripe'[s].status = stripe[s].status /\ owner # "gone"
         \/ \E n \in Event : Emits(n) /\ n.sub = s /\ Changes(n) /\ RowsKept
                             /\ n \in sent' /\ n \notin sent
<1>1. owner # "gone" /\ owner' # "gone"
  <2>1. owner' # "gone"
    BY DEF Known
  <2> QED BY <2>1 DEF Classified, RowsMove, RowsKept, Answered, Ignored
<1>2. CASE Still
  <2>1. stripe'[s].status = stripe[s].status
    BY <1>2 DEF Still
  <2> QED BY <1>1, <2>1 DEF Known
<1>3. ASSUME NEW n \in Event, Emits(n), RowsKept,
             ~(n.sub = s /\ Changes(n))
      PROVE  stripe'[s].status = stripe[s].status
  BY <1>3 DEF Emits
<1>4. ASSUME NEW n \in Event, Emits(n), RowsKept
      PROVE  n \in sent' /\ n \notin sent
  BY <1>4, NewEvent
<1>5. stripe'[s].status # "none"
  BY DEF Known
<1> QED BY <1>1, <1>2, <1>3, <1>4, <1>5 DEF Known, Classified, Telling

LEMMA EndedStatus == mapStripeStatus("canceled") = "CANCELED"
BY DEF mapStripeStatus

LEMMA OrderedAgrees ==
  ASSUME InOrderStep, NEW s \in Subs, Known(s)'
  PROVE  Agrees(s)' \/ \E d \in sent' \ handled' : d.sub = s /\ Changes(d)
<1>0. /\ Inv /\ Clocked /\ Told /\ Delivering /\ Written /\ Classified /\ Telling /\ RowsMove
      /\ Ordered /\ ~disorder /\ sent \subseteq sent' /\ handled \subseteq sent
  BY SentGrows DEF InOrderStep, Classified, Inv, TypeOK
<1>1. ASSUME NEW n \in Event, Emits(n), n.sub = s, Changes(n), RowsKept,
             n \in sent', n \notin sent
      PROVE  \E d \in sent' \ handled' : d.sub = s /\ Changes(d)
  BY <1>0, <1>1 DEF RowsKept
<1>2. CASE Known(s) /\ stripe'[s].status = stripe[s].status /\ owner # "gone"
  <2>1. Agrees(s) \/ \E d \in sent \ handled : d.sub = s /\ Changes(d)
    BY <1>0, <1>2 DEF Ordered
  <2>2. ASSUME handled' = handled, row'[s] = row[s]
        PROVE  Agrees(s)' \/ \E d \in sent' \ handled' : d.sub = s /\ Changes(d)
    BY <1>0, <1>2, <2>1, <2>2 DEF Agrees
  <2>3. CASE /\ row'[s].exists /\ row'[s].status = "CANCELED" /\ Ended(s)
    BY <1>2, <2>3, EndedStatus DEF Agrees, Ended
  <2>4. ASSUME NEW e \in sent, Ignored(e)
        PROVE  Agrees(s)' \/ \E d \in sent' \ handled' : d.sub = s /\ Changes(d)
    <3>1. handled' = handled \cup {e} /\ row' = row /\ ~Changes(e)
      BY <2>4 DEF Ignored, Changes
    <3> QED BY <1>0, <1>2, <2>1, <3>1 DEF Agrees
  <2>5. ASSUME NEW r \in Requests, Answered(r)
        PROVE  Agrees(s)' \/ \E d \in sent' \ handled' : d.sub = s /\ Changes(d)
    <3> DEFINE x == req[r].ev
    <3>1. /\ x \in sent /\ x.sub \in Subs /\ x \notin handled /\ handled' = handled \cup {x}
          /\ req[r].pc \in WebhookPcs
          /\ \A d \in Subs \ {x.sub} : row'[d] = row[d]
          /\ Writes(r) \/ Drops(r) \/ Closes(r)
      BY <1>0, <2>5, AnsweredFacts
    <3>2. Webhook(r) /\ RequestOK(req[r])
      BY <1>0, <3>1, DeliveryFacts DEF Webhook, Inv, RequestsOK
    <3>3. CASE s # x.sub
      <4>1. row'[s] = row[s] /\ \A d \in sent : d.sub = s => d # x
        BY <3>1, <3>3
      <4> QED BY <1>0, <1>2, <2>1, <3>1, <4>1 DEF Agrees
    <3>4. CASE s = x.sub /\ Writes(r)
      <4>1. req[r].status = stripe[s].status \/ Later(x)
        BY <1>0, <3>4 DEF Writes, Delivering
      <4>2. CASE req[r].status = stripe[s].status
        BY <1>2, <3>4, <4>2 DEF Writes, Agrees
      <4>3. CASE Later(x)
        <5>1. PICK d \in sent : d.sub = s /\ d.id > x.id /\ Changes(d)
          BY <3>4, <4>3 DEF Later
        <5>2. x.id < d.id /\ d # x
          BY <1>0, <3>1, <5>1, EventType
        <5>3. d \notin handled
          BY <1>0, <3>1, <5>2 DEF Ordered
        <5> HIDE DEF x
        <5> QED BY <1>0, <3>1, <5>1, <5>2, <5>3
      <4> QED BY <4>1, <4>2, <4>3
    <3>5. CASE s = x.sub /\ Drops(r)
      BY <1>0, <3>5 DEF Drops, Ordered
    <3>6. CASE s = x.sub /\ Closes(r)
      <4>1. Ended(s) /\ x.kind = "deleted"
        BY <3>2, <3>6 DEF RequestOK, Closes
      <4>2. PICK u \in sent : u.sub = x.sub /\ u.id < x.id /\ u.kind = "updated"
        BY <1>0, <3>1, <4>1 DEF Told
      <4>3. u \in handled
        BY <1>0, <3>2, <4>2 DEF Ordered
      <4>4. row[s].exists
        BY <1>0, <1>2, <3>6, <4>2, <4>3 DEF Written, Upserts
      <4>5. row'[s].exists /\ row'[s].status = "CANCELED"
        BY <3>6, <4>4 DEF Closes
      <4> QED BY <2>3, <4>1, <4>5
    <3> QED BY <3>1, <3>3, <3>4, <3>5, <3>6
  <2>6. owner' # "gone"
    BY DEF Known
  <2> QED BY <1>0, <2>2, <2>3, <2>4, <2>5, <2>6 DEF RowsMove, RowsKept
<1> QED BY <1>0, <1>1, <1>2, KnownBefore

LEMMA OrderedNext ==
  ASSUME Inv, Inv', Clocked, Told, Delivering, Written, Ordered, Classified,
         disorder' = (disorder \/ \E e \in ledger' \ ledger :
                                    \E d \in sent : d.id < e.id /\ d \notin handled)
  PROVE  Ordered'
<1> SUFFICES ASSUME ~disorder'
             PROVE  /\ \A h \in handled', d \in sent' : d.id < h.id => d \in handled'
                    /\ \A r \in Requests : Webhook(r)' =>
                         \A d \in sent' : d.id < req'[r].ev.id => d \in handled'
                    /\ \A r \in Requests : req'[r].pc = "create" => ~row'[req'[r].ev.sub].exists
                    /\ \A s \in Subs : Known(s)' =>
                         Agrees(s)' \/ \E d \in sent' \ handled' : d.sub = s /\ Changes(d)
  BY DEF Ordered, Changes
<1>1. InOrderStep
  BY DEF InOrderStep
<1> QED BY <1>1, OrderedHandled, OrderedFlight, OrderedCreate, OrderedAgrees

LEMMA StampGrows ==
  ASSUME Inv, Delivering, Classified, NEW s \in Subs, row[s].exists, row'[s].exists
  PROVE  row[s].stamp <= row'[s].stamp
<1>0. row \in [Subs -> Row] /\ row[s].stamp \in Nat
  BY DEF Inv, TypeOK, Row
<1>1. ASSUME row'[s].stamp = row[s].stamp PROVE row[s].stamp <= row'[s].stamp
  BY <1>0, <1>1
<1>2. ASSUME NEW r \in Requests, Answered(r) PROVE row[s].stamp <= row'[s].stamp
  <2> DEFINE x == req[r].ev
  <2>1. (\A d \in Subs \ {x.sub} : row'[d] = row[d]) /\ (Writes(r) \/ Drops(r) \/ Closes(r))
    BY <1>2, AnsweredFacts
  <2>2. CASE s # x.sub
    BY <1>1, <2>1, <2>2
  <2>3. CASE s = x.sub
    BY <1>1, <2>1, <2>3 DEF Writes, Drops, Closes
  <2> QED BY <2>2, <2>3
<1> QED BY <1>1, <1>2 DEF Classified, RowsMove, RowsKept, Ignored

(* The premises of a step with one delivery at a time. *)
AloneStep ==
  /\ Inv /\ Inv' /\ Clocked /\ Told /\ Delivering /\ Written /\ Written' /\ Alone /\ Classified
  /\ ~overlap
  /\ \A q, r \in Requests : q # r => ~(Webhook(q)' /\ Webhook(r)')

LEMMA AloneCreate ==
  ASSUME AloneStep, NEW q \in Requests, req'[q].pc = "create", NEW x, x = req'[q].ev,
         row'[x.sub].exists
  PROVE  row'[x.sub].stamp >= x.created
<1>0. Inv /\ Inv' /\ Delivering /\ RequestMove(q) /\ RowsMove /\ Alone /\ ~overlap
  BY DEF AloneStep, Classified
<1>1. req'[q].op = "webhook"
  BY <1>0 DEF WebhookPcs, Inv, RequestsOK, RequestOK
<1>2. CASE req'[q] = req[q]
  <2>1. req[q].pc = "create" /\ x = req[q].ev /\ x.sub \in Subs /\ Webhook(q)
    BY <1>0, <1>2, DeliveryFacts DEF WebhookPcs, Webhook
  <2>2. row[x.sub].exists => row[x.sub].stamp >= x.created
    BY <1>0, <2>1 DEF Alone
  <2>3. ASSUME NEW r \in Requests, Answered(r) PROVE FALSE
    <3>1. req[r].pc \in WebhookPcs /\ req'[r].op # "webhook"
      BY <2>3 DEF Answered
    <3>2. Webhook(r) /\ r # q
      BY <1>0, <1>1, <3>1, DeliveryFacts DEF Webhook
    <3> QED BY <1>0, <2>1, <3>2 DEF Alone
  <2> QED BY <1>0, <2>1, <2>2, <2>3 DEF RowsMove, RowsKept, Ignored
<1>3. CASE /\ req[q].pc = "update" /\ x = req[q].ev /\ RowsKept
           /\ ~NotNewer(x.sub, x.created)
  <2>1. x.sub \in Subs /\ x.created \in Nat
    BY <1>0, <1>3, DeliveryFacts DEF WebhookPcs
  <2>2. row' = row /\ row[x.sub].stamp \in Nat
    BY <1>0, <1>3, <2>1 DEF RowsKept, Inv, TypeOK, Row
  <2> QED BY <1>3, <2>1, <2>2 DEF NotNewer
<1>4. ASSUME NEW e \in sent, req'[q] = Handling(e), e.kind # "other" PROVE FALSE
  BY <1>0, <1>4, HandlingSteps
<1> QED BY <1>0, <1>1, <1>2, <1>3, <1>4 DEF RequestMove

LEMMA AloneHandled ==
  ASSUME AloneStep, NEW h \in handled', Upserts(h), row'[h.sub].exists
  PROVE  row'[h.sub].stamp >= h.created
<1>0. /\ Inv /\ Inv' /\ Delivering /\ Classified /\ RowsMove /\ Alone /\ ~overlap
      /\ Written /\ Written' /\ handled \subseteq sent
  BY DEF AloneStep, Classified, Inv, TypeOK
<1>1. CASE h \in handled
  <2>1. h.sub \in Subs /\ h.created \in Nat
    BY <1>0, <1>1, EventType
  <2>2. owner # "gone"
    <3>1. owner' # "gone"
      BY <1>0, <2>1 DEF Written
    <3> QED BY <1>0, <3>1 DEF RowsMove, RowsKept, Answered, Ignored
  <2>3. row[h.sub].exists
    BY <1>0, <1>1, <2>2 DEF Written
  <2>4. row[h.sub].stamp >= h.created /\ row[h.sub].stamp <= row'[h.sub].stamp
    BY <1>0, <1>1, <2>1, <2>3, StampGrows DEF Alone
  <2>5. PICK a, b \in Nat : a = row[h.sub].stamp /\ b = row'[h.sub].stamp
    BY <1>0, <2>1 DEF Inv, TypeOK, Row
  <2> QED BY <2>1, <2>4, <2>5
<1>2. ASSUME NEW r \in Requests, Answered(r), h = req[r].ev
      PROVE  row'[h.sub].stamp >= h.created
  <2>1. Writes(r) \/ Drops(r) \/ Closes(r)
    BY <1>0, <1>2, AnsweredFacts
  <2>2. h.created \in Nat
    BY <1>0, <1>2, AnsweredFacts
  <2>3. ~Closes(r)
    BY <1>2, UpsertsOnly DEF Closes
  <2>4. CASE Writes(r)
    BY <1>2, <2>2, <2>4 DEF Writes
  <2>5. CASE Drops(r)
    <3>1. req[r].pc = "create" /\ row[h.sub].exists /\ row'[h.sub] = row[h.sub]
      BY <1>2, <2>5 DEF Drops
    <3> QED BY <1>0, <1>2, <3>1 DEF Alone
  <2> QED BY <2>1, <2>3, <2>4, <2>5
<1>3. ASSUME NEW e \in sent, Ignored(e), h = e PROVE FALSE
  BY <1>3, UpsertsOnly DEF Ignored
<1> QED BY <1>0, <1>1, <1>2, <1>3 DEF RowsMove, RowsKept, Answered, Ignored

LEMMA AloneAgrees ==
  ASSUME AloneStep, Plain', NEW s \in Subs, Known(s)'
  PROVE  Agrees(s)' \/ Coming(s)'
<1>0. /\ Inv /\ Clocked /\ Told /\ Delivering /\ Written /\ Classified /\ Telling /\ RowsMove
      /\ Alone /\ ~overlap /\ sent \subseteq sent' /\ handled \subseteq sent
      /\ row \in [Subs -> Row]
  BY SentGrows DEF AloneStep, Classified, Inv, TypeOK
<1>p. /\ \A e \in sent' : e.kind # "deleted"
      /\ \A d, e \in sent' : d.created = e.created => d = e
  BY DEF Plain
<1>1. ASSUME NEW n \in Event, Emits(n), n.sub = s, Changes(n), RowsKept,
             n \in sent', n \notin sent
      PROVE  Coming(s)'
  <2>1. n.kind = "updated" /\ n \notin handled' /\ row' = row
    BY <1>0, <1>1, <1>p DEF Changes, RowsKept
  <2>2. ASSUME row[s].exists PROVE n.created > row[s].stamp
    <3>1. PICK h \in handled : h.sub = s /\ h.created = row[s].stamp
      BY <1>0, <2>2 DEF Written
    <3>2. h.created <= n.created /\ h # n /\ h.created \in Nat /\ n.created \in Nat
      BY <1>0, <1>1, NewEvent, EventType DEF Event
    <3>3. h.created # n.created
      BY <1>0, <1>1, <1>p, <3>2
    <3> QED BY <3>1, <3>2, <3>3
  <2> QED BY <1>1, <2>1, <2>2 DEF Coming
<1>2. CASE Known(s) /\ stripe'[s].status = stripe[s].status /\ owner # "gone"
  <2>1. Agrees(s) \/ Coming(s)
    <3>1. Plain
      BY <1>0, <1>p DEF Plain
    <3> QED BY <1>0, <1>2, <3>1 DEF Alone, Coming
  <2>2. ASSUME handled' = handled, row'[s] = row[s]
        PROVE  Agrees(s)' \/ Coming(s)'
    BY <1>0, <1>2, <2>1, <2>2 DEF Agrees, Coming
  <2>3. ~Ended(s)
    BY <1>0, <1>p DEF Told
  <2>4. ASSUME NEW e \in sent, Ignored(e) PROVE Agrees(s)' \/ Coming(s)'
    <3>1. handled' = handled \cup {e} /\ row' = row /\ e.kind = "other"
      BY <2>4 DEF Ignored
    <3> QED BY <1>0, <1>2, <2>1, <3>1 DEF Agrees, Coming
  <2>5. ASSUME NEW r \in Requests, Answered(r) PROVE Agrees(s)' \/ Coming(s)'
    <3> DEFINE x == req[r].ev
    <3>1. /\ x \in sent /\ x.sub \in Subs /\ x \notin handled /\ handled' = handled \cup {x}
          /\ x.id \in Nat /\ x.created \in Nat
          /\ \A d \in Subs \ {x.sub} : row'[d] = row[d]
          /\ Writes(r) \/ Drops(r) \/ Closes(r)
      BY <1>0, <2>5, AnsweredFacts
    <3>2. CASE s # x.sub
      <4>1. row'[s] = row[s] /\ \A d \in sent : d.sub = s => d # x
        BY <3>1, <3>2
      <4> QED BY <1>0, <1>2, <2>1, <3>1, <4>1 DEF Agrees, Coming
    <3>3. CASE s = x.sub /\ Writes(r)
      <4>1. req[r].status = stripe[s].status \/ Later(x)
        BY <1>0, <3>3 DEF Writes, Delivering
      <4>2. CASE req[r].status = stripe[s].status
        BY <1>2, <3>3, <4>2 DEF Writes, Agrees
      <4>3. CASE Later(x)
        <5>1. PICK d \in sent : d.sub = s /\ d.id > x.id /\ Changes(d)
          BY <3>3, <4>3 DEF Later
        <5>2. d.kind = "updated" /\ Upserts(d)
          BY <1>0, <1>p, <5>1 DEF Changes, Upserts
        <5>3. x.id < d.id /\ d # x /\ d.created \in Nat
          BY <1>0, <3>1, <5>1, EventType
        <5>4. x.created < d.created
          <6>1. x.created <= d.created
            BY <1>0, <3>1, <5>3 DEF Clocked
          <6>2. x.created # d.created
            BY <1>0, <1>p, <3>1, <5>3
          <6> QED BY <3>1, <5>3, <6>1, <6>2
        <5>5. d \notin handled
          <6> SUFFICES ASSUME d \in handled PROVE FALSE
            OBVIOUS
          <6>1. row[s].exists
            BY <1>0, <1>2, <5>1, <5>2 DEF Written
          <6>2. row[s].stamp >= d.created
            BY <1>0, <5>1, <5>2, <6>1 DEF Alone
          <6>3. row[s].stamp <= x.created
            BY <3>3, <6>1 DEF Writes
          <6>4. row[s].stamp \in Nat
            BY <1>0 DEF Row
          <6> QED BY <3>1, <5>3, <5>4, <6>2, <6>3, <6>4
        <5>6. row'[s].stamp = x.created
          BY <3>3 DEF Writes
        <5> HIDE DEF x
        <5> QED BY <1>0, <3>1, <5>1, <5>2, <5>3, <5>4, <5>5, <5>6 DEF Coming
      <4> QED BY <4>1, <4>2, <4>3
    <3>4. CASE s = x.sub /\ Drops(r)
      <4>1. req[r].pc = "create" /\ row[s].exists /\ row'[s] = row[s]
        BY <3>4 DEF Drops
      <4>2. row[s].stamp >= x.created /\ row[s].stamp \in Nat
        BY <1>0, <3>4, <4>1 DEF Alone, Row
      <4>3. \A d \in sent : d.created > row[s].stamp => d # x
        BY <3>1, <4>2
      <4> QED BY <1>0, <1>2, <2>1, <3>1, <4>1, <4>3 DEF Agrees, Coming
    <3>5. CASE s = x.sub /\ Closes(r)
      BY <1>0, <1>p, <3>1, <3>5 DEF Closes
    <3> QED BY <3>1, <3>2, <3>3, <3>4, <3>5
  <2>6. owner' # "gone"
    BY DEF Known
  <2> QED BY <1>0, <2>2, <2>3, <2>4, <2>5, <2>6 DEF RowsMove, RowsKept
<1> QED BY <1>0, <1>1, <1>2, KnownBefore

LEMMA AloneNext ==
  ASSUME Inv, Inv', Clocked, Told, Delivering, Written, Written', Alone, Classified,
         overlap' = (overlap \/ \E q, r \in Requests : q # r /\ Webhook(q)' /\ Webhook(r)')
  PROVE  Alone'
<1> SUFFICES ASSUME ~overlap'
             PROVE  /\ \A q, r \in Requests : q # r => ~(Webhook(q)' /\ Webhook(r)')
                    /\ \A r \in Requests :
                         req'[r].pc = "create" /\ row'[req'[r].ev.sub].exists =>
                           row'[req'[r].ev.sub].stamp >= req'[r].ev.created
                    /\ \A h \in handled' : Upserts(h) /\ row'[h.sub].exists =>
                         row'[h.sub].stamp >= h.created
                    /\ Plain' => \A s \in Subs : Known(s)' => Agrees(s)' \/ Coming(s)'
  BY DEF Alone, Upserts, Coming
<1>1. AloneStep
  BY DEF AloneStep
<1>2. \A q, r \in Requests : q # r => ~(Webhook(q)' /\ Webhook(r)')
  BY DEF AloneStep
<1> QED BY <1>1, <1>2, AloneCreate, AloneHandled, AloneAgrees

-----------------------------------------------------------------------------
(* Theorems about behaviours with their histories                           *)

LEMMA HistoryInitOK == HistoryInit => Inv /\ History
<1> SUFFICES ASSUME HistoryInit PROVE Inv /\ History
  OBVIOUS
<1>1. Inv /\ Init
  BY InitInv DEF HistoryInit
<1>2. /\ sent = {} /\ handled = {} /\ skipped = {}
      /\ \A s \in Subs : ~row[s].exists /\ stripe[s].status = "none"
      /\ \A r \in Requests : req[r] = Idle
      /\ owner # "gone"
  BY <1>1 DEF Init, NoRow
<1>3. \A r \in Requests : req[r].pc = "idle" /\ req[r].op = "none"
  BY <1>2 DEF Idle
<1>4. Clocked /\ Told /\ Delivering /\ Written
  BY <1>2, <1>3 DEF Clocked, Told, Delivering, Written, Ended
<1>5. Ordered /\ Alone
  BY <1>2, <1>3 DEF Ordered, Alone, Known, Webhook
<1> QED BY <1>1, <1>4, <1>5 DEF History

LEMMA HistoryStep ==
  ASSUME Inv, History, [HistoryNext]_<<vars, overlap, disorder>>
  PROVE  Inv' /\ History'
<1>1. [Next]_vars
  BY DEF HistoryNext
<1>2. Inv' /\ Classified
  BY <1>1, NextInv, ClassifyStep
<1>3. Clocked' /\ Told' /\ Delivering' /\ Written'
  BY <1>2, ClockedNext, ToldNext, DeliveringNext, WrittenNext DEF History, Classified
<1>4. CASE HistoryNext
  <2>1. Ordered'
    BY <1>2, <1>4, OrderedNext DEF History, HistoryNext
  <2>2. Alone'
    BY <1>2, <1>3, <1>4, AloneNext DEF History, HistoryNext
  <2> QED BY <1>2, <1>3, <2>1, <2>2 DEF History
<1>5. CASE UNCHANGED <<vars, overlap, disorder>>
  <2>1. /\ UNCHANGED <<stripe, clock, sent, acked, lapsed, ledger, row, owner, req,
                       handled, skipped, overlap, disorder>>
    BY <1>5 DEF vars, external
  <2>2. Ordered'
    BY <2>1 DEF History, Ordered, Webhook, Known, Agrees
  <2>3. Alone'
    BY <2>1 DEF History, Alone, Webhook, Known, Agrees, Coming, Plain
  <2> QED BY <1>2, <1>3, <2>2, <2>3 DEF History
<1> QED BY <1>4, <1>5

(* The histories of every behaviour agree with what happened in it. *)
THEOREM HistoryInvariant == HistorySpec => [](Inv /\ History)
BY HistoryInitOK, HistoryStep, PTL DEF HistorySpec

(* What holds of every history holds in the instances that are checked. *)
THEOREM FamiliesAreHistories == (MCSpec \/ FamiliesSpec) => HistorySpec
<1>1. (MCInit \/ FamiliesInit) => HistoryInit
  BY DEF MCInit, FamiliesInit
<1>2. [MCNext]_<<vars, overlap, disorder, family>> => [HistoryNext]_<<vars, overlap, disorder>>
  BY DEF MCNext
<1> QED BY <1>1, <1>2, PTL DEF MCSpec, FamiliesSpec, HistorySpec

(* An event that upsertSubscription drops because its create found the row *)
(* already there is no newer than what the row holds, as long as no two    *)
(* deliveries were handled at the same time.                               *)
THEOREM SkippedIsOlderTheorem == HistorySpec => []SkippedIsOlder
<1>1. Inv /\ History => SkippedIsOlder
  <2> SUFFICES ASSUME Inv, History, ~overlap, NEW e \in skipped, row[e.sub].exists
               PROVE  row[e.sub].stamp >= e.created
    BY DEF SkippedIsOlder
  <2>1. e \in handled
    BY DEF Inv, TypeOK
  <2>2. Upserts(e)
    BY DEF History, Written
  <2> QED BY <2>1, <2>2 DEF History, Alone
<1> QED BY <1>1, HistoryInvariant, PTL

(* Once every event was processed the rows agree with Stripe: after        *)
(* in-order delivery always; after any order, when no deliveries           *)
(* overlapped, nothing was canceled and no two events share a second.      *)
THEOREM ConvergedTheorem == HistorySpec => []Converged
<1>1. Inv /\ History => Converged
  <2> SUFFICES ASSUME Inv, History, Settled, owner # "gone",
                      ~disorder \/ (~overlap /\ Plain),
                      NEW s \in Subs, stripe[s].status # "none"
               PROVE  Agrees(s)
    BY DEF Converged, Plain, Agrees
  <2>1. sent \subseteq handled /\ Known(s)
    BY DEF Settled, Known
  <2>2. CASE ~disorder
    BY <2>1, <2>2 DEF History, Ordered
  <2>3. CASE ~overlap /\ Plain
    BY <2>1, <2>3 DEF History, Alone, Coming
  <2> QED BY <2>2, <2>3
<1> QED BY <1>1, HistoryInvariant, PTL
=============================================================================
