----------------------------- MODULE MCBilling ------------------------------
(* Instances of Billing for TLC, with histories of how events arrived.     *)
EXTENDS Billing, TLC

VARIABLES
  overlap,   \* two deliveries were handled at the same time
  disorder,  \* an event was taken up before an earlier one was processed
  family     \* what happens in this behaviour

Symmetry == Permutations(Requests)

Webhook(r) == req[r].op = "webhook"

First == CHOOSE s \in Subs : TRUE

(* One subscription, and whatever events Stripe sends about it, delivered  *)
(* in any order.                                                           *)
EventsStep ==
  /\ owner' = "live"
  /\ \A s \in Subs \ {First} : stripe'[s] = stripe[s]
  /\ \A r \in Requests : req'[r].op \in {"webhook", "none"}

(* Several subscriptions that only this API ends, and their events in the  *)
(* order and at the times they were sent.                                  *)
CloseStep ==
  /\ lapsed' = {}
  /\ \A s \in Subs : /\ stripe'[s].status \in {"none", "active", "canceled"}
                     /\ s # First /\ stripe'[s].session # "none" => stripe[First].session # "none"
  /\ sent' # sent =>
       /\ clock'.time > clock.time
       /\ \A e \in sent' \ sent : e.kind # "other" /\ (e.kind = "deleted" => req' # req)
  /\ \A e \in (ledger' \cup acked') \ (ledger \cap acked) :
       \A d \in sent : d.id < e.id => d \in acked

(* Billing with its histories, whatever happens in it. *)
HistoryInit == Init /\ overlap = FALSE /\ disorder = FALSE
HistoryNext ==
  /\ Next
  /\ overlap' = (overlap \/ \E q, r \in Requests : q # r /\ Webhook(q)' /\ Webhook(r)')
  /\ disorder' = (disorder \/ \E e \in ledger' \ ledger : \E d \in sent : d.id < e.id /\ d \notin handled)
HistorySpec == HistoryInit /\ [][HistoryNext]_<<vars, overlap, disorder>>

MCInit == HistoryInit /\ family = "all"
FamiliesInit == HistoryInit /\ family \in {"events", "close"}
MCNext ==
  /\ HistoryNext
  /\ UNCHANGED family
  /\ family = "events" => EventsStep
  /\ family = "close" => CloseStep
MCSpec == MCInit /\ [][MCNext]_<<vars, overlap, disorder, family>>
FamiliesSpec == FamiliesInit /\ [][MCNext]_<<vars, overlap, disorder, family>>
MCFairSpec == MCSpec /\ Fairness

(* When every event was processed and nothing runs, the row agrees with    *)
(* Stripe: after in-order delivery, and after any order in which no two    *)
(* deliveries overlapped if nothing was canceled and no two events share a *)
(* second.                                                                 *)
Settled == sent \subseteq handled /\ \A r \in Requests : req[r] = Idle
Converged ==
  /\ Settled /\ owner # "gone"
  /\ ~disorder \/ /\ ~overlap
                  /\ \A e \in sent : e.kind # "deleted"
                  /\ \A d, e \in sent : d.created = e.created => d = e
  => \A s \in Subs : stripe[s].status # "none" =>
       row[s].exists /\ row[s].status = mapStripeStatus(stripe[s].status)

(* An event dropped because the row exists is older than what the row      *)
(* holds, as long as no two deliveries overlapped.                         *)
SkippedIsOlder ==
  ~overlap => \A e \in skipped : row[e.sub].exists => row[e.sub].stamp >= e.created
=============================================================================
