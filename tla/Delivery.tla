------------------------------ MODULE Delivery ------------------------------
(***************************************************************************)
(* What the queues promise to the code that hands them a job, whatever     *)
(* workers, crashes and retries do in between: a job that was accepted is  *)
(* pending until it is settled, once and for good, as done (its work was   *)
(* carried out), as dead (it is kept in failed_jobs) or as lost.           *)
(***************************************************************************)
CONSTANT Jobs

VARIABLES
  status,   \* what has become of each job
  effect    \* jobs whose work was carried out at least once

vars == <<status, effect>>

Settled == {"done", "dead", "lost"}

Init ==
  /\ status = [j \in Jobs |-> "none"]
  /\ effect = {}

Accept(j) ==
  /\ status[j] = "none"
  /\ status' = [status EXCEPT ![j] = "pending"]
  /\ UNCHANGED effect

CarryOut(j) ==
  /\ status[j] = "pending"
  /\ effect' = effect \cup {j}
  /\ UNCHANGED status

Settle(j) ==
  /\ status[j] = "pending"
  /\ \E s \in Settled : /\ s = "done" => j \in effect
                        /\ status' = [status EXCEPT ![j] = s]
  /\ UNCHANGED effect

(* A process that stops takes several jobs with it. *)
LoseSome ==
  /\ \E S \in SUBSET {j \in Jobs : status[j] = "pending"} :
       status' = [j \in Jobs |-> IF j \in S THEN "lost" ELSE status[j]]
  /\ UNCHANGED effect

Next == LoseSome \/ \E j \in Jobs : Accept(j) \/ CarryOut(j) \/ Settle(j)

(* Every accepted job is settled in the end. *)
EventuallySettled == \A j \in Jobs : status[j] = "pending" ~> status[j] \in Settled

Safe == Init /\ [][Next]_vars
Spec == Safe /\ EventuallySettled
=============================================================================
