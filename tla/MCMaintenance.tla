--------------------------- MODULE MCMaintenance ----------------------------
(* Instances of Maintenance for TLC.  The worker's exits, the API's exits  *)
(* and the requests on notifications share no state but the jobs, so each  *)
(* behaviour exercises one of them: in a family the steps of the other two *)
(* that no fairness asks for are left out.                                 *)
EXTENDS Maintenance

VARIABLE family

MCConcurrency == [q \in QUEUE_NAMES |-> 1]

MCInit == MInit /\ family \in {"worker", "api", "requests"}

MCNext ==
  /\ MNext
  /\ UNCHANGED family
  /\ family # "worker" => exits' = 0 /\ proc'.stage \in {"down", "running"}
  /\ family # "api" => api'.stage = "up"
  /\ family # "requests" => UNCHANGED nvars
  /\ family = "requests" => api' = api /\ \A j \in Jobs : job'[j].made = 0

MCSpec == MCInit /\ [][MCNext]_<<vars, nvars, family>> /\ Fairness
=============================================================================
