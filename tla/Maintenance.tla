---------------------------- MODULE Maintenance -----------------------------
(***************************************************************************)
(* The worker of the maintenance queue over the tables it sweeps: a job of *)
(* module Jobs whose name is cleanupNotifications removes rows of module   *)
(* Notifications, while requests of the API work on the same rows.         *)
(***************************************************************************)
EXTENDS Jobs, Notifications

MInit == Init /\ NInit

(* The other sweeps of the switch leave the notifications alone. *)
Sweep(j) == processMaintenanceJob(j) /\ (cleanupNotifications \/ UNCHANGED nvars)

MNext ==
  \/ NNext /\ UNCHANGED vars
  \/ QueueNext /\ UNCHANGED nvars
  \/ \E j \in MaintenanceJobs : Sweep(j)

MSpec == MInit /\ [][MNext]_<<vars, nvars>> /\ Fairness
=============================================================================
